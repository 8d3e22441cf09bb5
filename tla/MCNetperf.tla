---------------------------- MODULE MCNetperf ----------------------------
(***************************************************************************)
(* Instances of Netperf for TLC: two masters, two runs.                    *)
(***************************************************************************)
EXTENDS Netperf

CONSTANTS m1, m2, none

TwoMasters == <<m1, m2>>
NoneOrSecond == {none, m2}
=============================================================================
