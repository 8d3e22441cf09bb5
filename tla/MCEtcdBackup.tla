---------------------------- MODULE MCEtcdBackup ----------------------------
(***************************************************************************)
(* Instances of EtcdBackup for TLC: two runs on two nodes.                 *)
(***************************************************************************)
EXTENDS EtcdBackup

CONSTANTS n1, n2, none

TwoNodes == <<n1, n2>>
NoneOrSecond == {none, n2}
=============================================================================
