---------------------------- MODULE MCAggregator ----------------------------
(***************************************************************************)
(* Instances of Aggregator for TLC: at most two pods of each kind, and a   *)
(* start with one pod of each, after which the loadbots are scaled up.     *)
(***************************************************************************)
EXTENDS Aggregator

Scenario(l, w) == [loadbots |-> l, webserver |-> w]

\* With two replicas at most: one of each, then two loadbots, one webserver.
TwoScenarios == <<Scenario(1, 1), Scenario(100, 50)>>
=============================================================================
