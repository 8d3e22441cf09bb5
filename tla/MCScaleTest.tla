---------------------------- MODULE MCScaleTest ----------------------------
(***************************************************************************)
(* Instances of ScaleTest for TLC.  The percentages of the program need    *)
(* MaxReplicas = 10 for a single pod; SmallScenarios have the same shape   *)
(* with 50 for its 10, so that two replicas are enough.                    *)
(***************************************************************************)
EXTENDS ScaleTest

Scenario(l, w) == [loadbots |-> l, webserver |-> w]

SmallScenarios == <<Scenario(1, 1), Scenario(1, 50), Scenario(50, 50),
                    Scenario(100, 50), Scenario(100, 100)>>

EveryFault == AllFaults
=============================================================================
