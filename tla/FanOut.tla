------------------------------- MODULE FanOut -------------------------------
(***************************************************************************)
(* What a command that addresses several nodes promises: a set of nodes is *)
(* chosen once, then the command runs on one node after the other, on none *)
(* of them twice and on no other node, until all have had their turn or    *)
(* the program gives up.                                                   *)
(***************************************************************************)
CONSTANT Node

VARIABLES
    phase,  \* "choose", "run", "finished" or "aborted"
    todo,   \* chosen nodes that still wait for their turn
    done    \* nodes that had their turn

fanVars == <<phase, todo, done>>

FanInit == phase = "choose" /\ todo = {} /\ done = {}

Choose ==
    /\ phase = "choose"
    /\ phase' = "run" /\ todo' \in (SUBSET Node) \ {{}} /\ done' = {}

Turn ==
    /\ phase = "run"
    /\ \E n \in todo : todo' = todo \ {n} /\ done' = done \cup {n}
    /\ UNCHANGED phase

Finish ==
    /\ phase = "run" /\ todo = {}
    /\ phase' = "finished"
    /\ UNCHANGED <<todo, done>>

Abort ==
    /\ phase \in {"choose", "run"}
    /\ phase' = "aborted"
    /\ UNCHANGED <<todo, done>>

FanNext == Choose \/ Turn \/ Finish \/ Abort

FanSpec == FanInit /\ [][FanNext]_fanVars
=============================================================================
