---------------------------- MODULE MCScpCommand ----------------------------
(***************************************************************************)
(* Instances of ScpCommand for TLC: three turns.                          *)
(***************************************************************************)
EXTENDS ScpCommand

CONSTANTS n1, n2, n3

ThreeTurns == <<n1, n2, n3>>

\* Initial states that differ only in what no turn looks at are told once: the i-th
\* turn of an upload goes no deeper on its node than i + 1, and looks at one local
\* path; a download looks at one path of each node.
NothingUnseen ==
    \A d \in Depths, i \in 1 .. Len(Turns) :
        IF direction = "up"
        THEN /\ d > 1 => local[d] = "none"
             /\ d > i + 1 => remote[Turns[i]][d] = "none"
        ELSE d > 1 => remote[Turns[i]][d] = "none"

MCInit == Init /\ NothingUnseen

MCSpec == MCInit /\ [][Next]_vars
MCFairSpec == MCSpec /\ WF_vars(Steps)
=============================================================================
