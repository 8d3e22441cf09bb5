----------------------------- MODULE RemoteCall -----------------------------
(***************************************************************************)
(* What the rest of kubespector relies on when it calls                    *)
(* CommandExecutor.PerformCmd: the command is run at most once, the caller *)
(* gets one answer, and the answer "ok" means that the command ran and     *)
(* exited with status 0.  An answer "error" promises nothing: the command  *)
(* may not have been started, may have failed, may even have succeeded     *)
(* with its status lost, or may still be running on the node.              *)
(***************************************************************************)

VARIABLES
    phase,      \* where the caller stands
    remote,     \* what happened to the command of the current call
    runs        \* how many times the command of the current call was started

rcVars == <<phase, remote, runs>>

RemoteStates == {"none", "running", "zero", "nonzero"}

RcInit == phase = "idle" /\ remote = "none" /\ runs = 0

Invoke ==
    /\ phase \in {"idle", "ok", "error"}
    /\ phase' = "pending" /\ remote' = "none" /\ runs' = 0

Execute ==
    /\ phase = "pending" /\ runs = 0
    /\ remote' = "running" /\ runs' = 1
    /\ UNCHANGED phase

Exit ==
    /\ remote = "running"
    /\ remote' \in {"zero", "nonzero"}
    /\ UNCHANGED <<phase, runs>>

AnswerOk ==
    /\ phase = "pending" /\ remote = "zero"
    /\ phase' = "ok"
    /\ UNCHANGED <<remote, runs>>

AnswerError ==
    /\ phase = "pending"
    /\ phase' = "error"
    /\ UNCHANGED <<remote, runs>>

\* The whole program dies while the caller waits.
Crash ==
    /\ phase = "pending"
    /\ phase' = "crashed"
    /\ UNCHANGED <<remote, runs>>

RcNext == Invoke \/ Execute \/ Exit \/ AnswerOk \/ AnswerError \/ Crash

RcSpec == RcInit /\ [][RcNext]_rcVars
=============================================================================
