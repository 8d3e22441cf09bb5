------------------------- MODULE SSHExecutorProofs -------------------------
(***************************************************************************)
(* Proofs about PerformCmd for every configured number of handshake        *)
(* attempts, every number of calls and every set of faults.                *)
(***************************************************************************)
EXTENDS SSHExecutor, TLAPS

USE SSHAssumption

-----------------------------------------------------------------------------
(* The inductive invariants                                                 *)

Connecting == {"config", "connect", "select", "expired", "return", "session"}

\* The loop goes on only below the limit.
LoopInv == pc \in Connecting => attempts < MaxAttempts \/ attempts = 0

BeforeStart == {"config", "connect", "select", "expired", "return", "session",
                "session2", "start", "shell"}

\* How the command, the waiter and the exit channel belong together.
CommandInv ==
    /\ pc \in BeforeStart =>
           runs = 0 /\ remote = "none" /\ waiter = "none" /\ exitCh = "nil"
    /\ pc = "startfailed" => runs \in {0, 1} /\ waiter = "none"
    /\ pc \in {"wait", "receive", "finish"} =>
           runs = 1 /\ remote # "none" /\ waiter # "none"
    /\ pc = "shellwait" => runs = 1 /\ remote # "none" /\ waiter = "none"
    /\ pc = "finish" => waiter = "done"
    /\ waiter \in {"woken", "done"} /\ status = "zero" => remote = "zero"
    /\ waiter = "done" <=> exitCh = "closed"
    /\ waiter = "done" => exitStatus = status
    /\ result # "none" => pc = "idle"
    /\ AtMostOnce
    /\ OkMeansExitZero

\* How the connection, the client and the handshake goroutine belong together.
ConnInv ==
    /\ client => conn = "open"
    /\ hs \in {"running", "answered"} => ~client /\ pc \in {"select", "expired", "return"}
    /\ pc \in {"select", "expired"} => ~client /\ hs # "none"
    /\ pc = "select" /\ hs = "running" => conn = "open"
    /\ pc = "select" /\ hs \in {"answered", "done"} => (hsResult = "nil" <=> conn = "open")
    /\ pc = "select" /\ hs = "done" => err = hsResult
    /\ pc = "expired" => conn # "open"
    /\ pc = "return" /\ conn = "open" => client /\ err = "nil" /\ hs = "done"
    /\ pc \in {"session2", "start"} => client
    /\ pc = "config" => conn = "none"
    /\ conn = "open" \/ pc # "idle" => calls > 0
    /\ leaked \subseteq 1 .. (calls - 1)
    /\ FailedConnectLeavesNothingOpen

\* A refusal the loop has not counted yet.
Uncounted == IF hs \in {"answered", "done"} /\ hsResult = "auth" THEN 1 ELSE 0

\* The loop has counted what the node refused, but for the last answer.
AuthInv ==
    /\ LoopInv
    /\ pc \in Connecting /\ ~late => authSeen <= attempts + Uncounted
    /\ pc \in {"config", "connect", "session"} => hs = "none" \/ hs = "done"
    /\ pc \in {"config", "connect", "session"} /\ ~late => authSeen <= attempts
    /\ pc = "expired" => late
    /\ pc = "return" /\ ~late => hs \in {"none", "done"} /\ (hs = "done" => err = hsResult)
    /\ AuthFailuresBounded

-----------------------------------------------------------------------------
(* The variables keep their types: handshakeAttempts stays within the       *)
(* configured number, whatever that is.                                     *)
THEOREM TypeCorrect == Spec => []TypeOK
<1>. USE DEF TypeOK, LoopInv, Connecting, PCs, Limit, MaxAttempts, AuthCap,
             connVars, hsVars, cmdVars, histVars
<1>1. Init => TypeOK /\ LoopInv
  <2>1. Init => ControlTypes
    BY DEF Init, ControlTypes, Errors, Statuses, Results
  <2>2. Init => CounterTypes
    BY DEF Init, CounterTypes
  <2>. QED
    BY <2>1, <2>2 DEF Init
<1>2. TypeOK /\ LoopInv /\ [Next]_vars => (TypeOK /\ LoopInv)'
  <2>. SUFFICES ASSUME TypeOK, LoopInv, [Next]_vars PROVE TypeOK' /\ LoopInv'
    OBVIOUS
  <2>1. CASE PerformRemote
    <3>1. ControlTypes'
      BY <2>1 DEF ControlTypes, PerformRemote, BeginCall, StillOpen, Errors, Statuses, Results
    <3>2. CounterTypes' /\ LoopInv'
      BY <2>1 DEF CounterTypes, ControlTypes, PerformRemote, BeginCall, StillOpen
    <3>. QED
      BY <3>1, <3>2
  <2>2. CASE PerformLocal
    <3>1. ControlTypes'
      BY <2>2 DEF ControlTypes, PerformLocal, BeginCall, StillOpen, Errors, Statuses, Results
    <3>2. CounterTypes' /\ LoopInv'
      BY <2>2 DEF CounterTypes, ControlTypes, PerformLocal, BeginCall, StillOpen
    <3>. QED
      BY <3>1, <3>2
  <2>3. CASE Configure
    BY <2>3 DEF ControlTypes, CounterTypes, Configure, Return, Results
  <2>4. CASE Connect
    <3>1. ControlTypes'
      BY <2>4 DEF ControlTypes, Connect, DialErrors, Errors
    <3>2. CounterTypes' /\ LoopInv'
      BY <2>4 DEF CounterTypes, ControlTypes, Connect, DialErrors
    <3>. QED
      BY <3>1, <3>2
  <2>5. CASE SelectEstablished
    BY <2>5 DEF ControlTypes, CounterTypes, SelectEstablished
  <2>6. CASE SelectExpires
    BY <2>6 DEF ControlTypes, CounterTypes, SelectExpires, AfterExpiry
  <2>7. CASE StoreTimeout
    BY <2>7 DEF ControlTypes, CounterTypes, StoreTimeout, Errors
  <2>8. CASE Established
    BY <2>8 DEF ControlTypes, CounterTypes, Established
  <2>9. CASE Retry
    <3>1. ControlTypes'
      BY <2>9 DEF ControlTypes, Retry
    <3>2. CounterTypes' /\ LoopInv'
      BY <2>9 DEF CounterTypes, ControlTypes, Retry, TryAgain, Counted, MaxAttempts, StillOpen
    <3>. QED
      BY <3>1, <3>2
  <2>10. CASE GiveUp
    <3>1. ControlTypes'
      BY <2>10 DEF ControlTypes, GiveUp, Return, Results
    <3>2. CounterTypes' /\ LoopInv'
      BY <2>10 DEF CounterTypes, ControlTypes, GiveUp, Return, TryAgain, Counted, MaxAttempts
    <3>. QED
      BY <3>1, <3>2
  <2>11. CASE NewSession
    BY <2>11 DEF ControlTypes, CounterTypes, NewSession, CanOpenSession
  <2>12. CASE Reconnected
    BY <2>12 DEF ControlTypes, CounterTypes, Reconnected
  <2>13. CASE NoClient
    BY <2>13 DEF ControlTypes, CounterTypes, NoClient, Return, Results
  <2>14. CASE NewSessionAgain
    BY <2>14 DEF ControlTypes, CounterTypes, NewSessionAgain, Return, Results
  <2>15. CASE Start
    BY <2>15 DEF ControlTypes, CounterTypes, Start, Runs
  <2>16. CASE StartFailed
    BY <2>16 DEF ControlTypes, CounterTypes, StartFailed, AfterFailedStart, Return, Results
  <2>17. CASE Wait
    BY <2>17 DEF ControlTypes, CounterTypes, Wait, WaitChannel
  <2>18. CASE WaitReceives
    BY <2>18 DEF ControlTypes, CounterTypes, WaitReceives
  <2>19. CASE Finish
    BY <2>19 DEF ControlTypes, CounterTypes, Finish, Return, Results
  <2>20. CASE ShellStarts
    BY <2>20 DEF ControlTypes, CounterTypes, ShellStarts, Runs, Return, Results
  <2>21. CASE ShellEnds
    BY <2>21 DEF ControlTypes, CounterTypes, ShellEnds, Return, Results
  <2>22. CASE HandshakeAnswers
    BY <2>22 DEF ControlTypes, CounterTypes, HandshakeAnswers, HandshakeResults
  <2>23. CASE HandshakeStores
    BY <2>23 DEF ControlTypes, CounterTypes, HandshakeStores, Errors
  <2>24. CASE SessionEnds
    BY <2>24 DEF ControlTypes, CounterTypes, SessionEnds, MissingStatus, Statuses
  <2>25. CASE SetExited
    BY <2>25 DEF ControlTypes, CounterTypes, SetExited, Statuses
  <2>26. CASE CommandExits
    BY <2>26 DEF ControlTypes, CounterTypes, CommandExits
  <2>27. CASE UNCHANGED vars
    BY <2>27 DEF vars, ControlTypes, CounterTypes
  <2>. QED
    BY <2>1, <2>2, <2>3, <2>4, <2>5, <2>6, <2>7, <2>8, <2>9, <2>10, <2>11, <2>12, <2>13, <2>14, <2>15, <2>16, <2>17, <2>18, <2>19, <2>20, <2>21, <2>22, <2>23, <2>24, <2>25, <2>26, <2>27 DEF Next, Caller, Handshaker, Waiter, Ended
<1>. QED
  BY <1>1, <1>2, PTL DEF Spec

-----------------------------------------------------------------------------
(* CommandInv is inductive relative to the types. *)
LEMMA CommandCorrect == Spec => []CommandInv
<1>1. Init => CommandInv
  BY DEF Init, CommandInv, BeforeStart, AtMostOnce, OkMeansExitZero
<1>2. TypeOK /\ CommandInv /\ [Next]_vars => CommandInv'
  <2>. SUFFICES ASSUME TypeOK, CommandInv, [Next]_vars PROVE CommandInv'
    OBVIOUS
  <2>. USE DEF TypeOK, ControlTypes, CounterTypes, CommandInv, BeforeStart, AtMostOnce, OkMeansExitZero,
               connVars, hsVars, cmdVars, histVars
  <2>1. CASE PerformRemote
    BY <2>1 DEF PerformRemote, BeginCall, StillOpen
  <2>2. CASE PerformLocal
    BY <2>2 DEF PerformLocal, BeginCall, StillOpen
  <2>3. CASE Configure
    BY <2>3 DEF Configure, Return
  <2>4. CASE Connect
    BY <2>4 DEF Connect, DialErrors
  <2>5. CASE SelectEstablished
    BY <2>5 DEF SelectEstablished
  <2>6. CASE SelectExpires
    BY <2>6 DEF SelectExpires, AfterExpiry
  <2>7. CASE StoreTimeout
    BY <2>7 DEF StoreTimeout
  <2>8. CASE Established
    BY <2>8 DEF Established
  <2>9. CASE Retry
    BY <2>9 DEF Retry, TryAgain, Counted, MaxAttempts, StillOpen
  <2>10. CASE GiveUp
    BY <2>10 DEF GiveUp, Return, TryAgain, Counted, MaxAttempts
  <2>11. CASE NewSession
    BY <2>11 DEF NewSession, CanOpenSession
  <2>12. CASE Reconnected
    BY <2>12 DEF Reconnected
  <2>13. CASE NoClient
    BY <2>13 DEF NoClient, Return
  <2>14. CASE NewSessionAgain
    BY <2>14 DEF NewSessionAgain, Return
  <2>15. CASE Start
    BY <2>15 DEF Start, Runs
  <2>16. CASE StartFailed
    BY <2>16 DEF StartFailed, AfterFailedStart, Return
  <2>17. CASE Wait
    BY <2>17 DEF Wait, WaitChannel
  <2>18. CASE WaitReceives
    BY <2>18 DEF WaitReceives
  <2>19. CASE Finish
    BY <2>19 DEF Finish, Return
  <2>20. CASE ShellStarts
    BY <2>20 DEF ShellStarts, Runs, Return
  <2>21. CASE ShellEnds
    BY <2>21 DEF ShellEnds, Return
  <2>22. CASE HandshakeAnswers
    BY <2>22 DEF HandshakeAnswers, HandshakeResults
  <2>23. CASE HandshakeStores
    BY <2>23 DEF HandshakeStores
  <2>24. CASE SessionEnds
    BY <2>24 DEF SessionEnds, MissingStatus
  <2>25. CASE SetExited
    BY <2>25 DEF SetExited
  <2>26. CASE CommandExits
    BY <2>26 DEF CommandExits
  <2>27. CASE UNCHANGED vars
    BY <2>27 DEF vars
  <2>. QED
    BY <2>1, <2>2, <2>3, <2>4, <2>5, <2>6, <2>7, <2>8, <2>9, <2>10, <2>11, <2>12, <2>13, <2>14, <2>15, <2>16, <2>17, <2>18, <2>19, <2>20, <2>21, <2>22, <2>23, <2>24, <2>25, <2>26, <2>27 DEF Next, Caller, Handshaker, Waiter, Ended
<1>. QED
  BY <1>1, <1>2, TypeCorrect, PTL DEF Spec

(* Whatever is retried on the way, the node starts the command of one call  *)
(* of PerformCmd at most once.                                              *)
THEOREM CommandRunsAtMostOnce == Spec => []AtMostOnce
<1>1. CommandInv => AtMostOnce
  BY DEF CommandInv
<1>. QED
  BY <1>1, CommandCorrect, PTL

(* PerformCmd answers without an error only for a command that ran once, to *)
(* exit status 0.                                                           *)
THEOREM OkIsTrue == Spec => []OkMeansExitZero
<1>1. CommandInv => OkMeansExitZero
  BY DEF CommandInv
<1>. QED
  BY <1>1, CommandCorrect, PTL

(* RemoteCmd.Wait never misses the SetExited of the waiter.                 *)
THEOREM WakeupNotLost == Spec => []NoLostWakeup
<1>1. CommandInv => NoLostWakeup
  BY DEF CommandInv, NoLostWakeup
<1>. QED
  BY <1>1, CommandCorrect, PTL

-----------------------------------------------------------------------------
(* ConnInv is inductive relative to the types. *)
LEMMA ConnCorrect == Spec => []ConnInv
<1>1. Init => ConnInv
  BY DEF Init, ConnInv, FailedConnectLeavesNothingOpen
<1>2. TypeOK /\ ConnInv /\ [Next]_vars => ConnInv'
  <2>. SUFFICES ASSUME TypeOK, ConnInv, [Next]_vars PROVE ConnInv'
    OBVIOUS
  <2>. USE DEF TypeOK, ControlTypes, CounterTypes, ConnInv, FailedConnectLeavesNothingOpen,
               connVars, hsVars, cmdVars, histVars
  <2>1. CASE PerformRemote
    BY <2>1 DEF PerformRemote, BeginCall, StillOpen
  <2>2. CASE PerformLocal
    BY <2>2 DEF PerformLocal, BeginCall, StillOpen
  <2>3. CASE Configure
    BY <2>3 DEF Configure, Return
  <2>4. CASE Connect
    <3>1. CASE conn' = "open"
      BY <2>4, <3>1 DEF Connect
    <3>2. CASE conn' = "none" /\ hs' = "none" /\ pc' = "return"
      BY <2>4, <3>2 DEF Connect
    <3>. QED
      BY <2>4, <3>1, <3>2 DEF Connect
  <2>5. CASE SelectEstablished
    BY <2>5 DEF SelectEstablished
  <2>6. CASE SelectExpires
    BY <2>6 DEF SelectExpires, AfterExpiry
  <2>7. CASE StoreTimeout
    BY <2>7 DEF StoreTimeout
  <2>8. CASE Established
    BY <2>8 DEF Established
  <2>9. CASE Retry
    BY <2>9 DEF Retry, TryAgain, Counted, MaxAttempts, StillOpen
  <2>10. CASE GiveUp
    BY <2>10 DEF GiveUp, Return, TryAgain, Counted, MaxAttempts
  <2>11. CASE NewSession
    BY <2>11 DEF NewSession, CanOpenSession
  <2>12. CASE Reconnected
    BY <2>12 DEF Reconnected
  <2>13. CASE NoClient
    BY <2>13 DEF NoClient, Return
  <2>14. CASE NewSessionAgain
    BY <2>14 DEF NewSessionAgain, Return
  <2>15. CASE Start
    BY <2>15 DEF Start, Runs
  <2>16. CASE StartFailed
    BY <2>16 DEF StartFailed, AfterFailedStart, Return
  <2>17. CASE Wait
    BY <2>17 DEF Wait, WaitChannel
  <2>18. CASE WaitReceives
    BY <2>18 DEF WaitReceives
  <2>19. CASE Finish
    BY <2>19 DEF Finish, Return
  <2>20. CASE ShellStarts
    BY <2>20 DEF ShellStarts, Runs, Return
  <2>21. CASE ShellEnds
    BY <2>21 DEF ShellEnds, Return
  <2>22. CASE HandshakeAnswers
    BY <2>22 DEF HandshakeAnswers, HandshakeResults
  <2>23. CASE HandshakeStores
    BY <2>23 DEF HandshakeStores
  <2>24. CASE SessionEnds
    BY <2>24 DEF SessionEnds, MissingStatus
  <2>25. CASE SetExited
    BY <2>25 DEF SetExited
  <2>26. CASE CommandExits
    BY <2>26 DEF CommandExits
  <2>27. CASE UNCHANGED vars
    BY <2>27 DEF vars
  <2>. QED
    BY <2>1, <2>2, <2>3, <2>4, <2>5, <2>6, <2>7, <2>8, <2>9, <2>10, <2>11, <2>12, <2>13, <2>14, <2>15, <2>16, <2>17, <2>18, <2>19, <2>20, <2>21, <2>22, <2>23, <2>24, <2>25, <2>26, <2>27 DEF Next, Caller, Handshaker, Waiter, Ended
<1>. QED
  BY <1>1, <1>2, TypeCorrect, PTL DEF Spec

(* The command is only started on a client whose handshake succeeded, over  *)
(* a connection this side has not closed, even when a late handshake made   *)
(* reconnect report success without a client.                               *)
THEOREM ClientIsLive == Spec => []LiveClientAtStart
<1>1. ConnInv => LiveClientAtStart
  BY DEF ConnInv, LiveClientAtStart
<1>. QED
  BY <1>1, ConnCorrect, PTL

(* Calls that fail to connect leave no connection open, and no attempt of   *)
(* the retry loop does.                                                     *)
THEOREM NothingLeftOpen == Spec => []FailedConnectLeavesNothingOpen
<1>1. ConnInv => FailedConnectLeavesNothingOpen
  BY DEF ConnInv
<1>. QED
  BY <1>1, ConnCorrect, PTL

-----------------------------------------------------------------------------
(* AuthInv is inductive relative to the types. *)
LEMMA AuthCorrect == Spec => []AuthInv
<1>1. Init => AuthInv
  BY DEF Init, AuthInv, LoopInv, AuthFailuresBounded, Connecting, Uncounted, Limit, MaxAttempts
<1>2. TypeOK /\ ConnInv /\ AuthInv /\ [Next]_vars => AuthInv'
  <2>. SUFFICES ASSUME TypeOK, ConnInv, AuthInv, [Next]_vars PROVE AuthInv'
    OBVIOUS
  <2>. USE DEF TypeOK, ControlTypes, CounterTypes, ConnInv, AuthInv, LoopInv, AuthFailuresBounded, Connecting,
               Uncounted, Limit, MaxAttempts, AuthCap,
               connVars, hsVars, cmdVars, histVars
  <2>1. CASE PerformRemote
    BY <2>1 DEF PerformRemote, BeginCall, StillOpen
  <2>2. CASE PerformLocal
    BY <2>2 DEF PerformLocal, BeginCall, StillOpen
  <2>3. CASE Configure
    BY <2>3 DEF Configure, Return
  <2>4. CASE Connect
    BY <2>4 DEF Connect, DialErrors
  <2>5. CASE SelectEstablished
    BY <2>5 DEF SelectEstablished
  <2>6. CASE SelectExpires
    BY <2>6 DEF SelectExpires, AfterExpiry
  <2>7. CASE StoreTimeout
    BY <2>7 DEF StoreTimeout
  <2>8. CASE Established
    BY <2>8 DEF Established
  <2>9. CASE Retry
    BY <2>9 DEF Retry, TryAgain, Counted, MaxAttempts, StillOpen
  <2>10. CASE GiveUp
    BY <2>10 DEF GiveUp, Return, TryAgain, Counted, MaxAttempts
  <2>11. CASE NewSession
    BY <2>11 DEF NewSession, CanOpenSession
  <2>12. CASE Reconnected
    BY <2>12 DEF Reconnected
  <2>13. CASE NoClient
    BY <2>13 DEF NoClient, Return
  <2>14. CASE NewSessionAgain
    BY <2>14 DEF NewSessionAgain, Return
  <2>15. CASE Start
    BY <2>15 DEF Start, Runs
  <2>16. CASE StartFailed
    BY <2>16 DEF StartFailed, AfterFailedStart, Return
  <2>17. CASE Wait
    BY <2>17 DEF Wait, WaitChannel
  <2>18. CASE WaitReceives
    BY <2>18 DEF WaitReceives
  <2>19. CASE Finish
    BY <2>19 DEF Finish, Return
  <2>20. CASE ShellStarts
    BY <2>20 DEF ShellStarts, Runs, Return
  <2>21. CASE ShellEnds
    BY <2>21 DEF ShellEnds, Return
  <2>22. CASE HandshakeAnswers
    BY <2>22 DEF HandshakeAnswers, HandshakeResults
  <2>23. CASE HandshakeStores
    BY <2>23 DEF HandshakeStores
  <2>24. CASE SessionEnds
    BY <2>24 DEF SessionEnds, MissingStatus
  <2>25. CASE SetExited
    BY <2>25 DEF SetExited
  <2>26. CASE CommandExits
    BY <2>26 DEF CommandExits
  <2>27. CASE UNCHANGED vars
    BY <2>27 DEF vars
  <2>. QED
    BY <2>1, <2>2, <2>3, <2>4, <2>5, <2>6, <2>7, <2>8, <2>9, <2>10, <2>11, <2>12, <2>13, <2>14, <2>15, <2>16, <2>17, <2>18, <2>19, <2>20, <2>21, <2>22, <2>23, <2>24, <2>25, <2>26, <2>27 DEF Next, Caller, Handshaker, Waiter, Ended
<1>. QED
  BY <1>1, <1>2, TypeCorrect, ConnCorrect, PTL DEF Spec

(* Without a timeout in between, the node refuses one call at most          *)
(* HandshakeAttempts times (once when unset).                               *)
THEOREM RefusalsAreBounded == Spec => []AuthFailuresBounded
<1>1. AuthInv => AuthFailuresBounded
  BY DEF AuthInv
<1>. QED
  BY <1>1, AuthCorrect, PTL

-----------------------------------------------------------------------------
(* PerformCmd implements the abstract remote call: each of its steps is a   *)
(* step of RemoteCall or leaves the abstract state alone.                   *)
THEOREM RemoteCallImplemented == Spec => ImplementsRemoteCall
<1>1. Init => Abstract!RcInit
  BY DEF Init, Abstract!RcInit, callPhase
<1>2. TypeOK /\ CommandInv /\ [Next]_vars => [Abstract!RcNext]_(Abstract!rcVars)
  <2>. SUFFICES ASSUME TypeOK, CommandInv, [Next]_vars
                PROVE  [Abstract!RcNext]_(Abstract!rcVars)
    OBVIOUS
  <2>. USE DEF TypeOK, ControlTypes, CounterTypes, CommandInv, BeforeStart, OkMeansExitZero, AtMostOnce,
               callPhase, Abstract!rcVars, connVars, hsVars, cmdVars, histVars,
               Abstract!RcNext, Abstract!Invoke, Abstract!Execute, Abstract!Exit,
               Abstract!AnswerOk, Abstract!AnswerError, Abstract!Crash
  <2>1. CASE PerformRemote
    BY <2>1 DEF PerformRemote, BeginCall, StillOpen
  <2>2. CASE PerformLocal
    BY <2>2 DEF PerformLocal, BeginCall, StillOpen
  <2>3. CASE Configure
    <3>1. CASE pc' = "connect" /\ UNCHANGED result
      BY <2>3, <3>1 DEF Configure
    <3>2. CASE pc' = "idle" /\ result' = "unconnected"
      BY <2>3, <3>2 DEF Configure
    <3>. QED
      BY <2>3, <3>1, <3>2 DEF Configure, Return
  <2>4. CASE Connect
    BY <2>4 DEF Connect, DialErrors
  <2>5. CASE SelectEstablished
    BY <2>5 DEF SelectEstablished
  <2>6. CASE SelectExpires
    BY <2>6 DEF SelectExpires, AfterExpiry
  <2>7. CASE StoreTimeout
    BY <2>7 DEF StoreTimeout
  <2>8. CASE Established
    BY <2>8 DEF Established
  <2>9. CASE Retry
    BY <2>9 DEF Retry, TryAgain, Counted, MaxAttempts, StillOpen
  <2>10. CASE GiveUp
    BY <2>10 DEF GiveUp, Return, TryAgain, Counted, MaxAttempts
  <2>11. CASE NewSession
    BY <2>11 DEF NewSession, CanOpenSession
  <2>12. CASE Reconnected
    BY <2>12 DEF Reconnected
  <2>13. CASE NoClient
    BY <2>13 DEF NoClient, Return
  <2>14. CASE NewSessionAgain
    BY <2>14 DEF NewSessionAgain, Return
  <2>15. CASE Start
    BY <2>15 DEF Start, Runs
  <2>16. CASE StartFailed
    BY <2>16 DEF StartFailed, AfterFailedStart, Return
  <2>17. CASE Wait
    BY <2>17 DEF Wait, WaitChannel
  <2>18. CASE WaitReceives
    BY <2>18 DEF WaitReceives
  <2>19. CASE Finish
    BY <2>19 DEF Finish, Return
  <2>20. CASE ShellStarts
    BY <2>20 DEF ShellStarts, Runs, Return
  <2>21. CASE ShellEnds
    BY <2>21 DEF ShellEnds, Return
  <2>22. CASE HandshakeAnswers
    BY <2>22 DEF HandshakeAnswers, HandshakeResults
  <2>23. CASE HandshakeStores
    BY <2>23 DEF HandshakeStores
  <2>24. CASE SessionEnds
    BY <2>24 DEF SessionEnds, MissingStatus
  <2>25. CASE SetExited
    BY <2>25 DEF SetExited
  <2>26. CASE CommandExits
    BY <2>26 DEF CommandExits
  <2>27. CASE UNCHANGED vars
    BY <2>27 DEF vars
  <2>. QED
    BY <2>1, <2>2, <2>3, <2>4, <2>5, <2>6, <2>7, <2>8, <2>9, <2>10, <2>11, <2>12, <2>13, <2>14, <2>15, <2>16, <2>17, <2>18, <2>19, <2>20, <2>21, <2>22, <2>23, <2>24, <2>25, <2>26, <2>27 DEF Next, Caller, Handshaker, Waiter, Ended
<1>. QED
  BY <1>1, <1>2, TypeCorrect, CommandCorrect, PTL
  DEF Spec, ImplementsRemoteCall, Abstract!RcSpec
=============================================================================
