----------------------------- MODULE SSHExecutor -----------------------------
(***************************************************************************)
(* ssh.Executor.PerformCmd with everything below it: the retry loop of     *)
(* establishSSHCommunication, communicator.New, newSession and reconnect   *)
(* with its handshake goroutine and its timeout, Start with the goroutine  *)
(* that waits for the session, and the exit channel of RemoteCmd.          *)
(*                                                                         *)
(* Three threads share memory: the caller (pc), the goroutine that does    *)
(* the handshake of the current reconnect (hs) and the goroutine that      *)
(* waits for the session to end (waiter).  The node is the environment:    *)
(* it answers or refuses a handshake, runs the command, loses it.          *)
(*                                                                         *)
(* A handshake goroutine abandoned by a timeout that has returned is not   *)
(* followed: the variables it still writes belong to a call of reconnect   *)
(* that nobody reads any more, and its connection has been closed.         *)
(***************************************************************************)
EXTENDS Integers, FiniteSets

CONSTANTS
    HandshakeAttempts,  \* SSHConnection.HandshakeAttempts as configured, 0: unset
    MaxCalls,           \* bound: how many commands one run of the program performs
    Targets,            \* subset of {"remote", "local"}: which nodes are addressed
    Faults,             \* which of AllFaults the network and the node show
    Bastion             \* TRUE: connections go through a bastion host

AllFaults == {"config",   \* the configuration is rejected or the probe fails
              "dial",     \* opening a TCP connection fails
              "timeout",  \* a handshake outlasts HandshakeTimeout
              "auth",     \* a handshake fails with "... unable to authenticate"
              "net",      \* a handshake fails in any other way
              "session",  \* opening a session on a connected client fails
              "exec",     \* Start returns an error
              "drop"}     \* the session ends without an exit status

ASSUME SSHAssumption ==
    /\ HandshakeAttempts \in Nat
    /\ MaxCalls \in Nat
    /\ Targets \subseteq {"remote", "local"}
    /\ Faults \subseteq AllFaults
    /\ Bastion \in BOOLEAN

VARIABLES
    pc,         \* program point of the caller
    caller,     \* who called reconnect: New or newSession
    attempts,   \* handshakeAttempts
    conn,       \* Comm.conn: "none" (nil), "open" or "closed"
    client,     \* Comm.client # nil
    hs,         \* the handshake goroutine: "none", "running", "answered", "done"
    hsResult,   \* what NewClientConn returned, before it is stored
    err,        \* the result variable err that reconnect shares with the goroutine
    remote,     \* the command on the node: "none", "running", "zero", "nonzero"
    waiter,     \* the goroutine of Start: "none", "waiting", "woken", "done"
    status,     \* the exit status the waiter found
    exitCh,     \* RemoteCmd.exitCh: "nil", "open" or "closed"
    exitStatus, \* RemoteCmd.ExitStatus
    result,     \* how the last call returned
    calls,      \* calls so far
    leaked,     \* calls whose abandoned Comm still holds an open connection
    runs,       \* history: how often the node started the command of this call
    authSeen,   \* history: handshakes of this call the node refused (capped)
    late        \* history: some reconnect of this call ran into its timeout

connVars == <<caller, attempts, conn, client>>
hsVars   == <<hs, hsResult, err>>
cmdVars  == <<waiter, status, exitCh, exitStatus>>
histVars == <<calls, leaked, authSeen, late>>
vars == <<pc, connVars, hsVars, remote, cmdVars, result, histVars, runs>>

PCs == {"idle", "config", "connect", "select", "expired", "return", "session",
        "session2", "start", "startfailed", "wait", "receive", "finish",
        "shell", "shellwait", "panic"}
Errors   == {"nil", "timeout", "auth", "net"}
Statuses == {"zero", "nonzero", "disconnect"}

\* Results of a call; all but "ok" are errors, told apart by where they arise.
Results == {"none", "ok", "unconnected", "noclient", "nosession", "notstarted",
            "failed", "noshell"}

\* Bound on authSeen, beyond every value the properties speak of.
AuthCap == HandshakeAttempts + 3

Init ==
    /\ pc = "idle" /\ caller = "new" /\ attempts = 0
    /\ conn = "none" /\ client = FALSE
    /\ hs = "none" /\ hsResult = "nil" /\ err = "nil"
    /\ remote = "none" /\ waiter = "none" /\ status = "zero"
    /\ exitCh = "nil" /\ exitStatus = "zero"
    /\ result = "none" /\ calls = 0 /\ leaked = {}
    /\ runs = 0 /\ authSeen = 0 /\ late = FALSE

Return(r) == pc' = "idle" /\ result' = r

-----------------------------------------------------------------------------
(* PerformCmd up to the connection                                          *)

\* The Comm of the previous call is dropped as it is.
StillOpen == IF conn = "open" THEN {calls} ELSE {}

BeginCall(start) ==
    /\ pc = "idle" /\ calls < MaxCalls
    /\ pc' = start /\ calls' = calls + 1 /\ leaked' = leaked \cup StillOpen
    /\ caller' = "new" /\ attempts' = 0 /\ conn' = "none" /\ client' = FALSE
    /\ hs' = "none" /\ hsResult' = "nil" /\ err' = "nil"
    /\ remote' = "none" /\ waiter' = "none" /\ status' = "zero"
    /\ exitCh' = "nil" /\ exitStatus' = "zero" /\ result' = "none"
    /\ runs' = 0 /\ authSeen' = 0 /\ late' = FALSE

PerformRemote == "remote" \in Targets /\ BeginCall("config")
PerformLocal  == "local" \in Targets /\ BeginCall("shell")

\* createCommunicationConfig validates the options and opens and closes one
\* connection; its error is final.
Configure ==
    /\ pc = "config"
    /\ \/ pc' = "connect" /\ UNCHANGED result
       \/ "config" \in Faults /\ Return("unconnected")
    /\ UNCHANGED <<connVars, hsVars, remote, cmdVars, histVars, runs>>

-----------------------------------------------------------------------------
(* reconnect                                                                *)

\* What Connection() can fail with: ssh.Dial to a bastion authenticates too.
DialErrors == (IF "dial" \in Faults THEN {"net"} ELSE {})
                  \cup (IF Bastion THEN Faults \cap {"auth"} ELSE {})

\* An old connection is closed before Connection() replaces it.
Connect ==
    /\ pc = "connect"
    /\ client' = FALSE
    /\ \/ conn' = "open" /\ hs' = "running" /\ err' = "nil" /\ pc' = "select"
       \/ \E e \in DialErrors :
              conn' = "none" /\ hs' = "none" /\ err' = e /\ pc' = "return"
    /\ hsResult' = "nil"
    /\ UNCHANGED <<caller, attempts, remote, cmdVars, result, calls, leaked,
                   authSeen, late, runs>>

\* A handshake on a connection that was closed under it can only fail.
HandshakeResults ==
    IF conn = "open" THEN {"nil"} \cup (Faults \cap {"auth", "net"}) ELSE {"net"}

\* NewClientConn ends; it closes the connection unless it succeeded.
HandshakeAnswers ==
    /\ hs = "running"
    /\ hs' = "answered"
    /\ hsResult' \in HandshakeResults
    /\ conn' = IF hsResult' = "nil" THEN conn ELSE "closed"
    /\ authSeen' = IF hsResult' = "auth" /\ authSeen < AuthCap
                   THEN authSeen + 1 ELSE authSeen
    /\ UNCHANGED <<pc, caller, attempts, client, err, remote, cmdVars, result,
                   calls, leaked, late, runs>>

\* The goroutine assigns the shared variables and closes its channel.
HandshakeStores ==
    /\ hs = "answered"
    /\ hs' = "done" /\ err' = hsResult
    /\ UNCHANGED <<pc, connVars, hsResult, remote, cmdVars, result, histVars, runs>>

SelectEstablished ==
    /\ pc = "select" /\ hs = "done"
    /\ pc' = "return" /\ client' = (err = "nil")
    /\ UNCHANGED <<caller, attempts, conn, hsVars, remote, cmdVars, result,
                   histVars, runs>>

AfterExpiry_NotClosed == conn
AfterExpiry == "closed"

\* The timer of the select fires.  Closing sshConn too, if it is seen, closes
\* the same connection again.
SelectExpires ==
    /\ pc = "select" /\ "timeout" \in Faults
    /\ pc' = "expired" /\ conn' = AfterExpiry
    /\ late' = TRUE
    /\ UNCHANGED <<caller, attempts, client, hsVars, remote, cmdVars, result,
                   calls, leaked, authSeen, runs>>

\* "return ErrHandshakeTimeout" stores into the shared result variable ...
StoreTimeout ==
    /\ pc = "expired"
    /\ pc' = "return" /\ err' = "timeout"
    /\ UNCHANGED <<connVars, hs, hsResult, remote, cmdVars, result, histVars, runs>>

\* ... and the caller loads it in one of the following steps (pc = "return"),
\* between which the goroutine may have stored its own result.

-----------------------------------------------------------------------------
(* establishSSHCommunication, after New has returned                        *)

\* Of all failures only the failed authentications count as attempts.
Counted_Never == attempts
Counted == IF err = "auth" THEN attempts + 1 ELSE attempts

\* prepareSSHConfig sets the default 3 on a copy, so that the loop compares
\* with the configured number.
MaxAttempts == HandshakeAttempts

TryAgain_OneMore == Counted <= MaxAttempts
TryAgain == Counted < MaxAttempts

Established ==
    /\ pc = "return" /\ caller = "new" /\ err = "nil"
    /\ pc' = "session" /\ hs' = "none"
    /\ UNCHANGED <<connVars, hsResult, err, remote, cmdVars, result, histVars, runs>>

\* A new Comm for the next attempt; the old one is dropped.
Retry ==
    /\ pc = "return" /\ caller = "new" /\ err # "nil" /\ TryAgain
    /\ pc' = "connect" /\ attempts' = Counted
    /\ conn' = "none" /\ client' = FALSE /\ hs' = "none"
    /\ leaked' = leaked \cup StillOpen
    /\ UNCHANGED <<caller, hsResult, err, remote, cmdVars, result, calls,
                   authSeen, late, runs>>

GiveUp ==
    /\ pc = "return" /\ caller = "new" /\ err # "nil" /\ ~TryAgain
    /\ Return("unconnected") /\ attempts' = Counted /\ hs' = "none"
    /\ UNCHANGED <<caller, conn, client, hsResult, err, remote, cmdVars,
                   histVars, runs>>

-----------------------------------------------------------------------------
(* newSession                                                               *)

CanOpenSession_Unchecked == TRUE
CanOpenSession == client

NewSession ==
    /\ pc = "session"
    /\ \/ CanOpenSession /\ pc' = "start" /\ UNCHANGED caller
       \/ /\ ~CanOpenSession \/ "session" \in Faults
          /\ pc' = "connect" /\ caller' = "session"
    /\ UNCHANGED <<attempts, conn, client, hsVars, remote, cmdVars, result,
                   histVars, runs>>

\* The reconnect of newSession has returned.
Reconnected ==
    /\ pc = "return" /\ caller = "session" /\ err = "nil" /\ client
    /\ pc' = "session2" /\ hs' = "none"
    /\ UNCHANGED <<connVars, hsResult, err, remote, cmdVars, result, histVars, runs>>

NoClient ==
    /\ pc = "return" /\ caller = "session" /\ (err # "nil" \/ ~client)
    /\ Return("noclient") /\ hs' = "none"
    /\ UNCHANGED <<connVars, hsResult, err, remote, cmdVars, histVars, runs>>

NewSessionAgain ==
    /\ pc = "session2"
    /\ \/ pc' = "start" /\ UNCHANGED result
       \/ "session" \in Faults /\ Return("nosession")
    /\ UNCHANGED <<connVars, hsVars, remote, cmdVars, histVars, runs>>

-----------------------------------------------------------------------------
(* Comm.Start and the rest of PerformCmd                                    *)

Runs == remote' = "running" /\ runs' = runs + 1

\* session.Start sends the exec request and waits for the reply; when the
\* reply is lost the command may run all the same.
Start ==
    /\ pc = "start"
    /\ \/ pc' = "wait" /\ waiter' = "waiting" /\ Runs
       \/ /\ "exec" \in Faults
          /\ pc' = "startfailed" /\ UNCHANGED waiter
          /\ Runs \/ UNCHANGED <<remote, runs>>
    /\ UNCHANGED <<connVars, hsVars, status, exitCh, exitStatus, result, histVars>>

AfterFailedStart_Retry == pc' = "session" /\ UNCHANGED result
AfterFailedStart == Return("notstarted")

StartFailed ==
    /\ pc = "startfailed"
    /\ AfterFailedStart
    /\ UNCHANGED <<connVars, hsVars, remote, cmdVars, histVars, runs>>

CommandExits ==
    /\ remote = "running"
    /\ remote' \in {"zero", "nonzero"}
    /\ UNCHANGED <<pc, connVars, hsVars, cmdVars, result, histVars, runs>>

\* What session.Wait reports.  An error that is neither ExitError nor
\* ExitMissingError comes from copying the streams of a command that exited
\* with 0: Start's switch keeps the status 0 for it.
MissingStatus_Zero == "zero"
MissingStatus == "disconnect"

SessionEnds ==
    /\ waiter = "waiting"
    /\ waiter' = "woken"
    /\ \/ remote \in {"zero", "nonzero"} /\ status' = remote
       \/ "drop" \in Faults /\ status' = MissingStatus
    /\ UNCHANGED <<pc, connVars, hsVars, remote, exitCh, exitStatus, result,
                   histVars, runs>>

\* RemoteCmd.SetExited, then the deferred session.Close; both sides create the
\* channel when they find none, under the mutex.
SetExited ==
    /\ waiter = "woken"
    /\ waiter' = "done" /\ exitStatus' = status /\ exitCh' = "closed"
    /\ UNCHANGED <<pc, connVars, hsVars, remote, status, result, histVars, runs>>

WaitChannel_AlwaysNew == "open"
WaitChannel == IF exitCh = "nil" THEN "open" ELSE exitCh

Wait ==
    /\ pc = "wait"
    /\ pc' = "receive" /\ exitCh' = WaitChannel
    /\ UNCHANGED <<connVars, hsVars, remote, waiter, status, exitStatus, result,
                   histVars, runs>>

WaitReceives ==
    /\ pc = "receive" /\ exitCh = "closed"
    /\ pc' = "finish"
    /\ UNCHANGED <<connVars, hsVars, remote, cmdVars, result, histVars, runs>>

Finish ==
    /\ pc = "finish"
    /\ Return(IF exitStatus = "zero" THEN "ok" ELSE "failed")
    /\ UNCHANGED <<connVars, hsVars, remote, cmdVars, histVars, runs>>

-----------------------------------------------------------------------------
(* shell: the node is the one kubespector runs on                           *)

ShellStarts ==
    /\ pc = "shell"
    /\ \/ pc' = "shellwait" /\ Runs /\ UNCHANGED result
       \/ "exec" \in Faults /\ Return("noshell") /\ UNCHANGED <<remote, runs>>
    /\ UNCHANGED <<connVars, hsVars, cmdVars, histVars>>

\* The type assertion of a non-zero status names the wrong package: it panics.
ShellEnds ==
    /\ pc = "shellwait" /\ remote # "running"
    /\ \/ remote = "zero" /\ Return("ok")
       \/ remote = "nonzero" /\ pc' = "panic" /\ UNCHANGED result
    /\ UNCHANGED <<connVars, hsVars, remote, cmdVars, histVars, runs>>

\* The program has done its last command, or has died.
Ended ==
    /\ pc = "panic" \/ (pc = "idle" /\ calls = MaxCalls)
    /\ UNCHANGED vars

-----------------------------------------------------------------------------

Caller ==
    \/ Configure \/ Connect \/ SelectEstablished \/ SelectExpires
    \/ StoreTimeout \/ Established \/ Retry \/ GiveUp \/ NewSession
    \/ Reconnected \/ NoClient \/ NewSessionAgain \/ Start \/ StartFailed
    \/ Wait \/ WaitReceives \/ Finish \/ ShellStarts \/ ShellEnds

Handshaker == HandshakeAnswers \/ HandshakeStores
Waiter == SessionEnds \/ SetExited

Next ==
    \/ PerformRemote \/ PerformLocal \/ Caller
    \/ Handshaker \/ Waiter \/ CommandExits \/ Ended

\* The Go scheduler runs every goroutine that can run; a node that does not
\* answer is cut off by the timer of the select; commands end.
Fairness ==
    WF_vars(Caller) /\ WF_vars(Handshaker) /\ WF_vars(Waiter) /\ WF_vars(CommandExits)

Spec == Init /\ [][Next]_vars
FairSpec == Spec /\ Fairness

-----------------------------------------------------------------------------
(* Properties                                                               *)

\* Refusals after which the loop gives up; the first one when not configured.
Limit == IF MaxAttempts = 0 THEN 1 ELSE MaxAttempts

ControlTypes ==
    /\ pc \in PCs /\ caller \in {"new", "session"}
    /\ conn \in {"none", "open", "closed"} /\ client \in BOOLEAN
    /\ hs \in {"none", "running", "answered", "done"}
    /\ hsResult \in {"nil", "auth", "net"} /\ err \in Errors
    /\ remote \in {"none", "running", "zero", "nonzero"}
    /\ waiter \in {"none", "waiting", "woken", "done"} /\ status \in Statuses
    /\ exitCh \in {"nil", "open", "closed"} /\ exitStatus \in Statuses
    /\ result \in Results /\ late \in BOOLEAN

CounterTypes ==
    /\ attempts \in Nat /\ attempts <= Limit
    /\ calls \in 0 .. MaxCalls /\ leaked \subseteq 0 .. MaxCalls
    /\ runs \in Nat /\ authSeen \in 0 .. AuthCap

\* The variables keep their types; in particular handshakeAttempts never
\* passes the configured number (1 when it is not configured).
TypeOK == ControlTypes /\ CounterTypes

\* However often PerformCmd has to dial, shake hands and open a session again,
\* the node starts the command at most once: nothing is retried once the exec
\* request is out.
AtMostOnce == runs <= 1

\* PerformCmd returns a nil error only for a command that the node ran, once,
\* to exit status 0; a session lost without a status is not a success.
OkMeansExitZero == result = "ok" => remote = "zero" /\ runs = 1

\* A late handshake goroutine can make reconnect report success with no
\* client; still no session is started but on a client whose handshake
\* succeeded, over a connection this side has not closed.
LiveClientAtStart == pc \in {"session2", "start"} => client /\ conn = "open"

\* RemoteCmd.Wait never misses SetExited: once the waiter is done the channel
\* the caller receives from is the closed one, whoever created it.
NoLostWakeup == pc = "receive" /\ waiter = "done" => exitCh = "closed"

\* A call that fails before it has a client leaves no connection open, and no
\* attempt of the retry loop leaves one behind, in whatever order the timer,
\* the failing handshake and the next attempt close it.
FailedConnectLeavesNothingOpen ==
    /\ calls \notin leaked
    /\ pc = "idle" /\ result \in {"unconnected", "noclient"} => conn # "open"

\* Unless a handshake timed out in between, the node refuses one call no more
\* often than HandshakeAttempts (once when unset), the reconnect of newSession
\* included: a wrong key cannot run into the lockout of the node's sshd.
AuthFailuresBounded ==
    ~late => authSeen <= Limit

\* PerformCmd returns (or the program dies in it): neither a refused login nor
\* the goroutines of the handshake and the session hold it for ever.  Only
\* failures that the loop of establishSSHCommunication does not count may.
CallReturns ==
    \/ []<>(pc = "return" /\ caller = "new" /\ err \in {"timeout", "net"})
    \/ pc # "idle" ~> pc \in {"idle", "panic"}

\* PerformCmd implements what its callers rely on (module RemoteCall).
callPhase ==
    CASE pc = "panic" -> "crashed"
      [] pc \notin {"idle", "panic"} -> "pending"
      [] pc = "idle" /\ result = "none" -> "idle"
      [] pc = "idle" /\ result = "ok" -> "ok"
      [] OTHER -> "error"

Abstract == INSTANCE RemoteCall WITH phase <- callPhase
ImplementsRemoteCall == Abstract!RcSpec

-----------------------------------------------------------------------------
(* What the comments say                                                    *)

\* utils.go: "Try to connect via SSH a handful of times": the loop ends, also
\* when no handshake ever succeeds.
HandfulOfTimes == pc = "connect" ~> pc \in {"session", "idle"}
=============================================================================
