------------------------------ MODULE Netperf ------------------------------
(***************************************************************************)
(* The network performance test (pkg/netperf.go with ssh/k8s.go): runs of  *)
(* the program, one after the other on one cluster, that create a          *)
(* namespace, two services, an orchestrator and its workers, poll until    *)
(* the pods run and the orchestrator's log has the results, fetch these    *)
(* and, with --cleanup, remove what was created.                           *)
(*                                                                         *)
(* Every call is a command on a master, which may fail with or without its *)
(* effect (module RemoteCall); on the node the program runs on, a failing  *)
(* command panics (SSHExecutor!ShellEnds).  A download without an error is *)
(* whole (ScpSession!OkMeansStored).  The environment is the cluster.      *)
(* What is only displayed (GetPods) is left out.                           *)
(***************************************************************************)
EXTENDS Integers, Sequences, FiniteSets

CONSTANTS
    Masters,        \* the nodes of the master group, in order
    Locals,         \* the values of the configuration's LocalOn
    workerCount,
    MaxRuns,        \* bound: runs of the program
    MaxFaults       \* bound: calls that fail, masters and cluster nodes that go
                    \* away, pods that are replaced

ASSUME NetperfAssumption ==
    /\ Len(Masters) \in Nat /\ workerCount \in Nat \ {0}
    /\ MaxRuns \in Nat /\ MaxFaults \in Nat

\* What is deployed, in this order.
Namespace == 1
OrchestratorService == 2
WorkerService == 3
Orchestrator == 4
Workers == 5 .. 4 + workerCount
Controllers == {Orchestrator} \cup Workers
Last == 4 + workerCount
Resources == 1 .. Last

MasterSet == {Masters[i] : i \in 1 .. Len(Masters)}
Files == {"result", "output"}

VARIABLES
    LocalOn,    \* the node the program runs on
    run,        \* how many runs were started
    cleanup,    \* the option of the current run
    pc,         \* its program point
    turn,       \* position in Masters of the node tried or picked
    res,        \* the resource that is deployed or removed
    applied,    \* kubectl apply has returned no error, or AlreadyExists
    lines,      \* kubectl get nodes has returned two lines or more
    named,      \* the orchestrator pods whose names getPodName has returned
    file,       \* the file that processCsvData fetches
    exists,     \* the resources in the cluster
    live,       \* live[c]: the pod of controller c
    ending,     \* ending[c]: an older pod of c is being deleted
    gen,        \* the number of the latest orchestrator pod
    csv,        \* csv[g]: the results in the log and the files of pod g
    ready,      \* two nodes of the cluster are Ready
    temp,       \* resources whose definition, in a file of this run, is on the master
    stuck,      \* history: those of them whose upload or deletion has failed
    copied,     \* copied[m][f]: the files in /tmp on the master
    local,      \* local[f]: the files in OutputDir
    refused,    \* history: removals of this run that returned an error
    away,       \* masters that have gone for good
    failures    \* what MaxFaults bounds

progVars == <<run, cleanup, turn, res, applied, lines, named, file>>
clusterVars == <<exists, live, ending, gen, csv, ready>>
tempVars == <<temp, stuck>>
fileVars == <<copied, local>>
vars == <<LocalOn, pc, progVars, clusterVars, tempVars, fileVars, refused, away, failures>>

MaxGen == MaxRuns + MaxFaults

\* The contents of a file of results: of pod g, complete or not.
Nothing == [of |-> 0, whole |-> FALSE]
Content(g, w) == [of |-> g, whole |-> w]

Init ==
    /\ LocalOn \in Locals
    /\ run = 0 /\ cleanup = FALSE /\ pc = "idle" /\ turn = 1 /\ res = 1
    /\ applied = FALSE /\ lines = FALSE /\ named = {} /\ file = "result"
    /\ exists = {} /\ gen = 0 /\ csv = [g \in 1 .. MaxGen |-> "none"]
    /\ live = [c \in Controllers |-> "absent"] /\ ending = [c \in Controllers |-> FALSE]
    /\ ready \in BOOLEAN /\ away = {} /\ failures = 0
    /\ temp = {} /\ stuck = {} /\ refused = {}
    /\ copied = [m \in MasterSet |-> [f \in Files |-> Nothing]]
    /\ local = [f \in Files |-> Nothing]

Over == {"done", "exit", "panic"}
Master == Masters[turn]
Local == Master = LocalOn

-----------------------------------------------------------------------------
(* Calls                                                                    *)

Answers(then) == Master \notin away /\ pc' = then /\ UNCHANGED failures

\* An error; PrintCritical ("exit") is one way to go on.
Errs(then) == pc' = IF Local THEN "panic" ELSE then

Fails(then) ==
    /\ Errs(then)
    /\ \/ Master \in away /\ UNCHANGED failures
       \/ failures < MaxFaults /\ failures' = failures + 1

\* A command whose effect may have happened although it failed.
Effect(e, unchanged) == e \/ unchanged

-----------------------------------------------------------------------------
(* Netperf: the node and the preconditions                                  *)

\* The files of definitions have random names: those of earlier runs are of no
\* further interest.
Start ==
    /\ pc \in Over \cup {"idle"} /\ run < MaxRuns
    /\ run' = run + 1 /\ cleanup' \in BOOLEAN
    /\ IF LocalOn \in MasterSet
       THEN pc' = "check" /\ turn' = CHOOSE i \in 1 .. Len(Masters) : Masters[i] = LocalOn
       ELSE pc' = "access" /\ turn' = 1
    /\ res' = Namespace /\ applied' = FALSE /\ lines' = FALSE /\ named' = {}
    /\ file' = "result" /\ refused' = {} /\ temp' = {} /\ stuck' = {}
    /\ UNCHANGED <<LocalOn, clusterVars, fileVars, away, failures>>

MoreMasters == turn <= Len(Masters)

\* GetFirstAccessibleNode runs hostname on one master after the other.
Access ==
    /\ pc = "access"
    /\ \/ MoreMasters /\ Answers("check") /\ UNCHANGED turn
       \/ MoreMasters /\ Fails("access") /\ turn' = turn + 1
       \/ ~MoreMasters /\ pc' = "exit" /\ UNCHANGED <<turn, failures>>
    /\ UNCHANGED <<LocalOn, run, cleanup, res, applied, lines, named, file,
                   clusterVars, tempVars, fileVars, refused, away>>

\* Fewer than two Ready nodes, or an error, end the program.
GetNumberOfReadyNodes == Answers(IF ready THEN "upload" ELSE "exit") \/ Fails("exit")

CheckPreconditions ==
    /\ pc = "check"
    /\ GetNumberOfReadyNodes
    /\ UNCHANGED <<LocalOn, progVars, clusterVars, tempVars, fileVars, refused, away>>

-----------------------------------------------------------------------------
(* DeployKubernetesResource                                                 *)

\* On the local node copyFile opens its target for reading only, and fails.
UploadFile ==
    /\ pc = "upload"
    /\ \/ ~Local /\ Answers("apply") /\ temp' = temp \cup {res} /\ UNCHANGED stuck
       \/ /\ ~Local /\ Fails("exit")
          /\ Effect(temp' = temp \cup {res}, UNCHANGED temp)
          /\ stuck' = stuck \cup {res}
       \/ Local /\ pc' = "exit" /\ UNCHANGED <<tempVars, failures>>
    /\ UNCHANGED <<LocalOn, progVars, clusterVars, fileVars, refused, away>>

\* CreateService takes an answer with AlreadyExists for a success.
Tolerated == res \in {OrchestratorService, WorkerService} /\ res \in exists

Apply ==
    /\ pc = "apply"
    /\ \/ Answers("delete") /\ exists' = exists \cup {res} /\ applied' = TRUE
       \/ /\ Fails("delete")
          /\ Effect(exists' = exists \cup {res}, UNCHANGED exists)
          /\ applied' = FALSE \/ (Tolerated /\ applied' = TRUE)
    /\ UNCHANGED <<LocalOn, run, cleanup, turn, res, lines, named, file,
                   live, ending, gen, csv, ready, tempVars, fileVars, refused, away>>

AfterFailedDelete_Judge == "judge"
AfterFailedDelete == "sudodelete"

\* DeleteRemoteFile tries again with sudo; its error is dropped.
DeleteRemoteFile ==
    /\ pc \in {"delete", "sudodelete"}
    /\ \/ Answers("judge") /\ temp' = temp \ {res} /\ UNCHANGED stuck
       \/ /\ Fails(IF pc = "delete" THEN AfterFailedDelete ELSE "judge")
          /\ Effect(temp' = temp \ {res}, UNCHANGED temp)
          /\ stuck' = IF pc = "sudodelete" THEN stuck \cup {res} ELSE stuck
    /\ UNCHANGED <<LocalOn, progVars, clusterVars, fileVars, refused, away>>

\* The workers wait for the orchestrator, the poll for all of them.
Deployed ==
    /\ pc = "judge"
    /\ pc' = CASE ~applied -> "exit"
               [] applied /\ res = Orchestrator -> "nodes"
               [] applied /\ res = Last -> "poll"
               [] OTHER -> "upload"
    /\ res' = IF pc' = "upload" THEN res + 1 ELSE res
    /\ UNCHANGED <<LocalOn, run, cleanup, turn, applied, lines, named, file,
                   clusterVars, tempVars, fileVars, refused, away, failures>>

\* createNetperfReplicationControllers.  kubectl is the first command of a pipe:
\* when it fails there is no error, but no line either.
GetNodes ==
    /\ pc = "nodes"
    /\ \/ Answers("ip") /\ lines' = ready
       \/ Fails("ip") /\ ~Local /\ lines' = FALSE
       \/ Fails("exit") /\ UNCHANGED lines
    /\ UNCHANGED <<LocalOn, run, cleanup, turn, res, applied, named, file,
                   clusterVars, tempVars, fileVars, refused, away>>

\* The second line is used without a look at how many there are.
AfterServiceIP == IF lines THEN "upload" ELSE "panic"

GetServiceIP ==
    /\ pc = "ip"
    /\ \/ Answers(IF OrchestratorService \in exists THEN AfterServiceIP ELSE "exit")
       \/ Fails("exit")
    /\ res' = Orchestrator + 1
    /\ UNCHANGED <<LocalOn, run, cleanup, turn, applied, lines, named, file,
                   clusterVars, tempVars, fileVars, refused, away>>

-----------------------------------------------------------------------------
(* The polls                                                                *)

\* kubectl lists every pod of the namespace; one that is being deleted is still
\* in phase Running.
PodCount == Cardinality({c \in Controllers : live[c] # "absent"})
                + Cardinality({c \in Controllers : ending[c]})
Pending == {c \in Controllers : live[c] = "pending"}

EnoughPods_OneMore == PodCount > workerCount + 1
EnoughPods == PodCount >= workerCount + 1

\* An error leaves an empty output, which is too short.
WaitForServices ==
    /\ pc = "poll"
    /\ \/ EnoughPods /\ Pending = {} /\ Answers("name")
       \/ (~EnoughPods \/ Pending # {}) /\ Answers("poll")
       \/ Fails("poll")
    /\ UNCHANGED <<LocalOn, progVars, clusterVars, tempVars, fileVars, refused, away>>

\* The pods of the orchestrator: the live one, and one that is being deleted.
OrchestratorPods ==
    (IF live[Orchestrator] # "absent" THEN {gen} ELSE {})
        \cup (CASE ~ending[Orchestrator] -> {}
                [] ending[Orchestrator] /\ live[Orchestrator] # "absent" -> {gen - 1}
                [] OTHER -> {gen})

GetPodName ==
    /\ pc = "name"
    /\ \/ /\ Answers(IF OrchestratorPods = {} THEN "name" ELSE "logs")
          /\ named' = OrchestratorPods
       \/ Fails("name") /\ UNCHANGED named
    /\ UNCHANGED <<LocalOn, run, cleanup, turn, res, applied, lines, file,
                   clusterVars, tempVars, fileVars, refused, away>>

\* Two names are no name of a pod, and a pod that is gone has no log.
Reachable(g) ==
    named = {g} /\ g \in OrchestratorPods /\ (g = gen => live[Orchestrator] # "pending")

HasResults_Begun(g) == csv[g] # "none"
HasResults(g) == csv[g] = "whole"

GetCsvResults ==
    /\ pc = "logs"
    /\ \/ Answers(IF \E g \in named : Reachable(g) /\ HasResults(g) THEN "copy" ELSE "logs")
       \/ Fails("logs")
    /\ file' = "result"
    /\ UNCHANGED <<LocalOn, run, cleanup, turn, res, applied, lines, named,
                   clusterVars, tempVars, fileVars, refused, away>>

-----------------------------------------------------------------------------
(* processCsvData                                                           *)

AfterFailedCopy_GoOn == "download"
AfterFailedCopy == "logs"

\* kubectl cp; when the pod is gone it fails.
CopyFromPod ==
    /\ pc = "copy"
    /\ \/ \E g \in named :
              /\ Reachable(g) /\ Answers("download")
              /\ copied' = [copied EXCEPT ![Master][file] = Content(g, csv[g] = "whole")]
       \/ /\ ~(\E g \in named : Reachable(g)) /\ Master \notin away
          /\ Errs(AfterFailedCopy) /\ UNCHANGED <<copied, failures>>
       \/ /\ Fails(AfterFailedCopy)
          /\ \/ UNCHANGED copied
             \/ \E g \in named : copied' = [copied EXCEPT ![Master][file] = Content(g, FALSE)]
    /\ UNCHANGED <<LocalOn, progVars, clusterVars, tempVars, local, refused, away>>

FirstRemoved == OrchestratorService
AfterFetch == IF cleanup THEN "remove" ELSE "done"

\* The local file is created before the transfer.
DownloadFile ==
    /\ pc = "download"
    /\ \/ /\ file = "result" /\ Answers("copy") /\ file' = "output"
          /\ local' = [local EXCEPT ![file] = copied[Master][file]]
       \/ /\ file = "output" /\ Answers(AfterFetch) /\ UNCHANGED file
          /\ local' = [local EXCEPT ![file] = copied[Master][file]]
       \/ /\ Fails("logs") /\ UNCHANGED file
          /\ \/ UNCHANGED local
             \/ local' = [local EXCEPT ![file] = [copied[Master][file] EXCEPT !.whole = FALSE]]
    /\ res' = FirstRemoved
    /\ UNCHANGED <<LocalOn, run, cleanup, turn, applied, lines, named,
                   clusterVars, tempVars, copied, refused, away>>

-----------------------------------------------------------------------------
(* The clean-up                                                             *)

\* kubectl delete wants the type of a resource before its name.
HasType(r) == r # Orchestrator

LastRemoved_OneLess == Last - 1
LastRemoved_OneMore == Last + 1
LastRemoved == Last

\* An error is printed, and the next resource is removed.
RemoveResource ==
    /\ pc = "remove"
    /\ LET next == IF res < LastRemoved THEN "remove" ELSE "done" IN
       \/ /\ HasType(res) /\ res \in exists /\ Answers(next)
          /\ exists' = exists \ {res} /\ UNCHANGED refused
       \/ /\ ~(HasType(res) /\ res \in exists) /\ Master \notin away /\ Errs(next)
          /\ refused' = refused \cup {res} /\ UNCHANGED <<exists, failures>>
       \/ /\ Fails(next) /\ refused' = refused \cup {res}
          /\ Effect(HasType(res) /\ exists' = exists \ {res}, UNCHANGED exists)
    /\ res' = res + 1
    /\ UNCHANGED <<LocalOn, run, cleanup, turn, applied, lines, named, file,
                   live, ending, gen, csv, ready, tempVars, fileVars, away>>

-----------------------------------------------------------------------------
(* The cluster                                                              *)

clusterOnly == <<LocalOn, pc, progVars, tempVars, fileVars, refused, away>>

\* The replication controllers want one pod each.
PodCreated(c) ==
    /\ c \in exists /\ live[c] = "absent"
    /\ live' = [live EXCEPT ![c] = "pending"]
    /\ gen' = IF c = Orchestrator THEN gen + 1 ELSE gen
    /\ UNCHANGED <<clusterOnly, exists, ending, csv, ready, failures>>

\* The workers are pinned to the nodes that were Ready.
PodRuns(c) ==
    /\ live[c] = "pending" /\ (c \in Workers => ready)
    /\ live' = [live EXCEPT ![c] = "running"]
    /\ UNCHANGED <<clusterOnly, exists, ending, gen, csv, ready, failures>>

PodLeaves(c) ==
    /\ live[c] # "absent" /\ ~ending[c]
    /\ live' = [live EXCEPT ![c] = "absent"] /\ ending' = [ending EXCEPT ![c] = TRUE]
    /\ UNCHANGED <<clusterOnly, exists, gen, csv, ready>>

PodEnds(c) == c \notin exists /\ PodLeaves(c) /\ UNCHANGED failures
PodReplaced(c) ==
    c \in exists /\ failures < MaxFaults /\ PodLeaves(c) /\ failures' = failures + 1

PodGone(c) ==
    /\ ending[c]
    /\ ending' = [ending EXCEPT ![c] = FALSE]
    /\ UNCHANGED <<clusterOnly, exists, live, gen, csv, ready, failures>>

\* The orchestrator measures once, when its service and all workers are there,
\* and writes the files before it ends its log with the marker.
Measures ==
    /\ live[Orchestrator] = "running"
    /\ \/ /\ csv[gen] = "none" /\ OrchestratorService \in exists
          /\ \A c \in Workers : live[c] = "running"
          /\ csv' = [csv EXCEPT ![gen] = "begun"]
       \/ /\ csv[gen] = "begun"
          /\ csv' = [csv EXCEPT ![gen] = "whole"]
    /\ UNCHANGED <<clusterOnly, exists, live, ending, gen, ready, failures>>

NodeLost ==
    /\ ready /\ failures < MaxFaults
    /\ ready' = FALSE /\ failures' = failures + 1
    /\ UNCHANGED <<clusterOnly, exists, live, ending, gen, csv>>

\* Of the masters not picked, an error of hostname in Access says the same.
MasterGoes ==
    /\ pc \notin Over \cup {"idle", "access"} /\ ~Local /\ Master \notin away
    /\ failures < MaxFaults
    /\ away' = away \cup {Master} /\ failures' = failures + 1
    /\ UNCHANGED <<LocalOn, pc, progVars, clusterVars, tempVars, fileVars, refused>>

-----------------------------------------------------------------------------

Program ==
    \/ Access \/ CheckPreconditions
    \/ UploadFile \/ Apply \/ DeleteRemoteFile \/ Deployed \/ GetNodes \/ GetServiceIP
    \/ WaitForServices \/ GetPodName \/ GetCsvResults
    \/ CopyFromPod \/ DownloadFile \/ RemoveResource

Follows(c) == PodCreated(c) \/ PodRuns(c) \/ PodEnds(c) \/ PodGone(c)

Disturbed ==
    \/ NodeLost \/ MasterGoes
    \/ \E c \in Controllers : PodReplaced(c)

Ended == pc \in Over /\ run = MaxRuns /\ UNCHANGED vars

Next == Start \/ Program \/ Measures \/ (\E c \in Controllers : Follows(c))
            \/ Disturbed \/ Ended

\* The calls of the program return (SSHExecutor!CallReturns), the cluster does
\* what it is asked for, and the orchestrator measures when it can.
Spec == Init /\ [][Next]_vars
FairSpec ==
    /\ Spec /\ WF_vars(Program) /\ WF_vars(Measures)
    /\ \A c \in Controllers : WF_vars(Follows(c))

-----------------------------------------------------------------------------
(* Properties                                                               *)

PCs == {"idle", "access", "check", "upload", "apply", "delete", "sudodelete", "judge",
        "nodes", "ip", "poll", "name", "logs", "copy", "download", "remove"} \cup Over
Contents == [of : 0 .. MaxGen, whole : BOOLEAN]

ProgTypes ==
    /\ LocalOn \in Locals /\ pc \in PCs
    /\ run \in 0 .. MaxRuns /\ cleanup \in BOOLEAN
    /\ turn \in 1 .. Len(Masters) + 1 /\ res \in 1 .. Last + 1
    /\ applied \in BOOLEAN /\ lines \in BOOLEAN
    /\ named \subseteq 1 .. MaxGen /\ file \in Files
    /\ temp \subseteq Resources /\ stuck \subseteq Resources /\ refused \subseteq Resources
    /\ copied \in [MasterSet -> [Files -> Contents]] /\ local \in [Files -> Contents]
    /\ away \subseteq MasterSet /\ failures \in 0 .. MaxFaults

ClusterTypes ==
    /\ exists \subseteq Resources /\ ready \in BOOLEAN
    /\ live \in [Controllers -> {"absent", "pending", "running"}]
    /\ ending \in [Controllers -> BOOLEAN]
    /\ gen \in 0 .. MaxGen /\ csv \in [1 .. MaxGen -> {"none", "begun", "whole"}]

\* The variables keep their types; the loops over masters and resources stop.
TypeOK == ProgTypes /\ ClusterTypes

\* "DONE" says that the output directory has both files of results, complete
\* and of one and the same pod, which had finished its measurements: whatever
\* was left there or on the master by earlier runs and by fetches that failed
\* halfway, and although pods are replaced while they are asked.
ResultsWhole ==
    pc = "done" => \E g \in 1 .. gen :
        csv[g] = "whole" /\ \A f \in Files : local[f] = Content(g, TRUE)

\* A definition stays on a master only when its upload or its second deletion
\* has failed.
TempFilesDeleted ==
    \A r \in temp \ stuck : r = res /\ pc \in {"apply", "delete", "sudodelete"}

\* The files of results stay in /tmp on the master, with --cleanup or without.
ResultsLeft == pc = "done" => copied[Master] = local

\* Without --cleanup a run that is done leaves all it created; with it the
\* namespace, which nothing removes, and what kubectl did not remove without an
\* error, also when other removals failed.  A run that exits or panics removes
\* nothing: all it had deployed, up to the last resource, stays.
ResourcesLeft ==
    /\ pc = "done" /\ ~cleanup => exists = Resources
    /\ pc = "done" /\ cleanup => Namespace \in exists /\ exists \ {Namespace} \subseteq refused
    /\ pc \in {"exit", "panic"} => 1 .. res - 1 \subseteq exists

\* What a run leaves behind, whichever way it ends and whatever fails.
LeftBehind == TempFilesDeleted /\ ResultsLeft /\ ResourcesLeft

\* Every run ends, unless the master it has picked goes away, the workers'
\* nodes are not Ready, or the pod whose name it has read is gone or not the
\* only one: these polls have no bound.
MasterGone == turn <= Len(Masters) /\ Masters[turn] \in away
RunsEnd ==
    \/ []<>(pc \in Over \cup {"idle"})
    \/ <>[](MasterGone \/ ~ready)
    \/ <>[](pc = "logs" /\ \A g \in named : ~Reachable(g))

-----------------------------------------------------------------------------
(* What the flags say                                                       *)

\* cmd/netperf.go, of --cleanup: "Delete test pods when done".  When nothing has
\* failed, no controller is left that would keep or replace a pod.
TestPodsDeleted ==
    pc = "done" /\ cleanup /\ failures = 0 => exists \cap Controllers = {}
=============================================================================
