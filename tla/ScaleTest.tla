----------------------------- MODULE ScaleTest -----------------------------
(***************************************************************************)
(* The scale test that kubespector drives itself (pkg/scale.go): it        *)
(* creates a namespace, a service and two replication controllers with     *)
(* kubectl on a master, then for each scenario scales them, polls until    *)
(* the pods run, and has a script on the master fetch the metrics of all   *)
(* loadbots.  The run ends in showSummary.                                 *)
(*                                                                         *)
(* Every call is a command run over ssh, which may fail with or without    *)
(* its effect (module RemoteCall).  The environment is the cluster, where  *)
(* only the number of pods in each state matters.  GetPods, which only     *)
(* displays what it gets, and the arithmetic of evaluateData are left out. *)
(***************************************************************************)
EXTENDS Integers, Sequences, FiniteSets

CONSTANTS
    Scenarios,      \* the scenarios: percentages of MaxReplicas, 1 for one pod
    MaxReplicas,    \* the flag max-replicas
    Leftovers,      \* how many replicas an earlier run may have left, 0: none
    Faults          \* subset of AllFaults

App == {"loadbots", "webserver"}
AllFaults == {"setup",  \* a step before the first scenario fails
              "scale",  \* kubectl scale fails
              "get",    \* kubectl get fails
              "run",    \* the script cannot be run
              "curl"}   \* a loadbot that runs gives the script no answer

\* The program rejects a MaxReplicas of 1.
ASSUME ScaleTestAssumption ==
    /\ Scenarios \in Seq([App -> 1 .. 100]) /\ Scenarios # <<>>
    /\ MaxReplicas \in Nat \ {0, 1}
    /\ Leftovers \subseteq Nat /\ Faults \subseteq AllFaults

VARIABLES
    pc,         \* where the program stands
    s,          \* the scenario
    targets,    \* currentLoadbots and currentWebservers
    attempts,   \* attempts of runScaleTest
    tries,      \* attempts of the loop of fetchResults that is running
    listed,     \* how many loadbot addresses the script is given
    lost,       \* one of the pods of these addresses has gone since
    outcome,    \* what fetchResults returned
    summary,    \* for each scenario done, the addresses that were measured
    fresh,      \* history: no earlier run has left anything
    rcs,        \* replication controllers that exist
    desired,    \* their replicas
    pods        \* for each of them, how many pods are in which state

progVars == <<s, targets, attempts, tries, listed, lost, outcome, summary>>
clusterVars == <<rcs, desired, pods>>
vars == <<pc, progVars, fresh, clusterVars>>

Init ==
    /\ pc = "check" /\ s = 1 /\ targets = [a \in App |-> 0]
    /\ attempts = 0 /\ tries = 0 /\ listed = 0 /\ lost = FALSE
    /\ outcome = "error" /\ summary = <<>>
    /\ \E n \in Leftovers :
           /\ fresh = (n = 0) /\ rcs = IF n > 0 THEN App ELSE {}
           /\ desired = [a \in App |-> n]
           /\ pods = [a \in App |-> [pending |-> 0, running |-> n, ending |-> 0]]

-----------------------------------------------------------------------------
(* Setting up                                                               *)

\* PrintCritical ends the program where an error is not tolerated.
SetUp(from, to) ==
    /\ pc = from
    /\ pc' = to \/ ("setup" \in Faults /\ pc' = "exit")
    /\ UNCHANGED <<fresh, progVars, clusterVars>>

CheckPreconditions == SetUp("check", "deploy")
DeployScript       == SetUp("deploy", "namespace")
CreateNamespace    == SetUp("namespace", "service")
CreateService      == SetUp("service", "web")

\* kubectl apply: the template says one replica, also when the controller was
\* there already.
Apply(a) == rcs' = rcs \cup {a} /\ desired' = [desired EXCEPT ![a] = 1]

CreateReplicationController(a, from, to) ==
    /\ pc = from
    /\ \/ Apply(a) /\ pc' = to
       \/ /\ "setup" \in Faults /\ pc' = "exit"
          /\ Apply(a) \/ UNCHANGED <<rcs, desired>>
    /\ UNCHANGED <<fresh, progVars, pods>>

CreateWebserver == CreateReplicationController("webserver", "web", "load")
CreateLoadbots  == CreateReplicationController("loadbots", "load", "scale")

-----------------------------------------------------------------------------
(* runScaleTest: scaling and waiting                                        *)

Replicas(a) == (Scenarios[s][a] * MaxReplicas) \div 100

\* The error of kubectl scale is dropped; it may have had its effect or not.
ScaleReplicationController(a, n) ==
    \/ desired' = [desired EXCEPT ![a] = n]
    \/ "scale" \in Faults /\ UNCHANGED desired

Scale(a, from, to) ==
    /\ pc = from
    /\ pc' = to
    /\ \/ /\ Scenarios[s][a] = 1
          /\ targets' = [targets EXCEPT ![a] = 1] /\ UNCHANGED desired
       \/ /\ Scenarios[s][a] # 1 /\ targets[a] # Replicas(a)
          /\ targets' = [targets EXCEPT ![a] = Replicas(a)]
          /\ ScaleReplicationController(a, Replicas(a))
       \/ /\ Scenarios[s][a] # 1 /\ targets[a] = Replicas(a)
          /\ UNCHANGED <<targets, desired>>
    /\ UNCHANGED <<fresh, s, attempts, tries, listed, lost, outcome, summary, rcs, pods>>

ScaleLoadbots   == Scale("loadbots", "scale", "scale2")
ScaleWebservers == Scale("webserver", "scale2", "poll")

\* kubectl lists the pods of both controllers; those that are being deleted
\* are still in phase Running.
InState(a, st) == pods[a][st]
Up(a) == InState(a, "running") + InState(a, "ending")
Pending == InState("loadbots", "pending") + InState("webserver", "pending")
AllPods == Up("loadbots") + Up("webserver") + Pending

\* An empty output is split into one empty line, which is no "Running".
AllRunning_Ignored == TRUE
AllRunning == Pending = 0

EnoughPods == AllPods > 0 /\ AllPods >= targets["loadbots"] + targets["webserver"]

WaitForPods ==
    /\ pc = "poll"
    /\ \/ EnoughPods /\ AllRunning /\ pc' = "ips"
       \/ /\ ~(EnoughPods /\ AllRunning) \/ "get" \in Faults
          /\ UNCHANGED pc
    /\ attempts' = 0 /\ tries' = 0
    /\ UNCHANGED <<fresh, s, targets, listed, lost, outcome, summary, clusterVars>>

-----------------------------------------------------------------------------
(* runScaleTest: fetching                                                   *)

MaxTries == 3

MoreTries_OneMore == tries + 1 <= MaxTries
MoreTries == tries + 1 < MaxTries

Returns(o) == outcome' = o /\ pc' = "judge"

\* getLoadbotPodIPs, up to MaxTries times.
GetIPs ==
    /\ pc = "ips"
    /\ listed' = Up("loadbots") /\ lost' = FALSE
    /\ pc' = "run" /\ tries' = 0
    /\ UNCHANGED <<fresh, s, targets, attempts, outcome, summary, clusterVars>>

GetIPsFails ==
    /\ pc = "ips" /\ "get" \in Faults
    /\ \/ MoreTries /\ tries' = tries + 1 /\ UNCHANGED <<pc, outcome>>
       \/ ~MoreTries /\ Returns("error") /\ UNCHANGED tries
    /\ UNCHANGED <<fresh, s, targets, attempts, listed, lost, summary, clusterVars>>

\* The script writes what each address answers into one JSON list; an address
\* that gives no answer makes the list unreadable, as does an empty address.
Readable == listed > 0 /\ ~lost

RunScript ==
    /\ pc = "run"
    /\ \/ Readable /\ Returns("metrics")
       \/ (~Readable \/ "curl" \in Faults) /\ Returns("error")
    /\ UNCHANGED <<fresh, s, targets, attempts, tries, listed, lost, summary, clusterVars>>

\* After MaxTries errors fetchResults returns no metrics, and no error either:
\* its err is that of the addresses.
RunScriptFails ==
    /\ pc = "run" /\ "run" \in Faults
    /\ \/ MoreTries /\ tries' = tries + 1 /\ UNCHANGED <<pc, outcome>>
       \/ ~MoreTries /\ Returns("nothing") /\ UNCHANGED tries
    /\ UNCHANGED <<fresh, s, targets, attempts, listed, lost, summary, clusterVars>>

\* evaluateData divides by the number of metrics.
Usable_NoError == outcome # "error"
Usable == outcome = "metrics"

Evaluate ==
    /\ pc = "judge" /\ Usable
    /\ summary' = Append(summary, IF outcome = "metrics" THEN listed ELSE 0)
    /\ \/ s < Len(Scenarios) /\ s' = s + 1 /\ pc' = "scale"
       \/ s = Len(Scenarios) /\ pc' = "summary" /\ UNCHANGED s
    /\ UNCHANGED <<fresh, targets, attempts, tries, listed, lost, outcome, clusterVars>>

NextAttempt_Free == attempts
NextAttempt == attempts + 1

FetchAgain ==
    /\ pc = "judge" /\ ~Usable
    /\ attempts' = NextAttempt /\ tries' = 0
    /\ pc' = IF attempts' < MaxTries THEN "ips" ELSE "exit"
    /\ UNCHANGED <<fresh, s, targets, listed, lost, outcome, summary, clusterVars>>

\* showSummary reads the options of the logs command, which are nil here: the
\* program panics, and what ScaleTest does afterwards is never done.
ShowSummary ==
    /\ pc = "summary"
    /\ pc' = "panic"
    /\ UNCHANGED <<fresh, progVars, clusterVars>>

Program ==
    \/ CheckPreconditions \/ DeployScript \/ CreateNamespace \/ CreateService
    \/ CreateWebserver \/ CreateLoadbots \/ ScaleLoadbots \/ ScaleWebservers
    \/ WaitForPods \/ GetIPs \/ GetIPsFails \/ RunScript \/ RunScriptFails
    \/ Evaluate \/ FetchAgain \/ ShowSummary

Ended == pc \in {"exit", "panic"} /\ UNCHANGED vars

-----------------------------------------------------------------------------
(* The cluster                                                              *)

Active(a) == InState(a, "pending") + InState(a, "running")

PodCreated(a) ==
    /\ a \in rcs /\ Active(a) < desired[a]
    /\ pods' = [pods EXCEPT ![a].pending = @ + 1]
    /\ UNCHANGED <<pc, fresh, progVars, rcs, desired>>

PodRuns(a) ==
    /\ InState(a, "pending") > 0
    /\ pods' = [pods EXCEPT ![a].pending = @ - 1, ![a].running = @ + 1]
    /\ UNCHANGED <<pc, fresh, progVars, rcs, desired>>

PodEnds(a) ==
    /\ InState(a, "running") > 0 /\ Active(a) > desired[a]
    /\ pods' = [pods EXCEPT ![a].running = @ - 1, ![a].ending = @ + 1]
    /\ UNCHANGED <<pc, fresh, progVars, rcs, desired>>

\* Pods do not disappear from an address list that is made afterwards.
PodGone(a) ==
    /\ InState(a, "ending") > 0
    /\ pods' = [pods EXCEPT ![a].ending = @ - 1]
    /\ lost' = (lost \/ (a = "loadbots" /\ pc = "run"))
    /\ UNCHANGED <<pc, fresh, s, targets, attempts, tries, listed, outcome, summary, rcs,
                   desired>>

Cluster == \E a \in App : PodCreated(a) \/ PodRuns(a) \/ PodEnds(a) \/ PodGone(a)

Next == Program \/ Cluster \/ Ended

Spec == Init /\ [][Next]_vars

\* The program is sequential and goes on; the cluster brings its pods to the
\* number that is asked for; kubectl get does not fail for ever.
FairSpec ==
    /\ Spec /\ WF_vars(Program) /\ SF_vars(WaitForPods /\ pc' # pc)
    /\ \A a \in App : /\ WF_vars(PodCreated(a)) /\ WF_vars(PodRuns(a))
                      /\ WF_vars(PodEnds(a)) /\ WF_vars(PodGone(a))

-----------------------------------------------------------------------------
(* Properties                                                               *)

\* The variables keep their types, and no loop of attempts passes its bound.
TypeOK ==
    /\ pc \in {"check", "deploy", "namespace", "service", "web", "load", "scale",
               "scale2", "poll", "ips", "run", "judge", "summary", "exit", "panic"}
    /\ s \in 1 .. Len(Scenarios) /\ targets \in [App -> Nat]
    /\ attempts \in 0 .. MaxTries /\ tries \in 0 .. (MaxTries - 1)
    /\ listed \in Nat /\ lost \in BOOLEAN /\ fresh \in BOOLEAN
    /\ summary \in Seq(Nat)
    /\ outcome \in {"metrics", "nothing", "error"}
    /\ rcs \subseteq App /\ desired \in [App -> Nat]
    /\ pods \in [App -> [pending : Nat, running : Nat, ending : Nat]]

\* On a cluster without leftovers no scenario is measured below its size,
\* although the errors of kubectl scale are dropped and the poll counts the
\* pods of both controllers together: the fetches start only when that many
\* replicas of each are asked for and running.
MeasuredAtSize ==
    fresh /\ pc \in {"ips", "run"} =>
        \A a \in App : targets[a] <= desired[a] /\ targets[a] <= Up(a)

\* Every scenario before the current one has been summed up, from the answers
\* of one loadbot at least: none is skipped by a failing fetch, and evaluateData
\* never divides by zero.
NoneSkipped ==
    /\ Len(summary) = IF pc \in {"summary", "panic"} THEN s ELSE s - 1
    /\ \A k \in 1 .. Len(summary) : summary[k] > 0

\* Every poll and every loop of attempts comes to its end on a cluster that
\* follows, also when pods of an earlier run are still there, unless kubectl
\* scale has failed and left fewer replicas than the poll waits for.
Ends ==
    \/ <>(pc \in {"exit", "panic"})
    \/ <>[](\E a \in App : desired[a] < targets[a])
=============================================================================
