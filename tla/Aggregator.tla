----------------------------- MODULE Aggregator -----------------------------
(***************************************************************************)
(* The aggregator of the scale test (resources/scaletest/aggregator) with  *)
(* the loadbots it asks (resources/scaletest/vegeta-server).  For each     *)
(* scenario it scales two replication controllers, waits until their pods  *)
(* run, lists the loadbots once, and fetches from all of them at the same  *)
(* time, again and again: one goroutine for each pod, which appends what   *)
(* it got to a slice under a lock and reports to a wait group.             *)
(*                                                                         *)
(* The environment is the cluster, which creates, starts, ends and loses   *)
(* pods, and the loadbots, which publish metrics from the end of their     *)
(* first attack on.                                                        *)
(***************************************************************************)
EXTENDS Integers, Sequences, FiniteSets

CONSTANTS
    Loadbots,       \* names of loadbot pods
    Webservers,     \* names of webserver pods
    Scenarios,      \* the scenarios: percentages of MaxReplicas, 1 for one pod
    MaxReplicas,    \* the flag max-replicas
    Iterations,     \* iterations: successful fetches wanted for a scenario
    Attempts,       \* attempts: so many fetches are tried for each one wanted
    MaxDeaths,      \* bound: pods the cluster loses
    Faults          \* subset of AllFaults

App == {"loadbots", "webserver"}
AllFaults == {"update",  \* reading or updating a replication controller fails
              "list",    \* listing pods fails
              "get",     \* a request to a loadbot that runs fails
              "silence"} \* ... or is never answered, nor refused

ASSUME AggregatorAssumption ==
    /\ IsFiniteSet(Loadbots) /\ IsFiniteSet(Webservers)
    /\ Loadbots \cap Webservers = {}
    /\ Scenarios \in Seq([App -> 1 .. 100])
    /\ MaxReplicas \in Nat /\ Iterations \in Nat \ {0} /\ Attempts \in Nat
    /\ MaxDeaths \in Nat /\ Faults \subseteq AllFaults

VARIABLES
    pc,         \* where main stands
    s,          \* the scenario; 0: the preflight checks
    targets,    \* currentLoadbots and currentWebservers
    seen,       \* the first of the two lists of a poll: loadbots, running ones
    loadbots,   \* the loadbots listed for the scenario
    i,          \* fetches so far, from 1
    successes,  \* successfullIterations
    parts,      \* measurements of the scenario
    summary,    \* for each scenario done, how many measurements it is made of
    go,         \* the goroutines of fetchResults
    answer,     \* what the pod of a goroutine answered
    mine,       \* the slice a goroutine read before it appends to it
    lock,       \* the goroutine in the critical section, if any
    fetched,    \* parts of fetchResults
    wg,         \* goroutines the wait group still counts
    desired,    \* Spec.Replicas of the replication controllers
    pod,        \* state of the pods
    attacked,   \* loadbots that have finished an attack
    deaths      \* bound counter: pods lost

mainVars == <<s, targets, seen, loadbots, i, successes, parts, summary>>
goVars == <<go, answer, mine, lock, fetched, wg>>
clusterVars == <<desired, pod, attacked, deaths>>
vars == <<pc, mainVars, goVars, clusterVars>>

Pods == Loadbots \cup Webservers
PodsOf == [loadbots |-> Loadbots, webserver |-> Webservers]

\* A pod that is being deleted stays in phase Running until it is gone.
Exists(a) == {p \in PodsOf[a] : pod[p] # "absent"}
Active(a) == {p \in PodsOf[a] : pod[p] \in {"pending", "running"}}
Running(a) == {p \in PodsOf[a] : pod[p] \in {"running", "ending"}}

Init ==
    /\ pc = "poll" /\ s = 0 /\ targets = [a \in App |-> 1]
    /\ seen = [all |-> 0, running |-> 0] /\ loadbots = {}
    /\ i = 1 /\ successes = 0 /\ parts = <<>> /\ summary = <<>>
    /\ go = [p \in Loadbots |-> "done"] /\ answer = [p \in Loadbots |-> "none"]
    /\ mine = [p \in Loadbots |-> <<>>] /\ lock = {} /\ fetched = <<>> /\ wg = {}
    /\ desired = [a \in App |-> 1] /\ pod = [p \in Pods |-> "absent"]
    /\ attacked = {} /\ deaths = 0

-----------------------------------------------------------------------------
(* runScaleTest up to the fetches                                           *)

\* scaleReplicationController: an error is logged and forgotten by the callers.
ScaleReplicationController(a, n) ==
    \/ desired' = [desired EXCEPT ![a] = n]
    \/ "update" \in Faults /\ UNCHANGED desired

Replicas(a) == (Scenarios[s][a] * MaxReplicas) \div 100

\* A scenario of one pod relies on there being one and scales nothing.
Scale(a, from, to) ==
    /\ pc = from
    /\ pc' = to
    /\ \/ /\ Scenarios[s][a] = 1
          /\ targets' = [targets EXCEPT ![a] = 1] /\ UNCHANGED desired
       \/ /\ Scenarios[s][a] # 1 /\ targets[a] # Replicas(a)
          /\ targets' = [targets EXCEPT ![a] = Replicas(a)]
          /\ ScaleReplicationController(a, Replicas(a))
       \/ /\ Scenarios[s][a] # 1 /\ targets[a] = Replicas(a)
          /\ UNCHANGED <<targets, desired>>
    /\ UNCHANGED <<s, seen, loadbots, i, successes, parts, summary, goVars,
                   pod, attacked, deaths>>

ScaleLoadbots   == Scale("loadbots", "scale", "scale2")
ScaleWebservers == Scale("webserver", "scale2", "poll")

ListLoadbots ==
    /\ pc = "poll"
    /\ pc' = "poll2"
    /\ \/ seen' = [all     |-> Cardinality(Exists("loadbots")),
                   running |-> Cardinality(Running("loadbots"))]
       \/ "list" \in Faults /\ seen' = [all |-> 0, running |-> 0]
    /\ UNCHANGED <<s, targets, loadbots, i, successes, parts, summary, goVars,
                   clusterVars>>

\* The flag is set while counting running pods: no pod never is enough.
Reached_One(n, target) == n > 0
Reached_More(n, target) == n > target
Reached(n, target) == n > 0 /\ n >= target

\* The second list, and the decision: poll again, or go on to the scenario
\* (after the preflight checks to the first one).
AfterPoll(all, running) ==
    IF /\ seen.all + all >= targets["loadbots"] + targets["webserver"]
       /\ Reached(seen.running, targets["loadbots"])
       /\ Reached(running, targets["webserver"])
    THEN pc' = (IF s = 0 THEN "next" ELSE "list") ELSE pc' = "poll"

ListWebservers ==
    /\ pc = "poll2"
    /\ \/ AfterPoll(Cardinality(Exists("webserver")), Cardinality(Running("webserver")))
       \/ "list" \in Faults /\ AfterPoll(0, 0)
    /\ UNCHANGED <<mainVars, goVars, clusterVars>>

\* getPods, once for all fetches of the scenario; after an error there are none.
KeptParts_All == parts
KeptParts == <<>>

GetPods ==
    /\ pc = "list"
    /\ pc' = "fetch" /\ i' = 1 /\ successes' = 0 /\ parts' = KeptParts
    /\ loadbots' = Running("loadbots") \/ ("list" \in Faults /\ loadbots' = {})
    /\ UNCHANGED <<s, targets, seen, summary, goVars, clusterVars>>

-----------------------------------------------------------------------------
(* fetchResults                                                             *)

MoreFetches == i <= Iterations * Attempts

StartFetch ==
    /\ pc = "fetch" /\ MoreFetches
    /\ pc' = "wait" /\ fetched' = <<>> /\ wg' = loadbots
    /\ go' = [p \in Loadbots |-> IF p \in loadbots THEN "get" ELSE "done"]
    /\ answer' = [p \in Loadbots |-> "none"]
    /\ UNCHANGED <<mainVars, mine, lock, clusterVars>>

\* ServeHTTP writes the last published metrics, "null" when there are none.
Answers(p) ==
    (IF pod[p] \in {"running", "ending"}
     THEN {IF p \in attacked THEN "metrics" ELSE "null"} \cup (Faults \cap {"silence"})
     ELSE {})
        \cup (IF pod[p] # "running" \/ "get" \in Faults THEN {"error"} ELSE {})

\* json.Unmarshal takes "null" for metrics that are all zero.  http.Get has no
\* timeout: a pod that is lost while it is asked is waited for.
Get(p) ==
    /\ go[p] = "get"
    /\ \E r \in Answers(p) :
           /\ answer' = [answer EXCEPT ![p] = r]
           /\ go' = [go EXCEPT ![p] = CASE r = "error" -> "leaving"
                                        [] r = "silence" -> "hung"
                                        [] OTHER -> "got"]
    /\ UNCHANGED <<pc, mainVars, mine, lock, fetched, wg, clusterVars>>

CanLock_Always(p) == TRUE
CanLock(p) == lock = {}

\* lock.Lock(), then append reads the slice ...
Lock(p) ==
    /\ go[p] = "got" /\ CanLock(p)
    /\ go' = [go EXCEPT ![p] = "locked"] /\ lock' = lock \cup {p}
    /\ mine' = [mine EXCEPT ![p] = fetched]
    /\ UNCHANGED <<pc, mainVars, answer, fetched, wg, clusterVars>>

\* ... and stores the longer one; the deferred calls run in reverse order, so
\* that the lock is released before the wait group is told.
Store(p) ==
    /\ go[p] = "locked"
    /\ go' = [go EXCEPT ![p] = "leaving"] /\ lock' = lock \ {p}
    /\ fetched' = Append(mine[p], [pod |-> p, what |-> answer[p], scenario |-> s])
    /\ UNCHANGED <<pc, mainVars, answer, mine, wg, clusterVars>>

Done(p) ==
    /\ go[p] = "leaving"
    /\ go' = [go EXCEPT ![p] = "done"] /\ wg' = wg \ {p}
    /\ UNCHANGED <<pc, mainVars, answer, mine, lock, fetched, clusterVars>>

Goroutine(p) == Get(p) \/ Lock(p) \/ Store(p) \/ Done(p)

WaitGroupWait ==
    /\ pc = "wait" /\ wg = {}
    /\ pc' = "count"
    /\ UNCHANGED <<mainVars, goVars, clusterVars>>

-----------------------------------------------------------------------------
(* runScaleTest after a fetch, and the end of main                          *)

EnoughFetches_OneMore == successes' > Iterations
EnoughFetches == successes' >= Iterations

Count ==
    /\ pc = "count"
    /\ parts' = parts \o fetched
    /\ successes' = IF fetched = <<>> THEN successes ELSE successes + 1
    /\ \/ EnoughFetches /\ pc' = "judge" /\ UNCHANGED i
       \/ ~EnoughFetches /\ pc' = "fetch" /\ i' = i + 1
    /\ UNCHANGED <<s, targets, seen, loadbots, summary, goVars, clusterVars>>

OutOfFetches ==
    /\ pc = "fetch" /\ ~MoreFetches
    /\ pc' = "judge"
    /\ UNCHANGED <<mainVars, goVars, clusterVars>>

\* The test is on the measurements, of which one fetch may give several.
Sufficient == Len(parts) >= Iterations

Judge ==
    /\ pc = "judge"
    /\ \/ Sufficient /\ summary' = Append(summary, Len(parts)) /\ pc' = "next"
       \/ ~Sufficient /\ pc' = "panic" /\ UNCHANGED summary
    /\ UNCHANGED <<s, targets, seen, loadbots, i, successes, parts, goVars,
                   clusterVars>>

\* The list of loadbots is local to the iteration of the loop.
NextScenario ==
    /\ pc = "next" /\ loadbots' = {}
    /\ \/ s < Len(Scenarios) /\ s' = s + 1 /\ pc' = "scale"
       \/ s = Len(Scenarios) /\ pc' = "down" /\ UNCHANGED s
    /\ UNCHANGED <<targets, seen, i, successes, parts, summary, goVars,
                   clusterVars>>

ScaleDown(a, from, to) ==
    /\ pc = from
    /\ pc' = to
    /\ ScaleReplicationController(a, 0)
    /\ UNCHANGED <<mainVars, goVars, pod, attacked, deaths>>

\* After showSummary; main then waits for a signal.
ScaleDownLoadbots   == ScaleDown("loadbots", "down", "down2")
ScaleDownWebservers == ScaleDown("webserver", "down2", "end")

Main ==
    \/ ScaleLoadbots \/ ScaleWebservers \/ ListLoadbots \/ ListWebservers
    \/ GetPods \/ StartFetch \/ WaitGroupWait \/ Count \/ OutOfFetches
    \/ Judge \/ NextScenario \/ ScaleDownLoadbots \/ ScaleDownWebservers

\* The program may end, or wait for an answer that does not come.
Hung == \E p \in Loadbots : go[p] = "hung"
Ended == (pc \in {"end", "panic"} \/ Hung) /\ UNCHANGED vars

-----------------------------------------------------------------------------
(* The cluster                                                              *)

PodChanges(p, from, to) ==
    /\ pod[p] = from
    /\ pod' = [pod EXCEPT ![p] = to]
    /\ UNCHANGED <<pc, mainVars, goVars, desired>>

\* A new pod has a name and an address that the aggregator does not know yet.
PodCreated(a, p) ==
    /\ p \in PodsOf[a] /\ p \notin loadbots
    /\ Cardinality(Active(a)) < desired[a]
    /\ PodChanges(p, "absent", "pending") /\ attacked' = attacked \ {p}
    /\ UNCHANGED deaths

PodRuns(p) == PodChanges(p, "pending", "running") /\ UNCHANGED <<attacked, deaths>>

PodEnds(a, p) ==
    /\ p \in PodsOf[a] /\ Cardinality(Active(a)) > desired[a]
    /\ PodChanges(p, "running", "ending") /\ UNCHANGED <<attacked, deaths>>

PodGone(p) == PodChanges(p, "ending", "absent") /\ UNCHANGED <<attacked, deaths>>

PodDies(p) ==
    /\ deaths < MaxDeaths /\ deaths' = deaths + 1
    /\ PodChanges(p, "running", "absent") /\ UNCHANGED attacked

\* The attack loop of a loadbot: the metrics are published when they are closed.
Published(p) == pod[p] = "running"

AttackEnds(p) ==
    /\ Published(p) /\ p \notin attacked
    /\ attacked' = attacked \cup {p}
    /\ UNCHANGED <<pc, mainVars, goVars, desired, pod, deaths>>

Cluster ==
    \/ \E a \in App, p \in Pods : PodCreated(a, p) \/ PodEnds(a, p)
    \/ \E p \in Pods : PodRuns(p) \/ PodGone(p)
    \/ \E p \in Loadbots : AttackEnds(p)

Next ==
    \/ Main \/ (\E p \in Loadbots : Goroutine(p)) \/ Cluster
    \/ (\E p \in Pods : PodDies(p)) \/ Ended

Spec == Init /\ [][Next]_vars

\* The Go scheduler runs every goroutine that does not wait for an answer, the
\* lists do not fail for ever, and the cluster brings its pods to the number
\* that is asked for.
FairSpec ==
    /\ Spec /\ WF_vars(Main)
    /\ SF_vars(ListLoadbots /\ seen'.all > 0) /\ SF_vars(ListWebservers /\ pc' # "poll")
    /\ \A p \in Loadbots : WF_vars(Goroutine(p))
    /\ \A a \in App : WF_vars(\E p \in Pods : PodCreated(a, p))
    /\ \A p \in Pods : WF_vars(PodRuns(p)) /\ WF_vars(PodGone(p))
    /\ \A a \in App : WF_vars(\E p \in Pods : PodEnds(a, p))

-----------------------------------------------------------------------------
(* Properties                                                               *)

Measurement == [pod : Loadbots, what : {"metrics", "null"}, scenario : 1 .. Len(Scenarios)]

\* The variables keep their types.
TypeOK ==
    /\ pc \in {"poll", "poll2", "next", "scale", "scale2", "list", "fetch", "wait",
               "count", "judge", "down", "down2", "end", "panic"}
    /\ s \in 0 .. Len(Scenarios) /\ targets \in [App -> Nat]
    /\ seen \in [all : Nat, running : Nat] /\ loadbots \subseteq Loadbots
    /\ i \in Nat /\ successes \in Nat /\ successes <= Iterations
    /\ parts \in Seq(Measurement) /\ summary \in Seq(Nat)
    /\ go \in [Loadbots -> {"get", "hung", "got", "locked", "leaving", "done"}]
    /\ answer \in [Loadbots -> {"none", "metrics", "null", "error", "silence"}]
    /\ mine \in [Loadbots -> Seq(Measurement)] /\ lock \subseteq Loadbots
    /\ fetched \in Seq(Measurement) /\ wg \subseteq Loadbots
    /\ desired \in [App -> Nat] /\ attacked \subseteq Loadbots /\ deaths \in Nat
    /\ pod \in [Pods -> {"absent", "pending", "running", "ending"}]

Answered == {p \in loadbots : answer[p] \in {"metrics", "null"}}

\* When fetchResults returns, its slice has the answer of every loadbot that
\* gave one, once: no append of one goroutine overwrites that of another, and
\* none comes after the wait group has let main go on.
EveryAnswerOnce ==
    pc = "count" =>
        /\ \A p \in Answered : \E k \in 1 .. Len(fetched) : fetched[k].pod = p
        /\ \A k \in 1 .. Len(fetched) : fetched[k].pod \in Answered
        /\ \A k, l \in 1 .. Len(fetched) : fetched[k].pod = fetched[l].pod => k = l

\* A scenario is summed up from measurements made in it, at least one for each
\* fetch that succeeded; an entry of the summary stands for Iterations of them
\* or more, however many fetches failed.
OwnMeasurements ==
    /\ \A k \in 1 .. Len(summary) : summary[k] >= Iterations
    /\ pc \in {"fetch", "wait", "count", "judge"} =>
           /\ Len(parts) >= successes
           /\ \A k \in 1 .. Len(parts) : parts[k].scenario = s

\* The pods that scenario k is to run with; those of the preflight checks.
Size(k, a) ==
    IF k = 0 \/ Scenarios[k][a] = 1 THEN 1 ELSE (Scenarios[k][a] * MaxReplicas) \div 100

\* The scenarios never scale down, as those of the program with max-replicas
\* from 10 on.
Growing == \A k \in 1 .. Len(Scenarios), a \in App : Size(k - 1, a) <= Size(k, a)

\* No scenario is measured below its size, though errors of the scaling are
\* dropped and the two lists of a poll are of different moments: the fetches
\* start only when that many replicas are asked for and, unless the cluster has
\* lost a pod, that many pods run.  Between scenarios that scale down and up
\* again this fails: a poll takes pods that are being deleted for running ones.
MeasuredAtSize ==
    Growing /\ pc \in {"list", "fetch", "wait", "count", "judge"} =>
        \A a \in App :
            /\ targets[a] <= desired[a]
            /\ deaths = 0 => targets[a] <= Cardinality(Running(a))

\* With a cluster that follows, the aggregator comes to its end: every poll and
\* every fetch ends, also when pods are lost on the way.  Only a scaling that
\* has failed, with its error dropped, can keep a poll waiting for ever, and
\* only a request that is never answered keeps the wait group.
Ends ==
    \/ <>(pc \in {"end", "panic"} \/ Hung)
    \/ <>[](\E a \in App : desired[a] < targets[a])
=============================================================================
