-------------------------- MODULE AggregatorProofs --------------------------
(***************************************************************************)
(* Proofs about Aggregator, for any set of loadbots and any scenarios: the *)
(* types, that fetchResults neither loses nor doubles an answer, and that  *)
(* a scenario is summed up from its own measurements.                      *)
(***************************************************************************)
EXTENDS Aggregator, SequenceTheorems, FiniteSetTheorems, TLAPS

\* Where main stands determines what it may rely on: a scenario has been begun,
\* and more fetches are wanted.
MainInv ==
    /\ pc \in {"scale", "scale2", "list", "fetch", "wait", "count", "judge"} => s >= 1
    /\ pc \in {"fetch", "wait", "count"} => successes < Iterations

\* The critical section, and who is still counted by the wait group.  The
\* goroutines live while main waits, and no longer.
LockInv ==
    /\ \A p \in Loadbots : p \in lock <=> go[p] = "locked"
    /\ \A p, q \in lock : p = q
    /\ \A p \in Loadbots : go[p] = "locked" => mine[p] = fetched
    /\ \A p \in Loadbots : go[p] # "done" => pc = "wait" /\ p \in wg

\* Whose answer is in the slice: those that answered and have left the
\* critical section.
Appended(p) == answer[p] \in {"metrics", "null"} /\ go[p] \in {"leaving", "done"}

AnswerInv ==
    /\ \A p \in Loadbots : go[p] \in {"got", "locked"} => answer[p] \in {"metrics", "null"}
    /\ \A p \in Loadbots : go[p] = "get" => answer[p] = "none"
    /\ pc \in {"wait", "count"} =>
           /\ \A p \in Loadbots : answer[p] # "none" => p \in loadbots
           /\ \A p \in Loadbots : go[p] = "get" => p \in loadbots
           /\ \A p \in Loadbots :
                  Appended(p) => \E k \in 1 .. Len(fetched) : fetched[k].pod = p
           /\ \A k \in 1 .. Len(fetched) : Appended(fetched[k].pod)
           /\ \A k, l \in 1 .. Len(fetched) : fetched[k].pod = fetched[l].pod => k = l

ScenarioInv ==
    /\ pc \in {"wait", "count"} =>
           \A k \in 1 .. Len(fetched) : fetched[k].scenario = s

-----------------------------------------------------------------------------
(* Types                                                                    *)

\* Percentages of MaxReplicas, rounded down, are numbers of replicas.
LEMMA ReplicasType ==
    ASSUME NEW n \in Nat, NEW m \in Nat PROVE (n * m) \div 100 \in Nat
<1>1. n * m \in Nat
    OBVIOUS
<1>2. \A k \in Nat : k \div 100 \in Nat
    OBVIOUS
<1> QED BY <1>1, <1>2

\* What a poll counts are numbers.
LEMMA PodCounts ==
    ASSUME NEW a \in App
    PROVE Cardinality(Exists(a)) \in Nat /\ Cardinality(Running(a)) \in Nat
<1>1. IsFiniteSet(PodsOf[a])
    BY AggregatorAssumption DEF PodsOf, App
<1>2. Exists(a) \subseteq PodsOf[a] /\ Running(a) \subseteq PodsOf[a]
    BY DEF Exists, Running
<1>3. IsFiniteSet(Exists(a)) /\ IsFiniteSet(Running(a))
    BY <1>1, <1>2, FS_Subset
<1> QED BY <1>3, FS_CardinalityType

\* Reading and appending a measurement.
LEMMA StoreType ==
    ASSUME TypeOK, MainInv, NEW p \in Loadbots, Store(p), pc = "wait",
           answer[p] \in {"metrics", "null"}
    PROVE fetched' \in Seq(Measurement)
<1>1. mine[p] \in Seq(Measurement)
    BY DEF TypeOK
<1>2. s \in 1 .. Len(Scenarios)
    BY AggregatorAssumption DEF TypeOK, MainInv
<1>3. [pod |-> p, what |-> answer[p], scenario |-> s] \in Measurement
    BY <1>2 DEF Measurement
<1> QED BY <1>1, <1>3, AppendProperties DEF Store

-----------------------------------------------------------------------------
(* The inductive invariant                                                  *)

\* The types hold with the places of main and of the goroutines: a goroutine
\* that stores its measurement does so in a scenario, and has an answer.
Inv == TypeOK /\ MainInv /\ LockInv /\ AnswerInv /\ ScenarioInv

LEMMA InitInv == Init => Inv
    BY AggregatorAssumption DEF Init, Inv, TypeOK, MainInv, LockInv, AnswerInv, ScenarioInv,
       App, Pods

\* Steps of main that leave the goroutines alone.
LEMMA TypesOfMain ==
    ASSUME Inv, Main PROVE TypeOK' /\ MainInv'
<1> USE AggregatorAssumption
<1>0. TypeOK /\ MainInv
    BY DEF Inv
<1>1. CASE ScaleLoadbots \/ ScaleWebservers
    <2>1. s \in 1 .. Len(Scenarios)
        BY <1>1, <1>0 DEF ScaleLoadbots, ScaleWebservers, Scale, TypeOK, MainInv
    <2>2. \A a \in App : Scenarios[s][a] \in Nat
        <3>1. Scenarios \in Seq([App -> 1 .. 100])
            OBVIOUS
        <3>2. Scenarios[s] \in [App -> 1 .. 100]
            BY <2>1, <3>1, ElementOfSeq, Zenon
        <3>3. 1 .. 100 \subseteq Nat
            OBVIOUS
        <3> QED BY <3>2, <3>3
    <2>3. \A a \in App : Replicas(a) \in Nat
        BY <2>2, ReplicasType DEF Replicas
    <2>4. targets' \in [App -> Nat] /\ desired' \in [App -> Nat]
        BY <1>1, <2>3, <1>0 DEF ScaleLoadbots, ScaleWebservers, Scale,
           ScaleReplicationController, TypeOK, App
    <2> QED BY <1>1, <2>4, <1>0 DEF ScaleLoadbots, ScaleWebservers, Scale, TypeOK, MainInv,
               goVars
<1>2. CASE ListLoadbots
    <2>1. seen' \in [all : Nat, running : Nat]
        BY <1>2, PodCounts DEF ListLoadbots, App
    <2> QED BY <1>2, <2>1, <1>0 DEF ListLoadbots, TypeOK, MainInv, goVars, clusterVars
<1>3. CASE ListWebservers
    <2>1. pc' \in {"poll", "next", "list"} /\ (pc' = "list" => s # 0)
        BY <1>3 DEF ListWebservers, AfterPoll
    <2> QED BY <1>3, <2>1, <1>0 DEF ListWebservers, TypeOK, MainInv, mainVars, goVars,
               clusterVars
<1>4. CASE GetPods
    BY <1>4, <1>0 DEF GetPods, KeptParts, Running, PodsOf, TypeOK, MainInv, goVars, clusterVars
<1>5. CASE StartFetch
    BY <1>5, <1>0 DEF StartFetch, TypeOK, MainInv, mainVars, clusterVars
<1>6. CASE WaitGroupWait
    BY <1>6, <1>0 DEF WaitGroupWait, TypeOK, MainInv, mainVars, goVars, clusterVars
<1>7. CASE Count
    <2>1. parts' \in Seq(Measurement)
        BY <1>7, <1>0, ConcatProperties DEF Count, TypeOK
    <2>2. /\ successes' \in Nat /\ successes' <= Iterations
          /\ pc' \in {"judge", "fetch"} /\ (pc' = "fetch" => successes' < Iterations)
          /\ i' \in Nat
        BY <1>7, <1>0 DEF Count, EnoughFetches, TypeOK, MainInv
    <2> QED BY <1>7, <2>1, <2>2, <1>0 DEF Count, TypeOK, MainInv, goVars, clusterVars
<1>8. CASE OutOfFetches
    BY <1>8, <1>0 DEF OutOfFetches, TypeOK, MainInv, mainVars, goVars, clusterVars
<1>9. CASE Judge
    <2>1. summary' \in Seq(Nat)
        <3>1. Len(parts) \in Nat
            BY <1>0 DEF TypeOK
        <3>2. summary' = summary \/ summary' = Append(summary, Len(parts))
            BY <1>9 DEF Judge
        <3>3. summary \in Seq(Nat)
            BY <1>0 DEF TypeOK
        <3> QED BY <3>1, <3>2, <3>3, AppendProperties
    <2> QED BY <1>9, <2>1, <1>0 DEF Judge, TypeOK, MainInv, goVars, clusterVars
<1>10. CASE NextScenario
    <2>1. Len(Scenarios) \in Nat
        OBVIOUS
    <2> QED BY <1>10, <2>1, <1>0 DEF NextScenario, TypeOK, MainInv, goVars, clusterVars
<1>11. CASE ScaleDownLoadbots \/ ScaleDownWebservers
    <2>1. desired' \in [App -> Nat]
        <3>1. desired \in [App -> Nat]
            BY <1>0 DEF TypeOK
        <3> QED BY <1>11, <3>1 DEF ScaleDownLoadbots, ScaleDownWebservers, ScaleDown,
                   ScaleReplicationController
    <2>2. pc' \in {"down2", "end"} /\ UNCHANGED <<mainVars, goVars, pod, attacked, deaths>>
        BY <1>11 DEF ScaleDownLoadbots, ScaleDownWebservers, ScaleDown
    <2> QED BY <2>1, <2>2, <1>0 DEF TypeOK, MainInv, mainVars, goVars
<1> QED BY <1>1, <1>2, <1>3, <1>4, <1>5, <1>6, <1>7, <1>8, <1>9, <1>10, <1>11 DEF Main

\* The same steps, and what they mean for the goroutines: there are none but
\* between StartFetch and WaitGroupWait.
LEMMA GoroutinesOfMain ==
    ASSUME Inv, Main PROVE LockInv' /\ AnswerInv' /\ ScenarioInv'
<1>0. TypeOK /\ LockInv /\ AnswerInv /\ ScenarioInv
    BY DEF Inv
<1>1. CASE StartFetch
    <2>1. /\ \A p \in Loadbots : go[p] = "done" /\ answer'[p] = "none"
          /\ \A p \in Loadbots : go'[p] = IF p \in loadbots THEN "get" ELSE "done"
          /\ lock' = {} /\ wg' = loadbots /\ fetched' = <<>> /\ loadbots' = loadbots /\ pc' = "wait"
        BY <1>1, <1>0 DEF StartFetch, TypeOK, LockInv, mainVars
    <2>2. Len(fetched') = 0
        BY <2>1
    <2> QED BY <2>1, <2>2 DEF LockInv, AnswerInv, ScenarioInv, Appended
<1>2. CASE WaitGroupWait
    <2>1. \A p \in Loadbots : go[p] = "done"
        BY <1>2, <1>0 DEF WaitGroupWait, LockInv, TypeOK
    <2> QED BY <1>2, <2>1, <1>0 DEF WaitGroupWait, LockInv, AnswerInv, ScenarioInv, Appended,
               mainVars, goVars
<1>3. CASE Main /\ ~StartFetch /\ ~WaitGroupWait
    <2>1. UNCHANGED goVars /\ pc \notin {"wait"} /\ pc' \notin {"wait", "count"}
        BY <1>3 DEF Main, ScaleLoadbots, ScaleWebservers, Scale, ListLoadbots, ListWebservers,
           AfterPoll, GetPods, Count, OutOfFetches, Judge, NextScenario, ScaleDownLoadbots,
           ScaleDownWebservers, ScaleDown
    <2> QED BY <2>1, <1>0 DEF LockInv, AnswerInv, ScenarioInv, goVars
<1> QED BY <1>1, <1>2, <1>3

\* Steps of a goroutine.
LEMMA TypesOfGoroutines ==
    ASSUME Inv, NEW p \in Loadbots, Goroutine(p) PROVE TypeOK' /\ MainInv'
<1>0. TypeOK /\ MainInv /\ LockInv /\ AnswerInv
    BY DEF Inv
<1>1. CASE Get(p)
    BY <1>1, <1>0 DEF Get, Answers, TypeOK, MainInv, mainVars, clusterVars
<1>2. CASE Lock(p)
    BY <1>2, <1>0 DEF Lock, TypeOK, MainInv, mainVars, clusterVars
<1>3. CASE Store(p)
    <2>1. pc = "wait" /\ answer[p] \in {"metrics", "null"}
        BY <1>3, <1>0 DEF Store, LockInv, AnswerInv
    <2>2. fetched' \in Seq(Measurement)
        BY <1>3, <2>1, <1>0, StoreType
    <2> QED BY <1>3, <2>2, <1>0 DEF Store, TypeOK, MainInv, mainVars, clusterVars
<1>4. CASE Done(p)
    BY <1>4, <1>0 DEF Done, TypeOK, MainInv, mainVars, clusterVars
<1> QED BY <1>1, <1>2, <1>3, <1>4 DEF Goroutine

LEMMA LockOfGoroutines ==
    ASSUME Inv, NEW p \in Loadbots, Goroutine(p) PROVE LockInv'
<1>0. TypeOK /\ LockInv
    BY DEF Inv
<1>1. CASE Get(p)
    BY <1>1, <1>0 DEF Get, TypeOK, LockInv
<1>2. CASE Lock(p)
    BY <1>2, <1>0 DEF Lock, CanLock, TypeOK, LockInv
<1>3. CASE Store(p)
    BY <1>3, <1>0 DEF Store, TypeOK, LockInv
<1>4. CASE Done(p)
    BY <1>4, <1>0 DEF Done, TypeOK, LockInv
<1> QED BY <1>1, <1>2, <1>3, <1>4 DEF Goroutine

\* The slice after the append of p: what it held, and the measurement of p.
LEMMA AnswersOfGoroutines ==
    ASSUME Inv, NEW p \in Loadbots, Goroutine(p) PROVE AnswerInv' /\ ScenarioInv'
<1>0. TypeOK /\ LockInv /\ AnswerInv /\ ScenarioInv
    BY DEF Inv
<1>1. pc = "wait" /\ pc' = "wait" /\ s' = s /\ loadbots' = loadbots
    BY <1>0 DEF Goroutine, Get, Lock, Store, Done, LockInv, mainVars
<1>f. \A k \in 1 .. Len(fetched) : fetched[k].pod \in Loadbots
    <2>1. fetched \in Seq(Measurement)
        BY <1>0 DEF TypeOK
    <2>2. \A k \in 1 .. Len(fetched) : fetched[k] \in Measurement
        BY <2>1
    <2> QED BY <2>2 DEF Measurement
<1>2. CASE Get(p)
    <2>1. /\ fetched' = fetched /\ go[p] = "get" /\ answer[p] = "none" /\ p \in loadbots
          /\ go'[p] \in {"got", "leaving", "hung"}
          /\ answer'[p] \in {"metrics", "null", "error", "silence"}
          /\ go'[p] = "got" <=> answer'[p] \in {"metrics", "null"}
          /\ go'[p] = "leaving" <=> answer'[p] = "error"
          /\ \A q \in Loadbots : q # p => go'[q] = go[q] /\ answer'[q] = answer[q]
        BY <1>2, <1>0, <1>1 DEF Get, Answers, TypeOK, AnswerInv
    <2>2. \A q \in Loadbots : Appended(q)' <=> Appended(q)
        BY <2>1 DEF Appended
    <2> QED BY <2>1, <2>2, <1>0, <1>1, <1>f DEF AnswerInv, ScenarioInv
<1>3. CASE Lock(p) \/ Done(p)
    <2>1. /\ fetched' = fetched /\ answer' = answer
          /\ \A q \in Loadbots : q # p => go'[q] = go[q]
          /\ \/ go[p] = "got" /\ go'[p] = "locked"
             \/ go[p] = "leaving" /\ go'[p] = "done"
        BY <1>3, <1>0 DEF Lock, Done, TypeOK
    <2>2. \A q \in Loadbots : Appended(q)' <=> Appended(q)
        BY <2>1 DEF Appended
    <2> QED BY <2>1, <2>2, <1>0, <1>1, <1>f DEF AnswerInv, ScenarioInv
<1>4. CASE Store(p)
    <2> DEFINE m == [pod |-> p, what |-> answer[p], scenario |-> s]
    <2>1. /\ fetched' = Append(fetched, m) /\ answer' = answer
          /\ go[p] = "locked" /\ go'[p] = "leaving" /\ answer[p] \in {"metrics", "null"}
          /\ \A q \in Loadbots : q # p => go'[q] = go[q]
        BY <1>4, <1>0 DEF Store, TypeOK, LockInv, AnswerInv
    <2>2. /\ Len(fetched') = Len(fetched) + 1 /\ Len(fetched) \in Nat
          /\ \A k \in 1 .. Len(fetched) : fetched'[k] = fetched[k]
          /\ fetched'[Len(fetched) + 1] = m
        BY <2>1, <1>0 DEF TypeOK
    <2>3. /\ \A q \in Loadbots : q # p => (Appended(q)' <=> Appended(q))
          /\ Appended(p)' /\ ~Appended(p)
        BY <2>1 DEF Appended
    <2> HIDE DEF m
    <2>4. m.pod = p /\ m.scenario = s
        BY DEF m
    <2>5. \A k \in 1 .. Len(fetched) : fetched[k].pod # p
        BY <2>3, <1>0, <1>1 DEF AnswerInv
    <2>6. \A q \in Loadbots :
              Appended(q)' => \E k \in 1 .. Len(fetched') : fetched'[k].pod = q
        <3> TAKE q \in Loadbots
        <3>1. CASE q = p
            BY <3>1, <2>2, <2>4
        <3>2. CASE q # p
            BY <3>2, <2>2, <2>3, <1>0, <1>1 DEF AnswerInv
        <3> QED BY <3>1, <3>2
    <2>7. \A k \in 1 .. Len(fetched') :
              /\ answer'[fetched'[k].pod] \in {"metrics", "null"}
              /\ go'[fetched'[k].pod] \in {"leaving", "done"}
        <3> TAKE k \in 1 .. Len(fetched')
        <3>1. CASE k = Len(fetched) + 1
            BY <3>1, <2>1, <2>2, <2>4
        <3>2. CASE k # Len(fetched) + 1
            <4>1. k \in 1 .. Len(fetched) /\ fetched'[k] = fetched[k]
                BY <3>2, <2>2
            <4>2. Appended(fetched[k].pod) /\ fetched[k].pod \in Loadbots \ {p}
                BY <4>1, <2>5, <1>f, <1>0, <1>1 DEF AnswerInv
            <4> QED BY <4>1, <4>2, <2>1 DEF Appended
        <3> QED BY <3>1, <3>2
    <2>8. \A k, l \in 1 .. Len(fetched') : fetched'[k].pod = fetched'[l].pod => k = l
        BY <2>2, <2>4, <2>5, <1>0, <1>1 DEF AnswerInv
    <2>9. \A k \in 1 .. Len(fetched') : fetched'[k].scenario = s
        BY <2>2, <2>4, <1>0, <1>1 DEF ScenarioInv
    <2>10. \A q \in Loadbots :
               /\ go'[q] \in {"got", "locked"} => answer'[q] \in {"metrics", "null"}
               /\ go'[q] = "get" => answer'[q] = "none" /\ q \in loadbots
               /\ answer'[q] # "none" => q \in loadbots
        BY <2>1, <1>0, <1>1 DEF AnswerInv
    <2> QED BY <1>1, <2>6, <2>7, <2>8, <2>9, <2>10 DEF AnswerInv, ScenarioInv, Appended
<1> QED BY <1>2, <1>3, <1>4 DEF Goroutine

\* Steps of the cluster touch its own variables only.
LEMMA InvOfCluster ==
    ASSUME Inv, Cluster \/ (\E p \in Pods : PodDies(p)) PROVE Inv'
<1>0. TypeOK /\ MainInv /\ LockInv /\ AnswerInv /\ ScenarioInv
    BY DEF Inv
<1>1. UNCHANGED <<pc, mainVars, goVars, desired>>
    BY DEF Cluster, PodCreated, PodEnds, PodRuns, PodGone, PodDies, AttackEnds, PodChanges
<1>2. /\ pod' \in [Pods -> {"absent", "pending", "running", "ending"}]
      /\ attacked' \subseteq Loadbots /\ deaths' \in Nat
    <2>1. CASE \E p \in Loadbots : AttackEnds(p)
        BY <2>1, <1>0 DEF AttackEnds, TypeOK
    <2>2. CASE \E a \in App, p \in Pods : PodCreated(a, p) \/ PodEnds(a, p)
        BY <2>2, <1>0 DEF PodCreated, PodEnds, PodChanges, TypeOK
    <2>3. CASE \E p \in Pods : PodRuns(p) \/ PodGone(p)
        BY <2>3, <1>0 DEF PodRuns, PodGone, PodChanges, TypeOK
    <2>4. CASE \E p \in Pods : PodDies(p)
        BY <2>4, <1>0 DEF PodDies, PodChanges, TypeOK
    <2> QED BY <2>1, <2>2, <2>3, <2>4 DEF Cluster
<1>3. TypeOK' /\ MainInv'
    BY <1>0, <1>1, <1>2 DEF TypeOK, MainInv, mainVars, goVars
<1>4. LockInv' /\ AnswerInv' /\ ScenarioInv'
    BY <1>0, <1>1 DEF LockInv, AnswerInv, ScenarioInv, Appended, mainVars, goVars
<1> QED BY <1>3, <1>4 DEF Inv

LEMMA NextInv == Inv /\ [Next]_vars => Inv'
<1> SUFFICES ASSUME Inv, [Next]_vars PROVE Inv'
    OBVIOUS
<1>1. CASE Main
    BY <1>1, TypesOfMain, GoroutinesOfMain DEF Inv
<1>2. CASE \E p \in Loadbots : Goroutine(p)
    BY <1>2, TypesOfGoroutines, LockOfGoroutines, AnswersOfGoroutines DEF Inv
<1>3. CASE Cluster \/ (\E p \in Pods : PodDies(p))
    BY <1>3, InvOfCluster
<1>4. CASE UNCHANGED vars
    BY <1>4 DEF Inv, TypeOK, MainInv, LockInv, AnswerInv, ScenarioInv, Appended, vars,
       mainVars, goVars, clusterVars
<1> QED BY <1>1, <1>2, <1>3, <1>4 DEF Next, Ended

THEOREM InvHolds == Spec => []Inv
    BY InitInv, NextInv, PTL DEF Spec

-----------------------------------------------------------------------------
(* Theorems                                                                 *)

\* The variables of the aggregator keep their types; no more fetches succeed
\* in a scenario than are wanted.
THEOREM TypeCorrect == Spec => []TypeOK
<1>1. Inv => TypeOK
    BY DEF Inv
<1> QED BY <1>1, InvHolds, PTL

\* For any number of loadbots: when fetchResults returns, each that gave an
\* answer is in its slice exactly once.
THEOREM NoAnswerLost == Spec => []EveryAnswerOnce
<1>1. Inv => EveryAnswerOnce
    <2> SUFFICES ASSUME Inv, pc = "count"
                 PROVE  /\ \A p \in Answered : \E k \in 1 .. Len(fetched) : fetched[k].pod = p
                        /\ \A k \in 1 .. Len(fetched) : fetched[k].pod \in Answered
                        /\ \A k, l \in 1 .. Len(fetched) :
                               fetched[k].pod = fetched[l].pod => k = l
        BY DEF EveryAnswerOnce
    <2>0. TypeOK /\ LockInv /\ AnswerInv
        BY DEF Inv
    <2>1. \A p \in Loadbots : go[p] = "done"
        BY <2>0 DEF LockInv
    <2>2. \A p \in Loadbots : Appended(p) <=> p \in Answered
        BY <2>0, <2>1 DEF Appended, Answered, AnswerInv
    <2>3. Answered \subseteq Loadbots
        BY <2>0 DEF Answered, TypeOK
    <2>4. \A k \in 1 .. Len(fetched) : fetched[k].pod \in Loadbots
        <3>1. fetched \in Seq(Measurement)
            BY <2>0 DEF TypeOK
        <3>2. \A k \in 1 .. Len(fetched) : fetched[k] \in Measurement
            BY <3>1
        <3> QED BY <3>2 DEF Measurement
    <2> QED BY <2>0, <2>2, <2>3, <2>4 DEF AnswerInv
<1> QED BY <1>1, InvHolds, PTL

\* A scenario is summed up from measurements made in it, and from Iterations of
\* them at least.
THEOREM MeasurementsAreOwn == Spec => []OwnMeasurements
<1>1. Init => OwnMeasurements
    BY DEF Init, OwnMeasurements
<1>2. Inv /\ OwnMeasurements /\ [Next]_vars => OwnMeasurements'
  <2> SUFFICES ASSUME Inv, OwnMeasurements, [Next]_vars PROVE OwnMeasurements'
      OBVIOUS
  <2>0. /\ parts \in Seq(Measurement) /\ fetched \in Seq(Measurement) /\ summary \in Seq(Nat)
        /\ successes \in Nat /\ Iterations \in Nat /\ ScenarioInv
      BY AggregatorAssumption DEF Inv, TypeOK
  <2>1. CASE GetPods
      <3>1. Len(parts') = 0 /\ successes' = 0 /\ summary' = summary
          BY <2>1 DEF GetPods, KeptParts
      <3> QED BY <3>1 DEF OwnMeasurements
  <2>2. CASE Count
      <3>1. /\ parts' = parts \o fetched /\ summary' = summary /\ s' = s /\ pc = "count"
            /\ successes' = IF fetched = <<>> THEN successes ELSE successes + 1
          BY <2>2 DEF Count
      <3>2. /\ Len(parts') = Len(parts) + Len(fetched)
            /\ \A k \in 1 .. Len(parts) : parts'[k] = parts[k]
            /\ \A k \in 1 .. Len(fetched) : parts'[Len(parts) + k] = fetched[k]
          BY <3>1, <2>0, ConcatProperties
      <3>3. Len(parts) \in Nat /\ Len(fetched) \in Nat
          BY <2>0
      <3>4. fetched # <<>> => Len(fetched) >= 1
          BY <2>0, <3>3, EmptySeq
      <3>5. Len(parts') >= successes'
          BY <3>1, <3>2, <3>3, <3>4, <2>0 DEF OwnMeasurements
      <3>6. \A k \in 1 .. Len(parts') : parts'[k].scenario = s
          <4> TAKE k \in 1 .. Len(parts')
          <4>1. CASE k <= Len(parts)
              BY <4>1, <3>1, <3>2, <3>3 DEF OwnMeasurements
          <4>2. CASE k > Len(parts)
              <5>1. k - Len(parts) \in 1 .. Len(fetched) /\ k = Len(parts) + (k - Len(parts))
                  BY <4>2, <3>2, <3>3
              <5>2. parts'[k] = fetched[k - Len(parts)]
                  BY <5>1, <3>2
              <5> QED BY <5>1, <5>2, <3>1, <2>0 DEF ScenarioInv
          <4> QED BY <4>1, <4>2, <3>2, <3>3
      <3> QED BY <3>1, <3>5, <3>6 DEF OwnMeasurements
  <2>3. CASE Judge
      <3>1. /\ pc' \in {"next", "panic"}
            /\ \/ summary' = summary
               \/ Len(parts) >= Iterations /\ summary' = Append(summary, Len(parts))
          BY <2>3 DEF Judge, Sufficient
      <3>2. \A k \in 1 .. Len(summary') : summary'[k] >= Iterations
          BY <3>1, <2>0, AppendProperties DEF OwnMeasurements
      <3> QED BY <3>1, <3>2 DEF OwnMeasurements
  <2>4. CASE UNCHANGED <<s, successes, parts, summary>>
             /\ (pc' \in {"fetch", "wait", "count", "judge"}
                     => pc \in {"fetch", "wait", "count", "judge"})
      BY <2>4 DEF OwnMeasurements
  <2>5. CASE NextScenario \/ ScaleLoadbots \/ ScaleWebservers \/ ListLoadbots \/ ListWebservers
             \/ ScaleDownLoadbots \/ ScaleDownWebservers
      <3>1. UNCHANGED summary /\ pc' \notin {"fetch", "wait", "count", "judge"}
          BY <2>5 DEF NextScenario, ScaleLoadbots, ScaleWebservers, Scale, ListLoadbots,
             ListWebservers, AfterPoll, ScaleDownLoadbots, ScaleDownWebservers, ScaleDown, mainVars
      <3> QED BY <3>1 DEF OwnMeasurements
  <2>6. CASE StartFetch \/ WaitGroupWait \/ OutOfFetches \/ (\E p \in Loadbots : Goroutine(p))
             \/ Cluster \/ (\E p \in Pods : PodDies(p)) \/ UNCHANGED vars
      BY <2>6, <2>4 DEF StartFetch, WaitGroupWait, OutOfFetches, Goroutine, Get, Lock, Store,
         Done, Cluster, PodCreated, PodEnds, PodRuns, PodGone, PodDies, AttackEnds, PodChanges,
         vars, mainVars
  <2> QED BY <2>1, <2>2, <2>3, <2>5, <2>6 DEF Next, Main, Ended
<1> QED BY <1>1, <1>2, InvHolds, PTL DEF Spec

-----------------------------------------------------------------------------
(* The size of a scenario                                                   *)

Scaling == pc \notin {"down2", "end"}
Measuring == pc \in {"list", "fetch", "wait", "count", "judge"}

\* targets is on its way from the size of one scenario to that of the next.
TargetInv ==
    /\ pc \in {"poll", "poll2", "list", "fetch", "wait", "count", "judge", "next"} =>
           \A a \in App : targets[a] = Size(s, a)
    /\ pc = "scale" => \A a \in App : targets[a] <= Size(s, a)
    /\ pc = "scale2" => /\ targets["loadbots"] = Size(s, "loadbots")
                        /\ targets["webserver"] <= Size(s, "webserver")

\* What is asked for was a target; there are no more pods than are asked for, so
\* that none is being deleted and all that run stay.
PodsInv ==
    Scaling => /\ \A p \in Pods : pod[p] # "ending"
               /\ \A a \in App : desired[a] <= targets[a] /\ Cardinality(Active(a)) <= desired[a]

\* What a poll has seen is still there.
SeenInv ==
    /\ pc = "poll2" =>
           /\ seen.running <= desired["loadbots"]
           /\ deaths = 0 => seen.running <= Cardinality(Running("loadbots"))
    /\ Measuring => \A a \in App :
           /\ targets[a] <= desired[a]
           /\ deaths = 0 => targets[a] <= Cardinality(Running(a))

SizeInv == TargetInv /\ PodsInv /\ SeenInv

LEMMA Finite ==
    ASSUME NEW a \in App
    PROVE  /\ IsFiniteSet(PodsOf[a]) /\ PodsOf[a] \subseteq Pods
           /\ Active(a) \subseteq PodsOf[a] /\ Running(a) \subseteq PodsOf[a]
           /\ IsFiniteSet(Active(a)) /\ IsFiniteSet(Running(a))
           /\ Cardinality(Active(a)) \in Nat /\ Cardinality(Running(a)) \in Nat
<1>1. IsFiniteSet(PodsOf[a]) /\ PodsOf[a] \subseteq Pods
    BY AggregatorAssumption DEF PodsOf, App, Pods
<1>2. Active(a) \subseteq PodsOf[a] /\ Running(a) \subseteq PodsOf[a]
    BY DEF Active, Running
<1> QED BY <1>1, <1>2, FS_Subset, FS_CardinalityType

\* Without pods that are being deleted, those that run are among the active ones.
LEMMA RunningAtMost ==
    ASSUME PodsInv, Scaling, TypeOK, NEW a \in App
    PROVE  Cardinality(Running(a)) <= desired[a]
<1>1. Running(a) \subseteq Active(a)
    BY Finite DEF PodsInv, Running, Active
<1>2. Cardinality(Running(a)) <= Cardinality(Active(a))
    BY <1>1, Finite, FS_Subset
<1>3. Cardinality(Active(a)) <= desired[a] /\ desired[a] \in Nat
    BY DEF PodsInv, TypeOK
<1> QED BY <1>2, <1>3, Finite

LEMMA SizeOfScenario ==
    ASSUME s \in 1 .. Len(Scenarios), NEW a \in App
    PROVE  /\ Scenarios[s][a] = 1 => Size(s, a) = 1
           /\ Scenarios[s][a] # 1 => Size(s, a) = Replicas(a)
BY DEF Size, Replicas

LEMMA SizeType ==
    ASSUME NEW k \in 0 .. Len(Scenarios), NEW a \in App
    PROVE  Size(k, a) \in Nat
<1>1. CASE k = 0 \/ Scenarios[k][a] = 1
    BY <1>1 DEF Size
<1>2. CASE k # 0 /\ Scenarios[k][a] # 1
    <2>1. Scenarios \in Seq([App -> 1 .. 100]) /\ k \in 1 .. Len(Scenarios) /\ MaxReplicas \in Nat
        BY <1>2, AggregatorAssumption
    <2>2. Scenarios[k] \in [App -> 1 .. 100]
        BY <2>1, ElementOfSeq, Zenon
    <2>3. Scenarios[k][a] \in 1 .. 100
        BY <2>2
    <2>4. \A n \in 1 .. 100 : n \in Nat
        OBVIOUS
    <2>5. (Scenarios[k][a] * MaxReplicas) \div 100 \in Nat
        BY <2>1, <2>3, <2>4, ReplicasType
    <2> QED BY <1>2, <2>5 DEF Size
<1> QED BY <1>1, <1>2

LEMMA InitSize == Init => SizeInv
<1> SUFFICES ASSUME Init PROVE SizeInv
    OBVIOUS
<1>1. TargetInv
    BY DEF Init, TargetInv, Size
<1>2. \A a \in App : Active(a) = {}
    BY Finite DEF Init, Active
<1>3. \A a \in App : Cardinality(Active(a)) = 0
    BY <1>2, FS_EmptySet
<1>4. \A a \in App : desired[a] = 1 /\ targets[a] = 1
    BY DEF Init
<1>5. PodsInv
    BY <1>3, <1>4 DEF Init, PodsInv
<1>6. SeenInv
    BY DEF Init, SeenInv, Measuring
<1> QED BY <1>1, <1>5, <1>6 DEF SizeInv

\* One replication controller is scaled to the size of the scenario.
LEMMA ScaleStep ==
    ASSUME Growing, Inv, SizeInv, NEW a \in App, NEW from \in {"scale", "scale2"},
           NEW to \in {"scale2", "poll"}, Scale(a, from, to), targets[a] <= Size(s, a)
    PROVE  /\ targets'[a] = Size(s, a) /\ s' = s
           /\ \A b \in App : b # a => targets'[b] = targets[b] /\ desired'[b] = desired[b]
           /\ desired'[a] <= targets'[a] /\ desired[a] <= desired'[a]
           /\ UNCHANGED <<pod, deaths>>
<1>1. /\ targets \in [App -> Nat] /\ desired \in [App -> Nat]
      /\ desired[a] <= targets[a] /\ s \in 1 .. Len(Scenarios)
      /\ targets[a] \in Nat /\ desired[a] \in Nat
    BY AggregatorAssumption DEF Inv, TypeOK, MainInv, SizeInv, PodsInv, Scaling, Scale
<1>2. Size(s, a) \in Nat
    BY <1>1, SizeType, AggregatorAssumption
<1>3. s' = s /\ UNCHANGED <<pod, deaths>>
    BY DEF Scale
<1>4. CASE Scenarios[s][a] = 1
    <2>1. targets' = [targets EXCEPT ![a] = 1] /\ UNCHANGED desired
        BY <1>4 DEF Scale
    <2>2. Size(s, a) = 1
        BY <1>1, <1>4, SizeOfScenario
    <2> QED BY <1>1, <1>3, <2>1, <2>2
<1>5. CASE Scenarios[s][a] # 1 /\ targets[a] = Replicas(a)
    <2>1. UNCHANGED <<targets, desired>>
        BY <1>5 DEF Scale
    <2>2. Size(s, a) = Replicas(a)
        BY <1>1, <1>5, SizeOfScenario
    <2> QED BY <1>1, <1>3, <1>5, <2>1, <2>2
<1>6. CASE Scenarios[s][a] # 1 /\ targets[a] # Replicas(a)
    <2>1. /\ targets' = [targets EXCEPT ![a] = Replicas(a)]
          /\ desired' = [desired EXCEPT ![a] = Replicas(a)] \/ UNCHANGED desired
        BY <1>6 DEF Scale, ScaleReplicationController
    <2>2. Size(s, a) = Replicas(a)
        BY <1>1, <1>6, SizeOfScenario
    <2>3. CASE desired' = [desired EXCEPT ![a] = Replicas(a)]
        BY <1>1, <1>2, <1>3, <2>1, <2>2, <2>3
    <2>4. CASE UNCHANGED desired
        BY <1>1, <1>2, <1>3, <2>1, <2>2, <2>4
    <2> QED BY <2>1, <2>3, <2>4
<1> QED BY <1>4, <1>5, <1>6


LEMMA SamePods ==
    ASSUME UNCHANGED pod, NEW a \in App
    PROVE  Active(a)' = Active(a) /\ Running(a)' = Running(a)
BY DEF Active, Running

LEMMA SizeOfScaling ==
    ASSUME Growing, Inv, SizeInv, ScaleLoadbots \/ ScaleWebservers
    PROVE  SizeInv'
<1>0. /\ targets \in [App -> Nat] /\ desired \in [App -> Nat]
      /\ targets' \in [App -> Nat] /\ desired' \in [App -> Nat]
    BY TypesOfMain DEF Inv, TypeOK, Main
<1>1. /\ PodsInv /\ TargetInv /\ UNCHANGED pod
      /\ pc \in {"scale", "scale2"} /\ pc' \in {"scale2", "poll"} /\ s' = s
    BY DEF ScaleLoadbots, ScaleWebservers, Scale, SizeInv
<1>2. PICK a \in App :
          /\ targets'[a] = Size(s, a)
          /\ \A b \in App : b # a => targets'[b] = targets[b] /\ desired'[b] = desired[b]
          /\ desired'[a] <= targets'[a] /\ desired[a] <= desired'[a]
          /\ a = IF pc = "scale" THEN "loadbots" ELSE "webserver"
          /\ pc' = IF pc = "scale" THEN "scale2" ELSE "poll"
    <2>1. CASE ScaleLoadbots
        <3>1. Scale("loadbots", "scale", "scale2") /\ pc = "scale" /\ pc' = "scale2"
            BY <2>1 DEF ScaleLoadbots, Scale
        <3>2. "loadbots" \in App /\ targets["loadbots"] <= Size(s, "loadbots")
            BY <1>1, <3>1 DEF TargetInv, App
        <3> QED BY <3>1, <3>2, ScaleStep
    <2>2. CASE ScaleWebservers
        <3>1. Scale("webserver", "scale2", "poll") /\ pc = "scale2" /\ pc' = "poll"
            BY <2>2 DEF ScaleWebservers, Scale
        <3>2. "webserver" \in App /\ targets["webserver"] <= Size(s, "webserver")
            BY <1>1, <3>1 DEF TargetInv, App
        <3> QED BY <3>1, <3>2, ScaleStep
    <2> QED BY <2>1, <2>2
<1>3. \A b \in App : Size(s, b)' = Size(s, b)
    BY <1>1 DEF Size
<1>4. TargetInv'
    <2>1. CASE pc = "scale"
        BY <1>1, <1>2, <1>3, <2>1 DEF TargetInv, App
    <2>2. CASE pc = "scale2"
        BY <1>1, <1>2, <1>3, <2>2 DEF TargetInv, App
    <2> QED BY <1>1, <2>1, <2>2
<1>5. PodsInv'
    <2>1. \A b \in App : desired'[b] <= targets'[b] /\ desired[b] <= desired'[b]
        <3> TAKE b \in App
        <3>1. desired[b] <= targets[b] /\ desired[b] \in Nat
            BY <1>0, <1>1 DEF PodsInv, Scaling
        <3> QED BY <1>2, <3>1
    <2>2. \A b \in App : Cardinality(Active(b))' <= desired'[b]
        <3> TAKE b \in App
        <3>1. Cardinality(Active(b)) <= desired[b] /\ Cardinality(Active(b)) \in Nat
            BY <1>1, Finite DEF PodsInv, Scaling
        <3>2. Active(b)' = Active(b)
            BY <1>1, SamePods
        <3> QED BY <1>0, <2>1, <3>1, <3>2
    <2> QED BY <1>1, <2>1, <2>2 DEF PodsInv, Scaling
<1>6. SeenInv'
    BY <1>1 DEF SeenInv, Measuring
<1> QED BY <1>4, <1>5, <1>6 DEF SizeInv

\* The two lists of a poll.
LEMMA SizeOfPoll ==
    ASSUME Growing, Inv, SizeInv, ListLoadbots \/ ListWebservers
    PROVE  SizeInv'
<1>0. TypeOK /\ TargetInv /\ PodsInv /\ SeenInv
    BY DEF Inv, SizeInv
<1>1. /\ UNCHANGED <<s, targets, desired, pod, deaths>>
      /\ pc \in {"poll", "poll2"} /\ pc' \in {"poll", "poll2", "list", "next"}
    BY DEF ListLoadbots, ListWebservers, AfterPoll, mainVars, clusterVars
<1>2. \A a \in App : Active(a)' = Active(a) /\ Running(a)' = Running(a)
    BY <1>1, SamePods
<1>3. TargetInv' /\ PodsInv'
    BY <1>0, <1>1, <1>2 DEF TargetInv, PodsInv, Scaling, Size
<1>4. SeenInv'
    <2>1. CASE ListLoadbots
        <3>1. /\ pc' = "poll2"
              /\ seen'.running \in {0, Cardinality(Running("loadbots"))}
            BY <2>1 DEF ListLoadbots
        <3>2. /\ Cardinality(Running("loadbots")) <= desired["loadbots"]
              /\ Cardinality(Running("loadbots")) \in Nat /\ desired["loadbots"] \in Nat
            BY <1>0, <1>1, RunningAtMost, Finite DEF Scaling, App, TypeOK
        <3> QED BY <1>1, <1>2, <3>1, <3>2 DEF SeenInv, Measuring, App
    <2>2. CASE ListWebservers /\ pc' = "list"
        <3>1. /\ pc = "poll2" /\ UNCHANGED seen
              /\ \/ /\ Reached(seen.running, targets["loadbots"])
                    /\ Reached(Cardinality(Running("webserver")), targets["webserver"])
                 \/ Reached(0, targets["webserver"])
            BY <2>2 DEF ListWebservers, AfterPoll, mainVars
        <3>2. /\ targets["loadbots"] <= seen.running
              /\ targets["webserver"] <= Cardinality(Running("webserver"))
            BY <3>1 DEF Reached
        <3>3. /\ Cardinality(Running("webserver")) <= desired["webserver"]
              /\ seen.running <= desired["loadbots"]
              /\ deaths = 0 => seen.running <= Cardinality(Running("loadbots"))
            BY <1>0, <1>1, <3>1, RunningAtMost DEF Scaling, App, SeenInv
        <3>4. /\ \A a \in App : Cardinality(Running(a)) \in Nat
              /\ targets \in [App -> Nat] /\ desired \in [App -> Nat] /\ seen.running \in Nat
            BY <1>0, Finite DEF TypeOK
        <3>5. /\ targets["loadbots"] <= desired["loadbots"]
              /\ targets["webserver"] <= desired["webserver"]
              /\ deaths = 0 => targets["loadbots"] <= Cardinality(Running("loadbots"))
            BY <3>2, <3>3, <3>4 DEF App
        <3> QED BY <1>1, <1>2, <2>2, <3>2, <3>5 DEF SeenInv, Measuring, App
    <2>3. CASE ListWebservers /\ pc' # "list"
        BY <1>1, <2>3 DEF SeenInv, Measuring, ListWebservers, AfterPoll
    <2> QED BY <2>1, <2>2, <2>3
<1> QED BY <1>3, <1>4 DEF SizeInv

\* The other steps of main, and those of the goroutines.
LEMMA SizeOfProgram ==
    ASSUME Growing, Inv, SizeInv,
           \/ GetPods \/ StartFetch \/ WaitGroupWait \/ Count \/ OutOfFetches \/ Judge
           \/ NextScenario \/ ScaleDownLoadbots \/ ScaleDownWebservers
           \/ \E p \in Loadbots : Goroutine(p)
           \/ UNCHANGED vars
    PROVE  SizeInv'
<1>0. TypeOK /\ TargetInv /\ PodsInv /\ SeenInv
    BY DEF Inv, SizeInv
<1>1. CASE GetPods \/ StartFetch \/ WaitGroupWait \/ Count \/ OutOfFetches \/ Judge
           \/ (\E p \in Loadbots : Goroutine(p)) \/ UNCHANGED vars
    <2>1. /\ UNCHANGED <<s, targets, seen, desired, pod, deaths>>
          /\ pc' = pc \/ (Measuring /\ pc' \in {"fetch", "wait", "count", "judge", "next", "panic"})
        BY <1>1 DEF GetPods, StartFetch, WaitGroupWait, Count, OutOfFetches, Judge, Goroutine,
           Get, Lock, Store, Done, vars, mainVars, clusterVars, Measuring
    <2>2. \A a \in App : Active(a)' = Active(a) /\ Running(a)' = Running(a)
        BY <2>1, SamePods
    <2>3. \A a \in App : Size(s, a)' = Size(s, a)
        BY <2>1 DEF Size
    <2>4. TargetInv'
        <3>1. CASE pc' = pc
            BY <1>0, <2>1, <2>3, <3>1 DEF TargetInv
        <3>2. CASE Measuring /\ pc' \in {"fetch", "wait", "count", "judge", "next", "panic"}
            BY <1>0, <2>1, <2>3, <3>2 DEF TargetInv, Measuring
        <3> QED BY <2>1, <3>1, <3>2
    <2>5. PodsInv'
        BY <1>0, <2>1, <2>2 DEF PodsInv, Scaling, Measuring
    <2>6. SeenInv'
        <3>1. /\ pc' = "poll2" => pc = "poll2"
              /\ Measuring' => Measuring
            BY <2>1 DEF Measuring
        <3>2. \A a \in App : Cardinality(Running(a))' = Cardinality(Running(a))
            BY <2>2
        <3>3. pc = "poll2" => Cardinality(Running("loadbots"))' = Cardinality(Running("loadbots"))
            BY <3>2 DEF App
        <3> QED BY <1>0, <2>1, <3>1, <3>2, <3>3 DEF SeenInv
    <2> QED BY <2>4, <2>5, <2>6 DEF SizeInv
<1>2. CASE NextScenario
    <2>1. /\ UNCHANGED <<targets, desired, pod, deaths>> /\ pc = "next"
          /\ \/ s < Len(Scenarios) /\ s' = s + 1 /\ pc' = "scale"
             \/ pc' = "down" /\ UNCHANGED s
        BY <1>2 DEF NextScenario, clusterVars
    <2>2. \A a \in App : Active(a)' = Active(a) /\ Running(a)' = Running(a)
        BY <2>1, SamePods
    <2>3. PodsInv' /\ SeenInv'
        BY <1>0, <2>1, <2>2 DEF PodsInv, SeenInv, Scaling, Measuring
    <2>4. CASE pc' = "scale"
        <3>1. s' \in 1 .. Len(Scenarios) /\ s' - 1 = s
            BY <1>0, <2>1, <2>4, AggregatorAssumption DEF TypeOK
        <3>2. \A a \in App : Size(s' - 1, a) <= Size(s', a)
            BY <3>1 DEF Growing
        <3>3. \A a \in App : targets[a] = Size(s, a)
            BY <1>0, <2>1 DEF TargetInv
        <3>4. \A a \in App : targets'[a] <= Size(s', a)
            BY <2>1, <3>1, <3>2, <3>3
        <3>5. \A a \in App : Size(s, a)' = Size(s', a)
            BY DEF Size
        <3>6. TargetInv'
            BY <2>4, <3>4, <3>5 DEF TargetInv
        <3> QED BY <2>3, <3>6 DEF SizeInv
    <2>5. CASE pc' = "down"
        BY <2>3, <2>5 DEF SizeInv, TargetInv
    <2> QED BY <2>1, <2>4, <2>5
<1>3. CASE ScaleDownLoadbots \/ ScaleDownWebservers
    BY <1>3 DEF ScaleDownLoadbots, ScaleDownWebservers, ScaleDown, SizeInv, TargetInv, PodsInv,
       SeenInv, Scaling, Measuring
<1> QED BY <1>1, <1>2, <1>3

\* The cluster, which loses a pod only when that is counted.
LEMMA SizeOfCluster ==
    ASSUME Inv, SizeInv, Cluster \/ (\E p \in Pods : PodDies(p))
    PROVE  SizeInv'
<1>0. /\ TypeOK /\ TargetInv /\ PodsInv /\ SeenInv
      /\ pod \in [Pods -> {"absent", "pending", "running", "ending"}]
    BY DEF Inv, SizeInv, TypeOK
<1>1. UNCHANGED <<pc, s, targets, seen, desired>>
    BY DEF Cluster, PodCreated, PodEnds, PodRuns, PodGone, PodDies, AttackEnds, PodChanges, mainVars
<1>2. TargetInv'
    BY <1>0, <1>1 DEF TargetInv, Size
<1>3. ASSUME Scaling
      PROVE  /\ \A p \in Pods : pod'[p] # "ending"
             /\ \A a \in App : Cardinality(Active(a))' <= desired[a]
             /\ deaths' = 0 => deaths = 0 /\ \A a \in App : Running(a) \subseteq Running(a)'
    <2>0. /\ \A p \in Pods : pod[p] # "ending"
          /\ \A a \in App : Cardinality(Active(a)) <= desired[a]
          /\ desired \in [App -> Nat] /\ deaths \in Nat
          /\ \A a \in App : Cardinality(Active(a)) \in Nat
        BY <1>0, <1>3, Finite DEF PodsInv, TypeOK
    <2>1. CASE \E a \in App, p \in Pods : PodCreated(a, p)
        <3>0. PICK a \in App, p \in Pods : PodCreated(a, p)
            BY <2>1
        <3>1. /\ p \in PodsOf[a] /\ Cardinality(Active(a)) < desired[a] /\ deaths' = deaths
              /\ pod[p] = "absent" /\ pod' = [pod EXCEPT ![p] = "pending"]
            BY <3>0 DEF PodCreated, PodChanges
        <3>2. Active(a)' = Active(a) \cup {p} /\ p \notin Active(a)
            BY <1>0, <3>1, Finite DEF Active
        <3>3. Cardinality(Active(a) \cup {p}) = Cardinality(Active(a)) + 1
            BY <3>2, Finite, FS_AddElement
        <3>4. \A b \in App : b # a => p \notin PodsOf[b]
            BY <3>1, AggregatorAssumption DEF PodsOf, App
        <3>5. \A b \in App : b # a => Active(b)' = Active(b)
            BY <1>0, <3>1, <3>4 DEF Active
        <3>6. \A b \in App : Running(b)' = Running(b)
            BY <1>0, <3>1 DEF Running
        <3>7. Cardinality(Active(a))' <= desired[a]
            BY <2>0, <3>1, <3>2, <3>3
        <3>8. \A b \in App : b # a => Cardinality(Active(b))' <= desired[b]
            BY <2>0, <3>5
        <3>9. \A q \in Pods : pod'[q] # "ending"
            BY <1>0, <2>0, <3>1
        <3> QED BY <3>1, <3>6, <3>7, <3>8, <3>9
    <2>2. CASE \E a \in App, p \in Pods : PodEnds(a, p)
        BY <2>0, <2>2 DEF PodEnds
    <2>3. CASE \E p \in Pods : PodRuns(p)
        <3>0. PICK p \in Pods : PodRuns(p)
            BY <2>3
        <3>1. pod[p] = "pending" /\ pod' = [pod EXCEPT ![p] = "running"] /\ deaths' = deaths
            BY <3>0 DEF PodRuns, PodChanges
        <3>2. \A a \in App : Active(a)' = Active(a)
            BY <1>0, <3>1 DEF Active
        <3>3. \A a \in App : Running(a) \subseteq Running(a)'
            BY <1>0, <3>1 DEF Running
        <3>4. \A q \in Pods : pod'[q] # "ending"
            BY <1>0, <2>0, <3>1
        <3> QED BY <2>0, <3>1, <3>2, <3>3, <3>4
    <2>4. CASE \E p \in Pods : PodGone(p)
        BY <2>0, <2>4 DEF PodGone, PodChanges
    <2>5. CASE \E p \in Loadbots : AttackEnds(p)
        <3>1. UNCHANGED <<pod, deaths>>
            BY <2>5 DEF AttackEnds
        <3>2. \A a \in App : Active(a)' = Active(a) /\ Running(a)' = Running(a)
            BY <3>1, SamePods
        <3> QED BY <2>0, <3>1, <3>2
    <2>6. CASE \E p \in Pods : PodDies(p)
        <3>0. PICK p \in Pods : PodDies(p)
            BY <2>6
        <3>1. pod[p] = "running" /\ pod' = [pod EXCEPT ![p] = "absent"] /\ deaths' = deaths + 1
            BY <3>0 DEF PodDies, PodChanges
        <3>2. deaths' # 0
            BY <2>0, <3>1
        <3>3. \A a \in App : Active(a)' \subseteq Active(a)
            BY <1>0, <3>1 DEF Active
        <3>4. \A a \in App : Cardinality(Active(a))' <= desired[a]
            <4> TAKE a \in App
            <4> DEFINE A == Active(a)'
            <4>1. IsFiniteSet(A) /\ Cardinality(A) <= Cardinality(Active(a)) /\ Cardinality(A) \in Nat
                BY <3>3, Finite, FS_Subset, FS_CardinalityType
            <4>2. Cardinality(Active(a))' = Cardinality(A)
                OBVIOUS
            <4> HIDE DEF A
            <4> QED BY <2>0, <4>1, <4>2
        <3>5. \A q \in Pods : pod'[q] # "ending"
            BY <1>0, <2>0, <3>1
        <3> QED BY <3>2, <3>4, <3>5
    <2> QED BY <2>1, <2>2, <2>3, <2>4, <2>5, <2>6 DEF Cluster
<1>4. PodsInv'
    BY <1>0, <1>1, <1>3 DEF PodsInv, Scaling
<1>5. SeenInv'
    <2>1. CASE pc = "poll2" \/ Measuring
        <3>1. Scaling
            BY <2>1 DEF Measuring, Scaling
        <3>2. /\ deaths' = 0 => deaths = 0 /\ \A a \in App : Running(a) \subseteq Running(a)'
              /\ \A p \in Pods : pod'[p] # "ending"
            BY <1>3, <3>1
        <3>3. deaths' = 0 => \A a \in App : Cardinality(Running(a)) <= Cardinality(Running(a))'
            <4> SUFFICES ASSUME deaths' = 0, NEW a \in App
                         PROVE  Cardinality(Running(a)) <= Cardinality(Running(a))'
                OBVIOUS
            <4> DEFINE R == Running(a)'
            <4>1. R \subseteq PodsOf[a]
                BY DEF Running
            <4>2. IsFiniteSet(R)
                BY <4>1, Finite, FS_Subset
            <4>3. Running(a) \subseteq R
                BY <3>2
            <4>4. Cardinality(Running(a)) <= Cardinality(R)
                BY <4>2, <4>3, FS_Subset
            <4> QED BY <4>4
        <3>4. \A a \in App : Cardinality(Running(a)) \in Nat /\ Cardinality(Running(a))' \in Nat
            <4> TAKE a \in App
            <4> DEFINE R == Running(a)'
            <4>1. R \subseteq PodsOf[a]
                BY DEF Running
            <4>2. Cardinality(R) \in Nat
                BY <4>1, Finite, FS_Subset, FS_CardinalityType
            <4> QED BY <4>2, Finite
        <3>5. seen.running \in Nat /\ targets \in [App -> Nat]
            BY <1>0 DEF TypeOK
        <3>6. CASE pc = "poll2"
            <4>1. deaths' = 0 => seen.running <= Cardinality(Running("loadbots"))'
                BY <1>0, <3>2, <3>3, <3>4, <3>5, <3>6 DEF SeenInv, App
            <4> QED BY <1>0, <1>1, <3>6, <4>1 DEF SeenInv, Measuring
        <3>7. CASE Measuring
            <4>1. deaths' = 0 => \A a \in App : targets[a] <= Cardinality(Running(a))'
                BY <1>0, <3>2, <3>3, <3>4, <3>5, <3>7 DEF SeenInv
            <4> QED BY <1>0, <1>1, <3>7, <4>1 DEF SeenInv, Measuring
        <3> QED BY <2>1, <3>6, <3>7
    <2>2. CASE ~(pc = "poll2" \/ Measuring)
        BY <1>1, <2>2 DEF SeenInv, Measuring
    <2> QED BY <2>1, <2>2
<1> QED BY <1>2, <1>4, <1>5 DEF SizeInv

LEMMA NextSize == Growing /\ Inv /\ SizeInv /\ [Next]_vars => SizeInv'
BY SizeOfScaling, SizeOfPoll, SizeOfProgram, SizeOfCluster DEF Next, Main, Ended

\* Where the scenarios never scale down, each is measured at its size, with any
\* number of pods and whatever fails.
THEOREM MeasuredAtItsSize == Spec => []MeasuredAtSize
<1>1. SizeInv => MeasuredAtSize
    BY DEF SizeInv, SeenInv, Measuring, MeasuredAtSize
<1>2. CASE Growing
    <2>1. Inv /\ SizeInv /\ [Next]_vars => SizeInv'
        BY <1>2, NextSize
    <2> QED BY <1>1, <2>1, InitSize, InvHolds, PTL DEF Spec
<1>3. CASE ~Growing
    <2>1. MeasuredAtSize
        BY <1>3 DEF MeasuredAtSize
    <2> QED BY <2>1, PTL
<1> QED BY <1>2, <1>3

=============================================================================
