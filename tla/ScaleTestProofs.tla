-------------------------- MODULE ScaleTestProofs --------------------------
(***************************************************************************)
(* Proofs about ScaleTest, for every list of scenarios, every number of    *)
(* replicas and every set of faults.                                       *)
(***************************************************************************)
EXTENDS ScaleTest, SequenceTheorems, TLAPS

PodCounts == [pending : Nat, running : Nat, ending : Nat]

\* The part of TypeOK that speaks of the program, and the number of attempts
\* that are left when FetchAgain counts one more.
ProgramTypes ==
    /\ pc \in {"check", "deploy", "namespace", "service", "web", "load", "scale",
               "scale2", "poll", "ips", "run", "judge", "summary", "exit", "panic"}
    /\ s \in 1 .. Len(Scenarios) /\ targets \in [App -> Nat]
    /\ attempts \in 0 .. MaxTries /\ tries \in 0 .. (MaxTries - 1)
    /\ listed \in Nat /\ lost \in BOOLEAN /\ fresh \in BOOLEAN
    /\ summary \in Seq(Nat)
    /\ outcome \in {"metrics", "nothing", "error"}
    /\ pc \in {"ips", "run", "judge"} => attempts < MaxTries

ClusterTypes ==
    rcs \subseteq App /\ desired \in [App -> Nat] /\ pods \in [App -> PodCounts]

TypeInv == ProgramTypes /\ ClusterTypes

(* A percentage of MaxReplicas is a number of replicas.                     *)
LEMMA ReplicasType ==
    ASSUME s \in 1 .. Len(Scenarios), NEW a \in App
    PROVE  Replicas(a) \in Nat /\ Scenarios[s][a] \in 1 .. 100
<1>1. Scenarios[s] \in [App -> 1 .. 100]
  BY ScaleTestAssumption, ElementOfSeq, Zenon
<1>2. Scenarios[s][a] \in 1 .. 100
  BY <1>1
<1>3. \A x \in 1 .. 100, m \in Nat : (x * m) \div 100 \in Nat
  <2>. TAKE x \in 1 .. 100, m \in Nat
  <2>1. x * m \in Nat
    OBVIOUS
  <2>. QED
    BY <2>1
<1>. QED
  BY <1>2, <1>3, ScaleTestAssumption DEF Replicas

(* The number of pods of a kind that kubectl calls Running.                 *)
LEMMA UpType ==
    ASSUME ClusterTypes, NEW a \in App
    PROVE  Up(a) \in Nat
BY DEF ClusterTypes, PodCounts, Up, InState

-----------------------------------------------------------------------------
LEMMA InitTypes == Init => TypeInv
<1>. SUFFICES ASSUME Init PROVE TypeInv
  OBVIOUS
<1>1. ProgramTypes
  <2>1. Len(Scenarios) \in Nat /\ Len(Scenarios) > 0
    BY ScaleTestAssumption, EmptySeq
  <2>2. fresh \in BOOLEAN
    BY DEF Init
  <2>3. summary \in Seq(Nat)
    BY EmptySeq DEF Init
  <2>4. targets \in [App -> Nat] /\ lost \in BOOLEAN
    BY DEF Init
  <2>. QED
    BY <2>1, <2>2, <2>3, <2>4 DEF Init, ProgramTypes, MaxTries
<1>2. ClusterTypes
  <2>1. PICK n \in Leftovers :
            /\ rcs = IF n > 0 THEN App ELSE {}
            /\ desired = [a \in App |-> n]
            /\ pods = [a \in App |-> [pending |-> 0, running |-> n, ending |-> 0]]
    BY DEF Init
  <2>2. n \in Nat
    BY ScaleTestAssumption
  <2>3. rcs \subseteq App
    BY <2>1
  <2>. QED
    BY <2>1, <2>2, <2>3 DEF ClusterTypes, PodCounts
<1>. QED
  BY <1>1, <1>2 DEF TypeInv

(* Every step of the program keeps the types.                               *)
LEMMA ProgramKeepsTypes ==
    ASSUME TypeInv, Program
    PROVE  TypeInv'
<1>. USE DEF TypeInv, progVars, clusterVars
<1>1. ASSUME NEW from, NEW to, SetUp(from, to),
             to \in {"deploy", "namespace", "service", "web"}
      PROVE  TypeInv'
  BY <1>1 DEF SetUp, ProgramTypes, ClusterTypes
<1>2. ASSUME NEW a \in App, NEW from, NEW to, CreateReplicationController(a, from, to),
             to \in {"load", "scale"}
      PROVE  TypeInv'
  <2>1. ProgramTypes'
    BY <1>2 DEF CreateReplicationController, ProgramTypes
  <2>2. rcs' \subseteq App /\ desired' \in [App -> Nat]
    BY <1>2 DEF CreateReplicationController, Apply, ClusterTypes
  <2>. QED
    BY <1>2, <2>1, <2>2 DEF CreateReplicationController, ClusterTypes
<1>3. ASSUME NEW a \in App, NEW from, NEW to, Scale(a, from, to),
             to \in {"scale2", "poll"}
      PROVE  TypeInv'
  <2>1. Replicas(a) \in Nat
    BY ReplicasType DEF ProgramTypes
  <2>2. targets' \in [App -> Nat]
    BY <1>3, <2>1 DEF Scale, ProgramTypes
  <2>3. desired' \in [App -> Nat]
    BY <1>3, <2>1 DEF Scale, ScaleReplicationController, ClusterTypes
  <2>4. ProgramTypes'
    BY <1>3, <2>2 DEF Scale, ProgramTypes
  <2>. QED
    BY <1>3, <2>3, <2>4 DEF Scale, ClusterTypes
<1>4. CASE WaitForPods
  BY <1>4 DEF WaitForPods, ProgramTypes, ClusterTypes, MaxTries
<1>5. CASE GetIPs
  <2>1. listed' \in Nat
    <3>1. Up("loadbots") \in Nat
      BY UpType DEF App
    <3>. QED
      BY <1>5, <3>1 DEF GetIPs
  <2>2. lost' \in BOOLEAN
    BY <1>5 DEF GetIPs
  <2>3. /\ pc = "ips" /\ pc' = "run" /\ tries' = 0
        /\ UNCHANGED <<fresh, s, targets, attempts, outcome, summary>>
    BY <1>5 DEF GetIPs
  <2>4. ProgramTypes'
    BY <2>1, <2>2, <2>3 DEF ProgramTypes, MaxTries
  <2>. QED
    BY <1>5, <2>4 DEF GetIPs, ClusterTypes
<1>6. CASE GetIPsFails
  BY <1>6 DEF GetIPsFails, MoreTries, Returns, ProgramTypes, ClusterTypes, MaxTries
<1>7. CASE RunScript
  BY <1>7 DEF RunScript, Returns, ProgramTypes, ClusterTypes, MaxTries
<1>8. CASE RunScriptFails
  BY <1>8 DEF RunScriptFails, MoreTries, Returns, ProgramTypes, ClusterTypes, MaxTries
<1>9. CASE Evaluate
  <2>1. summary' \in Seq(Nat)
    <3>1. (IF outcome = "metrics" THEN listed ELSE 0) \in Nat /\ summary \in Seq(Nat)
      BY DEF ProgramTypes
    <3>. QED
      BY <1>9, <3>1, AppendProperties DEF Evaluate
  <2>2. s' \in 1 .. Len(Scenarios)
    BY <1>9 DEF Evaluate, ProgramTypes
  <2>. QED
    BY <1>9, <2>1, <2>2 DEF Evaluate, ProgramTypes, ClusterTypes, MaxTries
<1>10. CASE FetchAgain
  BY <1>10 DEF FetchAgain, NextAttempt, ProgramTypes, ClusterTypes, MaxTries
<1>11. CASE ShowSummary
  BY <1>11 DEF ShowSummary, ProgramTypes, ClusterTypes
<1>. QED
  BY <1>1, <1>2, <1>3, <1>4, <1>5, <1>6, <1>7, <1>8, <1>9, <1>10, <1>11
     DEF Program, CheckPreconditions, DeployScript, CreateNamespace, CreateService,
         CreateWebserver, CreateLoadbots, ScaleLoadbots, ScaleWebservers, App

(* Every step of the cluster keeps the types.                               *)
LEMMA ClusterKeepsTypes ==
    ASSUME TypeInv, Cluster
    PROVE  TypeInv'
<1>. USE DEF TypeInv, progVars
<1>1. PICK a \in App : PodCreated(a) \/ PodRuns(a) \/ PodEnds(a) \/ PodGone(a)
  BY DEF Cluster
<1>2. ProgramTypes'
  BY <1>1 DEF PodCreated, PodRuns, PodEnds, PodGone, ProgramTypes
<1>3. pods[a] \in PodCounts /\ pods \in [App -> PodCounts]
  BY DEF ClusterTypes
<1>4. pods' \in [App -> PodCounts]
  <2>1. CASE PodCreated(a)
    BY <1>3, <2>1 DEF PodCreated, PodCounts
  <2>2. CASE PodRuns(a)
    BY <1>3, <2>2 DEF PodRuns, PodCounts, InState
  <2>3. CASE PodEnds(a)
    BY <1>3, <2>3 DEF PodEnds, PodCounts, InState
  <2>4. CASE PodGone(a)
    BY <1>3, <2>4 DEF PodGone, PodCounts, InState
  <2>. QED
    BY <1>1, <2>1, <2>2, <2>3, <2>4
<1>5. rcs' \subseteq App /\ desired' \in [App -> Nat]
  BY <1>1 DEF PodCreated, PodRuns, PodEnds, PodGone, ClusterTypes
<1>. QED
  BY <1>2, <1>4, <1>5 DEF ClusterTypes

LEMMA StepKeepsTypes == TypeInv /\ [Next]_vars => TypeInv'
<1>1. ASSUME TypeInv, UNCHANGED vars PROVE TypeInv'
  BY <1>1 DEF TypeInv, ProgramTypes, ClusterTypes, vars, progVars, clusterVars
<1>. QED
  BY <1>1, ProgramKeepsTypes, ClusterKeepsTypes DEF Next, Ended

LEMMA TypeInvHolds == Spec => []TypeInv
BY InitTypes, StepKeepsTypes, PTL DEF Spec

(* The variables keep their types, and the loops of attempts, one in the    *)
(* other, their bounds.                                                     *)
THEOREM TypeCorrect == Spec => []TypeOK
<1>1. TypeInv => TypeOK
  BY DEF TypeInv, ProgramTypes, ClusterTypes, PodCounts, TypeOK
<1>. QED
  BY <1>1, TypeInvHolds, PTL

-----------------------------------------------------------------------------
(* No scenario is skipped.  What makes NoneSkipped inductive is that metrics *)
(* are only returned when there was an address to get them from.            *)
AnswersAreThere == pc = "judge" /\ outcome = "metrics" => listed > 0

SummaryInv == NoneSkipped /\ AnswersAreThere

LEMMA StepKeepsSummary == SummaryInv /\ TypeInv /\ [Next]_vars => SummaryInv'
<1>. SUFFICES ASSUME SummaryInv, TypeInv, [Next]_vars
              PROVE  SummaryInv'
  OBVIOUS
<1>. USE DEF progVars, clusterVars
<1>1. Len(summary) \in Nat /\ s \in Nat /\ listed \in Nat /\ summary \in Seq(Nat)
  BY DEF TypeInv, ProgramTypes
<1>2. ASSUME UNCHANGED <<s, summary>>,
             pc' \in {"summary", "panic"} <=> pc \in {"summary", "panic"}
      PROVE  NoneSkipped'
  BY <1>2 DEF SummaryInv, NoneSkipped
<1>3. CASE CheckPreconditions \/ DeployScript \/ CreateNamespace \/ CreateService
  BY <1>2, <1>3 DEF CheckPreconditions, DeployScript, CreateNamespace, CreateService,
                    SetUp, SummaryInv, AnswersAreThere
<1>4. CASE CreateWebserver \/ CreateLoadbots
  BY <1>2, <1>4 DEF CreateWebserver, CreateLoadbots, CreateReplicationController,
                    SummaryInv, AnswersAreThere
<1>5. CASE ScaleLoadbots \/ ScaleWebservers
  BY <1>2, <1>5 DEF ScaleLoadbots, ScaleWebservers, Scale, SummaryInv, AnswersAreThere
<1>6. CASE WaitForPods
  BY <1>2, <1>6 DEF WaitForPods, SummaryInv, AnswersAreThere
<1>7. CASE GetIPs
  BY <1>2, <1>7 DEF GetIPs, SummaryInv, AnswersAreThere
<1>8. CASE GetIPsFails
  BY <1>2, <1>8 DEF GetIPsFails, Returns, SummaryInv, AnswersAreThere
<1>9. CASE RunScript
  BY <1>1, <1>2, <1>9 DEF RunScript, Returns, Readable, SummaryInv, AnswersAreThere
<1>10. CASE RunScriptFails
  BY <1>2, <1>10 DEF RunScriptFails, Returns, SummaryInv, AnswersAreThere
<1>11. CASE Evaluate
  <2>1. outcome = "metrics" /\ listed > 0 /\ pc = "judge"
    BY <1>11 DEF Evaluate, Usable, SummaryInv, AnswersAreThere
  <2>2. summary' = Append(summary, listed)
    BY <1>11, <2>1 DEF Evaluate
  <2>3. Len(summary') = s /\ \A k \in 1 .. Len(summary') : summary'[k] > 0
    <3>1. Len(summary) = s - 1 /\ \A k \in 1 .. Len(summary) : summary[k] > 0
      BY <2>1 DEF SummaryInv, NoneSkipped
    <3>. QED
      BY <1>1, <2>1, <2>2, <3>1, AppendProperties
  <2>4. Len(summary') = IF pc' \in {"summary", "panic"} THEN s' ELSE s' - 1
    BY <1>1, <1>11, <2>3 DEF Evaluate
  <2>5. pc' # "judge"
    BY <1>11 DEF Evaluate
  <2>. QED
    BY <2>3, <2>4, <2>5 DEF SummaryInv, NoneSkipped, AnswersAreThere
<1>12. CASE FetchAgain
  BY <1>2, <1>12 DEF FetchAgain, SummaryInv, AnswersAreThere
<1>13. CASE ShowSummary
  BY <1>2, <1>13 DEF ShowSummary, SummaryInv, AnswersAreThere
<1>14. CASE Cluster
  BY <1>2, <1>14 DEF Cluster, PodCreated, PodRuns, PodEnds, PodGone, SummaryInv,
                     AnswersAreThere
<1>15. CASE UNCHANGED vars
  BY <1>2, <1>15 DEF vars, SummaryInv, AnswersAreThere
<1>. QED
  BY <1>3, <1>4, <1>5, <1>6, <1>7, <1>8, <1>9, <1>10, <1>11, <1>12, <1>13, <1>14,
     <1>15 DEF Next, Program, Ended

(* Whatever fails, the summary has one entry, of one loadbot at least, for  *)
(* each scenario before the current one.                                    *)
THEOREM NoScenarioSkipped == Spec => []NoneSkipped
<1>1. Init => SummaryInv
  <2>. SUFFICES ASSUME Init PROVE SummaryInv
    OBVIOUS
  <2>1. Len(summary) = 0 /\ s = 1 /\ pc = "check"
    BY EmptySeq DEF Init
  <2>. QED
    BY <2>1 DEF SummaryInv, NoneSkipped, AnswersAreThere
<1>2. SummaryInv => NoneSkipped
  BY DEF SummaryInv
<1>. QED
  BY <1>1, <1>2, StepKeepsSummary, TypeInvHolds, PTL DEF Spec

-----------------------------------------------------------------------------
(* No scenario is measured below its size, when the scenarios do not shrink *)
(* and ask for one pod of each kind at least.                               *)
Wanted(k, a) == IF Scenarios[k][a] = 1 THEN 1 ELSE (Scenarios[k][a] * MaxReplicas) \div 100

Growing ==
    \A k \in 1 .. Len(Scenarios), a \in App :
        /\ Wanted(k, a) >= 1
        /\ k < Len(Scenarios) => Wanted(k, a) <= Wanted(k + 1, a)

SettingUp == {"check", "deploy", "namespace", "service", "web", "load"}
Waiting == {"poll", "ips", "run", "judge"}

\* What a replication controller is asked for was asked for by this scenario
\* or an earlier one, and it has no pods beyond that, none that end.
NoMoreThanAsked(a) ==
    /\ pods[a].ending = 0
    /\ pods[a].pending + pods[a].running <= desired[a]
    /\ desired[a] <= 1 \/ desired[a] <= targets[a]

TargetsFollow ==
    /\ \A a \in App : targets[a] <= Wanted(s, a)
    /\ pc \in SettingUp => \A a \in App : targets[a] = 0
    /\ pc = "scale2" => targets["loadbots"] = Wanted(s, "loadbots")
    /\ pc \in Waiting => \A a \in App : targets[a] = Wanted(s, a)

Measuring ==
    pc \in {"ips", "run", "judge"} => \A a \in App : targets[a] <= pods[a].running

SizeInv == fresh => (\A a \in App : NoMoreThanAsked(a)) /\ TargetsFollow /\ Measuring

LEMMA WantedType ==
    ASSUME NEW k \in 1 .. Len(Scenarios), NEW a \in App
    PROVE  Wanted(k, a) \in Nat
<1>1. Scenarios[k] \in [App -> 1 .. 100]
  BY ScaleTestAssumption, ElementOfSeq, Zenon
<1>2. Scenarios[k][a] \in 1 .. 100
  BY <1>1
<1>3. \A x \in 1 .. 100, m \in Nat : (x * m) \div 100 \in Nat
  <2>. TAKE x \in 1 .. 100, m \in Nat
  <2>1. x * m \in Nat
    OBVIOUS
  <2>. QED
    BY <2>1
<1>. QED
  BY <1>2, <1>3, ScaleTestAssumption DEF Wanted

LEMMA InitSize == Init => SizeInv
<1>. SUFFICES ASSUME Init, fresh
              PROVE  (\A a \in App : NoMoreThanAsked(a)) /\ TargetsFollow /\ Measuring
  BY DEF SizeInv
<1>1. PICK n \in Leftovers :
          /\ fresh = (n = 0) /\ desired = [a \in App |-> n]
          /\ pods = [a \in App |-> [pending |-> 0, running |-> n, ending |-> 0]]
  BY DEF Init
<1>2. n = 0
  BY <1>1
<1>3. \A a \in App : NoMoreThanAsked(a)
  BY <1>1, <1>2 DEF NoMoreThanAsked
<1>4. pc = "check" /\ s = 1 /\ targets = [a \in App |-> 0]
  BY DEF Init
<1>5. Len(Scenarios) \in Nat /\ Len(Scenarios) > 0
  BY ScaleTestAssumption, EmptySeq
<1>6. \A a \in App : Wanted(s, a) \in Nat
  BY <1>4, <1>5, WantedType
<1>. QED
  BY <1>3, <1>4, <1>6 DEF TargetsFollow, Measuring, SettingUp, Waiting

\* Scaling one kind to what the scenario wants: its target never falls.
LEMMA ScaleKeepsSize ==
    ASSUME Growing, TypeInv, SizeInv, fresh,
           NEW a \in App, NEW from, NEW to, Scale(a, from, to)
    PROVE  /\ targets' = [targets EXCEPT ![a] = Wanted(s, a)]
           /\ \A b \in App : NoMoreThanAsked(b)'
<1>1. /\ Wanted(s, a) \in Nat /\ Wanted(s, a) >= 1
      /\ targets[a] \in Nat /\ targets[a] <= Wanted(s, a)
      /\ targets \in [App -> Nat] /\ desired \in [App -> Nat]
  BY WantedType DEF TypeInv, ProgramTypes, ClusterTypes, SizeInv, TargetsFollow, Growing
<1>2. Scenarios[s][a] # 1 => Replicas(a) = Wanted(s, a)
  BY DEF Replicas, Wanted
<1>3. Scenarios[s][a] = 1 => Wanted(s, a) = 1
  BY DEF Wanted
<1>4. targets' = [targets EXCEPT ![a] = Wanted(s, a)]
  BY <1>1, <1>2, <1>3 DEF Scale
<1>5. desired' = desired \/ desired' = [desired EXCEPT ![a] = Wanted(s, a)]
  BY <1>2 DEF Scale, ScaleReplicationController
<1>6. pods' = pods
  BY DEF Scale
<1>7. ASSUME NEW b \in App PROVE NoMoreThanAsked(b)'
  <2>1. /\ pods[b].ending = 0 /\ pods[b].pending + pods[b].running <= desired[b]
        /\ desired[b] <= 1 \/ desired[b] <= targets[b]
        /\ pods[b].pending \in Nat /\ pods[b].running \in Nat
        /\ desired[b] \in Nat /\ targets[b] \in Nat
    BY <1>7 DEF SizeInv, NoMoreThanAsked, TypeInv, ProgramTypes, ClusterTypes, PodCounts
  <2>2. CASE b # a
    BY <1>1, <1>4, <1>5, <1>6, <2>1, <2>2 DEF NoMoreThanAsked
  <2>3. CASE b = a
    <3>1. targets'[b] = Wanted(s, a) /\ (desired'[b] = desired[b] \/ desired'[b] = Wanted(s, a))
      BY <1>1, <1>4, <1>5, <2>3
    <3>2. desired[b] <= desired'[b] \/ desired'[b] = desired[b]
      BY <1>1, <2>1, <2>3, <3>1
    <3>3. desired'[b] <= 1 \/ desired'[b] <= targets'[b]
      BY <1>1, <2>1, <2>3, <3>1
    <3>4. pods'[b].pending + pods'[b].running <= desired'[b]
      BY <1>1, <1>6, <2>1, <2>3, <3>1, <3>2
    <3>. QED
      BY <1>6, <2>1, <3>3, <3>4 DEF NoMoreThanAsked
  <2>. QED
    BY <2>2, <2>3
<1>. QED
  BY <1>4, <1>7

\* The poll sees the sum of both kinds only; as neither has more pods than its
\* target, each has as many.
LEMMA PollMeansSize ==
    ASSUME Growing, TypeInv, SizeInv, fresh, pc = "poll", EnoughPods, AllRunning
    PROVE  \A a \in App : targets[a] <= pods[a].running
<1>1. \A a \in App : /\ pods[a].pending \in Nat /\ pods[a].running \in Nat
                     /\ desired[a] \in Nat /\ targets[a] \in Nat
  BY DEF TypeInv, ProgramTypes, ClusterTypes, PodCounts
<1>2. \A a \in App : targets[a] >= 1
  <2>1. \A a \in App : targets[a] = Wanted(s, a)
    BY DEF SizeInv, TargetsFollow, Waiting
  <2>2. \A a \in App : Wanted(s, a) >= 1
    BY DEF Growing, TypeInv, ProgramTypes
  <2>. QED
    BY <2>1, <2>2
<1>3. \A a \in App : pods[a].ending = 0 /\ pods[a].running <= targets[a]
  BY <1>1, <1>2 DEF SizeInv, NoMoreThanAsked
<1>4. /\ pods["loadbots"].running + pods["webserver"].running
            >= targets["loadbots"] + targets["webserver"]
  BY <1>1, <1>3 DEF EnoughPods, AllRunning, AllPods, Pending, Up, InState, App
<1>5. /\ targets["loadbots"] <= pods["loadbots"].running
      /\ targets["webserver"] <= pods["webserver"].running
  BY <1>1, <1>3, <1>4 DEF App
<1>. QED
  BY <1>5 DEF App

LEMMA StepKeepsSize == Growing => (SizeInv /\ TypeInv /\ [Next]_vars => SizeInv')
<1>. SUFFICES ASSUME Growing, SizeInv, TypeInv, [Next]_vars, fresh'
              PROVE  (\A a \in App : NoMoreThanAsked(a))' /\ TargetsFollow' /\ Measuring'
  BY DEF SizeInv
<1>. USE DEF progVars, clusterVars
<1>0. fresh
  BY DEF Next, Program, CheckPreconditions, DeployScript, CreateNamespace, CreateService,
         SetUp, CreateWebserver, CreateLoadbots, CreateReplicationController,
         ScaleLoadbots, ScaleWebservers, Scale, WaitForPods, GetIPs, GetIPsFails,
         RunScript, RunScriptFails, Evaluate, FetchAgain, ShowSummary, Cluster,
         PodCreated, PodRuns, PodEnds, PodGone, Ended, vars
<1>1. (\A a \in App : NoMoreThanAsked(a)) /\ TargetsFollow /\ Measuring
  BY <1>0 DEF SizeInv
<1>2. \A a \in App : /\ pods[a].pending \in Nat /\ pods[a].running \in Nat
                     /\ pods[a].ending \in Nat
                     /\ desired[a] \in Nat /\ targets[a] \in Nat
  BY DEF TypeInv, ProgramTypes, ClusterTypes, PodCounts
<1>3. targets \in [App -> Nat] /\ desired \in [App -> Nat] /\ pods \in [App -> PodCounts]
  BY DEF TypeInv, ProgramTypes, ClusterTypes
\* Steps that leave the cluster and the targets alone.
<1>4. ASSUME UNCHANGED <<s, targets, desired, pods>>,
             pc' \in SettingUp => pc \in SettingUp,
             pc' # "scale2",
             pc' \in Waiting => pc \in Waiting,
             pc' \in {"ips", "run", "judge"} => pc \in {"ips", "run", "judge"}
      PROVE  (\A a \in App : NoMoreThanAsked(a))' /\ TargetsFollow' /\ Measuring'
  BY <1>1, <1>4 DEF NoMoreThanAsked, TargetsFollow, Measuring, Wanted
<1>5. CASE CheckPreconditions \/ DeployScript \/ CreateNamespace \/ CreateService
  BY <1>4, <1>5 DEF CheckPreconditions, DeployScript, CreateNamespace, CreateService,
                    SetUp, SettingUp, Waiting
<1>6. ASSUME NEW a \in App, NEW from \in SettingUp, NEW to,
             CreateReplicationController(a, from, to), to \in {"load", "scale"}
      PROVE  (\A b \in App : NoMoreThanAsked(b))' /\ TargetsFollow' /\ Measuring'
  <2>1. \A b \in App : targets[b] = 0
    BY <1>1, <1>6 DEF TargetsFollow, CreateReplicationController
  <2>2. \A b \in App : desired[b] <= 1
    BY <1>1, <1>2, <2>1 DEF NoMoreThanAsked
  <2>3. UNCHANGED <<s, targets, pods>>
    BY <1>6 DEF CreateReplicationController
  <2>4. \A b \in App : desired'[b] = desired[b] \/ desired'[b] = 1
    BY <1>3, <1>6 DEF CreateReplicationController, Apply
  <2>5. (\A b \in App : NoMoreThanAsked(b))'
    BY <1>1, <1>2, <2>2, <2>3, <2>4 DEF NoMoreThanAsked
  <2>6. TargetsFollow'
    BY <1>1, <1>6, <2>1, <2>3 DEF TargetsFollow, Wanted, CreateReplicationController,
                                  SettingUp, Waiting
  <2>7. Measuring'
    BY <1>6 DEF Measuring, CreateReplicationController
  <2>. QED
    BY <2>5, <2>6, <2>7
<1>7. CASE CreateWebserver
  BY <1>6, <1>7 DEF CreateWebserver, SettingUp, App
<1>8. CASE CreateLoadbots
  BY <1>6, <1>8 DEF CreateLoadbots, SettingUp, App
<1>9. CASE ScaleLoadbots
  <2>1. /\ targets' = [targets EXCEPT !["loadbots"] = Wanted(s, "loadbots")]
        /\ \A b \in App : NoMoreThanAsked(b)'
    BY <1>0, <1>9, ScaleKeepsSize DEF ScaleLoadbots, App
  <2>2. pc' = "scale2" /\ s' = s
    BY <1>9 DEF ScaleLoadbots, Scale
  <2>3. Wanted(s, "loadbots") \in Nat
    BY WantedType DEF TypeInv, ProgramTypes, App
  <2>4. TargetsFollow'
    <3>1. \A b \in App : targets'[b] <= Wanted(s, b)
      BY <1>1, <1>3, <2>1, <2>3 DEF TargetsFollow, App
    <3>2. targets'["loadbots"] = Wanted(s, "loadbots")
      BY <1>3, <2>1 DEF App
    <3>. QED
      BY <2>2, <3>1, <3>2 DEF TargetsFollow, SettingUp, Waiting, Wanted
  <2>. QED
    BY <2>1, <2>2, <2>4 DEF Measuring
<1>10. CASE ScaleWebservers
  <2>1. /\ targets' = [targets EXCEPT !["webserver"] = Wanted(s, "webserver")]
        /\ \A b \in App : NoMoreThanAsked(b)'
    BY <1>0, <1>10, ScaleKeepsSize DEF ScaleWebservers, App
  <2>2. pc = "scale2" /\ pc' = "poll" /\ s' = s
    BY <1>10 DEF ScaleWebservers, Scale
  <2>3. \A b \in App : Wanted(s, b) \in Nat
    BY WantedType DEF TypeInv, ProgramTypes
  <2>4. \A b \in App : targets'[b] = Wanted(s, b)
    BY <1>1, <1>3, <2>1, <2>2 DEF TargetsFollow, App
  <2>5. TargetsFollow'
    BY <2>2, <2>3, <2>4 DEF TargetsFollow, SettingUp, Waiting, Wanted
  <2>. QED
    BY <2>1, <2>2, <2>5 DEF Measuring
<1>11. CASE WaitForPods
  <2>1. pc = "poll" /\ UNCHANGED <<s, targets, desired, pods>>
    BY <1>11 DEF WaitForPods
  <2>2. CASE pc' = "poll"
    BY <1>4, <2>1, <2>2 DEF SettingUp, Waiting
  <2>3. CASE pc' = "ips"
    <3>1. EnoughPods /\ AllRunning
      BY <1>11, <2>1, <2>3 DEF WaitForPods
    <3>2. \A a \in App : targets[a] <= pods[a].running
      BY <1>0, <2>1, <3>1, PollMeansSize
    <3>3. Measuring' /\ (\A a \in App : NoMoreThanAsked(a))'
      BY <1>1, <2>1, <3>2 DEF Measuring, NoMoreThanAsked
    <3>4. TargetsFollow'
      BY <1>1, <2>1, <2>3 DEF TargetsFollow, SettingUp, Waiting, Wanted
    <3>. QED
      BY <3>3, <3>4
  <2>. QED
    BY <1>11, <2>1, <2>2, <2>3 DEF WaitForPods
<1>12. CASE GetIPs \/ GetIPsFails \/ RunScript \/ RunScriptFails \/ FetchAgain \/ ShowSummary
  BY <1>4, <1>12 DEF GetIPs, GetIPsFails, RunScript, RunScriptFails, FetchAgain,
                     ShowSummary, Returns, SettingUp, Waiting
<1>13. CASE Evaluate
  <2>1. pc = "judge" /\ UNCHANGED <<targets, desired, pods>>
    BY <1>13 DEF Evaluate
  <2>2. (\A a \in App : NoMoreThanAsked(a))'
    BY <1>1, <2>1 DEF NoMoreThanAsked
  <2>3. \A a \in App : targets[a] <= Wanted(s', a)
    <3>1. s' = s \/ (s' = s + 1 /\ s < Len(Scenarios))
      BY <1>13 DEF Evaluate
    <3>2. s \in 1 .. Len(Scenarios) /\ s' \in 1 .. Len(Scenarios)
      BY <3>1 DEF TypeInv, ProgramTypes
    <3>3. \A a \in App : Wanted(s, a) \in Nat /\ Wanted(s', a) \in Nat
      BY <3>2, WantedType
    <3>4. \A a \in App : Wanted(s, a) <= Wanted(s', a)
      BY <3>1, <3>2, <3>3 DEF Growing
    <3>. QED
      BY <1>1, <1>2, <3>3, <3>4 DEF TargetsFollow
  <2>4. pc' \in {"scale", "summary"}
    BY <1>13 DEF Evaluate
  <2>5. TargetsFollow'
    BY <2>1, <2>3, <2>4 DEF TargetsFollow, SettingUp, Waiting, Wanted
  <2>. QED
    BY <2>2, <2>4, <2>5 DEF Measuring
<1>14. CASE Cluster
  <2>1. PICK a \in App : PodCreated(a) \/ PodRuns(a) \/ PodEnds(a) \/ PodGone(a)
    BY <1>14 DEF Cluster
  <2>2. UNCHANGED <<pc, s, targets, desired>>
    BY <2>1 DEF PodCreated, PodRuns, PodEnds, PodGone
  <2>3. ~PodEnds(a) /\ ~PodGone(a)
    <3>1. PodEnds(a) => pods[a].pending + pods[a].running > desired[a]
      BY DEF PodEnds, Active, InState
    <3>2. PodGone(a) => pods[a].ending > 0
      BY DEF PodGone, InState
    <3>3. pods[a].pending + pods[a].running <= desired[a] /\ pods[a].ending = 0
      BY <1>1 DEF NoMoreThanAsked
    <3>. QED
      BY <1>2, <3>1, <3>2, <3>3
  <2>4. \A b \in App :
            /\ pods'[b].ending = 0 /\ pods'[b].pending + pods'[b].running <= desired[b]
            /\ pods[b].running <= pods'[b].running
    <3>1. CASE PodCreated(a)
      BY <1>1, <1>2, <1>3, <3>1 DEF PodCreated, Active, InState, NoMoreThanAsked, PodCounts
    <3>2. CASE PodRuns(a)
      BY <1>1, <1>2, <1>3, <3>2 DEF PodRuns, InState, NoMoreThanAsked, PodCounts
    <3>. QED
      BY <2>1, <2>3, <3>1, <3>2
  <2>5. (\A b \in App : NoMoreThanAsked(b))'
    BY <1>1, <2>2, <2>4 DEF NoMoreThanAsked
  <2>6. TargetsFollow'
    BY <1>1, <2>2 DEF TargetsFollow, Wanted
  <2>7. Measuring'
    <3>1. \A b \in App : pods'[b].running \in Nat
      BY ClusterKeepsTypes, <1>14 DEF TypeInv, ClusterTypes, PodCounts
    <3>. QED
      BY <1>1, <1>2, <2>2, <2>4, <3>1 DEF Measuring
  <2>. QED
    BY <2>5, <2>6, <2>7
<1>15. CASE UNCHANGED vars
  BY <1>1, <1>15 DEF vars, NoMoreThanAsked, TargetsFollow, Measuring, Wanted
<1>. QED
  BY <1>5, <1>7, <1>8, <1>9, <1>10, <1>11, <1>12, <1>13, <1>14, <1>15
     DEF Next, Program, Ended

(* On a cluster without leftovers, scenarios that do not shrink are measured *)
(* at their size, whichever calls fail.                                      *)
THEOREM ScenariosMeasuredAtSize == Growing => (Spec => []MeasuredAtSize)
<1>1. SizeInv /\ TypeInv => MeasuredAtSize
  <2>. SUFFICES ASSUME SizeInv, TypeInv, fresh, pc \in {"ips", "run"}, NEW a \in App
                PROVE  targets[a] <= desired[a] /\ targets[a] <= Up(a)
    BY DEF MeasuredAtSize
  <2>1. /\ pods[a].pending \in Nat /\ pods[a].running \in Nat /\ pods[a].ending \in Nat
        /\ desired[a] \in Nat /\ targets[a] \in Nat
    BY DEF TypeInv, ProgramTypes, ClusterTypes, PodCounts
  <2>2. targets[a] <= pods[a].running /\ pods[a].pending + pods[a].running <= desired[a]
    BY DEF SizeInv, Measuring, NoMoreThanAsked
  <2>. QED
    BY <2>1, <2>2 DEF Up, InState
<1>2. ASSUME Growing PROVE Spec => []MeasuredAtSize
  <2>1. SizeInv /\ TypeInv /\ [Next]_vars => SizeInv'
    BY <1>2, StepKeepsSize
  <2>. QED
    BY <1>1, <2>1, InitSize, TypeInvHolds, PTL DEF Spec
<1>. QED
  BY <1>2
=============================================================================
