---------------------------- MODULE NetperfProofs ----------------------------
(***************************************************************************)
(* Proofs about Netperf, for any number of masters, workers and runs, and  *)
(* any number of failures: the types, that DONE stands for whole results   *)
(* of one pod, and what a run leaves behind, whichever way it ends.        *)
(***************************************************************************)
EXTENDS Netperf, TLAPS

\* The program points of the deployment of a resource, and where a node is picked.
Deploying == {"upload", "apply", "delete", "sudodelete", "judge"}
Working == PCs \ (Over \cup {"idle", "access"})

ControlInv ==
    /\ pc \in Working \cup {"done"} => turn <= Len(Masters)
    /\ pc # "idle" => run >= 1
    /\ pc \in {"access", "check"} => res = Namespace
    /\ pc \in Deploying => res <= Last
    /\ pc \in {"nodes", "ip"} => res = Orchestrator
    /\ pc = "remove" => cleanup /\ res \in FirstRemoved .. Last

\* The pods of the orchestrator: each but the first replaces one whose loss is
\* counted, because its controller is never removed.
OrchestratorInv ==
    /\ Orchestrator \in exists => run >= 1
    /\ live[Orchestrator] # "absent" => Orchestrator \in exists /\ gen >= 1
    /\ ending[Orchestrator] => gen >= 1
    /\ ending[Orchestrator] /\ live[Orchestrator] # "absent" => gen >= 2
    /\ gen <= failures + 1
    /\ live[Orchestrator] = "absent" => gen <= failures

ClusterInv == ClusterTypes /\ OrchestratorInv

LEMMA Numbers ==
    /\ Len(Masters) \in Nat /\ Last \in Nat /\ Last >= 5
    /\ Resources = 1 .. Last /\ Workers = 5 .. Last
    /\ MaxRuns \in Nat /\ MaxFaults \in Nat /\ MaxGen = MaxRuns + MaxFaults
BY NetperfAssumption DEF Last, Resources, Workers, MaxGen

LEMMA Picked == ControlInv /\ turn \in Nat \ {0} /\ pc \in Working => Master \in MasterSet
BY DEF ControlInv, Master, MasterSet

-----------------------------------------------------------------------------
(* Control                                                                  *)

\* Every step counts the failures it makes.
LEMMA FailureStep ==
    ASSUME failures \in 0 .. MaxFaults, [Next]_vars
    PROVE  failures' \in {failures, failures + 1} /\ failures' \in 0 .. MaxFaults
<1>1. CASE Start \/ Measures \/ Ended \/ UNCHANGED vars \/ (\E c \in Controllers : Follows(c))
  BY <1>1 DEF Start, Measures, Ended, vars, Follows, PodCreated, PodRuns, PodEnds, PodGone
<1>2. CASE Disturbed
  BY <1>2, Numbers DEF Disturbed, NodeLost, MasterGoes, PodReplaced
<1>3. CASE Program
  <2>1. failures' = failures \/ (failures < MaxFaults /\ failures' = failures + 1)
    BY <1>3 DEF Program, Access, CheckPreconditions, GetNumberOfReadyNodes, UploadFile, Apply,
       DeleteRemoteFile, Deployed, GetNodes, GetServiceIP, WaitForServices, GetPodName,
       GetCsvResults, CopyFromPod, DownloadFile, RemoveResource, Answers, Fails
  <2>. QED
    BY <2>1, Numbers
<1>. QED
  BY <1>1, <1>2, <1>3 DEF Next

LEMMA InitControl == Init => ControlInv
BY DEF Init, ControlInv, Working, Over, Deploying

\* Steps of the cluster, and of the masters.
LEMMA Elsewhere ==
    ASSUME Measures \/ (\E c \in Controllers : Follows(c)) \/ Disturbed \/ Ended \/ UNCHANGED vars
    PROVE  /\ UNCHANGED <<LocalOn, pc, progVars, tempVars, fileVars, refused, exists>>
           /\ away' = away \/ (away' = away \cup {Master} /\ pc \notin Over \cup {"idle", "access"})
BY DEF Measures, Follows, Disturbed, Ended, vars, clusterOnly, clusterVars, PodCreated, PodRuns,
   PodEnds, PodGone, PodLeaves, PodReplaced, NodeLost, MasterGoes

LEMMA ControlStep ==
    ASSUME ControlInv, pc \in PCs, turn \in 1 .. Len(Masters) + 1, res \in 1 .. Last + 1,
           run \in 0 .. MaxRuns, [Next]_vars
    PROVE  /\ ControlInv' /\ pc' \in PCs /\ turn' \in 1 .. Len(Masters) + 1
           /\ res' \in 1 .. Last + 1 /\ run' \in 0 .. MaxRuns
<1>1. CASE Start
  <2>1. pc' \in {"check", "access"} /\ res' = Namespace /\ run' = run + 1 /\ run < MaxRuns
    BY <1>1 DEF Start
  <2>2. /\ turn' \in 1 .. Len(Masters) + 1
        /\ pc' = "check" => turn' \in 1 .. Len(Masters)
    <3>1. CASE LocalOn \in MasterSet
      <4>1. \E i \in 1 .. Len(Masters) : Masters[i] = LocalOn
        BY <3>1 DEF MasterSet
      <4>2. turn' \in 1 .. Len(Masters)
        BY <1>1, <3>1, <4>1 DEF Start
      <4>. QED
        BY <4>2, Numbers
    <3>2. CASE LocalOn \notin MasterSet
      BY <1>1, <3>2, Numbers DEF Start
    <3>. QED
      BY <3>1, <3>2
  <2>. QED
    BY <2>1, <2>2, Numbers DEF ControlInv, PCs, Working, Over, Deploying, Namespace
<1>2. CASE Measures \/ (\E c \in Controllers : Follows(c)) \/ Disturbed \/ Ended \/ UNCHANGED vars
  BY <1>2, Elsewhere DEF ControlInv, progVars
<1>3. CASE Access
  BY <1>3, Numbers DEF Access, MoreMasters, Answers, Fails, Errs, ControlInv, PCs, Working, Over,
     Deploying
<1>4. CASE CheckPreconditions
  BY <1>4, Numbers DEF CheckPreconditions, GetNumberOfReadyNodes, Answers, Fails, Errs, progVars,
     ControlInv, PCs, Working, Over, Deploying, Namespace
<1>5. CASE UploadFile \/ Apply \/ DeleteRemoteFile
  <2>1. /\ UNCHANGED <<turn, res, run>> /\ pc \in {"upload", "apply", "delete", "sudodelete"}
        /\ pc' \in Deploying \cup Over
    BY <1>5 DEF UploadFile, Apply, DeleteRemoteFile, AfterFailedDelete, Answers, Fails, Errs,
       progVars, Deploying, Over
  <2>. QED
    BY <2>1 DEF ControlInv, PCs, Working, Over, Deploying
<1>6. CASE Deployed
  <2>1. /\ UNCHANGED <<turn, run>> /\ pc = "judge"
        /\ \/ pc' = "exit" /\ res' = res
           \/ pc' = "nodes" /\ res = Orchestrator /\ res' = res
           \/ pc' = "poll" /\ res' = res
           \/ pc' = "upload" /\ res # Last /\ res' = res + 1
    BY <1>6 DEF Deployed
  <2>. QED
    BY <2>1, Numbers DEF ControlInv, PCs, Working, Over, Deploying, Orchestrator
<1>7. CASE GetNodes \/ GetServiceIP
  <2>1. /\ UNCHANGED <<turn, run>> /\ pc \in {"nodes", "ip"}
        /\ \/ pc' = "ip" /\ pc = "nodes" /\ res' = res
           \/ pc' \in Over /\ res' \in {res, Orchestrator + 1}
           \/ pc' = "upload" /\ res' = Orchestrator + 1
    BY <1>7 DEF GetNodes, GetServiceIP, AfterServiceIP, Answers, Fails, Errs, Over
  <2>. QED
    BY <2>1, Numbers DEF ControlInv, PCs, Working, Over, Deploying, Orchestrator
<1>8. CASE WaitForServices \/ GetPodName \/ GetCsvResults \/ CopyFromPod
  <2>1. /\ UNCHANGED <<turn, run, res>> /\ pc \in {"poll", "name", "logs", "copy"}
        /\ pc' \in {"poll", "name", "logs", "copy", "download", "panic"}
    BY <1>8 DEF WaitForServices, GetPodName, GetCsvResults, CopyFromPod, AfterFailedCopy,
       Answers, Fails, Errs, progVars
  <2>. QED
    BY <2>1 DEF ControlInv, PCs, Working, Over, Deploying
<1>9. CASE DownloadFile
  <2>1. /\ UNCHANGED <<turn, run, cleanup>> /\ pc = "download" /\ res' = FirstRemoved
        /\ pc' \in {"copy", "done", "logs", "panic"} \/ (pc' = "remove" /\ cleanup)
    BY <1>9 DEF DownloadFile, AfterFetch, Answers, Fails, Errs
  <2>. QED
    BY <2>1, Numbers DEF ControlInv, PCs, Working, Over, Deploying, FirstRemoved, OrchestratorService
<1>10. CASE RemoveResource
  <2>1. /\ UNCHANGED <<turn, run, cleanup>> /\ pc = "remove" /\ res' = res + 1
        /\ pc' \in Over \/ (pc' = "remove" /\ res < Last)
    BY <1>10 DEF RemoveResource, LastRemoved, Answers, Fails, Errs, Over
  <2>. QED
    BY <2>1, Numbers DEF ControlInv, PCs, Working, Over, Deploying, FirstRemoved, OrchestratorService
<1>. QED
  BY <1>1, <1>2, <1>3, <1>4, <1>5, <1>6, <1>7, <1>8, <1>9, <1>10 DEF Next, Program

-----------------------------------------------------------------------------
(* The cluster                                                              *)

LEMMA InitCluster == Init => ClusterInv
BY Numbers, NetperfAssumption
   DEF Init, ClusterInv, ClusterTypes, OrchestratorInv, Controllers, MaxGen

\* What a step of the program does to the cluster.
LEMMA ExistsStep ==
    ASSUME ControlInv, exists \subseteq Resources, run \in Nat, res \in Nat \ {0},
           Start \/ Program
    PROVE  /\ exists' \subseteq Resources
           /\ Orchestrator \in exists => Orchestrator \in exists'
           /\ Orchestrator \in exists' => Orchestrator \in exists \/ run' >= 1
           /\ run' \in {run, run + 1}
           /\ UNCHANGED <<live, ending, gen, csv, ready>>
<1>1. CASE Apply
  <2>1. pc = "apply" /\ exists' \in {exists, exists \cup {res}} /\ run' = run
        /\ UNCHANGED <<live, ending, gen, csv, ready>>
    BY <1>1 DEF Apply, Effect
  <2>2. res \in Resources /\ run >= 1
    BY <2>1, Numbers DEF ControlInv, Deploying
  <2>. QED
    BY <2>1, <2>2
<1>2. CASE RemoveResource
  <2>1. /\ exists' \in {exists, exists \ {res}} /\ run' = run
        /\ exists' # exists => HasType(res)
        /\ UNCHANGED <<live, ending, gen, csv, ready>>
    BY <1>2 DEF RemoveResource, Effect
  <2>. QED
    BY <2>1 DEF HasType
<1>3. CASE Start
  BY <1>3 DEF Start, clusterVars
<1>4. CASE Program /\ ~Apply /\ ~RemoveResource
  BY <1>4 DEF Program, Access, CheckPreconditions, UploadFile, DeleteRemoteFile, Deployed,
     GetNodes, GetServiceIP, WaitForServices, GetPodName, GetCsvResults, CopyFromPod,
     DownloadFile, clusterVars, progVars
<1>. QED
  BY <1>1, <1>2, <1>3, <1>4

LEMMA Controlled == Orchestrator \in Controllers
BY DEF Controllers

\* A step that leaves the pods of the orchestrator alone.
LEMMA OrchestratorKept ==
    ASSUME OrchestratorInv, gen \in Nat, failures \in Nat, failures' \in {failures, failures + 1},
           gen' = gen, live'[Orchestrator] = live[Orchestrator],
           ending'[Orchestrator] = ending[Orchestrator],
           Orchestrator \in exists => Orchestrator \in exists',
           Orchestrator \in exists' => run' >= 1
    PROVE  OrchestratorInv'
<1>1. gen <= failures + 1 /\ (live[Orchestrator] = "absent" => gen <= failures)
  BY DEF OrchestratorInv
<1>2. failures' \in Nat /\ failures <= failures'
  OBVIOUS
<1>3. gen' <= failures' + 1
  <2>1. \A g, f, h \in Nat : g <= f + 1 /\ f <= h => g <= h + 1
    OBVIOUS
  <2>. QED
    BY <1>1, <1>2, <2>1
<1>4. live'[Orchestrator] = "absent" => gen' <= failures'
  BY <1>1, <1>2
<1>5. /\ live'[Orchestrator] # "absent" => Orchestrator \in exists' /\ gen' >= 1
      /\ ending'[Orchestrator] => gen' >= 1
      /\ ending'[Orchestrator] /\ live'[Orchestrator] # "absent" => gen' >= 2
  BY DEF OrchestratorInv
<1>. QED
  BY <1>3, <1>4, <1>5 DEF OrchestratorInv

\* Measuring gets on, from none to whole, and only for the latest pod.
LEMMA MeasuresStep ==
    ASSUME ClusterInv, Measures
    PROVE  /\ gen \in 1 .. MaxGen /\ csv' \in [1 .. MaxGen -> {"none", "begun", "whole"}]
           /\ \A g \in 1 .. MaxGen : csv[g] = "whole" => csv'[g] = "whole"
           /\ UNCHANGED <<exists, live, ending, gen, ready, failures, run>>
<1>1. gen \in 1 .. MaxGen /\ csv \in [1 .. MaxGen -> {"none", "begun", "whole"}]
  BY Numbers DEF ClusterInv, ClusterTypes, OrchestratorInv, Measures
<1>2. \/ csv[gen] = "none" /\ csv' = [csv EXCEPT ![gen] = "begun"]
      \/ csv[gen] = "begun" /\ csv' = [csv EXCEPT ![gen] = "whole"]
  BY DEF Measures
<1>. QED
  BY <1>1, <1>2 DEF Measures, clusterOnly, progVars

LEMMA PodStep ==
    ASSUME ClusterInv, failures \in 0 .. MaxFaults, run \in 0 .. MaxRuns,
           (\E c \in Controllers : Follows(c)) \/ Disturbed
    PROVE  ClusterInv'
<1>. USE DEF ClusterInv
<1>0. /\ live \in [Controllers -> {"absent", "pending", "running"}]
      /\ ending \in [Controllers -> BOOLEAN] /\ gen \in Nat
      /\ gen <= MaxGen /\ failures \in Nat /\ failures <= MaxFaults /\ run \in Nat /\ run <= MaxRuns
  BY Numbers DEF ClusterTypes
<1>1. UNCHANGED <<exists, csv, run>> /\ failures' \in {failures, failures + 1}
  BY DEF Follows, Disturbed, PodCreated, PodRuns, PodEnds, PodGone, PodLeaves, PodReplaced,
     NodeLost, MasterGoes, clusterOnly, progVars, clusterVars
<1>2. CASE NodeLost \/ MasterGoes
  <2>1. UNCHANGED <<live, ending, gen>> /\ ready' \in BOOLEAN
    BY <1>2 DEF NodeLost, MasterGoes, clusterVars, ClusterTypes
  <2>2. ClusterTypes'
    BY <1>1, <2>1 DEF ClusterTypes
  <2>3. OrchestratorInv'
    BY <1>0, <1>1, <2>1, OrchestratorKept DEF OrchestratorInv
  <2>. QED
    BY <2>2, <2>3
<1>3. ASSUME NEW c \in Controllers, PodCreated(c)
      PROVE  ClusterInv'
  <2>1. /\ c \in exists /\ live[c] = "absent" /\ live' = [live EXCEPT ![c] = "pending"]
        /\ gen' = (IF c = Orchestrator THEN gen + 1 ELSE gen)
        /\ UNCHANGED <<ending, ready, failures>>
    BY <1>3 DEF PodCreated
  <2>2. c = Orchestrator => gen + 1 <= MaxGen
    BY <1>0, <2>1, Numbers DEF OrchestratorInv
  <2>3. live' \in [Controllers -> {"absent", "pending", "running"}]
    BY <1>0, <2>1
  <2>4. ClusterTypes'
    BY <1>0, <1>1, <2>1, <2>2, <2>3, Numbers DEF ClusterTypes
  <2>5. CASE c = Orchestrator
    <3>1. live'[Orchestrator] = "pending" /\ gen' = gen + 1
      BY <1>0, <2>1, <2>5, Controlled
    <3>. QED
      BY <1>0, <1>1, <2>1, <2>4, <2>5, <3>1 DEF OrchestratorInv
  <2>6. CASE c # Orchestrator
    <3>1. live'[Orchestrator] = live[Orchestrator] /\ gen' = gen
      BY <1>0, <2>1, <2>6, Controlled
    <3>. QED
      BY <1>0, <1>1, <2>1, <2>4, <3>1 DEF OrchestratorInv
  <2>. QED
    BY <2>5, <2>6
<1>4. ASSUME NEW c \in Controllers, PodRuns(c)
      PROVE  ClusterInv'
  <2>1. /\ live[c] = "pending" /\ live' = [live EXCEPT ![c] = "running"]
        /\ UNCHANGED <<ending, gen, ready, failures>>
    BY <1>4 DEF PodRuns
  <2>2. /\ live' \in [Controllers -> {"absent", "pending", "running"}]
        /\ live'[Orchestrator] = "absent" <=> live[Orchestrator] = "absent"
    BY <1>0, <2>1, Controlled
  <2>. QED
    BY <1>0, <1>1, <2>1, <2>2 DEF ClusterTypes, OrchestratorInv
<1>5. ASSUME NEW c \in Controllers, PodEnds(c) \/ PodReplaced(c)
      PROVE  ClusterInv'
  <2>1. /\ live[c] # "absent" /\ ~ending[c]
        /\ live' = [live EXCEPT ![c] = "absent"] /\ ending' = [ending EXCEPT ![c] = TRUE]
        /\ UNCHANGED <<gen, ready>>
        /\ c \notin exists \/ failures' = failures + 1
    BY <1>5 DEF PodEnds, PodReplaced, PodLeaves
  <2>2. /\ live' \in [Controllers -> {"absent", "pending", "running"}]
        /\ ending' \in [Controllers -> BOOLEAN]
    BY <1>0, <2>1
  <2>3. CASE c = Orchestrator
    <3>1. live'[Orchestrator] = "absent" /\ failures' = failures + 1 /\ gen >= 1
      BY <1>0, <2>1, <2>3, Controlled DEF OrchestratorInv
    <3>. QED
      BY <1>0, <1>1, <2>1, <2>2, <2>3, <3>1 DEF ClusterTypes, OrchestratorInv
  <2>4. CASE c # Orchestrator
    <3>1. /\ live'[Orchestrator] = live[Orchestrator]
          /\ ending'[Orchestrator] = ending[Orchestrator]
      BY <1>0, <2>1, <2>4, Controlled
    <3>2. ClusterTypes'
      BY <1>1, <2>1, <2>2 DEF ClusterTypes
    <3>3. OrchestratorInv'
      BY <1>0, <1>1, <2>1, <3>1, OrchestratorKept DEF OrchestratorInv
    <3>. QED
      BY <3>2, <3>3
  <2>. QED
    BY <2>3, <2>4
<1>6. ASSUME NEW c \in Controllers, PodGone(c)
      PROVE  ClusterInv'
  <2>1. ending' = [ending EXCEPT ![c] = FALSE] /\ UNCHANGED <<live, gen, ready, failures>>
    BY <1>6 DEF PodGone
  <2>2. /\ ending' \in [Controllers -> BOOLEAN]
        /\ ending'[Orchestrator] => ending[Orchestrator]
    BY <1>0, <2>1, Controlled
  <2>. QED
    BY <1>0, <1>1, <2>1, <2>2 DEF ClusterTypes, OrchestratorInv
<1>. QED
  BY <1>2, <1>3, <1>4, <1>5, <1>6 DEF Follows, Disturbed

LEMMA ClusterStep ==
    ASSUME ClusterInv, ControlInv, failures \in 0 .. MaxFaults, run \in 0 .. MaxRuns,
           res \in 1 .. Last + 1, [Next]_vars
    PROVE  ClusterInv'
<1>1. CASE Start \/ Program
  <2>1. exists \subseteq Resources /\ run \in Nat /\ res \in Nat \ {0}
    BY Numbers DEF ClusterInv, ClusterTypes
  <2>2. /\ exists' \subseteq Resources
        /\ Orchestrator \in exists => Orchestrator \in exists'
        /\ Orchestrator \in exists' => Orchestrator \in exists \/ run' >= 1
        /\ run' \in {run, run + 1}
        /\ UNCHANGED <<live, ending, gen, csv, ready>>
    BY <1>1, <2>1, ExistsStep
  <2>3. failures' \in {failures, failures + 1} /\ gen \in Nat /\ failures \in Nat
    BY FailureStep, Numbers DEF ClusterInv, ClusterTypes
  <2>4. ClusterTypes'
    BY <2>2 DEF ClusterInv, ClusterTypes
  <2>5. OrchestratorInv'
    <3>1. Orchestrator \in exists' => run' >= 1
      BY <2>1, <2>2 DEF ClusterInv, OrchestratorInv
    <3>. QED
      BY <2>2, <2>3, <3>1, OrchestratorKept DEF ClusterInv
  <2>. QED
    BY <2>4, <2>5 DEF ClusterInv
<1>2. CASE Measures
  BY <1>2, MeasuresStep DEF ClusterInv, ClusterTypes, OrchestratorInv
<1>3. CASE (\E c \in Controllers : Follows(c)) \/ Disturbed
  BY <1>3, PodStep
<1>4. CASE UNCHANGED vars
  BY <1>4 DEF vars, clusterVars, progVars, ClusterInv, ClusterTypes, OrchestratorInv
<1>. QED
  BY <1>1, <1>2, <1>3, <1>4 DEF Next, Ended


-----------------------------------------------------------------------------
(* The data of the program                                                  *)

ProgInv == ProgTypes /\ ControlInv

LEMMA InitProg == Init => ProgInv
<1>. SUFFICES ASSUME Init PROVE ProgTypes /\ ControlInv
  BY DEF ProgInv
<1>1. Nothing \in Contents
  BY Numbers DEF Nothing, Contents
<1>2. copied \in [MasterSet -> [Files -> Contents]] /\ local \in [Files -> Contents]
  BY <1>1 DEF Init
<1>3. turn \in 1 .. Len(Masters) + 1 /\ res \in 1 .. Last + 1 /\ run \in 0 .. MaxRuns
      /\ failures \in 0 .. MaxFaults
  BY Numbers DEF Init, Namespace
<1>. QED
  BY <1>2, <1>3, InitControl DEF Init, ProgTypes, PCs, Files

\* The numbers of the orchestrator's pods.
LEMMA NamesOfPods ==
    ASSUME ClusterInv
    PROVE  OrchestratorPods \subseteq 1 .. gen /\ gen \in 0 .. MaxGen
<1>1. gen \in Nat /\ gen <= MaxGen
  BY Numbers DEF ClusterInv, ClusterTypes
<1>2. (IF live[Orchestrator] # "absent" THEN {gen} ELSE {}) \subseteq 1 .. gen
  BY <1>1 DEF ClusterInv, OrchestratorInv
<1>3. CASE ~ending[Orchestrator]
  BY <1>1, <1>2, <1>3 DEF OrchestratorPods, ClusterInv, ClusterTypes
<1>4. CASE ending[Orchestrator] /\ live[Orchestrator] # "absent"
  <2>1. gen >= 2
    BY <1>4 DEF ClusterInv, OrchestratorInv
  <2>2. gen - 1 \in 1 .. gen
    BY <1>1, <2>1
  <2>3. OrchestratorPods \subseteq {gen} \cup {gen - 1}
    BY <1>4 DEF OrchestratorPods
  <2>. QED
    BY <1>1, <2>1, <2>2, <2>3 DEF ClusterInv, ClusterTypes
<1>5. CASE ending[Orchestrator] /\ live[Orchestrator] = "absent"
  <2>1. gen >= 1
    BY <1>5 DEF ClusterInv, OrchestratorInv
  <2>2. OrchestratorPods \subseteq {gen}
    BY <1>5 DEF OrchestratorPods
  <2>. QED
    BY <1>1, <2>1, <2>2 DEF ClusterInv, ClusterTypes
<1>. QED
  BY <1>3, <1>4, <1>5

LEMMA ContentType ==
    ASSUME NEW g \in 1 .. MaxGen, NEW w \in BOOLEAN
    PROVE  Content(g, w) \in Contents
BY Numbers DEF Content, Contents

\* What a fetch may write, to the master and to the output directory.
LEMMA CopyStep ==
    ASSUME ProgInv, CopyFromPod
    PROVE  /\ copied' \in [MasterSet -> [Files -> Contents]]
           /\ UNCHANGED <<LocalOn, progVars, tempVars, local, refused, away>>
<1>1. /\ named \subseteq 1 .. MaxGen /\ file \in Files /\ Master \in MasterSet
      /\ copied \in [MasterSet -> [Files -> Contents]]
  <2>1. pc \in Working /\ turn \in Nat \ {0}
    BY Numbers DEF ProgInv, ProgTypes, CopyFromPod, Working, PCs, Over
  <2>. QED
    BY <2>1, Picked DEF ProgInv, ProgTypes
<1>2. \/ copied' = copied
      \/ \E g \in named, w \in BOOLEAN : copied' = [copied EXCEPT ![Master][file] = Content(g, w)]
  BY DEF CopyFromPod
<1>3. ASSUME NEW g \in named, NEW w \in BOOLEAN,
             copied' = [copied EXCEPT ![Master][file] = Content(g, w)]
      PROVE  copied' \in [MasterSet -> [Files -> Contents]]
  <2>1. Content(g, w) \in Contents
    BY <1>1, ContentType
  <2>2. copied[Master] \in [Files -> Contents]
    BY <1>1
  <2>3. [copied[Master] EXCEPT ![file] = Content(g, w)] \in [Files -> Contents]
    BY <2>1, <2>2
  <2>4. copied' = [copied EXCEPT ![Master] = [copied[Master] EXCEPT ![file] = Content(g, w)]]
    BY <1>3
  <2>. QED
    BY <1>1, <2>3, <2>4
<1>. QED
  BY <1>1, <1>2, <1>3 DEF CopyFromPod

LEMMA DownloadStep ==
    ASSUME ProgInv, DownloadFile
    PROVE  /\ local' \in [Files -> Contents] /\ file' \in Files
           /\ UNCHANGED <<LocalOn, cleanup, applied, lines, named, tempVars, copied, refused, away>>
<1>1. /\ file \in Files /\ Master \in MasterSet /\ local \in [Files -> Contents]
      /\ copied \in [MasterSet -> [Files -> Contents]]
  <2>1. pc \in Working /\ turn \in Nat \ {0}
    BY Numbers DEF ProgInv, ProgTypes, DownloadFile, Working, PCs, Over
  <2>. QED
    BY <2>1, Picked DEF ProgInv, ProgTypes
<1>2. copied[Master][file] \in Contents
  BY <1>1
<1>3. [copied[Master][file] EXCEPT !.whole = FALSE] \in Contents
  BY <1>2 DEF Contents
<1>4. \/ local' = local
      \/ local' = [local EXCEPT ![file] = copied[Master][file]]
      \/ local' = [local EXCEPT ![file] = [copied[Master][file] EXCEPT !.whole = FALSE]]
  BY DEF DownloadFile
<1>5. local' \in [Files -> Contents]
  BY <1>1, <1>2, <1>3, <1>4
<1>6. file' \in {file, "output"}
  BY DEF DownloadFile
<1>. QED
  BY <1>1, <1>5, <1>6 DEF DownloadFile, Files

DataTypes ==
    /\ LocalOn \in Locals /\ cleanup \in BOOLEAN /\ applied \in BOOLEAN /\ lines \in BOOLEAN
    /\ named \subseteq 1 .. MaxGen /\ file \in Files
    /\ temp \subseteq Resources /\ stuck \subseteq Resources /\ refused \subseteq Resources
    /\ copied \in [MasterSet -> [Files -> Contents]] /\ local \in [Files -> Contents]
    /\ away \subseteq MasterSet

LEMMA DataStep ==
    ASSUME ProgInv, ClusterInv, [Next]_vars
    PROVE  DataTypes'
<1>0. DataTypes /\ ControlInv /\ turn \in Nat \ {0} /\ res \in Nat \ {0}
  BY Numbers DEF ProgInv, ProgTypes, DataTypes
<1>1. CASE Start
  BY <1>0, <1>1 DEF Start, DataTypes, clusterVars, fileVars, Files
<1>2. CASE Measures \/ (\E c \in Controllers : Follows(c)) \/ Disturbed \/ Ended \/ UNCHANGED vars
  <2>1. /\ UNCHANGED <<LocalOn, pc, progVars, tempVars, fileVars, refused, exists>>
        /\ away' = away \/ (away' = away \cup {Master} /\ pc \notin Over \cup {"idle", "access"})
    BY <1>2, Elsewhere
  <2>2. pc \notin Over \cup {"idle", "access"} => Master \in MasterSet
    BY <1>0, Picked DEF ProgInv, ProgTypes, Working
  <2>. QED
    BY <1>0, <2>1, <2>2 DEF DataTypes, progVars, tempVars, fileVars
<1>3. CASE UploadFile \/ DeleteRemoteFile
  <2>1. res \in Resources
    BY <1>0, <1>3, Numbers DEF UploadFile, DeleteRemoteFile, ControlInv, Deploying
  <2>2. /\ temp' \in {temp, temp \cup {res}, temp \ {res}} /\ stuck' \in {stuck, stuck \cup {res}}
        /\ UNCHANGED <<LocalOn, progVars, fileVars, refused, away>>
    BY <1>3 DEF UploadFile, DeleteRemoteFile, Effect, tempVars
  <2>. QED
    BY <1>0, <2>1, <2>2 DEF DataTypes, progVars, fileVars
<1>4. CASE Apply \/ GetNodes
  <2>1. ready \in BOOLEAN
    BY DEF ClusterInv, ClusterTypes
  <2>. QED
    BY <1>0, <1>4, <2>1 DEF Apply, GetNodes, DataTypes, tempVars, fileVars
<1>5. CASE Access \/ CheckPreconditions \/ Deployed \/ GetServiceIP \/ WaitForServices
  BY <1>0, <1>5 DEF Access, CheckPreconditions, Deployed, GetServiceIP, WaitForServices,
     DataTypes, progVars, tempVars, fileVars
<1>6. CASE GetPodName
  <2>1. named' \in {named, OrchestratorPods} /\ OrchestratorPods \subseteq 1 .. MaxGen
    BY <1>6, NamesOfPods, Numbers DEF GetPodName
  <2>. QED
    BY <1>0, <1>6, <2>1 DEF GetPodName, DataTypes, tempVars, fileVars
<1>7. CASE GetCsvResults
  BY <1>0, <1>7 DEF GetCsvResults, DataTypes, tempVars, fileVars, Files
<1>8. CASE CopyFromPod
  BY <1>0, <1>8, CopyStep DEF DataTypes, progVars, tempVars
<1>9. CASE DownloadFile
  BY <1>0, <1>9, DownloadStep DEF DataTypes, tempVars
<1>10. CASE RemoveResource
  <2>1. res \in Resources
    BY <1>0, <1>10, Numbers DEF RemoveResource, ControlInv, FirstRemoved, OrchestratorService
  <2>. QED
    BY <1>0, <1>10, <2>1 DEF RemoveResource, DataTypes, tempVars, fileVars
<1>. QED
  BY <1>1, <1>2, <1>3, <1>4, <1>5, <1>6, <1>7, <1>8, <1>9, <1>10 DEF Next, Program

TypeInv == ProgInv /\ ClusterInv

LEMMA TypeStep == TypeInv /\ [Next]_vars => TypeInv'
<1>. SUFFICES ASSUME TypeInv, [Next]_vars PROVE TypeInv'
  OBVIOUS
<1>1. /\ ControlInv /\ pc \in PCs /\ turn \in 1 .. Len(Masters) + 1 /\ res \in 1 .. Last + 1
      /\ run \in 0 .. MaxRuns /\ failures \in 0 .. MaxFaults /\ ClusterInv /\ ProgInv
  BY DEF TypeInv, ProgInv, ProgTypes
<1>2. /\ ControlInv' /\ pc' \in PCs /\ turn' \in 1 .. Len(Masters) + 1
      /\ res' \in 1 .. Last + 1 /\ run' \in 0 .. MaxRuns
  BY <1>1, ControlStep
<1>3. failures' \in 0 .. MaxFaults
  BY <1>1, FailureStep
<1>4. DataTypes'
  BY <1>1, DataStep
<1>5. ProgInv'
  BY <1>2, <1>3, <1>4 DEF ProgInv, ProgTypes, DataTypes
<1>6. ClusterInv'
  BY <1>1, ClusterStep
<1>. QED
  BY <1>5, <1>6 DEF TypeInv

LEMMA TypesHold == Spec => []TypeInv
<1>1. Init => TypeInv
  BY InitProg, InitCluster DEF TypeInv
<1>. QED
  BY <1>1, TypeStep, PTL DEF Spec

\* The variables keep their types, the loops over masters and resources of
\* pkg/netperf.go stop, and there is one pod of the orchestrator for each
\* failure that replaces it, and one more.
THEOREM TypeCorrect == Spec => []TypeOK
<1>1. TypeInv => TypeOK
  BY DEF TypeInv, ProgInv, ClusterInv, TypeOK
<1>. QED
  BY <1>1, TypesHold, PTL


-----------------------------------------------------------------------------
(* What is left of the definitions and the resources                        *)

\* A deployment that has got this far has created all before, and a run that is
\* over has removed none of it but in a clean-up, which leaves only what it could
\* not remove.  From the first upload on the node is not the program's own: the
\* clean-up does not panic.
DeployInv ==
    /\ pc \in Deploying => 1 .. res - 1 \subseteq exists
    /\ pc \in {"delete", "sudodelete", "judge"} /\ applied => res \in exists
    /\ pc \in {"nodes", "ip"} => 1 .. res \subseteq exists
    /\ pc \in {"poll", "name", "logs", "copy", "download"} => Resources \subseteq exists
    /\ pc \in {"exit", "panic"} => 1 .. res - 1 \subseteq exists
    /\ pc \in Working \ {"check", "upload"} => ~Local
    /\ pc \in {"remove", "done"} => Namespace \in exists
    /\ pc = "remove" => (FirstRemoved .. res - 1) \cap exists \subseteq refused
    /\ pc = "done" /\ ~cleanup => Resources \subseteq exists
    /\ pc = "done" /\ cleanup => (FirstRemoved .. Last) \cap exists \subseteq refused

\* No definition was uploaded to the program's own node, where a failing rm
\* would end the program.
TempInv == TempFilesDeleted /\ (pc \in {"apply", "delete", "sudodelete"} => ~Local)

LEMMA DeployStep == TypeInv /\ DeployInv /\ [Next]_vars => DeployInv'
<1>. SUFFICES ASSUME TypeInv, DeployInv, [Next]_vars PROVE DeployInv'
  OBVIOUS
<1>0. /\ res \in 1 .. Last + 1 /\ ControlInv /\ exists \subseteq Resources /\ pc \in PCs
      /\ cleanup \in BOOLEAN /\ applied \in BOOLEAN /\ refused \subseteq Resources
  BY DEF TypeInv, ProgInv, ProgTypes, ClusterInv, ClusterTypes
<1>. USE DEF Working, PCs, Over
<1>1. CASE Start
  <2>1. pc' \in {"check", "access"}
    BY <1>1 DEF Start
  <2>. QED
    BY <2>1 DEF DeployInv, Deploying
<1>2. CASE Measures \/ (\E c \in Controllers : Follows(c)) \/ Disturbed \/ Ended \/ UNCHANGED vars
  BY <1>2, Elsewhere DEF DeployInv, progVars, Local, Master
<1>3. CASE Access \/ CheckPreconditions
  <2>1. /\ pc \in {"access", "check"} /\ res' = res
        /\ pc' \in {"access", "check", "exit", "panic"} \/ pc' = "upload"
    BY <1>3 DEF Access, CheckPreconditions, GetNumberOfReadyNodes, Answers, Fails, Errs, progVars
  <2>2. res' = 1
    BY <1>0, <2>1 DEF ControlInv, Namespace
  <2>3. 1 .. res' - 1 = {}
    BY <2>2
  <2>. QED
    BY <2>1, <2>3 DEF DeployInv, Deploying
<1>4. CASE UploadFile
  <2>1. /\ UNCHANGED <<res, exists, turn, LocalOn>> /\ pc = "upload"
        /\ pc' \in {"exit", "panic"} \/ (pc' = "apply" /\ ~Local)
    BY <1>4 DEF UploadFile, Answers, Fails, Errs, progVars, clusterVars
  <2>. QED
    BY <2>1 DEF DeployInv, Deploying, Local, Master
<1>5. CASE Apply
  <2>1. /\ UNCHANGED <<res, turn, LocalOn>> /\ pc = "apply" /\ pc' \in {"delete", "panic"}
        /\ exists \subseteq exists'
        /\ applied' => res \in exists'
    BY <1>5 DEF Apply, Answers, Fails, Errs, Effect, Tolerated
  <2>2. 1 .. res - 1 \subseteq exists
    BY <2>1 DEF DeployInv, Deploying
  <2>3. 1 .. res' - 1 \subseteq exists'
    BY <2>1, <2>2
  <2>4. applied' => res' \in exists'
    BY <2>1
  <2>. QED
    BY <2>1, <2>3, <2>4 DEF DeployInv, Deploying, Local, Master
<1>6. CASE DeleteRemoteFile
  <2>1. /\ UNCHANGED <<res, exists, applied, turn, LocalOn>> /\ pc \in {"delete", "sudodelete"}
        /\ pc' \in {"sudodelete", "judge", "panic"}
    BY <1>6 DEF DeleteRemoteFile, AfterFailedDelete, Answers, Fails, Errs, progVars, clusterVars
  <2>. QED
    BY <2>1 DEF DeployInv, Deploying, Local, Master
<1>7. CASE Deployed
  <2>1. /\ pc = "judge" /\ UNCHANGED <<exists, turn, LocalOn>>
        /\ \/ pc' = "exit" /\ res' = res
           \/ applied /\ pc' = "nodes" /\ res' = res
           \/ applied /\ pc' = "poll" /\ res = Last /\ res' = res
           \/ applied /\ pc' = "upload" /\ res' = res + 1
    BY <1>0, <1>7 DEF Deployed, clusterVars
  <2>2. /\ 1 .. res - 1 \subseteq exists /\ ~Local
        /\ applied => 1 .. res \subseteq exists
    <3>1. 1 .. res = 1 .. res - 1 \cup {res}
      BY <1>0, Numbers
    <3>. QED
      BY <2>1, <3>1 DEF DeployInv, Deploying
  <2>3. CASE pc' = "upload"
    <3>1. res' - 1 = res
      BY <1>0, <2>1, <2>3
    <3>. QED
      BY <2>1, <2>2, <2>3, <3>1 DEF DeployInv, Deploying
  <2>4. CASE pc' # "upload"
    BY <2>1, <2>2, <2>4, Numbers DEF DeployInv, Deploying, Local, Master
  <2>. QED
    BY <2>3, <2>4
<1>8. CASE GetNodes \/ GetServiceIP
  <2>1. /\ pc \in {"nodes", "ip"} /\ UNCHANGED <<exists, turn, LocalOn>> /\ res = Orchestrator
        /\ res' \in {res, res + 1}
        /\ \/ pc' = "ip" /\ res' = res
           \/ pc' \in {"exit", "panic"}
           \/ pc' = "upload" /\ res' = Orchestrator + 1
    <3>1. CASE GetNodes
      BY <1>0, <3>1 DEF GetNodes, Answers, Fails, Errs, ControlInv, clusterVars
    <3>2. CASE GetServiceIP
      BY <1>0, <3>2 DEF GetServiceIP, AfterServiceIP, Answers, Fails, Errs, ControlInv, clusterVars
    <3>. QED
      BY <1>8, <3>1, <3>2
  <2>2. 1 .. res \subseteq exists /\ ~Local
    BY <2>1 DEF DeployInv
  <2>3. res = 4 /\ (res' = 4 \/ (res' = 5 /\ pc' # "ip"))
    BY <2>1 DEF Orchestrator
  <2>4. 1 .. 4 \subseteq exists
    BY <2>2, <2>3
  <2>5. 1 .. res' - 1 \subseteq exists /\ (pc' = "ip" => 1 .. res' \subseteq exists)
    <3>1. CASE res' = 4
      <4>1. res' - 1 = 3 /\ \A i \in 1 .. 3 : i \in 1 .. 4
        BY <3>1
      <4>. QED
        BY <2>4, <3>1, <4>1
    <3>2. CASE res' = 5 /\ pc' # "ip"
      <4>1. res' - 1 = 4
        BY <3>2
      <4>. QED
        BY <2>4, <3>2, <4>1
    <3>. QED
      BY <2>3, <3>1, <3>2
  <2>. QED
    BY <2>1, <2>2, <2>5 DEF DeployInv, Deploying, Local, Master
<1>9. CASE WaitForServices \/ GetPodName \/ GetCsvResults \/ CopyFromPod
  <2>1. /\ UNCHANGED <<exists, res, turn, LocalOn>> /\ pc \in {"poll", "name", "logs", "copy"}
        /\ pc' \in {"poll", "name", "logs", "copy", "download", "panic"}
    BY <1>9 DEF WaitForServices, GetPodName, GetCsvResults, CopyFromPod, AfterFailedCopy,
       Answers, Fails, Errs, clusterVars, progVars
  <2>2. Resources \subseteq exists /\ ~Local
    BY <2>1 DEF DeployInv
  <2>3. 1 .. res' - 1 \subseteq exists
    BY <1>0, <2>1, <2>2, Numbers
  <2>. QED
    BY <2>1, <2>2, <2>3 DEF DeployInv, Deploying, Local, Master
<1>10. CASE DownloadFile
  <2>1. /\ UNCHANGED <<exists, cleanup, turn, LocalOn>> /\ pc = "download" /\ res' = FirstRemoved
        /\ \/ pc' \in {"copy", "logs", "panic"}
           \/ pc' = "remove"
           \/ pc' = "done" /\ ~cleanup
    BY <1>10 DEF DownloadFile, AfterFetch, Answers, Fails, Errs, clusterVars
  <2>2. FirstRemoved .. res' - 1 = {}
    BY <2>1 DEF FirstRemoved, OrchestratorService
  <2>3. Resources \subseteq exists /\ ~Local
    BY <2>1 DEF DeployInv
  <2>4. Namespace \in exists /\ 1 .. res' - 1 \subseteq exists
    BY <2>1, <2>3, Numbers DEF Namespace, FirstRemoved, OrchestratorService
  <2>. QED
    BY <2>1, <2>2, <2>3, <2>4 DEF DeployInv, Deploying, Local, Master
<1>11. CASE RemoveResource
  <2>0. ~Local /\ Namespace \in exists
    BY <1>11 DEF RemoveResource, DeployInv
  <2>1. /\ pc = "remove" /\ res' = res + 1 /\ UNCHANGED <<cleanup, turn, LocalOn>>
        /\ exists' \in {exists, exists \ {res}} /\ refused \subseteq refused'
        /\ res \notin exists' \/ res \in refused'
        /\ pc' = "remove" \/ (pc' = "done" /\ ~(res < Last))
    BY <1>11, <2>0 DEF RemoveResource, LastRemoved, Answers, Fails, Errs, Effect
  <2>2. cleanup /\ res \in FirstRemoved .. Last
    BY <1>0, <2>1 DEF ControlInv
  <2>3. (FirstRemoved .. res - 1) \cap exists \subseteq refused
    BY <2>1 DEF DeployInv
  <2>4. FirstRemoved .. res = (FirstRemoved .. res - 1) \cup {res}
    BY <2>2, Numbers DEF FirstRemoved, OrchestratorService
  <2>5. (FirstRemoved .. res) \cap exists' \subseteq refused'
    BY <2>1, <2>3, <2>4
  <2>6. res' - 1 = res
    BY <1>0, <2>1
  <2>7. pc' = "done" => res = Last
    BY <2>1, <2>2, Numbers DEF FirstRemoved, OrchestratorService
  <2>8. Namespace \in exists'
    BY <2>0, <2>1, <2>2, Numbers DEF Namespace, FirstRemoved, OrchestratorService
  <2>. QED
    BY <2>0, <2>1, <2>2, <2>5, <2>6, <2>7, <2>8 DEF DeployInv, Deploying, Local, Master
<1>. QED
  BY <1>1, <1>2, <1>3, <1>4, <1>5, <1>6, <1>7, <1>8, <1>9, <1>10, <1>11 DEF Next, Program

LEMMA TempStep == TempInv /\ [Next]_vars => TempInv'
<1>. SUFFICES ASSUME TempInv, [Next]_vars PROVE TempInv'
  OBVIOUS
<1>1. CASE Start
  BY <1>1 DEF Start, TempInv, TempFilesDeleted
<1>2. CASE Measures \/ (\E c \in Controllers : Follows(c)) \/ Disturbed \/ Ended \/ UNCHANGED vars
  BY <1>2, Elsewhere DEF TempInv, TempFilesDeleted, Local, Master, progVars, tempVars
<1>3. CASE UploadFile
  <2>1. pc = "upload" /\ UNCHANGED <<res, turn, LocalOn>>
    BY <1>3 DEF UploadFile, progVars
  <2>2. temp \subseteq stuck
    BY <2>1 DEF TempInv, TempFilesDeleted
  <2>3. \/ ~Local /\ pc' = "apply" /\ temp' = temp \cup {res} /\ UNCHANGED stuck
        \/ /\ pc' \in {"exit", "panic"} /\ temp' \in {temp, temp \cup {res}}
           /\ stuck' = stuck \cup {res}
        \/ pc' = "exit" /\ UNCHANGED <<temp, stuck>>
    BY <1>3 DEF UploadFile, Answers, Fails, Errs, Effect, tempVars
  <2>. QED
    BY <2>1, <2>2, <2>3 DEF TempInv, TempFilesDeleted, Local, Master
<1>4. CASE Apply
  <2>1. pc = "apply" /\ ~Local /\ UNCHANGED <<res, turn, LocalOn, temp, stuck>> /\ pc' = "delete"
    BY <1>4 DEF Apply, Answers, Fails, Errs, tempVars, TempInv
  <2>. QED
    BY <2>1 DEF TempInv, TempFilesDeleted, Local, Master
<1>5. CASE DeleteRemoteFile
  <2>1. /\ pc \in {"delete", "sudodelete"} /\ ~Local /\ UNCHANGED <<res, turn, LocalOn>>
        /\ \/ pc' = "judge" /\ temp' = temp \ {res} /\ UNCHANGED stuck
           \/ /\ pc = "delete" /\ pc' = "sudodelete" /\ temp' \subseteq temp /\ UNCHANGED stuck
           \/ /\ pc' = "judge" /\ temp' \subseteq temp /\ stuck' = stuck \cup {res}
    BY <1>5 DEF DeleteRemoteFile, AfterFailedDelete, Answers, Fails, Errs, Effect, progVars, TempInv
  <2>. QED
    BY <2>1 DEF TempInv, TempFilesDeleted, Local, Master
<1>6. CASE Program /\ ~UploadFile /\ ~Apply /\ ~DeleteRemoteFile
  <2>1. /\ pc \notin {"apply", "delete", "sudodelete"} /\ UNCHANGED <<temp, stuck>>
        /\ pc' \notin {"apply", "delete", "sudodelete"}
    BY <1>6 DEF Program, Access, CheckPreconditions, GetNumberOfReadyNodes, Deployed, GetNodes,
       GetServiceIP, AfterServiceIP, WaitForServices, GetPodName, GetCsvResults, CopyFromPod,
       AfterFailedCopy, DownloadFile, AfterFetch, RemoveResource, Answers, Fails, Errs, tempVars
  <2>. QED
    BY <2>1 DEF TempInv, TempFilesDeleted
<1>. QED
  BY <1>1, <1>2, <1>3, <1>4, <1>5, <1>6 DEF Next, Program

-----------------------------------------------------------------------------
(* Results are whole                                                        *)

\* Pod g has finished, and stays so.
Finished(g) == g \in 1 .. gen /\ csv[g] = "whole"

\* Between the steps of a fetch, the files that are already there are those of
\* the one pod that is asked.
Fetching(g) ==
    /\ Finished(g) /\ named = {g}
    /\ file = "output" => /\ local["result"] = Content(g, TRUE)
                          /\ copied[Master]["result"] = Content(g, TRUE)
    /\ pc = "download" => copied[Master][file] = Content(g, TRUE)

Fetched(g) ==
    /\ Finished(g)
    /\ \A f \in Files : local[f] = Content(g, TRUE) /\ copied[Master][f] = Content(g, TRUE)

FetchInv ==
    /\ pc \in {"copy", "download"} => \E g \in Nat : Fetching(g)
    /\ pc \in {"remove", "done"} => \E g \in Nat : Fetched(g)

LEMMA FinishedStays ==
    ASSUME TypeInv, [Next]_vars, NEW g \in Nat, Finished(g)
    PROVE  Finished(g)'
<1>1. gen \in Nat /\ gen <= MaxGen /\ exists \subseteq Resources /\ run \in Nat /\ res \in Nat \ {0}
  BY Numbers DEF TypeInv, ProgInv, ProgTypes, ClusterInv, ClusterTypes
<1>2. g \in 1 .. MaxGen /\ csv[g] = "whole" /\ g \in 1 .. gen
  BY <1>1, Numbers DEF Finished
<1>3. CASE Start \/ Program
  <2>1. UNCHANGED <<gen, csv>>
    BY <1>1, <1>3, ExistsStep DEF TypeInv, ProgInv
  <2>. QED
    BY <1>2, <2>1 DEF Finished
<1>4. CASE Measures
  <2>1. csv'[g] = "whole" /\ gen' = gen
    BY <1>2, <1>4, MeasuresStep DEF TypeInv
  <2>. QED
    BY <1>2, <2>1 DEF Finished
<1>5. CASE (\E c \in Controllers : Follows(c)) \/ Disturbed \/ Ended \/ UNCHANGED vars
  <2>1. csv' = csv /\ gen' \in {gen, gen + 1}
    BY <1>5 DEF Follows, Disturbed, PodCreated, PodRuns, PodEnds, PodGone, PodLeaves, PodReplaced,
       NodeLost, MasterGoes, Ended, vars, clusterVars
  <2>2. g \in 1 .. gen'
    BY <1>1, <1>2, <2>1
  <2>. QED
    BY <1>2, <2>1, <2>2 DEF Finished
<1>. QED
  BY <1>3, <1>4, <1>5 DEF Next

LEMMA FetchStep == TypeInv /\ FetchInv /\ [Next]_vars => FetchInv'
<1>. SUFFICES ASSUME TypeInv, FetchInv, [Next]_vars PROVE FetchInv'
  OBVIOUS
<1>0. /\ file \in Files /\ local \in [Files -> Contents] /\ Files = {"result", "output"}
      /\ copied \in [MasterSet -> [Files -> Contents]]
      /\ pc \in Working => Master \in MasterSet
  <2>1. turn \in Nat \ {0} /\ ControlInv
    BY Numbers DEF TypeInv, ProgInv, ProgTypes
  <2>. QED
    BY <2>1, Picked DEF TypeInv, ProgInv, ProgTypes, Files
<1>1. ASSUME NEW g \in Nat, Fetching(g) PROVE Finished(g)' /\ Finished(g)
  BY <1>1, FinishedStays DEF Fetching
<1>2. ASSUME NEW g \in Nat, Fetched(g) PROVE Finished(g)'
  BY <1>2, FinishedStays DEF Fetched
<1>3. CASE Measures \/ (\E c \in Controllers : Follows(c)) \/ Disturbed \/ Ended \/ UNCHANGED vars
  <2>1. UNCHANGED <<pc, named, file, local, copied, turn>>
    BY <1>3, Elsewhere DEF progVars, fileVars
  <2>2. ASSUME NEW g \in Nat, Fetching(g) PROVE Fetching(g)'
    BY <1>1, <2>1, <2>2 DEF Fetching, Master
  <2>3. ASSUME NEW g \in Nat, Fetched(g) PROVE Fetched(g)'
    BY <1>2, <2>1, <2>3 DEF Fetched, Master
  <2>. QED
    BY <2>1, <2>2, <2>3 DEF FetchInv
<1>4. CASE GetCsvResults
  <2>1. CASE pc' = "copy"
    <3>1. PICK g \in named : Reachable(g) /\ HasResults(g)
      BY <1>4, <2>1 DEF GetCsvResults, Answers, Fails, Errs
    <3>2. g \in 1 .. gen /\ named = {g} /\ csv[g] = "whole" /\ gen \in Nat
      BY <3>1, NamesOfPods DEF TypeInv, Reachable, HasResults, ClusterInv, ClusterTypes
    <3>3. Finished(g) /\ g \in Nat
      BY <3>2 DEF Finished
    <3>4. named' = named /\ file' = "result"
      BY <1>4 DEF GetCsvResults
    <3>5. Fetching(g)'
      BY <2>1, <3>2, <3>3, <3>4, FinishedStays DEF Fetching
    <3>. QED
      BY <2>1, <3>3, <3>5 DEF FetchInv
  <2>2. CASE pc' # "copy"
    BY <1>4, <2>2 DEF FetchInv, GetCsvResults, Answers, Fails, Errs
  <2>. QED
    BY <2>1, <2>2
<1>5. CASE CopyFromPod
  <2>1. /\ pc = "copy" /\ UNCHANGED <<named, file, local, turn>>
        /\ pc' \in {"download", "logs", "panic"}
    BY <1>5 DEF CopyFromPod, AfterFailedCopy, Answers, Fails, Errs, progVars
  <2>2. PICK g \in Nat : Fetching(g)
    BY <2>1 DEF FetchInv
  <2>3. CASE pc' = "download"
    <3>1. copied' = [copied EXCEPT ![Master][file] = Content(g, TRUE)]
      BY <1>5, <2>2, <2>3 DEF CopyFromPod, AfterFailedCopy, Answers, Fails, Errs, Fetching, Finished
    <3>2. Master \in MasterSet
      BY <1>0, <2>1 DEF Working, PCs, Over
    <3>3. /\ copied'[Master][file] = Content(g, TRUE)
          /\ file # "result" => copied'[Master]["result"] = copied[Master]["result"]
      BY <1>0, <3>1, <3>2
    <3>4. Master' = Master
      BY <2>1 DEF Master
    <3>5. Fetching(g)'
      BY <1>1, <2>1, <2>2, <3>3, <3>4 DEF Fetching
    <3>. QED
      BY <2>3, <3>5 DEF FetchInv
  <2>4. CASE pc' # "download"
    BY <2>1, <2>4 DEF FetchInv
  <2>. QED
    BY <2>3, <2>4
<1>6. CASE DownloadFile
  <2>1. /\ pc = "download" /\ UNCHANGED <<named, copied, turn>>
        /\ pc' \in {"copy", "logs", "panic", "remove", "done"}
    BY <1>6 DEF DownloadFile, AfterFetch, Answers, Fails, Errs
  <2>2. PICK g \in Nat : Fetching(g)
    BY <2>1 DEF FetchInv
  <2>3. copied[Master][file] = Content(g, TRUE)
    BY <2>1, <2>2 DEF Fetching
  <2>4. CASE pc' = "copy"
    <3>1. file = "result" /\ file' = "output" /\ local' = [local EXCEPT ![file] = copied[Master][file]]
      BY <1>6, <2>4 DEF DownloadFile, AfterFetch, Answers, Fails, Errs
    <3>2. local'["result"] = Content(g, TRUE)
      BY <1>0, <2>3, <3>1
    <3>3. Fetching(g)'
      BY <1>1, <2>1, <2>2, <2>3, <2>4, <3>1, <3>2 DEF Fetching, Master
    <3>. QED
      BY <2>4, <3>3 DEF FetchInv
  <2>5. CASE pc' \in {"remove", "done"}
    <3>1. file = "output" /\ local' = [local EXCEPT ![file] = copied[Master][file]]
      BY <1>6, <2>5 DEF DownloadFile, AfterFetch, Answers, Fails, Errs
    <3>2. local["result"] = Content(g, TRUE) /\ copied[Master]["result"] = Content(g, TRUE)
      BY <2>2, <3>1 DEF Fetching
    <3>3. \A f \in Files : local'[f] = Content(g, TRUE) /\ copied[Master][f] = Content(g, TRUE)
      BY <1>0, <2>3, <3>1, <3>2
    <3>4. Fetched(g)'
      BY <1>1, <2>1, <2>2, <3>3 DEF Fetched, Master
    <3>. QED
      BY <2>5, <3>4 DEF FetchInv
  <2>6. CASE pc' \in {"logs", "panic"}
    BY <2>6 DEF FetchInv
  <2>. QED
    BY <2>1, <2>4, <2>5, <2>6
<1>7. CASE RemoveResource
  <2>1. pc = "remove" /\ UNCHANGED <<local, copied, turn>> /\ pc' \in {"remove", "done", "panic"}
    BY <1>7 DEF RemoveResource, Answers, Fails, Errs, fileVars
  <2>2. PICK g \in Nat : Fetched(g)
    BY <2>1 DEF FetchInv
  <2>3. Fetched(g)'
    BY <1>2, <2>1, <2>2 DEF Fetched, Master
  <2>. QED
    BY <2>1, <2>3 DEF FetchInv
<1>8. CASE \/ Start
           \/ Program /\ ~GetCsvResults /\ ~CopyFromPod /\ ~DownloadFile /\ ~RemoveResource
  <2>1. pc' \notin {"copy", "download", "remove", "done"}
    BY <1>8 DEF Start, Program, Access, CheckPreconditions, GetNumberOfReadyNodes, UploadFile,
       Apply, DeleteRemoteFile, AfterFailedDelete, Deployed, GetNodes, GetServiceIP,
       AfterServiceIP, WaitForServices, GetPodName, Answers, Fails, Errs
  <2>. QED
    BY <2>1 DEF FetchInv
<1>. QED
  BY <1>3, <1>4, <1>5, <1>6, <1>7, <1>8 DEF Next

\* For any number of runs, masters and replaced pods, DONE stands for both files
\* of results, complete and of one pod that had finished (pkg/netperf.go:331).
THEOREM ResultsAreWhole == Spec => []ResultsWhole
<1>1. Init => FetchInv
  BY DEF Init, FetchInv
<1>2. FetchInv => ResultsWhole
  <2>. SUFFICES ASSUME FetchInv, pc = "done"
                PROVE  \E g \in 1 .. gen :
                           csv[g] = "whole" /\ \A f \in Files : local[f] = Content(g, TRUE)
    BY DEF ResultsWhole
  <2>. QED
    BY DEF FetchInv, Fetched, Finished
<1>. QED
  BY <1>1, <1>2, TypesHold, FetchStep, PTL DEF Spec

\* For any number of runs, masters and workers, whatever fails and whichever way
\* a run ends: definitions are left on a master only where their removal failed;
\* a run that is done leaves the results on the master and, with --cleanup, the
\* namespace and what kubectl did not remove, without it everything; a run that
\* exits or panics leaves all it had deployed (pkg/netperf.go:80-89, 405-431).
THEOREM LeftBehindHolds == Spec => []LeftBehind
<1>1. Init => DeployInv /\ TempInv /\ FetchInv
  BY DEF Init, DeployInv, TempInv, TempFilesDeleted, Deploying, FetchInv, Working, Over
<1>2. TypeInv /\ DeployInv => ResourcesLeft
  <2>. SUFFICES ASSUME TypeInv, DeployInv PROVE ResourcesLeft
    OBVIOUS
  <2>1. exists \subseteq 1 .. Last /\ cleanup \in BOOLEAN
    BY Numbers DEF TypeInv, ProgInv, ProgTypes, ClusterInv, ClusterTypes
  <2>2. 1 .. Last \subseteq {Namespace} \cup FirstRemoved .. Last
    BY Numbers DEF Namespace, FirstRemoved, OrchestratorService
  <2>. QED
    BY <2>1, <2>2, Numbers DEF DeployInv, ResourcesLeft
<1>3. TypeInv /\ FetchInv => ResultsLeft
  <2>. SUFFICES ASSUME TypeInv, FetchInv, pc = "done"
                PROVE  copied[Master] = local
    BY DEF ResultsLeft
  <2>1. PICK g \in Nat : Fetched(g)
    BY DEF FetchInv
  <2>2. /\ local \in [Files -> Contents] /\ copied \in [MasterSet -> [Files -> Contents]]
        /\ turn \in Nat \ {0} /\ ControlInv
    BY Numbers DEF TypeInv, ProgInv, ProgTypes
  <2>3. Master \in MasterSet
    BY <2>2 DEF ControlInv, Master, MasterSet
  <2>4. copied[Master] \in [Files -> Contents] /\ \A f \in Files : copied[Master][f] = local[f]
    BY <2>1, <2>2, <2>3 DEF Fetched
  <2>. QED
    BY <2>2, <2>4
<1>4. TempInv => TempFilesDeleted
  BY DEF TempInv
<1>5. TypeInv /\ DeployInv /\ TempInv /\ FetchInv => LeftBehind
  BY <1>2, <1>3, <1>4 DEF LeftBehind
<1>. QED
  BY <1>1, <1>5, TypesHold, DeployStep, TempStep, FetchStep, PTL DEF Spec

=============================================================================
