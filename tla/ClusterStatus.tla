--------------------------- MODULE ClusterStatus ---------------------------
(***************************************************************************)
(* kubespector cluster-status (pkg/cluster-status.go): the statistics of   *)
(* all nodes of the groups asked for, then, group by group and check by    *)
(* check, one command for each thing configured on each node.              *)
(*                                                                         *)
(* PerformCmd is the environment: it answers or fails (module RemoteCall); *)
(* on the node the program runs on, a command that fails panics            *)
(* (SSHExecutor!ShellEnds).  The words that print an answer are left out.  *)
(***************************************************************************)
EXTENDS Targets

CONSTANTS
    StatusConfigs, \* the configurations: sequences of groups
    StatusArgs,    \* the arguments: names of groups, <<>> for none, "ALL"
    CheckArgs      \* the sets of checks asked for

clusterStatusChecks ==
    <<"Services", "Containers", "Certificates", "DiskUsage", "Kubernetes">>
Checks == {clusterStatusChecks[n] : n \in 1 .. 5}

\* How many things are configured for a check; of those whose disk usage is
\* looked at, the first are file systems, the others directories.
ClusterGroup == [Name : STRING, Nodes : Seq(Node), items : [Checks -> Nat], FileSystems : Nat]

ASSUME StatusAssumption ==
    /\ \A cfg \in StatusConfigs : cfg \in Seq(ClusterGroup)
    /\ \A a \in StatusArgs : a.by \in {"names", "all"} /\ a.names \in Seq(STRING)
    /\ \A s \in CheckArgs : s \subseteq Checks

\* pc is at "select", "collect", "stats", "group", "check", "node", "access",
\* "item", "end", "exit" or "panic"; totalNodes is sorted once it has left
\* "collect"; visited are the nodes whose statistics were asked for.
VARIABLES
    groupArg,     \* clusterStatusOpts.Groups
    checks,       \* clusterStatusChecks, or clusterStatusOpts.Checks
    SkipStats,
    groups,       \* the names of the groups, in order
    check, thing, \* loop counters beside g and k
    node,         \* the executor's node
    made          \* history: the commands of checks that were run, and where

givenVars == <<config, LocalOn, groupArg, checks, SkipStats>>
counterVars == <<g, check, k, thing>>
statusVars == <<givenVars, pc, groups, totalNodes, counterVars, node, visited, made>>

NoNode == [Host |-> Empty, IP |-> Empty]
NoArgs == [by |-> "names", names |-> <<>>]

StatusInit ==
    /\ config \in StatusConfigs /\ LocalOn \in Locals /\ groupArg \in StatusArgs
    /\ checks \in CheckArgs /\ SkipStats \in BOOLEAN
    /\ pc = "select" /\ groups = <<>> /\ totalNodes = <<>>
    /\ g = 1 /\ check = 1 /\ k = 1 /\ thing = 1
    /\ node = NoNode /\ visited = <<>> /\ made = {}

Over == {"end", "exit", "panic"}

-----------------------------------------------------------------------------
(* ClusterStatus: groups and nodes                                          *)

\* The first group of a name; a group without nodes when there is none.
NoGroup == [Name |-> "", Nodes |-> <<>>, items |-> [n \in Checks |-> 0], FileSystems |-> 0]
GroupByName(name) ==
    IF \E n \in 1 .. Len(config) : IsFirst(n, name)
    THEN config[CHOOSE n \in 1 .. Len(config) : IsFirst(n, name)] ELSE NoGroup

AskedGroups ==
    IF groupArg.by = "all" THEN [n \in 1 .. Len(config) |-> config[n].Name]
    ELSE groupArg.names

Select ==
    /\ pc = "select" /\ groupArg # NoArgs
    /\ groups' = AskedGroups /\ pc' = "collect"
    /\ UNCHANGED <<givenVars, totalNodes, counterVars, node, visited, made>>

NoGroupSpecified ==
    /\ pc = "select" /\ groupArg = NoArgs
    /\ pc' = "exit"
    /\ UNCHANGED <<givenVars, groups, totalNodes, counterVars, node, visited, made>>

CurrentGroup == GroupByName(groups[g])
Entry == CurrentGroup.Nodes[k]

\* One iteration of the inner loop: an entry is left out that counts as a node
\* collected before it.
CollectNode ==
    /\ pc = "collect" /\ g <= Len(groups) /\ k <= Len(CurrentGroup.Nodes)
    /\ totalNodes' = IF IsNodeAddressValid(Entry) /\ ~NodeInArray(totalNodes, Entry)
                     THEN Append(totalNodes, Entry) ELSE totalNodes
    /\ k' = k + 1
    /\ UNCHANGED <<givenVars, pc, groups, g, check, thing, node, visited, made>>

FirstEntry_Kept == k
FirstEntry == 1

CollectGroup ==
    /\ pc = "collect" /\ g <= Len(groups) /\ k > Len(CurrentGroup.Nodes)
    /\ g' = g + 1 /\ k' = FirstEntry
    /\ UNCHANGED <<givenVars, pc, groups, totalNodes, check, thing, node, visited, made>>

SortNodes ==
    /\ pc = "collect" /\ g > Len(groups)
    /\ totalNodes' \in SortedByHost(totalNodes) /\ g' = 1
    /\ pc' = IF SkipStats THEN "group" ELSE "stats"
    /\ UNCHANGED <<givenVars, groups, check, k, thing, node, visited, made>>

\* An error is printed, and the loop goes on; but not on the local node.
Panics(n) == NodeEquals(LocalOn, n) /\ pc' = "panic"

StatNode_First == totalNodes[1]
StatNode == totalNodes[k]

\* Two commands on each node, one after the other.
GetNodesStats ==
    /\ pc = "stats" /\ k <= Len(totalNodes)
    /\ node' = StatNode
    /\ \/ visited' = Append(visited, StatNode) /\ k' = k + 1 /\ UNCHANGED pc
       \/ Panics(StatNode) /\ UNCHANGED <<visited, k>>
    /\ UNCHANGED <<givenVars, groups, totalNodes, g, check, thing, made>>

StatsDone ==
    /\ pc = "stats" /\ k > Len(totalNodes)
    /\ pc' = "group" /\ k' = 1
    /\ UNCHANGED <<givenVars, groups, totalNodes, g, check, thing, node, visited, made>>

-----------------------------------------------------------------------------
(* The loops over groups, checks, nodes and things                          *)

Check == clusterStatusChecks[check]
Things == CurrentGroup.items[Check]

EnterGroup ==
    /\ pc = "group"
    /\ \/ g > Len(groups) /\ pc' = "end" /\ UNCHANGED g
       \/ g <= Len(groups) /\ CurrentGroup.Nodes = <<>> /\ g' = g + 1 /\ UNCHANGED pc
       \/ g <= Len(groups) /\ CurrentGroup.Nodes # <<>> /\ pc' = "check" /\ UNCHANGED g
    /\ UNCHANGED <<givenVars, groups, totalNodes, check, k, thing, node, visited, made>>

Skipped == Check \notin checks \/ (Check # "Kubernetes" /\ Things = 0)

NextCheck ==
    /\ check' = check + 1 /\ k' = 1 /\ thing' = 1 /\ pc' = "check"
    /\ UNCHANGED <<givenVars, groups, totalNodes, g, node, visited, made>>

SkipCheck == pc = "check" /\ check <= 5 /\ Skipped /\ NextCheck

LeaveGroup ==
    /\ pc = "check" /\ check > 5
    /\ g' = g + 1 /\ check' = 1 /\ k' = 1 /\ thing' = 1 /\ pc' = "group"
    /\ UNCHANGED <<givenVars, groups, totalNodes, node, visited, made>>

\* The Kubernetes check ends the program when it has nothing to look at, and
\* looks for one node; GetFirstAccessibleNode takes the local one unseen.
LocalTurns == {n \in 1 .. Len(CurrentGroup.Nodes) : NodeEquals(LocalOn, CurrentGroup.Nodes[n])}

EnterCheck ==
    /\ pc = "check" /\ check <= 5 /\ ~Skipped
    /\ CASE Check # "Kubernetes" -> pc' = "node" /\ UNCHANGED <<k, node>>
         [] Check = "Kubernetes" /\ Things = 0 -> pc' = "exit" /\ UNCHANGED <<k, node>>
         [] Check = "Kubernetes" /\ Things # 0 /\ LocalTurns = {} ->
                pc' = "access" /\ UNCHANGED <<k, node>>
         [] OTHER ->
                /\ \E n \in LocalTurns : k' = n /\ \A l \in LocalTurns : n <= l
                /\ pc' = "item" /\ node' = CurrentGroup.Nodes[k']
    /\ UNCHANGED <<givenVars, groups, totalNodes, g, check, thing, visited, made>>

\* hostname may even answer for a node without an address: that of this host.
Access ==
    /\ pc = "access" /\ k <= Len(CurrentGroup.Nodes)
    /\ node' = Entry
    /\ \/ pc' = (IF IsNodeAddressValid(Entry) THEN "item" ELSE "exit") /\ UNCHANGED k
       \/ k' = k + 1 /\ UNCHANGED pc
    /\ UNCHANGED <<givenVars, groups, totalNodes, g, check, thing, visited, made>>

NoMasterAvailable ==
    /\ pc = "access" /\ k > Len(CurrentGroup.Nodes)
    /\ pc' = "exit"
    /\ UNCHANGED <<givenVars, groups, totalNodes, counterVars, node, visited, made>>

SetNode_Not(n) == node
SetNode(n) == n

EnterNode ==
    /\ pc = "node" /\ k <= Len(CurrentGroup.Nodes) /\ IsNodeAddressValid(Entry)
    /\ node' = SetNode(Entry) /\ thing' = 1 /\ pc' = "item"
    /\ UNCHANGED <<givenVars, groups, totalNodes, g, check, k, visited, made>>

\* A node without an address ends the loop over the nodes.
LeaveNodes ==
    /\ pc = "node" /\ (k <= Len(CurrentGroup.Nodes) => ~IsNodeAddressValid(Entry))
    /\ NextCheck

MoreThings_OneMore == thing <= Things + 1
MoreThings == thing <= Things

PerformCheck(name) ==
    /\ pc = "item" /\ Check = name /\ MoreThings
    /\ made' = made \cup {[group |-> g, check |-> check, thing |-> thing, on |-> node]}
    /\ thing' = thing + 1
    /\ UNCHANGED <<givenVars, groups, totalNodes, g, check, k, node, visited>>

\* An error of a command is printed, and the next one follows.
Continues == UNCHANGED pc \/ Panics(node)

CheckServiceStatus == PerformCheck("Services") /\ Continues
CheckContainerStatus == PerformCheck("Containers") /\ Continues
CheckCertificatesExpiration == PerformCheck("Certificates") /\ Continues
CheckKubernetesStatus == PerformCheck("Kubernetes") /\ Continues

\* A row of df that is broken into two lines has too few columns to be split.
ShortRow == thing <= CurrentGroup.FileSystems
CheckDiskStatus == PerformCheck("DiskUsage") /\ (Continues \/ (ShortRow /\ pc' = "panic"))

NextNode ==
    /\ pc = "item" /\ ~MoreThings /\ Check # "Kubernetes"
    /\ k' = k + 1 /\ pc' = "node"
    /\ UNCHANGED <<givenVars, groups, totalNodes, g, check, thing, node, visited, made>>

KubernetesDone == pc = "item" /\ ~MoreThings /\ Check = "Kubernetes" /\ NextCheck

StatusEnded == pc \in Over /\ UNCHANGED statusVars

StatusSteps ==
    \/ Select \/ NoGroupSpecified \/ CollectNode \/ CollectGroup \/ SortNodes
    \/ GetNodesStats \/ StatsDone
    \/ EnterGroup \/ SkipCheck \/ LeaveGroup \/ EnterCheck \/ Access \/ NoMasterAvailable
    \/ EnterNode \/ LeaveNodes \/ NextNode \/ KubernetesDone
    \/ CheckServiceStatus \/ CheckContainerStatus \/ CheckCertificatesExpiration
    \/ CheckDiskStatus \/ CheckKubernetesStatus

StatusNext == StatusSteps \/ StatusEnded

StatusSpec == StatusInit /\ [][StatusNext]_statusVars

-----------------------------------------------------------------------------
(* Properties                                                               *)

Commands == [group : Nat \ {0}, check : 1 .. 5, thing : Nat \ {0}, on : Node]

\* The variables keep their types; no loop runs past its end.
StatusTypeOK ==
    /\ config \in StatusConfigs /\ LocalOn \in Locals /\ groupArg \in StatusArgs
    /\ checks \in CheckArgs /\ SkipStats \in BOOLEAN
    /\ pc \in {"select", "collect", "stats", "group", "check", "node", "access", "item"}
              \cup Over
    /\ groups \in Seq(STRING) /\ totalNodes \in Seq(Node)
    /\ g \in 1 .. Len(groups) + 1 /\ check \in 1 .. 6 /\ k \in Nat \ {0} /\ thing \in Nat \ {0}
    /\ node \in Node /\ visited \in Seq(Node)
    /\ made \subseteq Commands
    /\ pc \in {"node", "access", "item"} =>
           /\ g <= Len(groups) /\ check <= 5
           /\ k <= Len(CurrentGroup.Nodes) + 1 /\ thing <= Things + 1

\* The nodes of a group before its first entry without an address.
Reached(nodes) == {n \in 1 .. Len(nodes) : \A m \in 1 .. n : IsNodeAddressValid(nodes[m])}

MadeOn(a, b, n, last) ==
    \A t \in 1 .. last : [group |-> a, check |-> b, thing |-> t,
                         on |-> GroupByName(groups[a]).Nodes[n]] \in made
CheckMade(a, b) ==
    LET gr == GroupByName(groups[a])
        all == gr.items[clusterStatusChecks[b]]
    IN IF clusterStatusChecks[b] = "Kubernetes"
       THEN gr.Nodes = <<>> \/ \E n \in 1 .. Len(gr.Nodes) : MadeOn(a, b, n, all)
       ELSE \A n \in Reached(gr.Nodes) : MadeOn(a, b, n, all)

\* No check before the one at hand, nor anything it is made of, was left out.
\* With groups given, only the Kubernetes check of the group at hand makes the
\* program give up, and it panics only on its own node or over a row of df.
InCheck(name) == g <= Len(groups) /\ check <= 5 /\ Check = name /\ name \in checks

EverythingChecked ==
    /\ pc # "collect" => \A a \in 1 .. Len(groups), b \in 1 .. 5 :
           clusterStatusChecks[b] \in checks /\ (a < g \/ (a = g /\ b < check)) => CheckMade(a, b)
    /\ pc = "end" => g > Len(groups)
    /\ pc = "exit" => groupArg = NoArgs \/ InCheck("Kubernetes")
    /\ pc = "panic" => NodeEquals(LocalOn, node) \/ InCheck("DiskUsage")

\* The statistics of every valid entry of the groups asked for, or of one that
\* counts as the same node, are asked for before the checks begin, and of no two
\* entries that count as one node.
StatsOfEveryNode ==
    /\ \A a, b \in 1 .. Len(visited) : a # b => ~NodeEquals(visited[a], visited[b])
    /\ pc \notin {"select", "collect", "stats", "panic"} /\ ~SkipStats =>
           \A a \in 1 .. Len(groups) :
               LET nodes == GroupByName(groups[a]).Nodes IN
               \A n \in 1 .. Len(nodes) :
                   IsNodeAddressValid(nodes[n]) => NodeInArray(visited, nodes[n])

\* For a call that names its groups: however groups and arguments overlap and
\* however many commands fail, the statistics are those of every node, once, and
\* each check asked for is made of everything that is configured for it, before
\* the next check or group has its turn; each command goes to the node it is
\* about.  Not promised, as the code does not do it: the nodes of a group after an
\* entry without an address, and the groups after a check that ends the program.
\* A call that names no groups checks nothing: WithoutArgumentsAll is about it.
NothingSkipped == EverythingChecked /\ StatsOfEveryNode

\* "When called without arguments all hosts and checks in configuration will be
\* executed" (cmd/cluster-status.go:16): such a call, when it is over, has made
\* every check on every group of the configuration.
WithoutArgumentsAll ==
    groupArg = NoArgs /\ checks = Checks /\ pc \in {"end", "exit"} =>
        \A n \in 1 .. Len(config), b \in 1 .. 5 :
            \E a \in 1 .. Len(groups) : groups[a] = config[n].Name /\ CheckMade(a, b)

statsPhase == CASE pc \in {"select", "collect"} -> "choose"
                [] pc \notin {"select", "collect"} /\ totalNodes = <<>> -> "aborted"
                [] pc = "stats" /\ totalNodes # <<>> -> "run"
                [] OTHER -> IF Len(visited) = Len(totalNodes) THEN "finished" ELSE "aborted"
statsTodo == IF SkipStats \/ pc = "collect" THEN {}
             ELSE {totalNodes[n] : n \in (Len(visited) + 1) .. Len(totalNodes)}

Stats == INSTANCE FanOut WITH phase <- statsPhase, todo <- statsTodo, done <- Visited

\* The statistics implement FanOut, as runGeneric does: every node of the groups
\* once, also when several groups or arguments name it.
StatsImplementFanOut == Stats!FanSpec
=============================================================================
