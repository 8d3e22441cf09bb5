----------------------------- MODULE GenericCmd -----------------------------
(***************************************************************************)
(* runGeneric (pkg/generic-cmd.go) and the commands built on it: exec,     *)
(* logs and the service commands.  The arguments select nodes from the     *)
(* cluster configuration, the nodes are sorted by host name, and each gets *)
(* its turn: the initializer prepares the output file, the processor runs  *)
(* the command over ssh and prints the result or appends it to the file.   *)
(*                                                                         *)
(* PerformCmd is the environment here: it succeeds or fails, or ends the   *)
(* program (modules RemoteCall and SSHExecutor); opening and writing the   *)
(* output file may fail too.                                               *)
(***************************************************************************)
EXTENDS Targets, Integers

CONSTANTS
    Entries,    \* the node entries that configurations are made of
    GroupNames, \* names of cluster groups, folded to one case
    Unknown,    \* a group name that no cluster group has
    MaxGroups,  \* bound: cluster groups of a configuration
    MaxNodes,   \* bound: nodes of a cluster group
    MaxArgs,    \* bound: names on the command line
    OptionSet   \* the options: which command, whether there is a TargetArg, whether
                \* the type of logs is a known one, whether an output file is asked for

ASSUME GenericAssumption ==
    /\ Entries \subseteq Node
    /\ Unknown \notin GroupNames
    /\ MaxGroups \in Nat /\ MaxNodes \in Nat /\ MaxArgs \in Nat
    /\ OptionSet \subseteq [kind : {"exec", "logs", "service"}, target : BOOLEAN,
                            known : BOOLEAN, file : BOOLEAN]

SeqUpTo(S, n) == UNION {[1 .. m -> S] : m \in 0 .. n}

Group   == [Name : GroupNames, Nodes : Seq(Node)]
Configs == SeqUpTo([Name : GroupNames, Nodes : SeqUpTo(Entries, MaxNodes)], MaxGroups)

\* NodeArg split at its commas, GroupArg split, GroupArg = "ALL", or neither.
\* An empty name comes from a comma at the end.
NameArgs  == Hosts \cup IPs \cup {Empty}
GroupArgs == GroupNames \cup {Unknown}
Selections ==
    [by : {"node"}, names : SeqUpTo(NameArgs, MaxArgs) \ {<<>>, <<Empty>>}]
        \cup [by : {"group"}, names : SeqUpTo(GroupArgs, MaxArgs) \ {<<>>}]
        \cup [by : {"all", "none"}, names : {<<>>}]

\* pc is at "select", "sort", "init", "perform", "write", "end", "exit" or "panic";
\* totalNodes is sorted once it has left "sort"; visited are the nodes that
\* PerformCmd returned from.
VARIABLES
    selection,  \* NodeArg and GroupArg
    options,    \* the rest of the options
    i,          \* loop counter beside g and k: name (or group), then turn
    file,       \* what the output file holds, an Old line first
    screen      \* nodes whose result or error was shown on the screen

argVars == <<config, LocalOn, selection, options>>
loopVars == <<i, g, k>>
outVars == <<visited, file, screen>>
vars == <<argVars, pc, loopVars, totalNodes, outVars>>

\* What the file held before the run; no valid node looks like it.
Old == [Host |-> Empty, IP |-> Empty]

Init ==
    /\ config \in Configs /\ selection \in Selections /\ options \in OptionSet
    /\ LocalOn \in Locals
    /\ pc = "select" /\ i = 1 /\ g = 1 /\ k = 1
    /\ totalNodes = <<>> /\ visited = <<>>
    /\ file = <<Old>> /\ screen = <<>>

-----------------------------------------------------------------------------
(* Selection                                                                *)

\* FindGroupByName returns the first group of that name, or an empty one.
FindGroupByName(name) ==
    IF \E j \in 1 .. Len(config) : IsFirst(j, name)
    THEN config[CHOOSE j \in 1 .. Len(config) : IsFirst(j, name)].Nodes
    ELSE <<>>

\* The outer loop runs over the names asked for; "ALL" stands for the names of
\* all groups.  Asked for nodes, an inner loop runs over the cluster groups.
OuterLength == IF selection.by = "all" THEN Len(config) ELSE Len(selection.names)
InnerLength == IF selection.by = "node" THEN Len(config) ELSE 1
Current ==
    CASE selection.by = "node"  -> config[g].Nodes
      [] selection.by = "group" -> FindGroupByName(selection.names[i])
      [] selection.by = "all"   -> FindGroupByName(config[i].Name)

Matches(n) ==
    selection.by = "node" => n.Host = selection.names[i] \/ n.IP = selection.names[i]

Looping ==
    /\ pc = "select" /\ options.target /\ selection.by # "none"
    /\ i <= OuterLength

\* One iteration of the innermost loop.
SelectNode ==
    /\ Looping /\ g <= InnerLength /\ k <= Len(Current)
    /\ LET n == Current[k] IN
       totalNodes' = IF Matches(n) /\ IsNodeAddressValid(n) /\ ~NodeInArray(totalNodes, n)
                     THEN Append(totalNodes, n) ELSE totalNodes
    /\ k' = k + 1
    /\ UNCHANGED <<argVars, pc, i, g, outVars>>

FirstNode_Kept == k
FirstNode == 1

NextGroup ==
    /\ Looping /\ g <= InnerLength /\ k > Len(Current)
    /\ g' = g + 1 /\ k' = FirstNode
    /\ UNCHANGED <<argVars, pc, i, totalNodes, outVars>>

Following == i + 1

NextName ==
    /\ Looping /\ g > InnerLength
    /\ i' = Following /\ g' = 1 /\ k' = FirstNode
    /\ UNCHANGED <<argVars, pc, totalNodes, outVars>>

\* PrintCritical ends the program: the target is missing, no group was named, or
\* no node selected.
Selected ==
    /\ pc = "select" /\ ~Looping
    /\ pc' = IF totalNodes = <<>> THEN "exit" ELSE "sort"
    /\ UNCHANGED <<argVars, loopVars, totalNodes, outVars>>

-----------------------------------------------------------------------------
(* The turns                                                                *)

Sorted_Not(s) == {s}
Sorted(s) == SortedByHost(s)

Sort ==
    /\ pc = "sort"
    /\ totalNodes' \in Sorted(totalNodes)
    /\ pc' = "init" /\ i' = 1
    /\ UNCHANGED <<argVars, g, k, outVars>>

MoreNodes_OneMore == i <= Len(totalNodes) + 1
MoreNodes == i <= Len(totalNodes)

\* InitializeOutputFile creates the file when it is missing and leaves what it
\* holds alone; when it cannot be opened the program exits.
InitialContents_Truncated == <<>>
InitialContents == file

Initialize ==
    /\ pc = "init" /\ MoreNodes
    /\ \/ pc' = "perform" /\ file' = IF options.file THEN InitialContents ELSE file
       \/ options.file /\ pc' = "exit" /\ UNCHANGED file
    /\ UNCHANGED <<argVars, loopVars, totalNodes, visited, screen>>

\* A result, or an error that is printed before the next turn; on the program's own
\* node such an error is that there is no shell to run.
PerformCmd ==
    /\ pc = "perform" /\ options.known
    /\ visited' = Append(visited, totalNodes[i])
    /\ \/ pc' = "write" /\ UNCHANGED <<i, screen>>
       \/ pc' = "init" /\ i' = i + 1 /\ screen' = Append(screen, totalNodes[i])
    /\ UNCHANGED <<argVars, g, k, totalNodes, file>>

\* A command that fails on the program's own node ends the program: the type
\* assertion of its status names the wrong package.
ShellPanics ==
    /\ pc = "perform" /\ options.known /\ NodeEquals(LocalOn, totalNodes[i])
    /\ pc' = "panic"
    /\ UNCHANGED <<argVars, loopVars, totalNodes, outVars>>

UnknownType ==
    /\ pc = "perform" /\ ~options.known
    /\ pc' = "exit"
    /\ UNCHANGED <<argVars, loopVars, totalNodes, outVars>>

\* A result that cannot be appended to the file goes to the screen.
Forwarded_Lost == screen
Forwarded == Append(screen, totalNodes[i])

Write ==
    /\ pc = "write"
    /\ \/ options.file /\ file' = Append(file, totalNodes[i]) /\ UNCHANGED screen
       \/ screen' = Forwarded /\ UNCHANGED file
    /\ pc' = "init" /\ i' = i + 1
    /\ UNCHANGED <<argVars, g, k, totalNodes, visited>>

Return ==
    /\ pc = "init" /\ ~MoreNodes
    /\ pc' = "end"
    /\ UNCHANGED <<argVars, loopVars, totalNodes, outVars>>

Ended == pc \in {"end", "exit", "panic"} /\ UNCHANGED vars

Steps ==
    \/ SelectNode \/ NextGroup \/ NextName \/ Selected \/ Sort
    \/ Initialize \/ PerformCmd \/ ShellPanics \/ UnknownType \/ Write \/ Return

Next == Steps \/ Ended

Spec == Init /\ [][Next]_vars

-----------------------------------------------------------------------------
(* Properties                                                               *)

\* The variables keep their types, and the loop over the nodes its bounds.
TypeOK ==
    /\ config \in Seq(Group) /\ options \in OptionSet /\ LocalOn \in Locals
    /\ selection \in [by : {"node", "group", "all", "none"},
                      names : Seq(NameArgs \cup GroupArgs)]
    /\ pc \in {"select", "sort", "init", "perform", "write", "end", "exit", "panic"}
    /\ i \in Nat \ {0} /\ g \in Nat \ {0} /\ k \in Nat \ {0}
    /\ totalNodes \in Seq(Node) /\ visited \in Seq(Node) /\ screen \in Seq(Node)
    /\ file \in Seq(Node)
    /\ pc \in {"perform", "write"} => i <= Len(totalNodes)

ValidEntries ==
    {n \in UNION {{config[j].Nodes[l] : l \in 1 .. Len(config[j].Nodes)} :
                      j \in 1 .. Len(config)} : IsNodeAddressValid(n)}

\* No two turns go to entries that the program takes for the same node.
NotTwice ==
    \A a, b \in 1 .. Len(visited) :
        a # b => ~NodeEquals(visited[a], visited[b])

\* The comparison is not transitive, so an entry with only a host name and one
\* with only an IP pass for two nodes; but when the configuration is consistent
\* and all its entries have an IP, or all have a host name, the command runs at
\* most once on each machine.
Comparable(S) ==
    Consistent(S) /\ ((\A n \in S : n.IP # Empty) \/ (\A n \in S : n.Host # Empty))
MachineOnce ==
    Comparable(ValidEntries) =>
        \A a, b \in 1 .. Len(visited) : a # b => ~SharesName(visited[a], visited[b])

\* However often the arguments and the groups name a node, exec, logs and the
\* service commands run on it once.
TurnsDistinct == NotTwice /\ MachineOnce

\* The turns go in the order of host names, across groups and arguments.
InHostOrder ==
    \A a, b \in 1 .. Len(visited) :
        a < b => Rank[visited[a].Host] <= Rank[visited[b].Host]

\* Every node that PerformCmd returned from is accounted for: each result is in the
\* output file or on the screen, and on one of them only; and what the file held
\* before the run is still its beginning, whichever turn initialised it last.  This
\* is so too when the program exits or panics between the turns; the one result
\* that a panic can lose is that of the program's own node, whose turn it was.
EveryResultShown ==
    /\ pc # "write" => Len(visited) = Len(file) - 1 + Len(screen)
    /\ pc # "write" => \A a \in 1 .. Len(visited) :
           \/ \E b \in 1 .. Len(file) : file[b] = visited[a]
           \/ \E b \in 1 .. Len(screen) : screen[b] = visited[a]
    /\ pc = "panic" => /\ Len(visited) + 1 <= Len(totalNodes)
                       /\ NodeEquals(LocalOn, totalNodes[Len(visited) + 1])
    /\ Len(file) > 0 /\ file[1] = Old

\* What is in the output file stays there: no turn of a later node truncates
\* the results of the earlier ones, or of an earlier run.
FileOnlyGrows ==
    [][/\ Len(file) <= Len(file')
       /\ \A a \in 1 .. Len(file) : file'[a] = file[a]]_file

Named(j, n) ==
    CASE selection.by = "node" ->
             \E a \in 1 .. Len(selection.names) :
                 selection.names[a] \in {n.Host, n.IP}
      [] selection.by = "group" ->
             \E a \in 1 .. Len(selection.names) : selection.names[a] = config[j].Name
      [] OTHER -> selection.by = "all"

DistinctNames ==
    \A j, l \in 1 .. Len(config) : config[j].Name = config[l].Name => j = l

AllTargeted ==
    pc = "end" => \A j \in 1 .. Len(config) : \A l \in 1 .. Len(config[j].Nodes) :
        LET n == config[j].Nodes[l] IN
        IsNodeAddressValid(n) /\ Named(j, n) => NodeInArray(visited, n)

\* When the groups have names of their own, every valid entry the arguments
\* name gets a turn, or one that counts as the same node does.
NamedNodesTargeted == DistinctNames => AllTargeted

fanPhase == CASE pc \in {"select", "sort"} -> "choose"
              [] pc = "end" -> "finished"
              [] pc \in {"exit", "panic"} -> "aborted"
              [] OTHER -> "run"
fanTodo == IF pc \in {"select", "sort"} \/ (pc = "exit" /\ totalNodes = <<>>) THEN {}
           ELSE {totalNodes[a] : a \in (Len(visited) + 1) .. Len(totalNodes)}
Abstract == INSTANCE FanOut WITH phase <- fanPhase, todo <- fanTodo,
                                 done <- Visited

\* The turns implement FanOut: a set chosen once, one node after the other,
\* none twice and none besides, unless a panic or an exit ends them.
ImplementsFanOut == Abstract!FanSpec
=============================================================================
