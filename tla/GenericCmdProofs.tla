-------------------------- MODULE GenericCmdProofs --------------------------
(***************************************************************************)
(* Proofs about the two commands that address nodes one after the other    *)
(* and implement FanOut: runGeneric, for every configuration, every        *)
(* selection and every order of the host names, and, in the second part,   *)
(* cluster-status, for every configuration, group, set of checks and       *)
(* failure.  Lemmas about comparing, collecting and sorting nodes serve    *)
(* both.                                                                   *)
(***************************************************************************)
EXTENDS GenericCmd, ClusterStatus, SequenceTheorems, FiniteSetTheorems, TLAPS

(* A function on an initial segment of the naturals is a sequence.          *)
LEMMA SeqUpToIsSeq ==
    ASSUME NEW S, NEW T, S \subseteq T, NEW n \in Nat, NEW s \in SeqUpTo(S, n)
    PROVE  s \in Seq(T)
<1>1. PICK m \in 0 .. n : s \in [1 .. m -> S]
  BY DEF SeqUpTo
<1>2. s \in [1 .. m -> T]
  BY <1>1
<1>. QED
  BY <1>1, <1>2, SeqDef

LEMMA ConfigIsSeq ==
    ASSUME NEW c \in Configs
    PROVE  c \in Seq(Group)
<1>1. ASSUME NEW x \in SeqUpTo(Entries, MaxNodes)
      PROVE  x \in Seq(Node)
  BY SeqUpToIsSeq, GenericAssumption
<1>2. [Name : GroupNames, Nodes : SeqUpTo(Entries, MaxNodes)] \subseteq Group
  BY <1>1 DEF Group
<1>. QED
  BY <1>2, SeqUpToIsSeq, GenericAssumption DEF Configs

LEMMA SelectionType ==
    ASSUME NEW x \in Selections
    PROVE  x \in [by : {"node", "group", "all", "none"},
                  names : Seq(NameArgs \cup GroupArgs)]
<1>1. ASSUME NEW y \in SeqUpTo(NameArgs, MaxArgs)
      PROVE  y \in Seq(NameArgs \cup GroupArgs)
  BY SeqUpToIsSeq, GenericAssumption
<1>2. ASSUME NEW y \in SeqUpTo(GroupArgs, MaxArgs)
      PROVE  y \in Seq(NameArgs \cup GroupArgs)
  BY SeqUpToIsSeq, GenericAssumption
<1>3. <<>> \in Seq(NameArgs \cup GroupArgs)
  BY EmptySeq
<1>. QED
  BY <1>1, <1>2, <1>3 DEF Selections

-----------------------------------------------------------------------------
(* Sorting permutes: the nodes stay what they were. *)
LEMMA SortedType ==
    ASSUME NEW s \in Seq(Node), NEW t \in Sorted(s)
    PROVE  t \in Seq(Node) /\ Len(t) = Len(s)
<1>1. PICK p \in Permutations(Len(s)) : t = [j \in 1 .. Len(s) |-> s[p[j]]]
  BY DEF Sorted, SortedByHost
<1>2. p \in [1 .. Len(s) -> 1 .. Len(s)]
  BY <1>1 DEF Permutations
<1>3. \A j \in 1 .. Len(s) : s[p[j]] \in Node
  BY <1>2
<1>4. t \in [1 .. Len(s) -> Node]
  BY <1>1, <1>3
<1>5. Len(s) \in Nat
  OBVIOUS
<1>. QED
  BY <1>4, <1>5, SeqDef, LenProperties

(* The node of the innermost loop is a node. *)
LEMMA CurrentType ==
    ASSUME TypeOK, Looping, g <= InnerLength
    PROVE  Current \in Seq(Node)
<1>0. config \in Seq(Group) /\ \A j \in 1 .. Len(config) : config[j].Nodes \in Seq(Node)
  <2>1. config \in Seq(Group)
    BY DEF TypeOK
  <2>2. \A j \in 1 .. Len(config) : config[j] \in Group
    BY <2>1
  <2>. QED
    BY <2>1, <2>2 DEF Group
<1>1. ASSUME NEW name PROVE FindGroupByName(name) \in Seq(Node)
  <2>1. CASE \E j \in 1 .. Len(config) : IsFirst(j, name)
    <3>. DEFINE first == CHOOSE j \in 1 .. Len(config) : IsFirst(j, name)
    <3>1. first \in 1 .. Len(config)
      BY <2>1
    <3>2. config[first].Nodes \in Seq(Node)
      BY <3>1, <1>0
    <3>. QED
      BY <2>1, <3>2 DEF FindGroupByName
  <2>2. CASE ~ \E j \in 1 .. Len(config) : IsFirst(j, name)
    BY <2>2, EmptySeq DEF FindGroupByName
  <2>. QED
    BY <2>1, <2>2
<1>2. CASE selection.by = "node"
  <2>1. g \in 1 .. Len(config)
    BY <1>0, <1>2 DEF InnerLength, TypeOK
  <2>. QED
    BY <1>0, <1>2, <2>1 DEF Current
<1>3. CASE selection.by = "group"
  BY <1>1, <1>3 DEF Current
<1>4. CASE selection.by = "all"
  BY <1>1, <1>4 DEF Current
<1>. QED
  BY <1>2, <1>3, <1>4 DEF Looping, TypeOK

-----------------------------------------------------------------------------
(* The variables keep their types; the turns never index past the nodes.    *)
THEOREM TypeCorrect == Spec => []TypeOK
<1>. USE DEF argVars, loopVars, outVars
<1>1. Init => TypeOK
  <2>. SUFFICES ASSUME Init PROVE TypeOK
    OBVIOUS
  <2>1. config \in Seq(Group)
    BY ConfigIsSeq DEF Init
  <2>2. selection \in [by : {"node", "group", "all", "none"},
                       names : Seq(NameArgs \cup GroupArgs)]
    BY SelectionType DEF Init
  <2>3. file \in Seq(Node)
    BY DEF Init, Old, Node
  <2>4. totalNodes \in Seq(Node) /\ visited \in Seq(Node) /\ screen \in Seq(Node)
    BY EmptySeq DEF Init
  <2>. QED
    <3>1. /\ pc = "select" /\ i \in Nat \ {0} /\ g \in Nat \ {0} /\ k \in Nat \ {0}
          /\ options \in OptionSet /\ LocalOn \in Locals
      BY DEF Init
    <3>. QED
      BY <2>1, <2>2, <2>3, <2>4, <3>1 DEF TypeOK
<1>2. TypeOK /\ [Next]_vars => TypeOK'
  <2>. SUFFICES ASSUME TypeOK, [Next]_vars PROVE TypeOK'
    OBVIOUS
  <2>1. CASE SelectNode
    <3>1. Current[k] \in Node
      BY <2>1, CurrentType DEF SelectNode, TypeOK
    <3>2. totalNodes' \in Seq(Node)
      BY <2>1, <3>1 DEF SelectNode, TypeOK
    <3>. QED
      BY <2>1, <3>2 DEF SelectNode, TypeOK, Looping
  <2>2. CASE NextGroup
    BY <2>2 DEF NextGroup, FirstNode, TypeOK, Looping
  <2>3. CASE NextName
    BY <2>3 DEF NextName, Following, FirstNode, TypeOK, Looping
  <2>4. CASE Selected
    BY <2>4 DEF Selected, TypeOK
  <2>5. CASE Sort
    <3>1. totalNodes' \in Seq(Node)
      BY <2>5, SortedType DEF Sort, TypeOK
    <3>. QED
      BY <2>5, <3>1 DEF Sort, TypeOK
  <2>6. CASE Initialize
    BY <2>6 DEF Initialize, InitialContents, MoreNodes, TypeOK
  <2>7. CASE PerformCmd
    <3>1. totalNodes[i] \in Node
      BY <2>7 DEF PerformCmd, TypeOK
    <3>2. visited' \in Seq(Node) /\ screen' \in Seq(Node)
      <4>1. visited \in Seq(Node) /\ screen \in Seq(Node)
        BY DEF TypeOK
      <4>2. /\ visited' = Append(visited, totalNodes[i])
            /\ screen' = screen \/ screen' = Append(screen, totalNodes[i])
        BY <2>7 DEF PerformCmd
      <4>. QED
        BY <3>1, <4>1, <4>2, AppendProperties
    <3>. QED
      BY <2>7, <3>2 DEF PerformCmd, TypeOK
  <2>8. CASE UnknownType \/ ShellPanics
    BY <2>8 DEF UnknownType, ShellPanics, TypeOK
  <2>9. CASE Write
    <3>1. totalNodes[i] \in Node
      BY <2>9 DEF Write, TypeOK
    <3>2. file' \in Seq(Node) /\ screen' \in Seq(Node)
      <4>1. file \in Seq(Node) /\ screen \in Seq(Node)
        BY DEF TypeOK
      <4>2. /\ file' = file \/ file' = Append(file, totalNodes[i])
            /\ screen' = screen \/ screen' = Append(screen, totalNodes[i])
        BY <2>9 DEF Write, Forwarded
      <4>3. file' \in Seq(Node)
        BY <3>1, <4>1, <4>2, AppendProperties
      <4>4. screen' \in Seq(Node)
        BY <3>1, <4>1, <4>2, AppendProperties
      <4>. QED
        BY <4>3, <4>4
    <3>. QED
      BY <2>9, <3>2 DEF Write, TypeOK
  <2>10. CASE Return
    BY <2>10 DEF Return, TypeOK
  <2>11. CASE UNCHANGED vars
    BY <2>11 DEF vars, TypeOK
  <2>. QED
    BY <2>1, <2>2, <2>3, <2>4, <2>5, <2>6, <2>7, <2>8, <2>9, <2>10, <2>11
    DEF Next, Steps, Ended
<1>. QED
  BY <1>1, <1>2, PTL DEF Spec

-----------------------------------------------------------------------------
(* Results stay in the output file: a step appends to it or leaves it.      *)
THEOREM FileIsKept == Spec => FileOnlyGrows
<1>1. TypeOK /\ [Next]_vars =>
        [/\ Len(file) <= Len(file')
         /\ \A a \in 1 .. Len(file) : file'[a] = file[a]]_file
  <2>. SUFFICES ASSUME TypeOK, [Next]_vars, file' # file
                PROVE  /\ Len(file) <= Len(file')
                       /\ \A a \in 1 .. Len(file) : file'[a] = file[a]
    OBVIOUS
  <2>1. CASE Write
    <3>1. file' = Append(file, totalNodes[i])
      BY <2>1 DEF Write
    <3>. QED
      BY <3>1 DEF TypeOK
  <2>2. ~Write => UNCHANGED file
    BY DEF Next, Steps, Ended, SelectNode, NextGroup, NextName, Selected, Sort,
           Initialize, InitialContents, PerformCmd, ShellPanics, UnknownType, Return,
           vars, outVars
  <2>. QED
    BY <2>1, <2>2
<1>. QED
  BY <1>1, TypeCorrect, PTL DEF Spec, FileOnlyGrows

-----------------------------------------------------------------------------
(* The nodes are told apart, sorted, and take their turns in that order.    *)

Distinct(s) ==
    \A a, b \in 1 .. Len(s) : a # b => ~NodeEquals(s[a], s[b])
AllValid(s) == \A a \in 1 .. Len(s) : IsNodeAddressValid(s[a])
Ordered(s) == \A a, b \in 1 .. Len(s) : a < b => Rank[s[a].Host] <= Rank[s[b].Host]

SelectInv ==
    /\ Distinct(totalNodes) /\ AllValid(totalNodes)
    /\ pc \notin {"select", "sort"} => Ordered(totalNodes)
    /\ pc \in {"sort", "init", "perform", "write"} => Len(totalNodes) > 0

TurnInv ==
    /\ pc \in {"select", "sort"} => Len(visited) = 0
    /\ pc \in {"init", "perform"} => Len(visited) = i - 1
    /\ pc = "write" => Len(visited) = i
    /\ pc = "end" => Len(visited) = Len(totalNodes)
    /\ pc = "panic" => /\ Len(visited) + 1 <= Len(totalNodes)
                       /\ NodeEquals(LocalOn, totalNodes[Len(visited) + 1])
    /\ Len(visited) <= Len(totalNodes)
    /\ \A a \in 1 .. Len(visited) : visited[a] = totalNodes[a]

LEMMA EqualsSymmetric ==
    ASSUME NEW m, NEW n
    PROVE  NodeEquals(m, n) <=> NodeEquals(n, m)
  BY DEF NodeEquals

(* A valid node equals itself, so nodes told apart are different values.    *)
LEMMA DistinctIsInjective ==
    ASSUME NEW s, Distinct(s), AllValid(s), NEW a \in 1 .. Len(s), NEW b \in 1 .. Len(s),
           s[a] = s[b]
    PROVE  a = b
  BY DEF Distinct, AllValid, NodeEquals, IsNodeAddressValid

(* Appending a node that is not in the array keeps the nodes apart.         *)
LEMMA AppendDistinct ==
    ASSUME NEW s \in Seq(Node), NEW n \in Node, Distinct(s), AllValid(s),
           IsNodeAddressValid(n), ~NodeInArray(s, n)
    PROVE  Distinct(Append(s, n)) /\ AllValid(Append(s, n))
<1>. DEFINE t == Append(s, n)
<1>1. /\ Len(t) = Len(s) + 1 /\ t[Len(s) + 1] = n
      /\ \A a \in 1 .. Len(s) : t[a] = s[a]
  OBVIOUS
<1>2. \A a \in 1 .. Len(s) : ~NodeEquals(s[a], n) /\ ~NodeEquals(n, s[a])
  BY EqualsSymmetric DEF NodeInArray
<1>3. Len(s) \in Nat
  OBVIOUS
<1>. HIDE DEF t
<1>4. Distinct(t)
  BY <1>1, <1>2, <1>3 DEF Distinct
<1>5. AllValid(t)
  BY <1>1, <1>3 DEF AllValid
<1>. QED
  BY <1>4, <1>5 DEF t

(* So does sorting, which also puts them in order.                          *)
LEMMA SortedDistinct ==
    ASSUME NEW s \in Seq(Node), NEW t \in Sorted(s), Distinct(s), AllValid(s)
    PROVE  Distinct(t) /\ AllValid(t) /\ Ordered(t) /\ Len(t) = Len(s)
<1>1. PICK p \in Permutations(Len(s)) : t = [j \in 1 .. Len(s) |-> s[p[j]]]
  BY DEF Sorted, SortedByHost
<1>2. /\ p \in [1 .. Len(s) -> 1 .. Len(s)]
      /\ \A a, b \in 1 .. Len(s) : p[a] = p[b] => a = b
  BY <1>1 DEF Permutations
<1>3. Len(t) = Len(s)
  BY SortedType
<1>4. \A a \in 1 .. Len(s) : t[a] = s[p[a]]
  BY <1>1
<1>5. Distinct(t)
  BY <1>2, <1>3, <1>4 DEF Distinct
<1>6. AllValid(t)
  BY <1>2, <1>3, <1>4 DEF AllValid
<1>7. Ordered(t)
  BY <1>3 DEF Ordered, Sorted, SortedByHost
<1>. QED
  BY <1>3, <1>5, <1>6, <1>7

LEMMA SelectCorrect == Spec => []SelectInv
<1>. USE DEF argVars, loopVars, outVars
<1>1. Init => SelectInv
  BY DEF Init, SelectInv, Distinct, AllValid
<1>2. TypeOK /\ SelectInv /\ [Next]_vars => SelectInv'
  <2>. SUFFICES ASSUME TypeOK, SelectInv, [Next]_vars PROVE SelectInv'
    OBVIOUS
  <2>0. totalNodes \in Seq(Node)
    BY DEF TypeOK
  <2>1. CASE SelectNode
    <3>1. Current[k] \in Node
      BY <2>1, CurrentType DEF SelectNode, TypeOK
    <3>2. CASE totalNodes' = totalNodes
      BY <2>1, <3>2 DEF SelectNode, SelectInv, Looping
    <3>3. CASE totalNodes' # totalNodes
      <4>1. /\ totalNodes' = Append(totalNodes, Current[k])
            /\ IsNodeAddressValid(Current[k]) /\ ~NodeInArray(totalNodes, Current[k])
        BY <2>1, <3>3 DEF SelectNode
      <4>2. Distinct(totalNodes') /\ AllValid(totalNodes')
        BY <2>0, <3>1, <4>1, AppendDistinct DEF SelectInv
      <4>. QED
        BY <2>1, <4>2 DEF SelectNode, SelectInv, Looping
    <3>. QED
      BY <3>2, <3>3
  <2>2. CASE NextGroup \/ NextName
    BY <2>2 DEF NextGroup, NextName, SelectInv, Looping
  <2>3. CASE Selected
    BY <2>0, <2>3 DEF Selected, SelectInv, Ordered
  <2>4. CASE Sort
    BY <2>0, <2>4, SortedDistinct DEF Sort, SelectInv
  <2>5. CASE Initialize \/ PerformCmd \/ ShellPanics \/ UnknownType \/ Write \/ Return
    BY <2>5 DEF Initialize, PerformCmd, ShellPanics, UnknownType, Write, Return, SelectInv
  <2>6. CASE UNCHANGED vars
    BY <2>6 DEF vars, SelectInv
  <2>. QED
    BY <2>1, <2>2, <2>3, <2>4, <2>5, <2>6 DEF Next, Steps, Ended
<1>. QED
  BY <1>1, <1>2, TypeCorrect, PTL DEF Spec

LEMMA TurnCorrect == Spec => []TurnInv
<1>. USE DEF argVars, loopVars, outVars
<1>1. Init => TurnInv
  BY DEF Init, TurnInv
<1>2. TypeOK /\ TypeOK' /\ TurnInv /\ [Next]_vars => TurnInv'
  <2>. SUFFICES ASSUME TypeOK, TypeOK', TurnInv, [Next]_vars PROVE TurnInv'
    OBVIOUS
  <2>0. /\ totalNodes \in Seq(Node) /\ visited \in Seq(Node) /\ i \in Nat \ {0}
        /\ pc \in {"perform", "write"} => i <= Len(totalNodes)
    BY DEF TypeOK
  <2>1. CASE SelectNode \/ NextGroup \/ NextName \/ Selected
    <3>1. Len(visited) = 0 /\ UNCHANGED visited
      BY <2>1 DEF SelectNode, NextGroup, NextName, Selected, Looping, TurnInv
    <3>2. pc' \in {"select", "sort", "exit"}
      BY <2>1 DEF SelectNode, NextGroup, NextName, Selected, Looping
    <3>3. totalNodes' \in Seq(Node)
      BY DEF TypeOK
    <3>. QED
      BY <3>1, <3>2, <3>3 DEF TurnInv
  <2>2. CASE Sort
    <3>1. totalNodes' \in Seq(Node)
      BY <2>0, <2>2, SortedType DEF Sort
    <3>. QED
      BY <2>0, <2>2, <3>1 DEF Sort, TurnInv
  <2>3. CASE Initialize
    BY <2>0, <2>3 DEF Initialize, TurnInv
  <2>4. CASE PerformCmd
    <3>1. /\ Len(visited') = i
          /\ \A a \in 1 .. i : visited'[a] = totalNodes[a]
      BY <2>0, <2>4 DEF PerformCmd, TurnInv
    <3>. QED
      BY <2>0, <2>4, <3>1 DEF PerformCmd, TurnInv
  <2>5. CASE UnknownType \/ ShellPanics
    <3>1. CASE UnknownType
      BY <2>0, <3>1 DEF UnknownType, TurnInv
    <3>2. CASE ShellPanics
      <4>1. Len(visited) = i - 1 /\ i <= Len(totalNodes) /\ NodeEquals(LocalOn, totalNodes[i])
        BY <2>0, <3>2 DEF ShellPanics, TurnInv
      <4>2. UNCHANGED <<visited, totalNodes, LocalOn>> /\ pc' = "panic"
        BY <3>2 DEF ShellPanics
      <4>3. Len(visited) + 1 = i
        BY <2>0, <4>1
      <4>. QED
        BY <4>1, <4>2, <4>3 DEF TurnInv
    <3>. QED
      BY <2>5, <3>1, <3>2
  <2>6. CASE Write
    BY <2>0, <2>6 DEF Write, TurnInv
  <2>7. CASE Return
    BY <2>0, <2>7 DEF Return, MoreNodes, TurnInv
  <2>8. CASE UNCHANGED vars
    BY <2>8 DEF vars, TurnInv
  <2>. QED
    BY <2>1, <2>2, <2>3, <2>4, <2>5, <2>6, <2>7, <2>8 DEF Next, Steps, Ended
<1>. QED
  BY <1>1, <1>2, TypeCorrect, PTL DEF Spec

(* The nodes come from the configuration.                                   *)
FromConfig == \A a \in 1 .. Len(totalNodes) : totalNodes[a] \in ValidEntries

LEMMA CurrentIsEntry ==
    ASSUME TypeOK, Looping, g <= InnerLength, k <= Len(Current), IsNodeAddressValid(Current[k])
    PROVE  Current[k] \in ValidEntries
<1>1. ASSUME NEW j \in 1 .. Len(config), NEW l \in 1 .. Len(config[j].Nodes),
             IsNodeAddressValid(config[j].Nodes[l])
      PROVE  config[j].Nodes[l] \in ValidEntries
  BY <1>1 DEF ValidEntries
<1>2. k \in 1 .. Len(Current)
  <2>1. k \in Nat \ {0}
    BY DEF TypeOK
  <2>2. Len(Current) \in Nat
    BY CurrentType
  <2>. QED
    BY <2>1, <2>2
<1>3. PICK j : (j \in 1 .. Len(config) /\ Current = config[j].Nodes) \/ Current = <<>>
  <2>1. CASE selection.by = "node"
    BY <2>1 DEF Current, InnerLength, TypeOK
  <2>2. ASSUME NEW name
        PROVE  \E j : (j \in 1 .. Len(config) /\ FindGroupByName(name) = config[j].Nodes)
                         \/ FindGroupByName(name) = <<>>
    BY DEF FindGroupByName
  <2>3. CASE selection.by # "node"
    <3>1. selection.by = "group" \/ selection.by = "all"
      <4>1. selection.by \in {"node", "group", "all", "none"}
        BY DEF TypeOK
      <4>. QED
        BY <2>3, <4>1 DEF Looping
    <3>. QED
      BY <2>2, <3>1 DEF Current
  <2>. QED
    BY <2>1, <2>3
<1>4. CASE Current = <<>>
  BY <1>2, <1>4
<1>. QED
  BY <1>1, <1>2, <1>3, <1>4

LEMMA NodesFromConfig == Spec => []FromConfig
<1>. USE DEF argVars, loopVars, outVars
<1>1. Init => FromConfig
  BY DEF Init, FromConfig
<1>2. TypeOK /\ FromConfig /\ [Next]_vars => FromConfig'
  <2>. SUFFICES ASSUME TypeOK, FromConfig, [Next]_vars PROVE FromConfig'
    OBVIOUS
  <2>0. totalNodes \in Seq(Node)
    BY DEF TypeOK
  <2>1. UNCHANGED ValidEntries
    <3>1. UNCHANGED config
      BY DEF Next, Steps, Ended, SelectNode, NextGroup, NextName, Selected, Sort,
             Initialize, PerformCmd, ShellPanics, UnknownType, Write, Return, vars
    <3>. QED
      BY <3>1 DEF ValidEntries
  <2>2. CASE SelectNode
    <3>1. CASE totalNodes' = totalNodes
      BY <2>1, <3>1 DEF FromConfig
    <3>2. CASE totalNodes' # totalNodes
      <4>1. /\ totalNodes' = Append(totalNodes, Current[k])
            /\ IsNodeAddressValid(Current[k])
            /\ Looping /\ g <= InnerLength /\ k <= Len(Current)
        BY <2>2, <3>2 DEF SelectNode
      <4>2. Current[k] \in ValidEntries
        BY <4>1, CurrentIsEntry
      <4>3. /\ Len(totalNodes') = Len(totalNodes) + 1
            /\ totalNodes'[Len(totalNodes) + 1] = Current[k]
            /\ \A a \in 1 .. Len(totalNodes) : totalNodes'[a] = totalNodes[a]
        BY <2>0, <4>1
      <4>. QED
        BY <2>0, <2>1, <4>2, <4>3 DEF FromConfig
    <3>. QED
      BY <3>1, <3>2
  <2>3. CASE Sort
    <3>1. PICK p \in Permutations(Len(totalNodes)) :
              totalNodes' = [j \in 1 .. Len(totalNodes) |-> totalNodes[p[j]]]
      BY <2>3 DEF Sort, Sorted, SortedByHost
    <3>2. p \in [1 .. Len(totalNodes) -> 1 .. Len(totalNodes)]
      BY <3>1 DEF Permutations
    <3>3. Len(totalNodes') = Len(totalNodes)
      BY <2>0, <2>3, SortedType DEF Sort
    <3>. QED
      BY <2>1, <3>1, <3>2, <3>3 DEF FromConfig
  <2>4. ~SelectNode /\ ~Sort => UNCHANGED totalNodes
    BY DEF Next, Steps, Ended, NextGroup, NextName, Selected,
           Initialize, PerformCmd, ShellPanics, UnknownType, Write, Return, vars
  <2>. QED
    BY <2>1, <2>2, <2>3, <2>4 DEF FromConfig
<1>. QED
  BY <1>1, <1>2, TypeCorrect, PTL DEF Spec

(* In a consistent configuration whose entries are all given the same way,  *)
(* entries that share a name are equal for the program.                     *)
LEMMA SharedIsEqual ==
    ASSUME NEW S \in SUBSET Node, Comparable(S), NEW m \in S, NEW n \in S,
           IsNodeAddressValid(m), IsNodeAddressValid(n), SharesName(m, n)
    PROVE  NodeEquals(m, n)
<1>1. CASE \A x \in S : x.IP # Empty
  BY <1>1 DEF Comparable, Consistent, SharesName, NodeEquals
<1>2. CASE \A x \in S : x.Host # Empty
  BY <1>2 DEF Comparable, Consistent, SharesName, NodeEquals
<1>. QED
  BY <1>1, <1>2 DEF Comparable

(* A node has one turn, and in a comparable configuration a machine has one. *)
THEOREM TurnsAreDistinct == Spec => []TurnsDistinct
<1>1. SelectInv /\ TurnInv => NotTwice
  BY DEF SelectInv, TurnInv, NotTwice, Distinct
<1>2. TypeOK /\ FromConfig /\ TurnInv /\ NotTwice => MachineOnce
  <2>. SUFFICES ASSUME TypeOK, FromConfig, TurnInv, NotTwice, Comparable(ValidEntries),
                       NEW a \in 1 .. Len(visited), NEW b \in 1 .. Len(visited), a # b
                PROVE  ~SharesName(visited[a], visited[b])
    BY DEF MachineOnce
  <2>1. visited[a] \in ValidEntries /\ visited[b] \in ValidEntries
    <3>1. /\ Len(visited) <= Len(totalNodes) /\ Len(totalNodes) \in Nat
          /\ Len(visited) \in Nat
          /\ visited[a] = totalNodes[a] /\ visited[b] = totalNodes[b]
      BY DEF TurnInv, TypeOK
    <3>. QED
      BY <3>1 DEF FromConfig
  <2>2. \A n \in ValidEntries : n \in Node /\ IsNodeAddressValid(n)
    <3>1. config \in Seq(Group)
      BY DEF TypeOK
    <3>2. \A j \in 1 .. Len(config) : config[j] \in Group
      BY <3>1
    <3>3. \A j \in 1 .. Len(config) : config[j].Nodes \in Seq(Node)
      BY <3>2 DEF Group
    <3>. QED
      BY <3>3 DEF ValidEntries
  <2>3. ~NodeEquals(visited[a], visited[b])
    BY DEF NotTwice
  <2>. QED
    BY <2>1, <2>2, <2>3, SharedIsEqual
<1>. QED
  BY <1>1, <1>2, TypeCorrect, SelectCorrect, TurnCorrect, NodesFromConfig, PTL
  DEF TurnsDistinct

-----------------------------------------------------------------------------
(* Each turn leaves its result in one place.                                *)

In(s, n) == \E b \in 1 .. Len(s) : s[b] = n

ShownInv ==
    /\ Len(file) + Len(screen) = IF pc = "write" THEN Len(visited) ELSE Len(visited) + 1
    /\ \A a \in 1 .. Len(visited) :
           (pc = "write" /\ a = i) \/ In(file, visited[a]) \/ In(screen, visited[a])
    /\ Len(file) > 0 /\ file[1] = Old

LEMMA InAppended ==
    ASSUME NEW s \in Seq(Node), NEW n \in Node
    PROVE  /\ Len(Append(s, n)) = Len(s) + 1
           /\ In(Append(s, n), n) /\ \A m : In(s, m) => In(Append(s, n), m)
           /\ Len(s) > 0 => Append(s, n)[1] = s[1]
<1>1. /\ Len(Append(s, n)) = Len(s) + 1 /\ Append(s, n)[Len(s) + 1] = n
      /\ \A a \in 1 .. Len(s) : Append(s, n)[a] = s[a]
      /\ Len(s) \in Nat
  OBVIOUS
<1>. QED
  BY <1>1 DEF In

LEMMA ShownCorrect == Spec => []ShownInv
<1>. USE DEF argVars, loopVars, outVars
<1>1. Init => ShownInv
  BY DEF Init, ShownInv
<1>2. TypeOK /\ TurnInv /\ ShownInv /\ [Next]_vars => ShownInv'
  <2>. SUFFICES ASSUME TypeOK, TurnInv, ShownInv, [Next]_vars PROVE ShownInv'
    OBVIOUS
  <2>0. /\ file \in Seq(Node) /\ screen \in Seq(Node) /\ visited \in Seq(Node)
        /\ i \in Nat \ {0}
        /\ pc \in {"perform", "write"} => totalNodes[i] \in Node
    BY DEF TypeOK
  <2>a. Len(file) \in Nat /\ Len(screen) \in Nat /\ Len(visited) \in Nat
    BY <2>0
  <2>1. CASE SelectNode \/ NextGroup \/ NextName \/ Selected \/ Sort \/ Initialize
             \/ ShellPanics \/ UnknownType \/ Return
    <3>1. UNCHANGED <<visited, file, screen>> /\ pc # "write" /\ pc' # "write"
      BY <2>1 DEF SelectNode, NextGroup, NextName, Selected, Sort, Initialize,
                  InitialContents, ShellPanics, UnknownType, Return, Looping
    <3>. QED
      BY <3>1 DEF ShownInv, In
  <2>2. CASE PerformCmd
    <3>. DEFINE n == totalNodes[i]
    <3>1. /\ pc = "perform" /\ n \in Node /\ Len(visited) = i - 1
          /\ visited' = Append(visited, n) /\ UNCHANGED file
          /\ \/ pc' = "write" /\ i' = i /\ screen' = screen
             \/ pc' = "init" /\ screen' = Append(screen, n)
      BY <2>0, <2>2 DEF PerformCmd, TurnInv
    <3>2. /\ Len(visited') = Len(visited) + 1 /\ visited'[i] = n
          /\ \A a \in 1 .. Len(visited) : visited'[a] = visited[a]
          /\ \A a \in 1 .. Len(visited') : a \in 1 .. Len(visited) \/ a = i
      BY <2>0, <3>1
    <3>. HIDE DEF n
    <3>3. \A a \in 1 .. Len(visited) : In(file, visited[a]) \/ In(screen, visited[a])
      BY <3>1 DEF ShownInv
    <3>4. Len(file) + Len(screen) = Len(visited) + 1 /\ Len(file) > 0 /\ file[1] = Old
      BY <3>1 DEF ShownInv
    <3>5. CASE pc' = "write" /\ i' = i /\ screen' = screen
      BY <2>0, <3>1, <3>2, <3>3, <3>4, <3>5 DEF ShownInv
    <3>6. CASE pc' = "init" /\ screen' = Append(screen, n)
      <4>1. /\ Len(screen') = Len(screen) + 1 /\ In(screen', n)
            /\ \A m : In(screen, m) => In(screen', m)
        BY <2>0, <3>1, <3>6, InAppended
      <4>. QED
        BY <2>0, <3>1, <3>2, <3>3, <3>4, <3>6, <4>1 DEF ShownInv
    <3>. QED
      BY <3>1, <3>5, <3>6
  <2>3. CASE Write
    <3>. DEFINE n == totalNodes[i]
    <3>1. /\ pc = "write" /\ pc' = "init" /\ n \in Node /\ Len(visited) = i
          /\ UNCHANGED visited /\ visited[i] = n
          /\ \/ file' = Append(file, n) /\ screen' = screen
             \/ screen' = Append(screen, n) /\ file' = file
      BY <2>0, <2>3 DEF Write, Forwarded, TurnInv
    <3>. HIDE DEF n
    <3>2. \A a \in 1 .. Len(visited) :
              visited[a] = n \/ In(file, visited[a]) \/ In(screen, visited[a])
      BY <3>1 DEF ShownInv
    <3>3. Len(file) + Len(screen) = Len(visited) /\ Len(file) > 0 /\ file[1] = Old
      BY <3>1 DEF ShownInv
    <3>4. CASE file' = Append(file, n) /\ screen' = screen
      <4>1. /\ Len(file') = Len(file) + 1 /\ In(file', n) /\ file'[1] = file[1]
            /\ \A m : In(file, m) => In(file', m)
        BY <2>0, <3>1, <3>3, <3>4, InAppended
      <4>2. \A a \in 1 .. Len(visited) : In(file', visited[a]) \/ In(screen', visited[a])
        BY <3>2, <3>4, <4>1
      <4>3. Len(file') + Len(screen') = Len(visited) + 1
        <5>1. Len(screen') = Len(screen)
          BY <3>4
        <5>. QED
          BY <2>a, <3>3, <4>1, <5>1
      <4>4. Len(file') > 0 /\ file'[1] = Old
        BY <2>a, <3>3, <4>1
      <4>. QED
        BY <3>1, <4>2, <4>3, <4>4 DEF ShownInv
    <3>5. CASE screen' = Append(screen, n) /\ file' = file
      <4>1. /\ Len(screen') = Len(screen) + 1 /\ In(screen', n)
            /\ \A m : In(screen, m) => In(screen', m)
        BY <2>0, <3>1, <3>5, InAppended
      <4>2. \A a \in 1 .. Len(visited) : In(file', visited[a]) \/ In(screen', visited[a])
        BY <3>2, <3>5, <4>1
      <4>3. Len(file') + Len(screen') = Len(visited) + 1
        <5>1. Len(file') = Len(file)
          BY <3>5
        <5>. QED
          BY <2>a, <3>3, <4>1, <5>1
      <4>4. Len(file') > 0 /\ file'[1] = Old
        BY <3>3, <3>5
      <4>. QED
        BY <3>1, <4>2, <4>3, <4>4 DEF ShownInv
    <3>. QED
      BY <3>1, <3>4, <3>5
  <2>4. CASE Ended \/ UNCHANGED vars
    BY <2>4 DEF Ended, vars, ShownInv, In
  <2>. QED
    BY <2>1, <2>2, <2>3, <2>4 DEF Next, Steps
<1>. QED
  BY <1>1, <1>2, TypeCorrect, TurnCorrect, PTL DEF Spec

(* Each result is shown once, after what the file held before, however the   *)
(* run ends; a panic can only lose the result of the program's own node.     *)
THEOREM ResultsAreShown == Spec => []EveryResultShown
<1>1. TypeOK /\ ShownInv /\ TurnInv => EveryResultShown
  <2>. SUFFICES ASSUME TypeOK, ShownInv, TurnInv PROVE EveryResultShown
    OBVIOUS
  <2>1. file \in Seq(Node) /\ screen \in Seq(Node) /\ visited \in Seq(Node)
    BY DEF TypeOK
  <2>2. pc # "write" => Len(visited) = Len(file) - 1 + Len(screen)
    BY <2>1 DEF ShownInv
  <2>3. pc = "panic" => /\ Len(visited) + 1 <= Len(totalNodes)
                        /\ NodeEquals(LocalOn, totalNodes[Len(visited) + 1])
    BY DEF TurnInv
  <2>. QED
    BY <2>2, <2>3 DEF ShownInv, In, EveryResultShown
<1>. QED
  BY <1>1, TypeCorrect, ShownCorrect, TurnCorrect, PTL

-----------------------------------------------------------------------------
(* The turns go in the order of host names.                                 *)
THEOREM TurnsAreOrdered == Spec => []InHostOrder
<1>1. TypeOK /\ SelectInv /\ TurnInv => InHostOrder
  <2>. SUFFICES ASSUME TypeOK, SelectInv, TurnInv, Len(visited) # 0 PROVE InHostOrder
    BY DEF InHostOrder, TypeOK
  <2>1. Ordered(totalNodes)
    BY DEF SelectInv, TurnInv
  <2>2. /\ Len(visited) <= Len(totalNodes) /\ Len(visited) \in Nat /\ Len(totalNodes) \in Nat
        /\ \A a \in 1 .. Len(visited) : visited[a] = totalNodes[a]
    BY DEF TurnInv, TypeOK
  <2>. QED
    BY <2>1, <2>2 DEF InHostOrder, Ordered
<1>. QED
  BY <1>1, TypeCorrect, SelectCorrect, TurnCorrect, PTL

-----------------------------------------------------------------------------
(* The turns implement FanOut.                                              *)
THEOREM FanOutImplemented == Spec => ImplementsFanOut
<1>. USE DEF argVars, loopVars, outVars
<1>1. Init => Abstract!FanInit
  BY DEF Init, Abstract!FanInit, fanPhase, fanTodo, Visited
<1>2. TypeOK /\ TypeOK' /\ SelectInv /\ SelectInv' /\ TurnInv /\ TurnInv' /\ [Next]_vars
          => [Abstract!FanNext]_(Abstract!fanVars)
  <2>. SUFFICES ASSUME TypeOK, TypeOK', SelectInv, SelectInv', TurnInv, TurnInv',
                       [Next]_vars
                PROVE  [Abstract!FanNext]_(Abstract!fanVars)
    OBVIOUS
  <2>. USE DEF Abstract!fanVars, Abstract!FanNext
  <2>0. /\ totalNodes \in Seq(Node) /\ visited \in Seq(Node) /\ i \in Nat \ {0}
        /\ totalNodes' \in Seq(Node) /\ visited' \in Seq(Node)
        /\ pc \in {"perform", "write"} => i <= Len(totalNodes)
    BY DEF TypeOK
  <2>1. CASE SelectNode \/ NextGroup \/ NextName
    BY <2>1 DEF SelectNode, NextGroup, NextName, Looping, fanPhase, fanTodo, Visited
  <2>2. CASE Selected
    <3>1. CASE totalNodes = <<>>
      BY <2>2, <3>1 DEF Selected, fanPhase, fanTodo, Visited, Abstract!Abort
    <3>2. CASE totalNodes # <<>>
      BY <2>2, <3>2 DEF Selected, fanPhase, fanTodo, Visited
    <3>. QED
      BY <3>1, <3>2
  <2>3. CASE Sort
    <3>1. visited = <<>> /\ visited' = <<>>
      BY <2>0, <2>3 DEF Sort, TurnInv
    <3>2. fanTodo' = {totalNodes'[a] : a \in 1 .. Len(totalNodes')}
      BY <2>3, <3>1 DEF Sort, fanTodo
    <3>3. fanTodo' \in (SUBSET Node) \ {{}}
      <4>1. Len(totalNodes') > 0
        BY <2>3 DEF Sort, SelectInv
      <4>2. \A a \in 1 .. Len(totalNodes') : totalNodes'[a] \in Node
        BY <2>0
      <4>3. totalNodes'[1] \in fanTodo'
        BY <2>0, <3>2, <4>1
      <4>4. fanTodo' \subseteq Node
        BY <3>2, <4>2
      <4>5. fanTodo' # {}
        BY <4>3
      <4>. QED
        BY <4>4, <4>5
    <3>. QED
      BY <2>3, <3>1, <3>3 DEF Sort, fanPhase, Visited, Abstract!Choose
  <2>4. CASE Initialize \/ ShellPanics \/ UnknownType
    <3>0. totalNodes # <<>>
      BY <2>0, <2>4 DEF Initialize, ShellPanics, UnknownType, SelectInv
    <3>1. UNCHANGED <<fanTodo, Visited>>
      BY <2>4, <3>0 DEF Initialize, ShellPanics, UnknownType, fanTodo, Visited
    <3>. QED
      BY <2>4, <3>1 DEF Initialize, ShellPanics, UnknownType, fanPhase, Abstract!Abort
  <2>5. CASE PerformCmd
    <3>. DEFINE n == totalNodes[i]
    <3>1. /\ i \in 1 .. Len(totalNodes) /\ Len(visited) = i - 1 /\ Len(visited') = i
          /\ UNCHANGED totalNodes /\ visited' = Append(visited, n)
      BY <2>0, <2>5 DEF PerformCmd, TurnInv
    <3>2. /\ fanTodo = {totalNodes[a] : a \in i .. Len(totalNodes)}
          /\ fanTodo' = {totalNodes[a] : a \in (i + 1) .. Len(totalNodes)}
      BY <2>0, <2>5, <3>1 DEF PerformCmd, fanTodo
    <3>3. fanTodo' = fanTodo \ {n}
      <4>1. \A a \in (i + 1) .. Len(totalNodes) : totalNodes[a] # n
        BY <2>0, <3>1, DistinctIsInjective DEF SelectInv
      <4>2. \A a \in i .. Len(totalNodes) : a = i \/ a \in (i + 1) .. Len(totalNodes)
        BY <2>0
      <4>3. fanTodo \subseteq fanTodo' \cup {n}
        BY <3>2, <4>2
      <4>4. fanTodo' \subseteq fanTodo
        BY <2>0, <3>2
      <4>5. n \notin fanTodo'
        BY <3>2, <4>1
      <4>. QED
        BY <4>3, <4>4, <4>5
    <3>4. Visited' = Visited \cup {n}
      <4>1. /\ visited'[i] = n
            /\ \A a \in 1 .. (i - 1) : visited'[a] = visited[a]
        BY <2>0, <3>1
      <4>2. \A a \in 1 .. i : a = i \/ a \in 1 .. (i - 1)
        BY <2>0
      <4>. QED
        BY <2>0, <3>1, <4>1, <4>2 DEF Visited
    <3>5. n \in fanTodo
      BY <2>0, <3>1, <3>2
    <3>. QED
      BY <2>5, <3>3, <3>4, <3>5 DEF PerformCmd, fanPhase, Abstract!Turn
  <2>6. CASE Write
    BY <2>6 DEF Write, fanPhase, fanTodo, Visited
  <2>7. CASE Return
    <3>1. fanTodo = {} /\ fanTodo' = {}
      BY <2>0, <2>7 DEF Return, MoreNodes, TurnInv, fanTodo
    <3>. QED
      BY <2>7, <3>1 DEF Return, fanPhase, Visited, Abstract!Finish
  <2>8. CASE UNCHANGED vars
    BY <2>8 DEF vars, fanPhase, fanTodo, Visited
  <2>. QED
    BY <2>1, <2>2, <2>3, <2>4, <2>5, <2>6, <2>7, <2>8 DEF Next, Steps, Ended
<1>. QED
  BY <1>1, <1>2, TypeCorrect, SelectCorrect, TurnCorrect, PTL
  DEF Spec, ImplementsFanOut, Abstract!FanSpec

-----------------------------------------------------------------------------
(* Every entry the arguments name is selected.                              *)

\* The list the loops go through at outer position a and inner position b, and
\* what is looked for in it.
At(a, b) ==
    CASE selection.by = "node"  -> config[b].Nodes
      [] selection.by = "group" -> FindGroupByName(selection.names[a])
      [] selection.by = "all"   -> FindGroupByName(config[a].Name)
Fits(a, n) ==
    selection.by = "node" => n.Host = selection.names[a] \/ n.IP = selection.names[a]

\* The loops have gone past entry l of that list.
Past(a, b, l) ==
    pc # "select" \/ a < i \/ (a = i /\ (b < g \/ (b = g /\ l < k)))

CoverInv ==
    /\ totalNodes # <<>> => options.target /\ selection.by # "none"
    /\ pc # "exit" /\ selection.by # "none" =>
           \A a \in 1 .. OuterLength, b \in 1 .. InnerLength : \A l \in 1 .. Len(At(a, b)) :
               Past(a, b, l) /\ Fits(a, At(a, b)[l]) /\ IsNodeAddressValid(At(a, b)[l])
                   => NodeInArray(totalNodes, At(a, b)[l])

LEMMA GroupType ==
    ASSUME TypeOK
    PROVE  \A j \in 1 .. Len(config) :
               config[j].Name \in GroupNames /\ config[j].Nodes \in Seq(Node)
<1>1. config \in Seq(Group)
  BY DEF TypeOK
<1>2. \A j \in 1 .. Len(config) : config[j] \in Group
  BY <1>1, ElementOfSeq
<1>. QED
  BY <1>2 DEF Group

LEMMA FoundType ==
    ASSUME TypeOK, NEW name
    PROVE  FindGroupByName(name) \in Seq(Node)
  BY GroupType, EmptySeq DEF FindGroupByName

LEMMA AtType ==
    ASSUME TypeOK, selection.by # "none", NEW a \in 1 .. OuterLength, NEW b \in 1 .. InnerLength
    PROVE  At(a, b) \in Seq(Node)
<1>1. selection.by \in {"node", "group", "all", "none"}
  BY DEF TypeOK
<1>2. CASE selection.by = "node"
  BY <1>2, GroupType DEF At, InnerLength
<1>3. CASE selection.by = "group" \/ selection.by = "all"
  BY <1>3, FoundType DEF At
<1>. QED
  BY <1>1, <1>2, <1>3

\* Each group is found by its name when no other has it.
LEMMA FoundByName ==
    ASSUME TypeOK, DistinctNames, NEW j \in 1 .. Len(config)
    PROVE  FindGroupByName(config[j].Name) = config[j].Nodes
<1>1. Len(config) \in Nat
  BY DEF TypeOK
<1>2. IsFirst(j, config[j].Name)
  BY <1>1 DEF IsFirst, DistinctNames
<1>3. \A l \in 1 .. Len(config) : IsFirst(l, config[j].Name) => l = j
  BY DEF IsFirst, DistinctNames
<1>. DEFINE found == CHOOSE l \in 1 .. Len(config) : IsFirst(l, config[j].Name)
<1>4. found \in 1 .. Len(config) /\ IsFirst(found, config[j].Name)
  BY <1>2
<1>5. found = j
  BY <1>3, <1>4
<1>. QED
  BY <1>2, <1>5 DEF FindGroupByName

\* An array loses no node by getting another, nor by being sorted.
LEMMA InArrayAppend ==
    ASSUME NEW s \in Seq(Node), NEW n \in Node, NEW m
    PROVE  /\ NodeInArray(s, m) => NodeInArray(Append(s, n), m)
           /\ IsNodeAddressValid(n) => NodeInArray(Append(s, n), n)
<1>. DEFINE t == Append(s, n)
<1>1. /\ Len(s) \in Nat /\ Len(t) = Len(s) + 1 /\ t[Len(s) + 1] = n
      /\ \A a \in 1 .. Len(s) : t[a] = s[a]
  OBVIOUS
<1>. HIDE DEF t
<1>2. NodeInArray(s, m) => NodeInArray(t, m)
  BY <1>1 DEF NodeInArray
<1>3. IsNodeAddressValid(n) => NodeEquals(n, n)
  BY DEF IsNodeAddressValid, NodeEquals
<1>4. IsNodeAddressValid(n) => NodeInArray(t, n)
  BY <1>1, <1>3 DEF NodeInArray
<1>. QED
  BY <1>2, <1>4 DEF t

\* A one-to-one map of an interval into itself reaches every place of it.
LEMMA PermutationOnto ==
    ASSUME NEW n \in Nat, NEW p \in Permutations(n), NEW a \in 1 .. n
    PROVE  \E b \in 1 .. n : p[b] = a
<1>1. p \in Injection(1 .. n, 1 .. n)
  BY DEF Permutations, Injection, IsInjective
<1>2. IsFiniteSet(1 .. n)
  BY FS_Interval
<1>3. p \in Surjection(1 .. n, 1 .. n)
  BY <1>1, <1>2, FS_Injection
<1>. QED
  BY <1>3 DEF Surjection

LEMMA InArraySorted ==
    ASSUME NEW s \in Seq(Node), NEW t \in Sorted(s), NEW m, NodeInArray(s, m)
    PROVE  NodeInArray(t, m)
<1>1. PICK p \in Permutations(Len(s)) : t = [j \in 1 .. Len(s) |-> s[p[j]]]
  BY DEF Sorted, SortedByHost
<1>2. PICK a \in 1 .. Len(s) : NodeEquals(s[a], m)
  BY DEF NodeInArray
<1>3. PICK b \in 1 .. Len(s) : p[b] = a
  BY PermutationOnto
<1>4. t[b] = s[a] /\ Len(t) = Len(s)
  BY <1>1, <1>3, SortedType
<1>. QED
  BY <1>2, <1>4 DEF NodeInArray

LEMMA LoopBounds ==
    ASSUME TypeOK
    PROVE  OuterLength \in Nat /\ InnerLength \in Nat
<1>1. Len(config) \in Nat /\ Len(selection.names) \in Nat
  BY DEF TypeOK
<1>. QED
  BY <1>1 DEF OuterLength, InnerLength

LEMMA CoverCorrect == Spec => []CoverInv
<1>. USE DEF argVars, loopVars, outVars
<1>1. Init => CoverInv
  <2>. SUFFICES ASSUME Init PROVE CoverInv
    OBVIOUS
  <2>1. pc = "select" /\ i = 1 /\ g = 1 /\ k = 1 /\ totalNodes = <<>>
    BY DEF Init
  <2>2. ASSUME NEW a \in 1 .. OuterLength, NEW b \in 1 .. InnerLength, NEW l \in 1 .. Len(At(a, b))
        PROVE  ~Past(a, b, l)
    BY <2>1 DEF Past
  <2>. QED
    BY <2>1, <2>2 DEF CoverInv
<1>2. TypeOK /\ TypeOK' /\ CoverInv /\ [Next]_vars => CoverInv'
  <2>. SUFFICES ASSUME TypeOK, TypeOK', CoverInv, [Next]_vars PROVE CoverInv'
    OBVIOUS
  <2>0. /\ totalNodes \in Seq(Node) /\ i \in Nat \ {0} /\ g \in Nat \ {0} /\ k \in Nat \ {0}
        /\ OuterLength \in Nat /\ InnerLength \in Nat
    BY LoopBounds DEF TypeOK
  <2>1. UNCHANGED <<config, selection, options>>
    BY DEF Next, Steps, Ended, SelectNode, NextGroup, NextName, Selected, Sort,
           Initialize, PerformCmd, ShellPanics, UnknownType, Write, Return, vars
  <2>2. /\ OuterLength' = OuterLength /\ InnerLength' = InnerLength
        /\ \A a, b : At(a, b)' = At(a, b)
        /\ \A a, n : Fits(a, n)' <=> Fits(a, n)
    BY <2>1 DEF OuterLength, InnerLength, At, Fits, FindGroupByName, IsFirst
  <2>3. ASSUME selection.by # "none", pc # "exit", totalNodes' # <<>> => options.target,
               \A m : NodeInArray(totalNodes, m) => NodeInArray(totalNodes', m),
               ASSUME NEW a \in 1 .. OuterLength, NEW b \in 1 .. InnerLength,
                      NEW l \in 1 .. Len(At(a, b)), Past(a, b, l)', ~Past(a, b, l),
                      Fits(a, At(a, b)[l]), IsNodeAddressValid(At(a, b)[l])
               PROVE  NodeInArray(totalNodes', At(a, b)[l])
        PROVE  CoverInv'
    <3>1. ASSUME NEW a \in 1 .. OuterLength, NEW b \in 1 .. InnerLength,
                 NEW l \in 1 .. Len(At(a, b)), Past(a, b, l)',
                 Fits(a, At(a, b)[l]), IsNodeAddressValid(At(a, b)[l])
          PROVE  NodeInArray(totalNodes', At(a, b)[l])
      <4>1. CASE Past(a, b, l)
        BY <2>3, <3>1, <4>1 DEF CoverInv
      <4>. QED
        BY <2>3, <3>1, <4>1
    <3>. QED
      BY <2>1, <2>2, <2>3, <3>1 DEF CoverInv
  <2>4. CASE SelectNode
    <3>1. /\ Looping /\ g <= InnerLength /\ k <= Len(Current)
          /\ pc = "select" /\ pc' = "select" /\ selection.by # "none" /\ options.target
          /\ i' = i /\ g' = g /\ k' = k + 1
      BY <2>4 DEF SelectNode, Looping
    <3>2. Current = At(i, g) /\ Current \in Seq(Node)
      BY <3>1, CurrentType DEF Current, At
    <3>3. k \in 1 .. Len(Current) /\ Current[k] \in Node
      BY <2>0, <3>1, <3>2
    <3>4. \A m : NodeInArray(totalNodes, m) => NodeInArray(totalNodes', m)
      BY <2>0, <2>4, <3>3, InArrayAppend DEF SelectNode
    <3>5. Matches(Current[k]) /\ IsNodeAddressValid(Current[k]) => NodeInArray(totalNodes', Current[k])
      BY <2>0, <2>4, <3>3, InArrayAppend DEF SelectNode
    <3>6. ASSUME NEW a \in 1 .. OuterLength, NEW b \in 1 .. InnerLength,
                 NEW l \in 1 .. Len(At(a, b)), Past(a, b, l)', ~Past(a, b, l),
                 Fits(a, At(a, b)[l]), IsNodeAddressValid(At(a, b)[l])
          PROVE  NodeInArray(totalNodes', At(a, b)[l])
      <4>1. a = i /\ b = g /\ l = k
        BY <2>0, <3>1, <3>6, AtType DEF Past
      <4>. QED
        BY <3>2, <3>5, <3>6, <4>1 DEF Fits, Matches
    <3>. QED
      BY <2>3, <3>1, <3>4, <3>6
  <2>5. CASE NextGroup
    <3>1. /\ Looping /\ g <= InnerLength /\ k > Len(Current)
          /\ pc = "select" /\ pc' = "select" /\ selection.by # "none" /\ options.target
          /\ i' = i /\ g' = g + 1 /\ k' = 1 /\ totalNodes' = totalNodes
      BY <2>5 DEF NextGroup, Looping, FirstNode
    <3>2. Current = At(i, g) /\ Current \in Seq(Node)
      BY <3>1, CurrentType DEF Current, At
    <3>3. ASSUME NEW a \in 1 .. OuterLength, NEW b \in 1 .. InnerLength,
                 NEW l \in 1 .. Len(At(a, b)), Past(a, b, l)', ~Past(a, b, l)
          PROVE  FALSE
      <4>1. Len(At(a, b)) \in Nat
        BY <3>1, AtType
      <4>2. a = i /\ b = g /\ l >= k
        BY <2>0, <3>1, <3>3, <4>1 DEF Past
      <4>. QED
        BY <2>0, <3>1, <3>2, <4>1, <4>2
    <3>. QED
      BY <2>3, <3>1, <3>3
  <2>6. CASE NextName
    <3>1. /\ Looping /\ g > InnerLength
          /\ pc = "select" /\ pc' = "select" /\ selection.by # "none" /\ options.target
          /\ i' = i + 1 /\ g' = 1 /\ k' = 1 /\ totalNodes' = totalNodes
      BY <2>6 DEF NextName, Looping, FirstNode, Following
    <3>2. ASSUME NEW a \in 1 .. OuterLength, NEW b \in 1 .. InnerLength,
                 NEW l \in 1 .. Len(At(a, b)), Past(a, b, l)'
          PROVE  Past(a, b, l)
      <4>1. Len(At(a, b)) \in Nat
        BY <3>1, AtType
      <4>. QED
        BY <2>0, <3>1, <3>2, <4>1 DEF Past
    <3>. QED
      BY <2>3, <3>1, <3>2
  <2>7. CASE Selected
    <3>1. CASE totalNodes = <<>>
      BY <2>1, <2>7, <3>1 DEF Selected, CoverInv
    <3>2. CASE totalNodes # <<>>
      <4>1. /\ options.target /\ selection.by # "none" /\ pc = "select"
            /\ i > OuterLength /\ totalNodes' = totalNodes
        BY <2>0, <2>7, <3>2 DEF Selected, CoverInv, Looping
      <4>2. ASSUME NEW a \in 1 .. OuterLength, NEW b, NEW l PROVE Past(a, b, l)
        BY <2>0, <4>1 DEF Past
      <4>. QED
        BY <2>3, <4>1, <4>2
    <3>. QED
      BY <3>1, <3>2
  <2>8. CASE Sort
    <3>1. \A m : NodeInArray(totalNodes, m) => NodeInArray(totalNodes', m)
      BY <2>0, <2>8, InArraySorted DEF Sort
    <3>2. totalNodes' # <<>> => totalNodes # <<>>
      <4>1. Len(totalNodes') = Len(totalNodes) /\ totalNodes' \in Seq(Node)
        BY <2>0, <2>8, SortedType DEF Sort
      <4>. QED
        BY <2>0, <4>1
    <3>3. pc = "sort" /\ pc' = "init"
      BY <2>8 DEF Sort
    <3>4. \A a, b, l : Past(a, b, l)
      BY <3>3 DEF Past
    <3>5. CASE selection.by # "none"
      BY <2>3, <3>1, <3>2, <3>3, <3>4, <3>5 DEF CoverInv
    <3>6. CASE selection.by = "none"
      BY <2>1, <3>2, <3>6 DEF CoverInv
    <3>. QED
      BY <3>5, <3>6
  <2>9. CASE Initialize \/ PerformCmd \/ ShellPanics \/ UnknownType \/ Write \/ Return
    <3>1. pc \notin {"select", "exit"} /\ pc' # "select" /\ UNCHANGED totalNodes
      BY <2>9 DEF Initialize, PerformCmd, ShellPanics, UnknownType, Write, Return
    <3>2. \A a, b, l : Past(a, b, l)
      BY <3>1 DEF Past
    <3>. QED
      BY <2>1, <2>2, <3>1, <3>2 DEF CoverInv
  <2>10. CASE UNCHANGED vars
    <3>1. \A a, b, l : Past(a, b, l)' <=> Past(a, b, l)
      BY <2>10 DEF vars, Past
    <3>. QED
      BY <2>1, <2>2, <2>10, <3>1 DEF CoverInv, vars
  <2>. QED
    BY <2>4, <2>5, <2>6, <2>7, <2>8, <2>9, <2>10 DEF Next, Steps, Ended
<1>. QED
  BY <1>1, <1>2, TypeCorrect, PTL DEF Spec

\* When the groups have names of their own, every valid entry that the arguments
\* name, by host name, address or group, has had a turn when the command ends, or
\* an entry has that counts as the same node: no combination of repeated
\* arguments, of groups and of the sort makes the loops of runGeneric miss one.
THEOREM NamedNodesAreTargeted == Spec => []NamedNodesTargeted
<1>1. TypeOK /\ TurnInv /\ CoverInv => NamedNodesTargeted
  <2>. SUFFICES ASSUME TypeOK, TurnInv, CoverInv, DistinctNames, pc = "end",
                       NEW j \in 1 .. Len(config), NEW l \in 1 .. Len(config[j].Nodes),
                       IsNodeAddressValid(config[j].Nodes[l]), Named(j, config[j].Nodes[l])
                PROVE  NodeInArray(visited, config[j].Nodes[l])
    BY DEF NamedNodesTargeted, AllTargeted
  <2>. DEFINE n == config[j].Nodes[l]
  <2>1. \A a, b, m : Past(a, b, m)
    BY DEF Past
  <2>2. selection.by \in {"node", "group", "all", "none"} /\ Len(config) \in Nat
    BY DEF TypeOK
  <2>3. NodeInArray(totalNodes, n)
    <3>1. CASE selection.by = "node"
      <4>1. PICK a \in 1 .. Len(selection.names) : selection.names[a] \in {n.Host, n.IP}
        BY <3>1 DEF Named
      <4>2. a \in 1 .. OuterLength /\ j \in 1 .. InnerLength /\ At(a, j) = config[j].Nodes
        BY <3>1 DEF OuterLength, InnerLength, At
      <4>3. Fits(a, n)
        BY <4>1 DEF Fits
      <4>. QED
        BY <2>1, <3>1, <4>2, <4>3 DEF CoverInv
    <3>2. CASE selection.by = "group"
      <4>1. PICK a \in 1 .. Len(selection.names) : selection.names[a] = config[j].Name
        BY <3>2 DEF Named
      <4>2. a \in 1 .. OuterLength /\ 1 \in 1 .. InnerLength /\ At(a, 1) = config[j].Nodes
        BY <3>2, <4>1, FoundByName DEF OuterLength, InnerLength, At
      <4>. QED
        BY <2>1, <3>2, <4>2 DEF CoverInv, Fits
    <3>3. CASE selection.by = "all"
      <4>1. j \in 1 .. OuterLength /\ 1 \in 1 .. InnerLength /\ At(j, 1) = config[j].Nodes
        BY <3>3, FoundByName DEF OuterLength, InnerLength, At
      <4>. QED
        BY <2>1, <3>3, <4>1 DEF CoverInv, Fits
    <3>. QED
      BY <2>2, <3>1, <3>2, <3>3 DEF Named
  <2>4. Len(visited) = Len(totalNodes) /\ \A a \in 1 .. Len(visited) : visited[a] = totalNodes[a]
    BY DEF TurnInv
  <2>. QED
    BY <2>3, <2>4 DEF NodeInArray
<1>. QED
  BY <1>1, TypeCorrect, TurnCorrect, CoverCorrect, PTL

-----------------------------------------------------------------------------
(* cluster-status: types                                                    *)

\* Where the loops are when they begin and what has been decided for the check
\* they are in.
StatusLoops ==
    /\ pc \in {"select", "collect", "stats", "group"} => check = 1
    /\ pc \in {"select", "collect", "stats", "group", "check", "access"} => thing = 1
    /\ pc \in {"select", "group", "check"} => k = 1
    /\ pc = "collect" /\ g > Len(groups) => k = 1
    /\ pc \in {"select", "stats"} => g = 1
    /\ pc = "select" => groups = <<>>
    /\ pc \in {"check", "node", "access", "item"} => g <= Len(groups) /\ CurrentGroup.Nodes # <<>>
    /\ pc \in {"node", "access", "item"} => Check \in checks
    /\ pc = "node" => Check # "Kubernetes"
    /\ pc = "access" => Check = "Kubernetes"
    /\ pc = "item" => k <= Len(CurrentGroup.Nodes)

LEMMA StatusChecks == \A b \in 1 .. 5 : clusterStatusChecks[b] \in Checks
  BY DEF Checks

LEMMA StatusGroups ==
    ASSUME StatusTypeOK
    PROVE  /\ config \in Seq(ClusterGroup)
           /\ \A name : /\ GroupByName(name).Nodes \in Seq(Node)
                        /\ GroupByName(name).items \in [Checks -> Nat]
<1>1. config \in Seq(ClusterGroup)
  BY StatusAssumption DEF StatusTypeOK
<1>2. NoGroup.Nodes \in Seq(Node) /\ NoGroup.items \in [Checks -> Nat]
  <2>1. <<>> \in Seq(Node)
    BY EmptySeq
  <2>. QED
    BY <2>1 DEF NoGroup
<1>3. \A n \in 1 .. Len(config) :
          config[n].Nodes \in Seq(Node) /\ config[n].items \in [Checks -> Nat]
  <2>1. \A n \in 1 .. Len(config) : config[n] \in ClusterGroup
    BY <1>1, ElementOfSeq
  <2>. QED
    BY <2>1 DEF ClusterGroup
<1>. QED
  BY <1>1, <1>2, <1>3 DEF GroupByName

LEMMA StatusCurrent ==
    ASSUME StatusTypeOK
    PROVE  /\ CurrentGroup.Nodes \in Seq(Node) /\ Len(CurrentGroup.Nodes) \in Nat
           /\ \A n \in 1 .. Len(CurrentGroup.Nodes) : CurrentGroup.Nodes[n] \in Node
           /\ check <= 5 => Check \in Checks /\ Things \in Nat
<1>1. CurrentGroup.Nodes \in Seq(Node) /\ CurrentGroup.items \in [Checks -> Nat]
  BY StatusGroups DEF CurrentGroup
<1>2. check <= 5 => Check \in Checks
  BY StatusChecks DEF Check, StatusTypeOK
<1>3. \A n \in 1 .. Len(CurrentGroup.Nodes) : CurrentGroup.Nodes[n] \in Node
  BY <1>1, ElementOfSeq
<1>. QED
  BY <1>1, <1>2, <1>3 DEF Things

LEMMA StatusFrame ==
    ASSUME [StatusNext]_statusVars
    PROVE  /\ UNCHANGED givenVars
           /\ Select \/ UNCHANGED groups
           /\ \A name : GroupByName(name)' = GroupByName(name)
           /\ UNCHANGED <<groups, g>> => CurrentGroup' = CurrentGroup
           /\ UNCHANGED <<groups, g, check>> => Things' = Things /\ Check' = Check
<1>1. UNCHANGED givenVars /\ (Select \/ UNCHANGED groups)
  BY DEF StatusNext, StatusSteps, Select, NoGroupSpecified, CollectNode, CollectGroup,
      SortNodes, GetNodesStats, StatsDone, EnterGroup, SkipCheck, LeaveGroup, EnterCheck,
      Access, NoMasterAvailable, EnterNode, LeaveNodes, NextNode, KubernetesDone,
      CheckServiceStatus, CheckContainerStatus, CheckCertificatesExpiration,
      CheckDiskStatus, CheckKubernetesStatus, NextCheck, PerformCheck, StatusEnded,
      statusVars, givenVars
<1>2. UNCHANGED config
  BY <1>1 DEF givenVars
<1>3. \A name : GroupByName(name)' = GroupByName(name)
  BY <1>2 DEF GroupByName, IsFirst
<1>4. UNCHANGED <<groups, g>> => CurrentGroup' = CurrentGroup
  BY <1>3 DEF CurrentGroup
<1>. QED
  BY <1>1, <1>3, <1>4 DEF Check, Things

\* What the commands of the five checks have in common.
PerformsOne ==
    /\ pc = "item" /\ MoreThings
    /\ \E b \in {"Services", "Containers", "Certificates", "DiskUsage", "Kubernetes"} : PerformCheck(b)
    /\ \/ pc' = pc
       \/ pc' = "panic" /\ NodeEquals(LocalOn, node)
       \/ pc' = "panic" /\ Check = "DiskUsage"

LEMMA StatusPerforms ==
    ASSUME CheckServiceStatus \/ CheckContainerStatus \/ CheckCertificatesExpiration
             \/ CheckDiskStatus \/ CheckKubernetesStatus
    PROVE  PerformsOne
  BY DEF PerformsOne, CheckServiceStatus, CheckContainerStatus,
      CheckCertificatesExpiration, CheckDiskStatus, CheckKubernetesStatus, Continues,
      Panics, PerformCheck

LEMMA StatusStart ==
    ASSUME StatusInit
    PROVE  StatusTypeOK /\ StatusLoops
<1>1. NoNode \in Node
  BY DEF NoNode, Node
<1>2. /\ config \in StatusConfigs /\ LocalOn \in Locals /\ groupArg \in StatusArgs
      /\ checks \in CheckArgs /\ SkipStats \in BOOLEAN
      /\ pc = "select" /\ groups = <<>> /\ totalNodes = <<>>
      /\ g = 1 /\ check = 1 /\ k = 1 /\ thing = 1
      /\ node \in Node /\ visited = <<>> /\ made = {}
  BY <1>1 DEF StatusInit
<1>3. groups \in Seq(STRING) /\ totalNodes \in Seq(Node) /\ visited \in Seq(Node)
  BY <1>2, EmptySeq
<1>4. g \in 1 .. Len(groups) + 1
  BY <1>2
<1>. QED
  BY <1>2, <1>3, <1>4 DEF StatusTypeOK, StatusLoops

LEMMA StatusGroupNames ==
    ASSUME StatusTypeOK
    PROVE  AskedGroups \in Seq(STRING)
<1>1. CASE groupArg.by = "all"
  <2>1. config \in Seq(ClusterGroup) /\ Len(config) \in Nat
    BY StatusGroups
  <2>2. \A n \in 1 .. Len(config) : config[n] \in ClusterGroup
    BY <2>1, ElementOfSeq
  <2>3. \A n \in 1 .. Len(config) : config[n].Name \in STRING
    BY <2>2 DEF ClusterGroup
  <2>4. [n \in 1 .. Len(config) |-> config[n].Name] \in [1 .. Len(config) -> STRING]
    BY <2>3
  <2>5. [n \in 1 .. Len(config) |-> config[n].Name] \in Seq(STRING)
    BY <2>1, <2>4, SeqDef
  <2>. QED
    BY <1>1, <2>5 DEF AskedGroups
<1>2. CASE groupArg.by # "all"
  BY <1>2, StatusAssumption DEF AskedGroups, StatusTypeOK
<1>. QED
  BY <1>1, <1>2

LEMMA StatusStep ==
    ASSUME StatusTypeOK, StatusLoops, [StatusNext]_statusVars
    PROVE  StatusTypeOK' /\ StatusLoops'
<1>. USE DEF givenVars, counterVars
<1>1. /\ groups \in Seq(STRING) /\ Len(groups) \in Nat /\ totalNodes \in Seq(Node)
      /\ g \in 1 .. Len(groups) + 1 /\ check \in 1 .. 6 /\ k \in Nat \ {0} /\ thing \in Nat \ {0}
      /\ node \in Node /\ visited \in Seq(Node) /\ made \subseteq Commands
  BY DEF StatusTypeOK
<1>2. /\ UNCHANGED givenVars
      /\ UNCHANGED <<groups, g>> => CurrentGroup' = CurrentGroup
      /\ UNCHANGED <<groups, g, check>> => Things' = Things /\ Check' = Check
  BY StatusFrame
<1>3. /\ CurrentGroup.Nodes \in Seq(Node) /\ Len(CurrentGroup.Nodes) \in Nat
      /\ \A n \in 1 .. Len(CurrentGroup.Nodes) : CurrentGroup.Nodes[n] \in Node
      /\ check <= 5 => Check \in Checks /\ Things \in Nat
  BY StatusCurrent
<1>4. CASE Select
  BY <1>1, <1>2, <1>4, StatusGroupNames DEF Select, StatusTypeOK, StatusLoops
<1>5. CASE NoGroupSpecified
  BY <1>1, <1>2, <1>5 DEF NoGroupSpecified, StatusTypeOK, StatusLoops, Over
<1>6. CASE CollectNode
  <2>1. totalNodes' \in Seq(Node)
    <3>1. Entry \in Node
      BY <1>1, <1>3, <1>6 DEF CollectNode, Entry
    <3>. QED
      BY <1>1, <1>6, <3>1 DEF CollectNode
  <2>. QED
    BY <1>1, <1>2, <1>6, <2>1 DEF CollectNode, StatusTypeOK, StatusLoops
<1>7. CASE CollectGroup
  BY <1>1, <1>2, <1>7 DEF CollectGroup, FirstEntry, StatusTypeOK, StatusLoops
<1>8. CASE SortNodes
  <2>1. totalNodes' \in Seq(Node)
    BY <1>1, <1>8, SortedType DEF SortNodes, Sorted
  <2>. QED
    BY <1>1, <1>2, <1>8, <2>1 DEF SortNodes, StatusTypeOK, StatusLoops
<1>9. CASE GetNodesStats
  <2>1. totalNodes[k] \in Node
    BY <1>1, <1>9 DEF GetNodesStats
  <2>2. visited' \in Seq(Node) /\ node' \in Node
    <3>1. node' = totalNodes[k]
      BY <1>9 DEF GetNodesStats, StatNode
    <3>2. visited' = visited \/ visited' = Append(visited, totalNodes[k])
      BY <1>9 DEF GetNodesStats, StatNode
    <3>3. Append(visited, totalNodes[k]) \in Seq(Node)
      BY <1>1, <2>1, AppendProperties
    <3>. QED
      BY ONLY <1>1, <2>1, <3>1, <3>2, <3>3
  <2>. QED
    BY <1>1, <1>2, <1>9, <2>2 DEF GetNodesStats, Panics, StatusTypeOK, StatusLoops, Over
<1>10. CASE StatsDone
  BY <1>1, <1>2, <1>10 DEF StatsDone, StatusTypeOK, StatusLoops
<1>11. CASE EnterGroup
  BY <1>1, <1>2, <1>11 DEF EnterGroup, StatusTypeOK, StatusLoops, Over
<1>12. CASE SkipCheck
  BY <1>1, <1>2, <1>12 DEF SkipCheck, NextCheck, StatusTypeOK, StatusLoops
<1>13. CASE LeaveGroup
  BY <1>1, <1>2, <1>13 DEF LeaveGroup, StatusTypeOK, StatusLoops
<1>14. CASE EnterCheck
  <2>1. /\ pc = "check" /\ check \in 1 .. 5 /\ Check \in checks /\ k = 1 /\ thing = 1
        /\ UNCHANGED <<givenVars, groups, totalNodes, g, check, thing, visited, made>>
        /\ Things \in Nat
    BY <1>1, <1>3, <1>14 DEF EnterCheck, Skipped, StatusLoops
  <2>2. /\ k' \in 1 .. Len(CurrentGroup.Nodes) /\ node' \in Node
        /\ \/ pc' = "node" /\ Check # "Kubernetes"
           \/ pc' = "exit"
           \/ pc' = "access" /\ Check = "Kubernetes"
           \/ pc' = "item" /\ Check = "Kubernetes"
    <3>1. 1 \in 1 .. Len(CurrentGroup.Nodes)
      BY <1>3, <2>1, EmptySeq DEF StatusLoops
    <3>2. CASE Check # "Kubernetes"
      BY <1>1, <1>14, <2>1, <3>1, <3>2 DEF EnterCheck
    <3>3. CASE Check = "Kubernetes" /\ (Things = 0 \/ LocalTurns = {})
      BY <1>1, <1>14, <2>1, <3>1, <3>3 DEF EnterCheck
    <3>4. CASE Check = "Kubernetes" /\ Things # 0 /\ LocalTurns # {}
      <4>1. k' \in LocalTurns /\ pc' = "item" /\ node' = CurrentGroup.Nodes[k']
        BY <1>14, <3>4 DEF EnterCheck
      <4>2. k' \in 1 .. Len(CurrentGroup.Nodes)
        BY <4>1 DEF LocalTurns
      <4>. QED
        BY <1>3, <3>4, <4>1, <4>2
    <3>. QED
      BY <3>2, <3>3, <3>4
  <2>3. g <= Len(groups) /\ k' \in Nat \ {0} /\ k' <= Len(CurrentGroup.Nodes)
    BY <1>3, <2>1, <2>2 DEF StatusLoops
  <2>4. StatusTypeOK'
    BY <1>1, <1>2, <1>3, <2>1, <2>2, <2>3 DEF StatusTypeOK, Over
  <2>5. StatusLoops'
    BY <1>1, <1>2, <1>3, <2>1, <2>2, <2>3 DEF StatusLoops
  <2>. QED
    BY <2>4, <2>5
<1>15. CASE Access
  <2>1. Entry \in Node
    BY <1>1, <1>3, <1>15 DEF Access, Entry
  <2>2. StatusTypeOK'
    BY <1>1, <1>2, <1>3, <1>15, <2>1 DEF Access, StatusTypeOK, StatusLoops, Over
  <2>3. StatusLoops'
    BY <1>1, <1>2, <1>3, <1>15 DEF Access, StatusTypeOK, StatusLoops
  <2>. QED
    BY <2>2, <2>3
<1>16. CASE NoMasterAvailable
  BY <1>1, <1>2, <1>16 DEF NoMasterAvailable, StatusTypeOK, StatusLoops, Over
<1>17. CASE EnterNode
  <2>1. Entry \in Node
    BY <1>1, <1>3, <1>17 DEF EnterNode, Entry
  <2>. QED
    BY <1>1, <1>2, <1>3, <1>17, <2>1 DEF EnterNode, SetNode, StatusTypeOK, StatusLoops
<1>18. CASE LeaveNodes
  BY <1>1, <1>2, <1>18 DEF LeaveNodes, NextCheck, StatusTypeOK, StatusLoops
<1>19. CASE NextNode
  <2>1. StatusTypeOK'
    BY <1>1, <1>2, <1>3, <1>19 DEF NextNode, StatusTypeOK, StatusLoops
  <2>2. StatusLoops'
    BY <1>1, <1>2, <1>3, <1>19 DEF NextNode, StatusTypeOK, StatusLoops
  <2>. QED
    BY <2>1, <2>2
<1>20. CASE KubernetesDone
  BY <1>1, <1>2, <1>20 DEF KubernetesDone, NextCheck, StatusTypeOK, StatusLoops
<1>21. CASE PerformsOne
  <2>1. /\ pc = "item" /\ thing <= Things /\ thing' = thing + 1
        /\ made' = made \cup {[group |-> g, check |-> check, thing |-> thing, on |-> node]}
        /\ UNCHANGED <<givenVars, groups, totalNodes, g, check, k, node, visited>>
        /\ pc' = "item" \/ pc' = "panic"
    BY <1>21 DEF PerformsOne, PerformCheck, MoreThings
  <2>2. check \in 1 .. 5 /\ Things \in Nat
    BY <1>1, <1>3, <2>1 DEF StatusTypeOK
  <2>3. made' \subseteq Commands
    BY <1>1, <2>1, <2>2 DEF Commands
  <2>4. StatusTypeOK'
    BY <1>1, <1>2, <2>1, <2>2, <2>3 DEF StatusTypeOK, Over
  <2>5. StatusLoops'
    BY <1>1, <1>2, <2>1, <2>2 DEF StatusLoops
  <2>. QED
    BY <2>4, <2>5
<1>22. CASE UNCHANGED statusVars
  BY <1>2, <1>22 DEF statusVars, StatusTypeOK, StatusLoops
<1>. QED
  BY <1>4, <1>5, <1>6, <1>7, <1>8, <1>9, <1>10, <1>11, <1>12, <1>13, <1>14, <1>15, <1>16,
     <1>17, <1>18, <1>19, <1>20, <1>21, <1>22, StatusPerforms
  DEF StatusNext, StatusSteps, StatusEnded

\* The variables of cluster-status keep their types, and no loop over groups,
\* checks, nodes or things runs past its end.
THEOREM StatusTypeCorrect ==
    StatusSpec => [](StatusTypeOK /\ StatusLoops)
<1>1. StatusInit => StatusTypeOK /\ StatusLoops
  BY StatusStart
<1>2. StatusTypeOK /\ StatusLoops /\ [StatusNext]_statusVars => StatusTypeOK' /\ StatusLoops'
  BY StatusStep
<1>. QED
  BY <1>1, <1>2, PTL DEF StatusSpec

-----------------------------------------------------------------------------
(* cluster-status: nothing is skipped                                       *)

\* The loops have had check b of group a.
StatusBehind(a, b) == a < g \/ (a = g /\ b < check)

StatusPast ==
    pc # "collect" => \A a \in 1 .. Len(groups), b \in 1 .. 5 :
        clusterStatusChecks[b] \in checks /\ StatusBehind(a, b) => CheckMade(a, b)

\* What has been made of the check the loops are in: all of it on the nodes they
\* have passed, and what comes before this thing on the node they are at.
StatusPresent ==
    /\ pc \in {"node", "item"} /\ Check # "Kubernetes" =>
           \A n \in 1 .. (k - 1) : MadeOn(g, check, n, Things)
    /\ pc = "item" /\ Check # "Kubernetes" =>
           node = Entry /\ MadeOn(g, check, k, thing - 1)
    /\ pc = "item" /\ Check = "Kubernetes" =>
           \E n \in 1 .. Len(CurrentGroup.Nodes) :
               node = CurrentGroup.Nodes[n] /\ MadeOn(g, check, n, thing - 1)

StatusStops ==
    /\ pc = "end" => g > Len(groups)
    /\ pc = "exit" => groupArg = NoArgs \/ InCheck("Kubernetes")
    /\ pc = "panic" => NodeEquals(LocalOn, node) \/ InCheck("DiskUsage")

LEMMA StatusMadeGrows ==
    ASSUME [StatusNext]_statusVars
    PROVE  /\ made \subseteq made'
           /\ UNCHANGED groups => \A a, b, n, last : MadeOn(a, b, n, last) => MadeOn(a, b, n, last)'
           /\ UNCHANGED groups => \A a, b : CheckMade(a, b) => CheckMade(a, b)'
<1>1. made \subseteq made'
  BY StatusPerforms DEF StatusNext, StatusSteps, Select, NoGroupSpecified, CollectNode,
      CollectGroup, SortNodes, GetNodesStats, StatsDone, EnterGroup, SkipCheck,
      LeaveGroup, EnterCheck, Access, NoMasterAvailable, EnterNode, LeaveNodes, NextNode,
      KubernetesDone, PerformsOne, NextCheck, PerformCheck, StatusEnded, statusVars
<1>2. \A name : GroupByName(name)' = GroupByName(name)
  BY StatusFrame
<1>3. ASSUME UNCHANGED groups, NEW a, NEW b, NEW n, NEW last, MadeOn(a, b, n, last)
      PROVE  MadeOn(a, b, n, last)'
  BY <1>1, <1>2, <1>3 DEF MadeOn
<1>4. ASSUME UNCHANGED groups, NEW a, NEW b, CheckMade(a, b)
      PROVE  CheckMade(a, b)'
  BY <1>1, <1>2, <1>4 DEF CheckMade, MadeOn, Reached, IsNodeAddressValid
<1>. QED
  BY <1>1, <1>3, <1>4

\* A step that leaves the groups alone keeps what is behind the loops made, when
\* the checks they pass in it are.
LEMMA StatusPasses ==
    ASSUME [StatusNext]_statusVars, UNCHANGED groups, StatusPast, pc # "collect",
           ASSUME NEW a \in 1 .. Len(groups), NEW b \in 1 .. 5,
                  clusterStatusChecks[b] \in checks,
                  StatusBehind(a, b)', ~StatusBehind(a, b)
           PROVE  CheckMade(a, b)
    PROVE  StatusPast'
<1>1. UNCHANGED checks
  BY StatusFrame DEF givenVars
<1>2. \A a, b : CheckMade(a, b) => CheckMade(a, b)'
  BY StatusMadeGrows
<1>3. ASSUME NEW a \in 1 .. Len(groups), NEW b \in 1 .. 5,
             clusterStatusChecks[b] \in checks, StatusBehind(a, b)'
      PROVE  CheckMade(a, b)'
  <2>1. CASE StatusBehind(a, b)
    BY <1>2, <1>3, <2>1 DEF StatusPast
  <2>2. CASE ~StatusBehind(a, b)
    BY <1>2, <1>3, <2>2
  <2>. QED
    BY <2>1, <2>2
<1>. QED
  BY <1>1, <1>3 DEF StatusPast

\* When the loop over checks moves on, it has had one more.
LEMMA StatusNextCheck ==
    ASSUME StatusTypeOK, [StatusNext]_statusVars, StatusPast, NextCheck,
           pc # "collect", Check \in checks => CheckMade(g, check)
    PROVE  StatusPast'
<1>1. /\ UNCHANGED <<groups, g>> /\ check' = check + 1
  BY DEF NextCheck
<1>2. g \in 1 .. Len(groups) + 1 /\ Len(groups) \in Nat /\ check \in 1 .. 6
  BY DEF StatusTypeOK
<1>3. ASSUME NEW a \in 1 .. Len(groups), NEW b \in 1 .. 5, clusterStatusChecks[b] \in checks,
             StatusBehind(a, b)', ~StatusBehind(a, b)
      PROVE  CheckMade(a, b)
  <2>1. a = g /\ b = check
    BY <1>1, <1>2, <1>3 DEF StatusBehind
  <2>. QED
    BY <1>3, <2>1 DEF Check
<1>. QED
  BY <1>1, <1>3, StatusPasses

LEMMA StatusPastStep ==
    ASSUME StatusTypeOK, StatusLoops, StatusPast, StatusPresent, [StatusNext]_statusVars
    PROVE  StatusPast'
<1>1. /\ groups \in Seq(STRING) /\ Len(groups) \in Nat
      /\ g \in 1 .. Len(groups) + 1 /\ check \in 1 .. 6 /\ k \in Nat \ {0} /\ thing \in Nat \ {0}
  BY DEF StatusTypeOK
<1>2. /\ CurrentGroup.Nodes \in Seq(Node) /\ Len(CurrentGroup.Nodes) \in Nat
      /\ check <= 5 => Check \in Checks /\ Things \in Nat
  BY StatusCurrent
<1>3. ASSUME UNCHANGED groups, UNCHANGED <<g, check>>, pc # "collect" PROVE StatusPast'
  BY <1>3, StatusPasses DEF StatusBehind
<1>4. CASE Select \/ CollectNode \/ CollectGroup
  BY <1>4 DEF Select, CollectNode, CollectGroup, StatusPast
<1>5. CASE SortNodes
  <2>1. g' = 1 /\ check' = 1 /\ UNCHANGED groups
    BY <1>5 DEF SortNodes, StatusLoops
  <2>2. \A a \in 1 .. Len(groups), b \in 1 .. 5 : ~StatusBehind(a, b)'
    BY <1>1, <2>1 DEF StatusBehind
  <2>. QED
    BY <2>1, <2>2 DEF StatusPast
<1>6. CASE NoGroupSpecified \/ GetNodesStats \/ StatsDone \/ EnterCheck \/ Access
             \/ NoMasterAvailable \/ EnterNode \/ NextNode \/ PerformsOne
  BY <1>3, <1>6 DEF NoGroupSpecified, GetNodesStats, StatsDone, EnterCheck, Access,
      NoMasterAvailable, EnterNode, NextNode, PerformsOne, PerformCheck, counterVars
<1>7. CASE EnterGroup
  <2>1. CASE UNCHANGED g
    BY <1>3, <1>7, <2>1 DEF EnterGroup
  <2>2. CASE g' # g
    <3>1. CurrentGroup.Nodes = <<>> /\ g' = g + 1 /\ UNCHANGED <<groups, check>>
          /\ pc = "group" /\ check = 1
      BY <1>7, <2>2 DEF EnterGroup, StatusLoops
    <3>2. ASSUME NEW b \in 1 .. 5 PROVE CheckMade(g, b)
      BY <3>1 DEF CheckMade, CurrentGroup, Reached
    <3>3. ASSUME NEW a \in 1 .. Len(groups), NEW b \in 1 .. 5,
                 StatusBehind(a, b)', ~StatusBehind(a, b)
          PROVE  a = g
      BY <1>1, <3>1, <3>3 DEF StatusBehind
    <3>. QED
      BY <3>1, <3>2, <3>3, StatusPasses
  <2>. QED
    BY <2>1, <2>2
<1>8. CASE SkipCheck
  <2>1. pc = "check" /\ check \in 1 .. 5 /\ NextCheck /\ Skipped
    BY <1>1, <1>8 DEF SkipCheck
  <2>2. ASSUME Check \in checks PROVE CheckMade(g, check)
    <3>1. Check # "Kubernetes" /\ Things = 0
      BY <2>1, <2>2 DEF Skipped
    <3>. QED
      BY <3>1 DEF CheckMade, MadeOn, Check, Things, CurrentGroup
  <2>. QED
    BY <2>1, <2>2, StatusNextCheck
<1>9. CASE LeaveGroup
  <2>1. /\ g' = g + 1 /\ check = 6 /\ check' = 1 /\ UNCHANGED groups /\ pc = "check"
    BY <1>1, <1>9 DEF LeaveGroup
  <2>2. ASSUME NEW a \in 1 .. Len(groups), NEW b \in 1 .. 5, StatusBehind(a, b)'
        PROVE  StatusBehind(a, b)
    BY <1>1, <2>1, <2>2 DEF StatusBehind
  <2>. QED
    BY <2>1, <2>2, StatusPasses
<1>10. CASE LeaveNodes
  <2>1. /\ pc = "node" /\ NextCheck /\ Check # "Kubernetes"
        /\ k <= Len(CurrentGroup.Nodes) => ~IsNodeAddressValid(Entry)
    BY <1>10 DEF LeaveNodes, StatusLoops
  <2>2. ASSUME NEW n \in Reached(CurrentGroup.Nodes)
        PROVE  MadeOn(g, check, n, Things)
    <3>1. n \in 1 .. Len(CurrentGroup.Nodes) /\ \A m \in 1 .. n : IsNodeAddressValid(CurrentGroup.Nodes[m])
      BY <2>2 DEF Reached
    <3>2. n < k
      <4>. SUFFICES ASSUME k <= n PROVE FALSE
        BY <1>1, <1>2, <3>1
      <4>1. k \in 1 .. n /\ k <= Len(CurrentGroup.Nodes)
        BY <1>1, <1>2, <3>1
      <4>. QED
        BY <2>1, <3>1, <4>1 DEF Entry
    <3>3. n \in 1 .. (k - 1)
      BY <1>1, <1>2, <3>1, <3>2
    <3>. QED
      BY <2>1, <3>3 DEF StatusPresent
  <2>3. CheckMade(g, check)
    BY <2>1, <2>2 DEF CheckMade, Check, Things, CurrentGroup
  <2>. QED
    BY <2>1, <2>3, StatusNextCheck
<1>11. CASE KubernetesDone
  <2>1. pc = "item" /\ NextCheck /\ Check = "Kubernetes" /\ ~(thing <= Things)
    BY <1>11 DEF KubernetesDone, MoreThings
  <2>2. PICK n \in 1 .. Len(CurrentGroup.Nodes) : MadeOn(g, check, n, thing - 1)
    BY <2>1 DEF StatusPresent
  <2>3. Things \in Nat
    BY <1>1, <1>2, <2>1 DEF StatusTypeOK
  <2>4. MadeOn(g, check, n, Things)
    <3>1. \A t \in 1 .. Things : t \in 1 .. (thing - 1)
      BY <1>1, <2>1, <2>3
    <3>. QED
      BY <2>2, <3>1 DEF MadeOn
  <2>5. CheckMade(g, check)
    BY <2>1, <2>4 DEF CheckMade, Check, Things, CurrentGroup
  <2>. QED
    BY <2>1, <2>5, StatusNextCheck
<1>12. CASE UNCHANGED statusVars
  <2>1. UNCHANGED <<groups, g, check, pc>>
    BY <1>12 DEF statusVars, counterVars
  <2>2. CASE pc = "collect"
    BY <2>1, <2>2 DEF StatusPast
  <2>. QED
    BY <1>3, <2>1, <2>2
<1>. QED
  BY <1>4, <1>5, <1>6, <1>7, <1>8, <1>9, <1>10, <1>11, <1>12, StatusPerforms DEF
      StatusNext, StatusSteps, StatusEnded

LEMMA StatusPresentStep ==
    ASSUME StatusTypeOK, StatusLoops, StatusPresent, [StatusNext]_statusVars
    PROVE  StatusPresent'
<1>1. /\ g \in 1 .. Len(groups) + 1 /\ check \in 1 .. 6 /\ k \in Nat \ {0} /\ thing \in Nat \ {0}
  BY DEF StatusTypeOK
<1>2. /\ Len(CurrentGroup.Nodes) \in Nat
      /\ check <= 5 => Check \in Checks /\ Things \in Nat
  BY StatusCurrent
<1>3. /\ UNCHANGED <<groups, g>> => CurrentGroup' = CurrentGroup
      /\ UNCHANGED <<groups, g, check>> => Things' = Things /\ Check' = Check
  BY StatusFrame
<1>4. /\ made \subseteq made'
      /\ UNCHANGED groups => \A a, b, n, last : MadeOn(a, b, n, last) => MadeOn(a, b, n, last)'
  BY StatusMadeGrows
<1>5. CASE pc' \notin {"node", "item"}
  BY <1>5 DEF StatusPresent
<1>6. CASE EnterCheck
  <2>1. UNCHANGED <<groups, g, check, thing, made>> /\ pc = "check" /\ k = 1 /\ thing = 1
    BY <1>6 DEF EnterCheck, StatusLoops
  <2>2. CASE Check # "Kubernetes"
    BY <1>3, <1>6, <2>1, <2>2 DEF EnterCheck, StatusPresent
  <2>3. CASE Check = "Kubernetes" /\ (Things = 0 \/ LocalTurns = {})
    BY <1>3, <1>5, <1>6, <2>1, <2>3 DEF EnterCheck
  <2>4. CASE Check = "Kubernetes" /\ Things # 0 /\ LocalTurns # {}
    <3>1. k' \in LocalTurns /\ node' = CurrentGroup.Nodes[k']
      BY <1>6, <2>4 DEF EnterCheck
    <3>2. k' \in 1 .. Len(CurrentGroup.Nodes)
      BY <3>1 DEF LocalTurns
    <3>3. \A n : MadeOn(g, check, n, thing - 1)'
      BY <2>1 DEF MadeOn
    <3>4. CurrentGroup' = CurrentGroup /\ Check' = "Kubernetes"
      BY <1>3, <2>1, <2>4
    <3>. QED
      BY <3>1, <3>2, <3>3, <3>4 DEF StatusPresent
  <2>. QED
    BY <2>2, <2>3, <2>4
<1>7. CASE Access
  <2>1. /\ UNCHANGED <<groups, g, check, thing, made>> /\ k \in 1 .. Len(CurrentGroup.Nodes)
        /\ node' = CurrentGroup.Nodes[k] /\ thing = 1 /\ Check = "Kubernetes"
    BY <1>1, <1>2, <1>7 DEF Access, Entry, StatusLoops
  <2>2. \A n : MadeOn(g, check, n, thing - 1)'
    BY <2>1 DEF MadeOn
  <2>3. CurrentGroup' = CurrentGroup /\ Check' = "Kubernetes"
    BY <1>3, <2>1
  <2>4. pc' # "node"
    BY <1>7 DEF Access
  <2>. QED
    BY <2>1, <2>2, <2>3, <2>4 DEF StatusPresent
<1>8. CASE EnterNode
  <2>1. /\ UNCHANGED <<groups, g, check, k, made>> /\ pc = "node" /\ thing' = 1
        /\ node' = Entry /\ Check # "Kubernetes"
    BY <1>8 DEF EnterNode, SetNode, StatusLoops
  <2>2. \A n \in 1 .. (k - 1) : MadeOn(g, check, n, Things)
    BY <2>1 DEF StatusPresent
  <2>3. \A n \in 1 .. (k - 1) : MadeOn(g, check, n, Things)'
    BY <1>3, <2>1, <2>2, StatusFrame DEF MadeOn
  <2>4. MadeOn(g, check, k, thing - 1)'
    BY <2>1 DEF MadeOn
  <2>5. Entry' = Entry /\ Check' # "Kubernetes"
    BY <1>3, <2>1 DEF Entry
  <2>. QED
    BY <2>1, <2>3, <2>4, <2>5 DEF StatusPresent
<1>9. CASE NextNode
  <2>1. /\ UNCHANGED <<groups, g, check, thing, made>> /\ pc = "item" /\ pc' = "node"
        /\ k' = k + 1 /\ Check # "Kubernetes" /\ ~(thing <= Things)
    BY <1>9 DEF NextNode, MoreThings
  <2>2. /\ \A n \in 1 .. (k - 1) : MadeOn(g, check, n, Things)
        /\ MadeOn(g, check, k, thing - 1)
    BY <2>1 DEF StatusPresent
  <2>3. Things \in Nat
    BY <1>1, <1>2, <2>1 DEF StatusTypeOK
  <2>4. MadeOn(g, check, k, Things)
    <3>1. \A t \in 1 .. Things : t \in 1 .. (thing - 1)
      BY <1>1, <2>1, <2>3
    <3>. QED
      BY <2>2, <3>1 DEF MadeOn
  <2>5. \A n \in 1 .. (k' - 1) : MadeOn(g, check, n, Things)
    BY <1>1, <2>1, <2>2, <2>4
  <2>6. \A n \in 1 .. (k' - 1) : MadeOn(g, check, n, Things)'
    BY <1>3, <2>1, <2>5, StatusFrame DEF MadeOn
  <2>. QED
    BY <2>1, <2>6 DEF StatusPresent
<1>10. CASE PerformsOne
  <2>1. /\ pc = "item" /\ thing' = thing + 1 /\ UNCHANGED <<groups, g, check, k, node>>
        /\ made' = made \cup {[group |-> g, check |-> check, thing |-> thing, on |-> node]}
    BY <1>10 DEF PerformsOne, PerformCheck
  <2>2. CurrentGroup' = CurrentGroup /\ Things' = Things /\ Check' = Check /\ Entry' = Entry
    BY <1>3, <2>1 DEF Entry
  <2>3. \A name : GroupByName(name)' = GroupByName(name)
    BY StatusFrame
  <2>4. ASSUME NEW n, MadeOn(g, check, n, thing - 1), node = CurrentGroup.Nodes[n]
        PROVE  MadeOn(g, check, n, thing - 1)'
    <3>1. ASSUME NEW t \in 1 .. thing
          PROVE  [group |-> g, check |-> check, thing |-> t, on |-> CurrentGroup.Nodes[n]] \in made'
      <4>1. t \in 1 .. (thing - 1) \/ t = thing
        BY <1>1, <3>1
      <4>2. CASE t = thing
        BY <2>1, <2>4, <4>2
      <4>3. CASE t \in 1 .. (thing - 1)
        BY <2>1, <2>4, <4>3 DEF MadeOn, CurrentGroup
      <4>. QED
        BY <4>1, <4>2, <4>3
    <3>2. thing' - 1 = thing
      BY <1>1, <2>1
    <3>. QED
      BY <2>1, <2>3, <3>1, <3>2 DEF MadeOn, CurrentGroup
  <2>5. CASE Check # "Kubernetes"
    <3>1. /\ \A n \in 1 .. (k - 1) : MadeOn(g, check, n, Things)
          /\ node = Entry /\ MadeOn(g, check, k, thing - 1)
      BY <2>1, <2>5 DEF StatusPresent
    <3>2. \A n \in 1 .. (k - 1) : MadeOn(g, check, n, Things)'
      BY <2>1, <2>2, <2>3, <3>1 DEF MadeOn
    <3>3. MadeOn(g, check, k, thing - 1)'
      BY <2>1, <2>4, <3>1 DEF Entry
    <3>. QED
      BY <2>1, <2>2, <2>5, <3>1, <3>2, <3>3 DEF StatusPresent
  <2>6. CASE Check = "Kubernetes"
    <3>1. PICK n \in 1 .. Len(CurrentGroup.Nodes) :
              node = CurrentGroup.Nodes[n] /\ MadeOn(g, check, n, thing - 1)
      BY <2>1, <2>6 DEF StatusPresent
    <3>2. MadeOn(g, check, n, thing - 1)'
      BY <2>4, <3>1
    <3>3. pc' # "node"
      BY <1>10 DEF PerformsOne
    <3>. QED
      BY <2>1, <2>2, <2>6, <3>1, <3>2, <3>3 DEF StatusPresent
  <2>. QED
    BY <2>5, <2>6
<1>11. CASE UNCHANGED statusVars
  <2>1. UNCHANGED <<config, groups, g, check, k, thing, node, made, pc>>
    BY <1>11 DEF statusVars, counterVars, givenVars
  <2>2. CurrentGroup' = CurrentGroup /\ Things' = Things /\ Check' = Check /\ Entry' = Entry
    BY <1>3, <2>1 DEF Entry
  <2>3. \A n : MadeOn(g, check, n, thing - 1)' <=> MadeOn(g, check, n, thing - 1)
    BY <2>1, StatusFrame DEF MadeOn
  <2>4. \A n : MadeOn(g, check, n, Things)' <=> MadeOn(g, check, n, Things)
    BY <2>1, <2>2, StatusFrame DEF MadeOn
  <2>5. MadeOn(g, check, k, thing - 1)' <=> MadeOn(g, check, k, thing - 1)
    BY <2>1, StatusFrame DEF MadeOn
  <2>. QED
    BY <2>1, <2>2, <2>3, <2>4, <2>5 DEF StatusPresent
<1>12. CASE Select \/ NoGroupSpecified \/ CollectNode \/ CollectGroup \/ SortNodes
              \/ GetNodesStats \/ StatsDone \/ EnterGroup \/ SkipCheck \/ LeaveGroup
              \/ NoMasterAvailable \/ LeaveNodes \/ KubernetesDone
  BY <1>5, <1>12 DEF Select, NoGroupSpecified, CollectNode, CollectGroup, SortNodes,
      GetNodesStats, Panics, StatsDone, EnterGroup, SkipCheck, LeaveGroup,
      NoMasterAvailable, LeaveNodes, KubernetesDone, NextCheck
<1>. QED
  BY <1>6, <1>7, <1>8, <1>9, <1>10, <1>11, <1>12, StatusPerforms DEF StatusNext,
      StatusSteps, StatusEnded

LEMMA StatusStopsStep ==
    ASSUME StatusTypeOK, StatusLoops, StatusStops, [StatusNext]_statusVars
    PROVE  StatusStops'
<1>1. UNCHANGED givenVars
  BY StatusFrame
<1>2. /\ UNCHANGED <<groupArg, checks, LocalOn>> /\ NoArgs' = NoArgs
      /\ NodeEquals(LocalOn, node)' = NodeEquals(LocalOn, node')
  BY <1>1 DEF givenVars, NoArgs, NodeEquals
<1>3. ASSUME NEW name, UNCHANGED <<groups, g, check>>, InCheck(name) PROVE InCheck(name)'
  BY <1>2, <1>3, StatusFrame DEF InCheck
<1>4. ASSUME NEW name, pc \in {"access", "item"}, Check = name PROVE InCheck(name)
  BY <1>4 DEF StatusLoops, StatusTypeOK, InCheck
<1>5. CASE pc' \notin {"end", "exit", "panic"}
  BY <1>5 DEF StatusStops
<1>6. CASE NoGroupSpecified
  BY <1>2, <1>6 DEF NoGroupSpecified, StatusStops
<1>7. CASE GetNodesStats
  BY <1>2, <1>5, <1>7 DEF GetNodesStats, Panics, StatusStops
<1>8. CASE EnterGroup
  BY <1>2, <1>5, <1>8 DEF EnterGroup, StatusStops, givenVars
<1>9. CASE EnterCheck
  <2>1. CASE pc' = "exit"
    <3>1. InCheck("Kubernetes") /\ UNCHANGED <<groups, g, check>>
      BY <1>9, <2>1 DEF EnterCheck, Skipped, InCheck, StatusLoops
    <3>. QED
      BY <1>3, <2>1, <3>1 DEF StatusStops
  <2>2. CASE pc' # "exit"
    BY <1>5, <1>9, <2>2 DEF EnterCheck
  <2>. QED
    BY <2>1, <2>2
<1>10. CASE Access \/ NoMasterAvailable
  <2>1. /\ pc' \in {"access", "item", "exit"} /\ UNCHANGED <<groups, g, check>>
        /\ pc = "access" /\ Check = "Kubernetes"
    BY <1>10 DEF Access, NoMasterAvailable, counterVars, StatusLoops
  <2>. QED
    BY <1>3, <1>4, <2>1 DEF StatusStops
<1>11. CASE PerformsOne
  <2>1. /\ UNCHANGED <<groups, g, check, node>> /\ pc = "item"
        /\ \/ pc' = "item"
           \/ pc' = "panic" /\ (NodeEquals(LocalOn, node) \/ Check = "DiskUsage")
    BY <1>11 DEF PerformsOne, PerformCheck
  <2>. QED
    BY <1>2, <1>3, <1>4, <2>1 DEF StatusStops
<1>12. CASE UNCHANGED statusVars
  <2>1. UNCHANGED <<pc, groups, g, check, node>>
    BY <1>12 DEF statusVars, counterVars
  <2>. QED
    BY <1>2, <1>3, <2>1 DEF StatusStops
<1>13. CASE Select \/ CollectNode \/ CollectGroup \/ SortNodes \/ StatsDone \/ SkipCheck
              \/ LeaveGroup \/ EnterNode \/ LeaveNodes \/ NextNode \/ KubernetesDone
  BY <1>5, <1>13 DEF Select, CollectNode, CollectGroup, SortNodes, StatsDone, SkipCheck,
      LeaveGroup, EnterNode, LeaveNodes, NextNode, KubernetesDone, NextCheck
<1>. QED
  BY <1>6, <1>7, <1>8, <1>9, <1>10, <1>11, <1>12, <1>13, StatusPerforms DEF StatusNext,
      StatusSteps, StatusEnded

\* Of the loops that are behind, nothing was left out.
LEMMA StatusEverythingChecked ==
    StatusSpec => []EverythingChecked
<1>. DEFINE IInv == StatusPast /\ StatusPresent /\ StatusStops
<1>1. StatusInit => IInv
  <2>. SUFFICES ASSUME StatusInit PROVE IInv
    OBVIOUS
  <2>1. pc = "select" /\ groups = <<>>
    BY DEF StatusInit
  <2>. QED
    BY <2>1 DEF StatusPast, StatusPresent, StatusStops
<1>2. StatusTypeOK /\ StatusLoops /\ IInv /\ [StatusNext]_statusVars => IInv'
  BY StatusPastStep, StatusPresentStep, StatusStopsStep
<1>3. IInv => EverythingChecked
  BY DEF StatusPast, StatusStops, StatusBehind, EverythingChecked
<1>4. StatusSpec => [](StatusTypeOK /\ StatusLoops)
  BY StatusTypeCorrect
<1>. QED
  BY <1>1, <1>2, <1>3, <1>4, PTL DEF StatusSpec

-----------------------------------------------------------------------------
(* cluster-status: the statistics                                           *)

\* The nodes of the group asked for in place a, and those the loops have seen.
AskedFor(a) == GroupByName(groups[a]).Nodes
Seen(a, n) == pc # "collect" \/ a < g \/ (a = g /\ n < k)

StatusCover ==
    pc # "select" => \A a \in 1 .. Len(groups) : \A n \in 1 .. Len(AskedFor(a)) :
        Seen(a, n) /\ IsNodeAddressValid(AskedFor(a)[n]) => NodeInArray(totalNodes, AskedFor(a)[n])

StatusVisits ==
    /\ pc = "select" => totalNodes = <<>>
    /\ Distinct(totalNodes) /\ AllValid(totalNodes)
    /\ pc \in {"select", "collect"} => visited = <<>>
    /\ pc = "stats" => ~SkipStats /\ Len(visited) = k - 1
    /\ pc \notin {"select", "collect", "stats", "panic"} /\ ~SkipStats =>
           Len(visited) = Len(totalNodes)
    /\ Len(visited) <= Len(totalNodes)
    /\ \A a \in 1 .. Len(visited) : visited[a] = totalNodes[a]

\* Only these steps change what is collected, visited or asked for.
LEMMA StatusLater ==
    ASSUME [StatusNext]_statusVars, ~Select, ~CollectNode, ~CollectGroup, ~SortNodes
    PROVE  /\ UNCHANGED <<groups, totalNodes, SkipStats>>
           /\ \/ GetNodesStats
              \/ pc = "stats" /\ k > Len(totalNodes) /\ pc' = "group" /\ UNCHANGED visited
              \/ pc = "select" /\ pc' = "exit" /\ UNCHANGED visited
              \/ pc \notin {"select", "collect", "stats"} /\ UNCHANGED visited
                     /\ pc' \notin {"select", "collect", "stats"}
                     /\ (pc = "panic" => pc' = "panic")
              \/ UNCHANGED statusVars
  BY StatusPerforms DEF StatusNext, StatusSteps, NoGroupSpecified, GetNodesStats,
      StatsDone, EnterGroup, SkipCheck, LeaveGroup, EnterCheck, Access, NoMasterAvailable,
      EnterNode, LeaveNodes, NextNode, KubernetesDone, PerformsOne, NextCheck,
      PerformCheck, StatusEnded, statusVars, givenVars, counterVars

LEMMA StatusCoverStep ==
    ASSUME StatusTypeOK, StatusLoops, StatusCover, [StatusNext]_statusVars
    PROVE  StatusCover'
<1>1. /\ totalNodes \in Seq(Node) /\ Len(groups) \in Nat
      /\ g \in 1 .. Len(groups) + 1 /\ k \in Nat \ {0}
  BY DEF StatusTypeOK
<1>2. UNCHANGED groups => \A a : AskedFor(a)' = AskedFor(a)
  BY StatusFrame DEF AskedFor
<1>3. \A a : AskedFor(a) \in Seq(Node) /\ Len(AskedFor(a)) \in Nat
  BY StatusGroups DEF AskedFor
<1>4. /\ CurrentGroup.Nodes = AskedFor(g)
      /\ \A n \in 1 .. Len(AskedFor(g)) : AskedFor(g)[n] \in Node
  BY StatusCurrent DEF CurrentGroup, AskedFor
<1>5. ASSUME UNCHANGED groups, pc # "select",
             \A m : NodeInArray(totalNodes, m) => NodeInArray(totalNodes', m),
             ASSUME NEW a \in 1 .. Len(groups), NEW n \in 1 .. Len(AskedFor(a)),
                    Seen(a, n)', ~Seen(a, n), IsNodeAddressValid(AskedFor(a)[n])
             PROVE  NodeInArray(totalNodes', AskedFor(a)[n])
      PROVE  StatusCover'
  <2>1. ASSUME NEW a \in 1 .. Len(groups), NEW n \in 1 .. Len(AskedFor(a)),
               Seen(a, n)', IsNodeAddressValid(AskedFor(a)[n])
        PROVE  NodeInArray(totalNodes', AskedFor(a)[n])
    <3>1. CASE Seen(a, n)
      BY <1>5, <2>1, <3>1 DEF StatusCover
    <3>. QED
      BY <1>5, <2>1, <3>1
  <2>. QED
    BY <1>2, <1>5, <2>1 DEF StatusCover
<1>6. CASE Select
  <2>1. pc' = "collect" /\ UNCHANGED <<g, k>> /\ g = 1 /\ k = 1
    BY <1>6 DEF Select, counterVars, StatusLoops
  <2>2. \A a \in 1 .. Len(groups') : \A n \in 1 .. Len(AskedFor(a)') : ~Seen(a, n)'
    BY <2>1 DEF Seen
  <2>. QED
    BY <2>2 DEF StatusCover
<1>7. CASE CollectNode
  <2>1. /\ pc = "collect" /\ UNCHANGED <<pc, g, groups>> /\ k' = k + 1
        /\ k \in 1 .. Len(AskedFor(g)) /\ Entry = AskedFor(g)[k]
    BY <1>1, <1>3, <1>4, <1>7 DEF CollectNode, Entry
  <2>2. /\ \A m : NodeInArray(totalNodes, m) => NodeInArray(totalNodes', m)
        /\ IsNodeAddressValid(Entry) => NodeInArray(totalNodes', Entry)
    <3>1. totalNodes' = IF IsNodeAddressValid(Entry) /\ ~NodeInArray(totalNodes, Entry)
                        THEN Append(totalNodes, Entry) ELSE totalNodes
      BY <1>7 DEF CollectNode
    <3>2. Entry \in Node
      BY <1>4, <2>1
    <3>. QED
      BY <1>1, <3>1, <3>2, InArrayAppend
  <2>3. ASSUME NEW a \in 1 .. Len(groups), NEW n \in 1 .. Len(AskedFor(a)),
               Seen(a, n)', ~Seen(a, n)
        PROVE  a = g /\ n = k
    BY <1>1, <1>3, <2>1, <2>3 DEF Seen
  <2>. QED
    BY <1>5, <2>1, <2>2, <2>3
<1>8. CASE CollectGroup
  <2>1. /\ pc = "collect" /\ UNCHANGED <<pc, totalNodes, groups>> /\ g' = g + 1 /\ k' = 1
        /\ k > Len(AskedFor(g))
    BY <1>4, <1>8 DEF CollectGroup, FirstEntry
  <2>2. ASSUME NEW a \in 1 .. Len(groups), NEW n \in 1 .. Len(AskedFor(a)), Seen(a, n)'
        PROVE  Seen(a, n)
    BY <1>1, <1>3, <2>1, <2>2 DEF Seen
  <2>. QED
    BY <1>5, <2>1, <2>2
<1>9. CASE SortNodes
  <2>1. pc = "collect" /\ g > Len(groups) /\ UNCHANGED groups
    BY <1>9 DEF SortNodes
  <2>2. \A m : NodeInArray(totalNodes, m) => NodeInArray(totalNodes', m)
    BY <1>1, <1>9, InArraySorted DEF SortNodes, Sorted
  <2>3. \A a \in 1 .. Len(groups) : \A n : Seen(a, n)
    BY <1>1, <2>1 DEF Seen
  <2>. QED
    BY <1>5, <2>1, <2>2, <2>3
<1>10. CASE ~Select /\ ~CollectNode /\ ~CollectGroup /\ ~SortNodes
  <2>1. /\ UNCHANGED <<groups, totalNodes>>
        /\ \/ pc \notin {"select", "collect"}
           \/ pc = "select" /\ pc' = "exit"
           \/ UNCHANGED <<pc, g, k>>
    BY <1>10, StatusLater DEF GetNodesStats, statusVars, counterVars
  <2>2. CASE pc = "select"
    <3>1. groups = <<>>
      BY <2>2 DEF StatusLoops
    <3>. QED
      BY <2>1, <3>1 DEF StatusCover
  <2>3. CASE pc # "select"
    <3>1. \A a, n : Seen(a, n)' => Seen(a, n)
      BY <2>1, <2>3 DEF Seen
    <3>. QED
      BY <1>5, <2>1, <2>3, <3>1
  <2>. QED
    BY <2>2, <2>3
<1>. QED
  BY <1>6, <1>7, <1>8, <1>9, <1>10

LEMMA StatusVisitsStep ==
    ASSUME StatusTypeOK, StatusLoops, StatusVisits, [StatusNext]_statusVars
    PROVE  StatusVisits'
<1>1. /\ totalNodes \in Seq(Node) /\ visited \in Seq(Node) /\ Len(totalNodes) \in Nat
      /\ Len(visited) \in Nat /\ k \in Nat \ {0}
  BY DEF StatusTypeOK
<1>2. UNCHANGED SkipStats
  BY StatusFrame DEF givenVars
<1>3. CASE Select \/ CollectGroup
  <2>1. /\ pc \in {"select", "collect"} /\ pc' = "collect" /\ UNCHANGED <<totalNodes, visited>>
    BY <1>3 DEF Select, CollectGroup
  <2>. QED
    BY <2>1 DEF StatusVisits
<1>4. CASE CollectNode
  <2>1. /\ pc = "collect" /\ pc' = "collect" /\ visited = <<>> /\ visited' = <<>>
    BY <1>4 DEF CollectNode, StatusVisits
  <2>2. Entry \in Node
    BY <1>1, <1>4, StatusCurrent DEF CollectNode, Entry
  <2>3. \/ totalNodes' = totalNodes
        \/ /\ totalNodes' = Append(totalNodes, Entry)
           /\ IsNodeAddressValid(Entry) /\ ~NodeInArray(totalNodes, Entry)
    BY <1>4 DEF CollectNode
  <2>4. Distinct(totalNodes') /\ AllValid(totalNodes') /\ totalNodes' \in Seq(Node)
    <3>1. Distinct(totalNodes) /\ AllValid(totalNodes)
      BY DEF StatusVisits
    <3>2. CASE totalNodes' = totalNodes
      BY <1>1, <3>1, <3>2 DEF Distinct, AllValid
    <3>3. CASE totalNodes' # totalNodes
      <4>1. /\ totalNodes' = Append(totalNodes, Entry)
            /\ IsNodeAddressValid(Entry) /\ ~NodeInArray(totalNodes, Entry)
        BY <2>3, <3>3
      <4>2. Append(totalNodes, Entry) \in Seq(Node)
        BY <1>1, <2>2, AppendProperties
      <4>. QED
        BY <1>1, <2>2, <3>1, <4>1, <4>2, AppendDistinct
    <3>. QED
      BY <3>2, <3>3
  <2>5. Len(visited') = 0 /\ Len(totalNodes') \in Nat
    BY <2>1, <2>4
  <2>. QED
    BY <2>1, <2>4, <2>5 DEF StatusVisits
<1>5. CASE SortNodes
  <2>1. pc = "collect" /\ visited = <<>> /\ visited' = <<>> /\ UNCHANGED k /\ g > Len(groups)
    BY <1>5 DEF SortNodes, StatusVisits
  <2>2. totalNodes' \in Sorted(totalNodes)
    BY <1>5 DEF SortNodes, Sorted
  <2>3. /\ Distinct(totalNodes') /\ AllValid(totalNodes') /\ Len(totalNodes') = Len(totalNodes)
    BY <1>1, <2>2, SortedDistinct DEF StatusVisits
  <2>4. CASE SkipStats
    BY <1>1, <1>2, <1>5, <2>1, <2>3, <2>4 DEF SortNodes, StatusVisits
  <2>5. CASE ~SkipStats
    <3>1. pc' = "stats" /\ k = 1
      BY <1>5, <2>5 DEF SortNodes, StatusLoops
    <3>. QED
      BY <1>1, <1>2, <2>1, <2>3, <2>5, <3>1 DEF StatusVisits
  <2>. QED
    BY <2>4, <2>5
<1>6. CASE GetNodesStats
  <2>1. /\ pc = "stats" /\ k \in 1 .. Len(totalNodes) /\ UNCHANGED totalNodes
        /\ Len(visited) = k - 1
    BY <1>1, <1>6 DEF GetNodesStats, StatusVisits
  <2>2. CASE pc' = "panic" /\ UNCHANGED visited
    BY <1>2, <2>1, <2>2 DEF StatusVisits
  <2>3. CASE visited' = Append(visited, totalNodes[k]) /\ k' = k + 1 /\ pc' = "stats"
    <3>1. Len(visited') = k /\ \A a \in 1 .. k : visited'[a] = totalNodes[a]
      BY <1>1, <2>1, <2>3 DEF StatusVisits
    <3>. QED
      BY <1>1, <1>2, <2>1, <2>3, <3>1 DEF StatusVisits
  <2>. QED
    BY <1>6, <2>1, <2>2, <2>3 DEF GetNodesStats, StatNode, Panics
<1>7. CASE ~Select /\ ~CollectNode /\ ~CollectGroup /\ ~SortNodes /\ ~GetNodesStats
  <2>1. /\ UNCHANGED <<totalNodes, visited>>
        /\ \/ pc = "stats" /\ k > Len(totalNodes) /\ pc' = "group"
           \/ pc = "select" /\ pc' = "exit"
           \/ pc \notin {"select", "collect", "stats"} /\ pc' \notin {"select", "collect", "stats"}
                  /\ (pc = "panic" => pc' = "panic")
           \/ UNCHANGED <<pc, k>>
    BY <1>7, StatusLater DEF statusVars, counterVars
  <2>2. CASE pc = "stats" /\ k > Len(totalNodes) /\ pc' = "group"
    BY <1>1, <1>2, <2>1, <2>2 DEF StatusVisits
  <2>3. CASE pc = "select" /\ pc' = "exit"
    BY <1>1, <1>2, <2>1, <2>3 DEF StatusVisits
  <2>4. CASE pc \notin {"select", "collect", "stats"} /\ pc' \notin {"select", "collect", "stats"}
                 /\ (pc = "panic" => pc' = "panic")
    BY <1>2, <2>1, <2>4 DEF StatusVisits
  <2>5. CASE UNCHANGED <<pc, k>>
    BY <1>2, <2>1, <2>5 DEF StatusVisits
  <2>. QED
    BY <2>1, <2>2, <2>3, <2>4, <2>5
<1>. QED
  BY <1>3, <1>4, <1>5, <1>6, <1>7

LEMMA StatusVisitsCorrect ==
    StatusSpec => [](StatusVisits /\ StatusCover)
<1>1. StatusInit => StatusVisits /\ StatusCover
  <2>. SUFFICES ASSUME StatusInit PROVE StatusVisits /\ StatusCover
    OBVIOUS
  <2>1. pc = "select" /\ totalNodes = <<>> /\ visited = <<>>
    BY DEF StatusInit
  <2>. QED
    BY <2>1 DEF StatusVisits, StatusCover, Distinct, AllValid
<1>2. StatusTypeOK /\ StatusLoops /\ StatusVisits /\ StatusCover /\ [StatusNext]_statusVars
          => StatusVisits' /\ StatusCover'
  BY StatusVisitsStep, StatusCoverStep
<1>3. StatusSpec => [](StatusTypeOK /\ StatusLoops)
  BY StatusTypeCorrect
<1>. QED
  BY <1>1, <1>2, <1>3, PTL DEF StatusSpec

\* What was collected has been visited, from the first node to the last, before
\* the checks begin, and it covers the groups asked for.
LEMMA StatusOfEveryNode ==
    StatusSpec => []StatsOfEveryNode
<1>1. StatusTypeOK /\ StatusVisits /\ StatusCover => StatsOfEveryNode
  <2>. SUFFICES ASSUME StatusTypeOK, StatusVisits, StatusCover PROVE StatsOfEveryNode
    OBVIOUS
  <2>1. Len(visited) <= Len(totalNodes) /\ Len(visited) \in Nat /\ Len(totalNodes) \in Nat
    BY DEF StatusVisits, StatusTypeOK
  <2>2. \A a, b \in 1 .. Len(visited) : a # b => ~NodeEquals(visited[a], visited[b])
    BY <2>1 DEF StatusVisits, Distinct
  <2>3. ASSUME pc \notin {"select", "collect", "stats", "panic"}, ~SkipStats,
               NEW a \in 1 .. Len(groups), NEW n \in 1 .. Len(AskedFor(a)),
               IsNodeAddressValid(AskedFor(a)[n])
        PROVE  NodeInArray(visited, AskedFor(a)[n])
    <3>1. NodeInArray(totalNodes, AskedFor(a)[n])
      BY <2>3 DEF StatusCover, Seen
    <3>2. Len(visited) = Len(totalNodes) /\ \A b \in 1 .. Len(visited) : visited[b] = totalNodes[b]
      BY <2>3 DEF StatusVisits
    <3>. QED
      BY <3>1, <3>2 DEF NodeInArray
  <2>. QED
    BY <2>2, <2>3 DEF StatsOfEveryNode, AskedFor
<1>2. StatusSpec => [](StatusTypeOK /\ StatusLoops)
  BY StatusTypeCorrect
<1>3. StatusSpec => [](StatusVisits /\ StatusCover)
  BY StatusVisitsCorrect
<1>. QED
  BY <1>1, <1>2, <1>3, PTL

\* However the groups and arguments overlap and however many commands fail, the
\* statistics are those of every node, once, and each check asked for is made of
\* everything that is configured for it, on each node of the group up to the first
\* entry without an address, before the next check or group has its turn; when
\* groups are given, the program gives up only in the Kubernetes check it is at.
THEOREM StatusNothingSkipped == StatusSpec => []NothingSkipped
<1>1. EverythingChecked /\ StatsOfEveryNode => NothingSkipped
  BY DEF NothingSkipped
<1>. QED
  BY <1>1, StatusEverythingChecked, StatusOfEveryNode, PTL

\* The statistics of cluster-status implement FanOut: a set of nodes chosen once,
\* then one node after the other, none of them twice and none besides.
THEOREM StatusFanOutImplemented ==
    StatusSpec => StatsImplementFanOut
<1>1. StatusInit => Stats!FanInit
  BY DEF StatusInit, Stats!FanInit, statsPhase, statsTodo, Visited
<1>2. StatusTypeOK /\ StatusLoops /\ StatusVisits /\ StatusTypeOK' /\ StatusVisits' /\ [StatusNext]_statusVars
          => [Stats!FanNext]_(Stats!fanVars)
  <2>. SUFFICES ASSUME StatusTypeOK, StatusLoops, StatusVisits, StatusTypeOK', StatusVisits', [StatusNext]_statusVars
                PROVE  [Stats!FanNext]_(Stats!fanVars)
    OBVIOUS
  <2>. USE DEF Stats!fanVars, Stats!FanNext
  <2>0. /\ totalNodes \in Seq(Node) /\ visited \in Seq(Node) /\ k \in Nat \ {0}
        /\ totalNodes' \in Seq(Node) /\ visited' \in Seq(Node)
        /\ Len(totalNodes) \in Nat /\ Len(visited) \in Nat
    BY DEF StatusTypeOK
  <2>1. UNCHANGED SkipStats
    BY StatusFrame DEF givenVars
  <2>2. CASE Select \/ CollectNode \/ CollectGroup
    <3>1. /\ pc \in {"select", "collect"} /\ pc' = "collect" /\ visited = <<>> /\ visited' = <<>>
      BY <2>2 DEF Select, CollectNode, CollectGroup, StatusVisits
    <3>2. statsTodo = {} /\ statsTodo' = {} /\ statsPhase = "choose" /\ statsPhase' = "choose"
      BY <3>1 DEF statsTodo, statsPhase, StatusVisits
    <3>3. Visited' = Visited
      BY <3>1 DEF Visited
    <3>. QED
      BY <3>2, <3>3
  <2>3. CASE SortNodes
    <3>1. /\ pc = "collect" /\ pc' = IF SkipStats THEN "group" ELSE "stats"
          /\ visited = <<>> /\ visited' = <<>>
      BY <2>3 DEF SortNodes, StatusVisits
    <3>2. statsPhase = "choose" /\ statsTodo = {} /\ Visited = {} /\ Visited' = {}
      BY <3>1 DEF statsPhase, statsTodo, Visited
    <3>3. CASE totalNodes' = <<>> \/ SkipStats
      <4>1. statsTodo' = {}
        BY <2>1, <3>1, <3>3 DEF statsTodo
      <4>2. statsPhase' = "aborted"
        <5>1. CASE totalNodes' = <<>>
          BY <3>1, <5>1 DEF statsPhase
        <5>2. CASE totalNodes' # <<>> /\ SkipStats
          <6>1. pc' = "group" /\ Len(visited') # Len(totalNodes')
            BY <2>0, <3>1, <5>2, EmptySeq
          <6>. QED
            BY <5>2, <6>1 DEF statsPhase
        <5>. QED
          BY <3>3, <5>1, <5>2
      <4>. QED
        BY <3>2, <4>1, <4>2 DEF Stats!Abort
    <3>4. CASE totalNodes' # <<>> /\ ~SkipStats
      <4>1. pc' = "stats" /\ statsPhase' = "run"
        BY <3>1, <3>4 DEF statsPhase
      <4>2. statsTodo' = {totalNodes'[n] : n \in 1 .. Len(totalNodes')}
        BY <2>1, <3>1, <3>4, <4>1 DEF statsTodo
      <4>3. 1 \in 1 .. Len(totalNodes') /\ \A n \in 1 .. Len(totalNodes') : totalNodes'[n] \in Node
        BY <2>0, <3>4
      <4>4. statsTodo' \in (SUBSET Node) \ {{}}
        <5>1. totalNodes'[1] \in statsTodo'
          BY <4>2, <4>3
        <5>2. statsTodo' \subseteq Node
          BY <4>2, <4>3
        <5>. QED
          BY <5>1, <5>2
      <4>. QED
        BY <3>2, <4>1, <4>4 DEF Stats!Choose
    <3>. QED
      BY <3>3, <3>4
  <2>4. CASE GetNodesStats
    <3>. DEFINE n == totalNodes[k]
    <3>1. /\ pc = "stats" /\ k \in 1 .. Len(totalNodes) /\ UNCHANGED totalNodes /\ ~SkipStats
          /\ Len(visited) = k - 1 /\ totalNodes # <<>>
      BY <2>0, <2>4 DEF GetNodesStats, StatusVisits
    <3>2. statsPhase = "run" /\ statsTodo = {totalNodes[a] : a \in k .. Len(totalNodes)}
      BY <2>0, <3>1 DEF statsPhase, statsTodo
    <3>3. CASE pc' = "panic" /\ UNCHANGED visited
      <4>1. statsPhase' = "aborted"
        BY <2>0, <3>1, <3>3 DEF statsPhase
      <4>2. statsTodo' = statsTodo /\ Visited' = Visited
        BY <2>1, <3>1, <3>3 DEF statsTodo, Visited
      <4>. QED
        BY <3>2, <4>1, <4>2 DEF Stats!Abort
    <3>4. CASE visited' = Append(visited, n) /\ pc' = "stats"
      <4>1. /\ Len(visited') = k /\ visited'[k] = n
            /\ \A a \in 1 .. (k - 1) : visited'[a] = visited[a]
        BY <2>0, <3>1, <3>4
      <4>2. statsPhase' = "run" /\ statsTodo' = {totalNodes[a] : a \in (k + 1) .. Len(totalNodes)}
        BY <2>1, <3>1, <3>4, <4>1 DEF statsPhase, statsTodo
      <4>3. statsTodo' = statsTodo \ {n}
        <5>1. \A a \in (k + 1) .. Len(totalNodes) : totalNodes[a] # n
          BY <2>0, <3>1, DistinctIsInjective DEF StatusVisits
        <5>2. \A a \in k .. Len(totalNodes) : a = k \/ a \in (k + 1) .. Len(totalNodes)
          BY <2>0
        <5>3. statsTodo \subseteq statsTodo' \cup {n}
          BY <3>2, <4>2, <5>2
        <5>4. statsTodo' \subseteq statsTodo
          BY <2>0, <3>2, <4>2
        <5>5. n \notin statsTodo'
          BY <4>2, <5>1
        <5>. QED
          BY <5>3, <5>4, <5>5
      <4>4. Visited' = Visited \cup {n}
        <5>1. \A a \in 1 .. k : a = k \/ a \in 1 .. (k - 1)
          BY <2>0
        <5>. QED
          BY <2>0, <3>1, <4>1, <5>1 DEF Visited
      <4>5. n \in statsTodo
        BY <2>0, <3>1, <3>2
      <4>. QED
        BY <3>2, <4>2, <4>3, <4>4, <4>5 DEF Stats!Turn
    <3>. QED
      BY <2>4, <3>1, <3>3, <3>4 DEF GetNodesStats, StatNode, Panics
  <2>5. CASE ~Select /\ ~CollectNode /\ ~CollectGroup /\ ~SortNodes /\ ~GetNodesStats
    <3>1. /\ UNCHANGED <<totalNodes, visited>>
          /\ \/ pc = "stats" /\ k > Len(totalNodes) /\ pc' = "group"
             \/ pc = "select" /\ pc' = "exit"
             \/ pc \notin {"select", "collect", "stats"} /\ pc' \notin {"select", "collect", "stats"}
             \/ UNCHANGED pc
      BY <2>5, StatusLater DEF statusVars
    <3>2. Visited' = Visited
      BY <3>1 DEF Visited
    <3>3. CASE pc = "stats" /\ k > Len(totalNodes) /\ pc' = "group"
      <4>1. Len(visited) = Len(totalNodes)
        BY <2>0, <3>3 DEF StatusVisits
      <4>2. statsTodo = {} /\ statsTodo' = {}
        BY <2>0, <3>1, <4>1 DEF statsTodo
      <4>3. CASE totalNodes = <<>>
        BY <3>1, <3>2, <3>3, <4>2, <4>3 DEF statsPhase
      <4>4. CASE totalNodes # <<>>
        <5>1. statsPhase = "run" /\ statsPhase' = "finished"
          BY <3>1, <3>3, <4>1, <4>4 DEF statsPhase
        <5>. QED
          BY <3>2, <4>2, <5>1 DEF Stats!Finish
      <4>. QED
        BY <4>3, <4>4
    <3>4. CASE pc = "select" /\ pc' = "exit"
      <4>1. totalNodes = <<>> /\ totalNodes' = <<>>
        BY <3>1, <3>4 DEF StatusVisits
      <4>2. statsPhase = "choose" /\ statsPhase' = "aborted" /\ statsTodo = {} /\ statsTodo' = {}
        BY <3>1, <3>4, <4>1 DEF statsPhase, statsTodo
      <4>. QED
        BY <3>2, <4>2 DEF Stats!Abort
    <3>5. CASE pc \notin {"select", "collect", "stats"} /\ pc' \notin {"select", "collect", "stats"}
      BY <2>1, <3>1, <3>2, <3>5 DEF statsPhase, statsTodo
    <3>6. CASE UNCHANGED pc
      BY <2>1, <3>1, <3>2, <3>6 DEF statsPhase, statsTodo
    <3>. QED
      BY <3>1, <3>3, <3>4, <3>5, <3>6
  <2>. QED
    BY <2>2, <2>3, <2>4, <2>5
<1>3. StatusSpec => [](StatusTypeOK /\ StatusLoops)
  BY StatusTypeCorrect
<1>4. StatusSpec => [](StatusVisits /\ StatusCover)
  BY StatusVisitsCorrect
<1>. QED
  BY <1>1, <1>2, <1>3, <1>4, PTL DEF StatusSpec, StatsImplementFanOut, Stats!FanSpec

=============================================================================
