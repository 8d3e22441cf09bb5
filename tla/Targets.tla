------------------------------- MODULE Targets -------------------------------
(***************************************************************************)
(* What the commands that address one node after the other have in common  *)
(* (modules GenericCmd and ClusterStatus): they look groups up in the      *)
(* configuration, collect the nodes of some of them, and go through these. *)
(***************************************************************************)
EXTENDS Nodes

CONSTANTS
    Rank,       \* the order of host names, "" first: Rank[h] < Rank[k]
    Locals      \* the values of the configuration's LocalOn

ASSUME RankAssumption == Rank \in [Hosts \cup {Empty} -> Nat]
ASSUME LocalsAssumption == Locals \subseteq Node

VARIABLES
    config,     \* config.ClusterGroups
    LocalOn,    \* the node the program runs on
    pc,         \* the place in the command
    g, k,       \* loop counters: group, node
    totalNodes, \* the nodes collected
    visited     \* history: the nodes that had their turn, in order

Visited == {visited[n] : n \in 1 .. Len(visited)}

\* FindGroupByName returns the first group of a name.
IsFirst(j, name) ==
    config[j].Name = name /\ \A l \in 1 .. (j - 1) : config[l].Name # name

\* sort.Slice is not stable: nodes of equal host names come in any order.
Permutations(n) == {p \in [1 .. n -> 1 .. n] :
                        \A a, b \in 1 .. n : p[a] = p[b] => a = b}
SortedByHost(s) ==
    {t \in {[m \in 1 .. Len(s) |-> s[p[m]]] : p \in Permutations(Len(s))} :
        \A a, b \in 1 .. Len(s) : a < b => Rank[t[a].Host] <= Rank[t[b].Host]}
=============================================================================
