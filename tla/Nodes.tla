-------------------------------- MODULE Nodes --------------------------------
(***************************************************************************)
(* The entries of a cluster configuration and how the program compares     *)
(* them (util/node_util.go).  A node has a host name, an IP address, or    *)
(* both; Empty stands for the empty string.                                *)
(***************************************************************************)
EXTENDS Naturals, Sequences, FiniteSets

CONSTANTS
    Empty,      \* ""
    Hosts,      \* host names
    IPs         \* addresses

ASSUME NodesAssumption == Empty \notin Hosts /\ Empty \notin IPs

Node == [Host : Hosts \cup {Empty}, IP : IPs \cup {Empty}]

IsNodeAddressValid(n) == n.Host # Empty \/ n.IP # Empty

\* Two nodes are compared by IP when both have one, else by host name.
NodeEquals_ByHost(m, n) ==
    IsNodeAddressValid(m) /\ IsNodeAddressValid(n) /\ m.Host = n.Host
NodeEquals(m, n) ==
    /\ IsNodeAddressValid(m) /\ IsNodeAddressValid(n)
    /\ \/ m.IP # Empty /\ n.IP # Empty /\ m.IP = n.IP
       \/ /\ m.IP = Empty \/ n.IP = Empty
          /\ m.Host # Empty /\ n.Host # Empty /\ m.Host = n.Host

NodeInArray_Never(array, n) == FALSE
NodeInArray(array, n) == \E i \in 1 .. Len(array) : NodeEquals(array[i], n)

\* Entries that cannot be one machine share neither a host name nor an IP.
SharesName(m, n) ==
    \/ m.Host = n.Host /\ m.Host # Empty
    \/ m.IP = n.IP /\ m.IP # Empty

\* A set of entries that names its machines consistently: entries that have
\* both fields agree in both or in none.
Consistent(S) ==
    \A m, n \in S :
        m.Host # Empty /\ n.Host # Empty /\ m.IP # Empty /\ n.IP # Empty
            => (m.Host = n.Host <=> m.IP = n.IP)
=============================================================================
