-------------------------- MODULE MCClusterStatus --------------------------
(***************************************************************************)
(* Instances of ClusterStatus for TLC: two machines and an entry without   *)
(* an address, up to two groups with everything or only services           *)
(* configured.                                                             *)
(***************************************************************************)
EXTENDS ClusterStatus

MCHosts == {"host1", "host2"}
MCIPs == {"ip1", "ip2"}
MCRank == [h \in MCHosts \cup {""} |->
               CASE h = "" -> 0 [] h = "host1" -> 1 [] h = "host2" -> 2]

Entry1 == [Host |-> "host1", IP |-> "ip1"]
Entry2 == [Host |-> "host2", IP |-> "ip2"]
NodeLists == {<<>>, <<Entry1>>, <<Entry2, Entry1>>, <<NoNode, Entry1>>, <<Entry1, NoNode, Entry2>>}

Everything == [n \in Checks |-> IF n \in {"Services", "DiskUsage"} THEN 2 ELSE 1]
ServicesOnly == [n \in Checks |-> IF n = "Services" THEN 1 ELSE 0]

MCGroups == [Name : {"etcd", "master"}, Nodes : NodeLists,
             items : {Everything, ServicesOnly}, FileSystems : {1}]
MCConfigs == {<<>>} \cup {<<a>> : a \in MCGroups} \cup {<<a, b>> : a, b \in MCGroups}
MCLocals == {NoNode, Entry1}

Names(s) == [by |-> "names", names |-> s]
MCGroupArgs == {NoArgs, [by |-> "all", names |-> <<>>],
                Names(<<"master">>), Names(<<"worker", "etcd", "etcd">>)}
MCCheckArgs == {Checks, {"Containers", "DiskUsage"}}
=============================================================================
