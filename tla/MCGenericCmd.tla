---------------------------- MODULE MCGenericCmd ----------------------------
(***************************************************************************)
(* Instances of GenericCmd for TLC: two machines, whose entries may lack   *)
(* the host name or the IP, and an entry with neither.                     *)
(***************************************************************************)
EXTENDS GenericCmd

MCHosts == {"host1", "host2"}
MCIPs == {"ip1", "ip2"}
MCRank == [h \in MCHosts \cup {""} |->
               CASE h = "" -> 0 [] h = "host1" -> 1 [] h = "host2" -> 2]

Both(h, a) == [Host |-> h, IP |-> a]

\* Every way an entry can be given, and those of a smaller configuration.
AllViews == {Both("host1", "ip1"), Both("host1", ""), Both("", "ip1"),
             Both("host2", "ip2"), Both("", "")}
SomeViews == {Both("host1", "ip1"), Both("", "ip1"), Both("host2", "ip2")}

Plain(command, toFile) ==
    [kind |-> command, target |-> TRUE, known |-> TRUE, file |-> toFile]

ServiceOptions == {Plain("service", FALSE)}
OutputOptions ==
    {Plain(c, f) : c \in {"exec", "logs"}, f \in BOOLEAN}
        \cup {[Plain("logs", TRUE) EXCEPT !.known = FALSE],
              [Plain("exec", TRUE) EXCEPT !.target = FALSE]}
MCOptions == ServiceOptions \cup OutputOptions

\* No node is the program's own, or host1 is.
Nowhere == Both("", "")
MCLocals == {Nowhere, Both("host1", "ip1")}

\* Two instances in one: small configurations of any shape for the selection, one
\* longer group for the turns and their output.
InstanceOf(views, groups, nodes, args, opts, locals) ==
    /\ config \in SeqUpTo([Name : GroupNames, Nodes : SeqUpTo(views, nodes)], groups)
    /\ selection \in {s \in Selections : Len(s.names) <= args}
    /\ options \in opts /\ LocalOn \in locals

MCInit ==
    /\ \/ InstanceOf(AllViews, 2, 2, 1, ServiceOptions, {Nowhere})
       \/ InstanceOf(SomeViews, 1, 3, 2, OutputOptions, MCLocals)
    /\ Init
MCSpec == MCInit /\ [][Next]_vars
=============================================================================
