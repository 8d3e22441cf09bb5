----------------------------- MODULE EtcdBackup -----------------------------
(***************************************************************************)
(* kubespector etcd backup (pkg/backup.go with ssh/scp.go): several runs   *)
(* of the program, one after the other or at the same time, that back up   *)
(* the etcd of the same nodes into the same directory on the node.         *)
(*                                                                         *)
(* Each command on a node is an atomic remote call (module RemoteCall): an *)
(* answer without an error means that the command was done, an error means *)
(* nothing.  Only etcdctl, which takes long, begins and ends in two steps. *)
(* On the node the program itself runs on, a command that ends with a      *)
(* status other than 0 panics (SSHExecutor!ShellEnds).  A download returns *)
(* no error only if it is whole (ScpSession!OkMeansStored).                *)
(***************************************************************************)
EXTENDS Integers, Sequences, FiniteSets

CONSTANTS
    Nodes,      \* the nodes of the etcd group, in the order of the configuration
    Locals,     \* the values of the configuration's LocalOn, not in Nodes: none
    Runs,       \* the runs of the program
    Overlap,    \* TRUE: a run may start before another one has ended
    Faults      \* subset of AllFaults

AllFaults == {"call",     \* a command is refused, fails, or its answer is lost
              "etcd",     \* etcdctl fails after it has begun
              "disk",     \* the local file cannot be created or written
              "transfer"} \* the download breaks off

ASSUME BackupAssumption ==
    /\ Len(Nodes) \in Nat
    /\ Overlap \in BOOLEAN
    /\ Faults \subseteq AllFaults

VARIABLES
    LocalOn,    \* the node the program runs on
    pc,         \* pc[r]: program point of run r
    turn,       \* turn[r]: position in Nodes of the node tried or picked
    dir,        \* dir[n]: the backups in localEtcdBackupDir on the node
    archive,    \* archive[n][r]: what run r's archive on the node holds
    output,     \* output[r]: what run r's local file holds
    downloaded, \* downloaded[r]: DownloadFile returned no error
    kept        \* history: runs whose deletion of the archive returned an error

nodeVars == <<dir, archive>>
vars == <<LocalOn, pc, turn, nodeVars, output, downloaded, kept>>

NodeSet == {Nodes[i] : i \in 1 .. Len(Nodes)}

\* The part of a backup that is there: begun, or complete.
Part(r)  == [run |-> r, whole |-> FALSE]
Whole(r) == [run |-> r, whole |-> TRUE]
Backups  == [run : Runs, whole : BOOLEAN]

\* A file: not there, or some of what it should hold.
NoFile == [exists |-> FALSE, complete |-> FALSE, holds |-> {}]
File(complete, holds) == [exists |-> TRUE, complete |-> complete, holds |-> holds]

Init ==
    /\ LocalOn \in Locals
    /\ pc = [r \in Runs |-> "idle"] /\ turn = [r \in Runs |-> 1]
    /\ dir = [n \in NodeSet |-> {}]
    /\ archive = [n \in NodeSet |-> [r \in Runs |-> NoFile]]
    /\ output = [r \in Runs |-> NoFile]
    /\ downloaded = [r \in Runs |-> FALSE] /\ kept = {}

Goto(r, p) == pc' = [pc EXCEPT ![r] = p]
Node(r) == Nodes[turn[r]]
Local(r) == Node(r) = LocalOn
Over == {"ok", "untransferred", "critical", "panic"}
Active == {r \in Runs : pc[r] \notin Over \cup {"idle"}}

\* A command that answers with an error; on the local node that is the end.
CallFails(r, then) ==
    /\ "call" \in Faults
    /\ Goto(r, IF Local(r) THEN "panic" ELSE then)

-----------------------------------------------------------------------------
(* Backup: the node                                                         *)

Start(r) ==
    /\ pc[r] = "idle" /\ (Overlap \/ Active = {})
    /\ IF LocalOn \in NodeSet
       THEN /\ Goto(r, "clear")
            /\ turn' = [turn EXCEPT ![r] = CHOOSE i \in 1 .. Len(Nodes) : Nodes[i] = LocalOn]
       ELSE Goto(r, "access") /\ UNCHANGED turn
    /\ UNCHANGED <<LocalOn, nodeVars, output, downloaded, kept>>

MoreNodes_OneMore(r) == turn[r] <= Len(Nodes) + 1
MoreNodes(r) == turn[r] <= Len(Nodes)

\* GetFirstAccessibleNode runs hostname on one node after the other.
Access(r) ==
    /\ pc[r] = "access"
    /\ IF MoreNodes(r)
       THEN \/ Goto(r, "clear") /\ UNCHANGED turn
            \/ /\ "call" \in Faults
               /\ turn' = [turn EXCEPT ![r] = @ + 1] /\ UNCHANGED pc
       ELSE Goto(r, "critical") /\ UNCHANGED turn
    /\ UNCHANGED <<LocalOn, nodeVars, output, downloaded, kept>>

-----------------------------------------------------------------------------
(* backup                                                                   *)

\* rm -f, with and without sudo, does not remove a directory, but fails on one.
RemovedDir_Recursively(n) == {}
RemovedDir(n) == dir[n]

DeleteDirectory(r, then) ==
    /\ dir' = [dir EXCEPT ![Node(r)] = RemovedDir(Node(r))]
    /\ Goto(r, IF Local(r) /\ RemovedDir(Node(r)) # {} THEN "panic" ELSE then)
    /\ UNCHANGED <<LocalOn, turn, archive, output, downloaded, kept>>

Clear(r) == pc[r] = "clear" /\ DeleteDirectory(r, "etcdctl")

AfterFailedBackup_GoOn == "chmod"
AfterFailedBackup == "critical"

\* etcdctl (external) may refuse a directory that is not empty, or add to it.
BackupBegins(r) ==
    /\ pc[r] = "etcdctl"
    /\ \/ /\ dir' = [dir EXCEPT ![Node(r)] = @ \cup {Part(r)}]
          /\ Goto(r, "etcdctl2")
       \/ /\ dir[Node(r)] # {}
          /\ Goto(r, IF Local(r) THEN "panic" ELSE AfterFailedBackup)
          /\ UNCHANGED dir
       \/ /\ CallFails(r, AfterFailedBackup)
          /\ UNCHANGED dir \/ dir' = [dir EXCEPT ![Node(r)] = @ \cup {Part(r)}]
    /\ UNCHANGED <<LocalOn, turn, archive, output, downloaded, kept>>

BackupEnds(r) ==
    /\ pc[r] = "etcdctl2"
    /\ \/ /\ dir' = [dir EXCEPT ![Node(r)] = (@ \ {Part(r)}) \cup {Whole(r)}]
          /\ Goto(r, "chmod") \/ (~Local(r) /\ CallFails(r, AfterFailedBackup))
       \/ /\ "etcd" \in Faults
          /\ Goto(r, IF Local(r) THEN "panic" ELSE AfterFailedBackup)
          /\ UNCHANGED dir
    /\ UNCHANGED <<LocalOn, turn, archive, output, downloaded, kept>>

\* Its error is dropped.
Chmod(r) ==
    /\ pc[r] = "chmod"
    /\ Goto(r, "tar") \/ CallFails(r, "tar")
    /\ UNCHANGED <<LocalOn, turn, nodeVars, output, downloaded, kept>>

-----------------------------------------------------------------------------
(* transferBackup                                                           *)

Archive(r, file) == archive' = [archive EXCEPT ![Node(r)][r] = file]

AfterFailedTar_GoOn == "clear2"
AfterFailedTar == "critical"

Tar(r) ==
    /\ pc[r] = "tar"
    /\ \/ Archive(r, File(TRUE, dir[Node(r)])) /\ Goto(r, "clear2")
       \/ /\ CallFails(r, AfterFailedTar)
          /\ \E c \in BOOLEAN : Archive(r, File(c, dir[Node(r)])) \/ UNCHANGED archive
    /\ UNCHANGED <<LocalOn, turn, dir, output, downloaded, kept>>

ClearAgain(r) == pc[r] = "clear2" /\ DeleteDirectory(r, "download")

\* The connection, then os.Create, then the transfer, which is whole when it
\* returns no error: a whole copy of whatever the archive on the node holds.  On
\* the local node copyFile opens its target for reading only, and fails.
Download(r) ==
    /\ pc[r] = "download"
    /\ LET source == archive[Node(r)][r] IN
       \/ /\ ~Local(r) /\ source.exists
          /\ output' = [output EXCEPT ![r] = source]
          /\ downloaded' = [downloaded EXCEPT ![r] = TRUE]
       \/ /\ Local(r) \/ Faults \cap {"call", "disk"} # {}
          /\ UNCHANGED <<output, downloaded>>
       \/ /\ ~Local(r) /\ (~source.exists \/ Faults \cap {"disk", "transfer"} # {})
          /\ output' = [output EXCEPT ![r] = File(FALSE, {})]
          /\ UNCHANGED downloaded
    /\ Goto(r, "delete")
    /\ UNCHANGED <<LocalOn, turn, nodeVars, kept>>

\* DeleteRemoteFile tries again with sudo; it runs whether or not the download
\* succeeded, and its error is dropped.
AfterFailedDelete_Report == "report"
AfterFailedDelete == "sudodelete"

Delete(r) ==
    /\ pc[r] \in {"delete", "sudodelete"}
    /\ \/ Archive(r, NoFile) /\ Goto(r, "report") /\ UNCHANGED kept
       \/ /\ "call" \in Faults
          /\ Goto(r, IF pc[r] = "delete" THEN AfterFailedDelete ELSE "report")
          /\ Archive(r, NoFile) \/ UNCHANGED archive
          /\ kept' = IF pc[r] = "sudodelete" THEN kept \cup {r} ELSE kept
    /\ UNCHANGED <<LocalOn, turn, dir, output, downloaded>>

AfterFailedTransfer_Again == "tar"
AfterFailedTransfer == "untransferred"

Report(r) ==
    /\ pc[r] = "report"
    /\ Goto(r, IF downloaded[r] THEN "ok" ELSE AfterFailedTransfer)
    /\ UNCHANGED <<LocalOn, turn, nodeVars, output, downloaded, kept>>

-----------------------------------------------------------------------------

Step(r) ==
    \/ Access(r) \/ Clear(r) \/ BackupBegins(r) \/ BackupEnds(r) \/ Chmod(r)
    \/ Tar(r) \/ ClearAgain(r) \/ Download(r) \/ Delete(r) \/ Report(r)

Ended ==
    /\ \A r \in Runs : pc[r] \in Over
    /\ UNCHANGED vars

Next == (\E r \in Runs : Start(r) \/ Step(r)) \/ Ended

\* Each command returns (SSHExecutor!CallReturns), so each run goes on.
Spec == Init /\ [][Next]_vars
FairSpec == Spec /\ \A r \in Runs : WF_vars(Step(r))

-----------------------------------------------------------------------------
(* Properties                                                               *)

Files == [exists : BOOLEAN, complete : BOOLEAN, holds : SUBSET Backups]

PCs == {"idle", "access", "clear", "etcdctl", "etcdctl2", "chmod", "tar", "clear2",
        "download", "delete", "sudodelete", "report"} \cup Over

\* The variables keep their types: the loop over the nodes stops after the last.
TypeOK ==
    /\ LocalOn \in Locals
    /\ pc \in [Runs -> PCs] /\ turn \in [Runs -> 1 .. Len(Nodes) + 1]
    /\ dir \in [NodeSet -> SUBSET Backups]
    /\ archive \in [NodeSet -> [Runs -> Files]]
    /\ output \in [Runs -> Files] /\ downloaded \in [Runs -> BOOLEAN]
    /\ kept \subseteq Runs

\* "Etcd backup is at ..." is said only of a local file that is complete and
\* holds the whole backup of this very run: what earlier runs left in the
\* directory on the node, and what other runs do there at the same time, never
\* passes for it.
ReportedIsOwn ==
    \A r \in Runs : pc[r] = "ok" => output[r].complete /\ Whole(r) \in output[r].holds

\* An archive that a run leaves on a node is one whose deletion was refused
\* twice, or one of a run that ended at tar or in a panic; a download that fails
\* leaves none.
ArchiveDeleted ==
    \A r \in Runs, n \in NodeSet :
        archive[n][r].exists /\ pc[r] \in {"report", "ok", "untransferred"} => r \in kept

\* A run says what it did or dies; no failure of a step keeps it going.
RunsEnd == \A r \in Runs : pc[r] # "idle" ~> pc[r] \in Over
=============================================================================
