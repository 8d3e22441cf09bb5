-------------------------- MODULE EtcdBackupProofs --------------------------
(***************************************************************************)
(* Proofs about EtcdBackup, for any number of runs and nodes, overlapping  *)
(* or not, and every set of faults.                                        *)
(***************************************************************************)
EXTENDS EtcdBackup, TLAPS

\* The program points of a run that has picked its node.
Working == {"clear", "etcdctl", "etcdctl2", "chmod", "tar", "clear2", "download",
            "delete", "sudodelete", "report"}

NodePicked == \A r \in Runs : pc[r] \in Working => turn[r] \in 1 .. Len(Nodes)

TypeInv == TypeOK /\ NodePicked

LEMMA NodeType ==
    ASSUME NEW r \in Runs, turn[r] \in 1 .. Len(Nodes)
    PROVE  Node(r) \in NodeSet
BY DEF Node, NodeSet

LEMMA FileType ==
    ASSUME NEW c \in BOOLEAN, NEW H \in SUBSET Backups
    PROVE  File(c, H) \in Files /\ NoFile \in Files
BY DEF File, NoFile, Files

LEMMA PartType ==
    ASSUME NEW r \in Runs
    PROVE  Part(r) \in Backups /\ Whole(r) \in Backups
BY DEF Part, Whole, Backups

-----------------------------------------------------------------------------
LEMMA InitTypes == Init => TypeInv
<1>. SUFFICES ASSUME Init PROVE TypeInv
  OBVIOUS
<1>1. NoFile \in Files
  BY DEF NoFile, Files
<1>2. turn \in [Runs -> 1 .. Len(Nodes) + 1]
  BY BackupAssumption DEF Init
<1>3. TypeOK
  BY <1>1, <1>2 DEF Init, TypeOK, PCs, Over
<1>4. NodePicked
  BY DEF Init, NodePicked, Working
<1>. QED
  BY <1>3, <1>4 DEF TypeInv

(* Every step of a run moves that run only, to a program point of the       *)
(* program, and one that works on a node has a node.                        *)
LEMMA StepControl ==
    ASSUME TypeInv, NEW r \in Runs, Start(r) \/ Step(r)
    PROVE  /\ pc' \in [Runs -> PCs] /\ turn' \in [Runs -> 1 .. Len(Nodes) + 1]
           /\ \A q \in Runs \ {r} : pc'[q] = pc[q] /\ turn'[q] = turn[q]
           /\ pc'[r] \in Working => turn'[r] \in 1 .. Len(Nodes)
           /\ pc[r] \in Working => turn'[r] = turn[r]
<1>. USE DEF TypeInv
<1>1. CASE Start(r)
  <2>1. CASE LocalOn \in NodeSet
    <3>. DEFINE i == CHOOSE i \in 1 .. Len(Nodes) : Nodes[i] = LocalOn
    <3>1. i \in 1 .. Len(Nodes)
      BY <2>1 DEF NodeSet
    <3>2. pc[r] = "idle" /\ pc' = [pc EXCEPT ![r] = "clear"] /\ turn' = [turn EXCEPT ![r] = i]
      BY <1>1, <2>1 DEF Start, Goto
    <3>. HIDE DEF i
    <3>. QED
      BY <3>1, <3>2, BackupAssumption DEF TypeOK, PCs, Working
  <2>2. CASE LocalOn \notin NodeSet
    BY <1>1, <2>2 DEF Start, Goto, TypeOK, PCs, Working
  <2>. QED
    BY <2>1, <2>2
<1>2. CASE Access(r)
  <2>1. CASE MoreNodes(r)
    <3>1. turn[r] \in 1 .. Len(Nodes) /\ turn[r] + 1 \in 1 .. Len(Nodes) + 1
      BY <2>1, BackupAssumption DEF MoreNodes, TypeOK
    <3>2. CASE pc' = [pc EXCEPT ![r] = "clear"] /\ turn' = turn
      BY <3>1, <3>2, <1>2 DEF Access, TypeOK, PCs, Working
    <3>3. CASE turn' = [turn EXCEPT ![r] = @ + 1] /\ pc' = pc
      BY <3>1, <3>3, <1>2 DEF Access, TypeOK, PCs, Working
    <3>. QED
      BY <2>1, <3>2, <3>3, <1>2 DEF Access, Goto
  <2>2. CASE ~MoreNodes(r)
    BY <1>2, <2>2 DEF Access, Goto, TypeOK, PCs, Over, Working
  <2>. QED
    BY <2>1, <2>2
<1>3. CASE pc[r] \in Working /\ turn' = turn /\ \E p \in PCs : Goto(r, p)
  BY <1>3 DEF Goto, TypeOK, NodePicked
<1>4. CASE Clear(r) \/ ClearAgain(r)
  <2>1. pc[r] \in Working /\ turn' = turn
    BY <1>4 DEF Clear, ClearAgain, DeleteDirectory, Working
  <2>2. \E p \in PCs : Goto(r, p)
    BY <1>4 DEF Clear, ClearAgain, DeleteDirectory, PCs, Over
  <2>. QED
    BY <2>1, <2>2, <1>3
<1>5. CASE BackupBegins(r) \/ BackupEnds(r) \/ Chmod(r) \/ Tar(r)
  <2>1. pc[r] \in Working /\ turn' = turn
    BY <1>5 DEF BackupBegins, BackupEnds, Chmod, Tar, Working
  <2>2. \E p \in PCs : Goto(r, p)
    BY <1>5 DEF BackupBegins, BackupEnds, Chmod, Tar, AfterFailedTar, CallFails, AfterFailedBackup, PCs, Over
  <2>. QED
    BY <2>1, <2>2, <1>3
<1>6. CASE Download(r) \/ Delete(r) \/ Report(r)
  <2>1. pc[r] \in Working /\ turn' = turn
    BY <1>6 DEF Download, Delete, Report, Working
  <2>2. \E p \in PCs : Goto(r, p)
    BY <1>6 DEF Download, Delete, Report, AfterFailedDelete, AfterFailedTransfer, PCs, Over
  <2>. QED
    BY <2>1, <2>2, <1>3
<1>. QED
  BY <1>1, <1>2, <1>4, <1>5, <1>6 DEF Step

-----------------------------------------------------------------------------
(* What the steps of a run do to the files on its node and on this host.    *)

LEMMA DirTypes ==
    ASSUME TypeInv, NEW r \in Runs, Start(r) \/ Step(r)
    PROVE  /\ dir' \in [NodeSet -> SUBSET Backups]
           /\ \A n \in NodeSet : dir[n] \ {Part(r)} \subseteq dir'[n]
<1>. USE DEF TypeInv
<1>1. CASE dir' = dir
  BY <1>1 DEF TypeOK
<1>2. CASE Clear(r) \/ ClearAgain(r)
  BY <1>2 DEF Clear, ClearAgain, DeleteDirectory, RemovedDir, TypeOK
<1>3. CASE BackupBegins(r)
  <2>1. dir' = dir \/ dir' = [dir EXCEPT ![Node(r)] = @ \cup {Part(r)}]
    BY <1>3 DEF BackupBegins
  <2>. QED
    BY <2>1, <1>1, PartType DEF TypeOK
<1>4. CASE BackupEnds(r)
  <2>1. dir' = dir \/ dir' = [dir EXCEPT ![Node(r)] = (@ \ {Part(r)}) \cup {Whole(r)}]
    BY <1>4 DEF BackupEnds
  <2>. QED
    BY <2>1, <1>1, PartType DEF TypeOK
<1>5. CASE Start(r) \/ Access(r) \/ Chmod(r) \/ Tar(r) \/ Download(r) \/ Delete(r) \/ Report(r)
  BY <1>1, <1>5 DEF Start, Access, Chmod, Tar, Download, Delete, Report, nodeVars
<1>. QED
  BY <1>2, <1>3, <1>4, <1>5 DEF Step

LEMMA ArchiveTypes ==
    ASSUME TypeInv, NEW r \in Runs, Start(r) \/ Step(r)
    PROVE  /\ archive' \in [NodeSet -> [Runs -> Files]]
           /\ \A n \in NodeSet, q \in Runs \ {r} : archive'[n][q] = archive[n][q]
           /\ \A n \in NodeSet : n # Node(r) => archive'[n][r] = archive[n][r]
<1>. USE DEF TypeInv
<1>1. CASE archive' = archive
  BY <1>1 DEF TypeOK
<1>2. CASE \E f \in Files : Archive(r, f)
  <2>1. PICK f \in Files : archive' = [archive EXCEPT ![Node(r)][r] = f]
    BY <1>2 DEF Archive
  <2>2. archive \in [NodeSet -> [Runs -> Files]]
    BY DEF TypeOK
  <2>3. \A n \in NodeSet : archive[n] \in [Runs -> Files]
    BY <2>2
  <2>4. \A n \in NodeSet :
           archive'[n] = IF n = Node(r) THEN [archive[n] EXCEPT ![r] = f] ELSE archive[n]
    BY <2>1, <2>2
  <2>5. \A n \in NodeSet : archive'[n] \in [Runs -> Files]
    BY <2>3, <2>4
  <2>6. archive' \in [NodeSet -> [Runs -> Files]]
    BY <2>1, <2>2, <2>5
  <2>7. \A n \in NodeSet, q \in Runs \ {r} : archive'[n][q] = archive[n][q]
    BY <2>3, <2>4
  <2>. QED
    BY <2>4, <2>6, <2>7
<1>3. CASE Tar(r)
  <2>1. Node(r) \in NodeSet /\ dir[Node(r)] \in SUBSET Backups
    BY <1>3, NodeType DEF Tar, NodePicked, Working, TypeOK
  <2>2. \A c \in BOOLEAN : File(c, dir[Node(r)]) \in Files
    BY <2>1, FileType
  <2>. QED
    BY <1>1, <1>2, <1>3, <2>2 DEF Tar
<1>4. CASE Delete(r)
  <2>1. NoFile \in Files
    BY DEF NoFile, Files
  <2>. QED
    BY <1>1, <1>2, <1>4, <2>1 DEF Delete
<1>5. CASE Clear(r) \/ ClearAgain(r)
  BY <1>1, <1>5 DEF Clear, ClearAgain, DeleteDirectory
<1>6. CASE \/ Start(r) \/ Access(r) \/ BackupBegins(r) \/ BackupEnds(r) \/ Chmod(r)
           \/ Download(r) \/ Report(r)
  BY <1>1, <1>6 DEF Start, Access, BackupBegins, BackupEnds, Chmod, Download, Report, nodeVars
<1>. QED
  BY <1>3, <1>4, <1>5, <1>6 DEF Step

LEMMA OutputTypes ==
    ASSUME TypeInv, NEW r \in Runs, Start(r) \/ Step(r)
    PROVE  /\ output' \in [Runs -> Files] /\ downloaded' \in [Runs -> BOOLEAN]
           /\ \A q \in Runs \ {r} : output'[q] = output[q] /\ downloaded'[q] = downloaded[q]
           /\ ~Download(r) => output' = output /\ downloaded' = downloaded
<1>. USE DEF TypeInv
<1>1. CASE Download(r)
  <2>1. /\ Node(r) \in NodeSet
        /\ archive[Node(r)][r] \in Files
    BY <1>1, NodeType DEF Download, NodePicked, Working, TypeOK
  <2>2. \E f \in Files : output' = [output EXCEPT ![r] = f]
    <3>1. File(FALSE, {}) \in Files
      BY FileType
    <3>2. output[r] \in Files /\ output = [output EXCEPT ![r] = output[r]]
      BY DEF TypeOK
    <3>3. \/ output' = output
          \/ output' = [output EXCEPT ![r] = archive[Node(r)][r]]
          \/ output' = [output EXCEPT ![r] = File(FALSE, {})]
      BY <1>1 DEF Download
    <3>. QED
      BY <2>1, <3>1, <3>2, <3>3
  <2>3. output' \in [Runs -> Files] /\ \A q \in Runs \ {r} : output'[q] = output[q]
    BY <2>2 DEF TypeOK
  <2>4. downloaded' = downloaded \/ downloaded' = [downloaded EXCEPT ![r] = TRUE]
    BY <1>1 DEF Download
  <2>. QED
    BY <1>1, <2>3, <2>4 DEF TypeOK
<1>2. CASE output' = output /\ downloaded' = downloaded
  BY <1>2 DEF TypeOK
<1>3. CASE Clear(r) \/ ClearAgain(r)
  BY <1>2, <1>3 DEF Clear, ClearAgain, DeleteDirectory
<1>4. CASE \/ Start(r) \/ Access(r) \/ BackupBegins(r) \/ BackupEnds(r) \/ Chmod(r)
           \/ Tar(r) \/ Delete(r) \/ Report(r)
  BY <1>2, <1>4 DEF Start, Access, BackupBegins, BackupEnds, Chmod, Tar, Delete, Report
<1>. QED
  BY <1>1, <1>3, <1>4 DEF Step

LEMMA KeptTypes ==
    ASSUME TypeInv, NEW r \in Runs, Start(r) \/ Step(r)
    PROVE  kept' \subseteq Runs /\ kept \subseteq kept' /\ LocalOn' \in Locals
<1>1. CASE Clear(r) \/ ClearAgain(r)
  BY <1>1 DEF Clear, ClearAgain, DeleteDirectory, TypeInv, TypeOK
<1>2. CASE \/ Start(r) \/ Access(r) \/ BackupBegins(r) \/ BackupEnds(r) \/ Chmod(r)
           \/ Tar(r) \/ Delete(r) \/ Report(r) \/ Download(r)
  BY <1>2 DEF Start, Access, BackupBegins, BackupEnds, Chmod, Tar, Delete, Report,
              Download, TypeInv, TypeOK
<1>. QED
  BY <1>1, <1>2 DEF Step

LEMMA NextTypes == TypeInv /\ [Next]_vars => TypeInv'
<1>. SUFFICES ASSUME TypeInv, [Next]_vars PROVE TypeInv'
  OBVIOUS
<1>1. ASSUME NEW r \in Runs, Start(r) \/ Step(r) PROVE TypeInv'
  <2>1. TypeOK'
    BY <1>1, StepControl, DirTypes, ArchiveTypes, OutputTypes, KeptTypes DEF TypeOK, NodeSet
  <2>2. NodePicked'
    BY <1>1, StepControl DEF NodePicked, TypeInv
  <2>. QED
    BY <2>1, <2>2 DEF TypeInv
<1>2. CASE UNCHANGED vars
  BY <1>2 DEF vars, nodeVars, TypeInv, TypeOK, NodePicked, NodeSet
<1>. QED
  BY <1>1, <1>2 DEF Next, Ended

(* The variables keep their types (Backup and GetFirstAccessibleNode, which *)
(* stops after the last node of the group).                                 *)
THEOREM TypeCorrect == Spec => []TypeOK
<1>1. TypeInv => TypeOK
  BY DEF TypeInv
<1>. QED
  BY <1>1, InitTypes, NextTypes, PTL DEF Spec

-----------------------------------------------------------------------------
(* What a run knows of its own backup: it is whole in the directory when    *)
(* tar reads it, in the archive when it is downloaded, and in the output    *)
(* when the download has returned no error.                                 *)
Undone == {"idle", "access", "clear", "etcdctl", "etcdctl2", "chmod", "tar", "clear2", "download"}

Own(file, r) == file.complete /\ Whole(r) \in file.holds

InDirectory(r) == pc[r] \in {"chmod", "tar"} => Whole(r) \in dir[Node(r)]
InArchive(r) == pc[r] \in {"clear2", "download"} => Own(archive[Node(r)][r], r)
InOutput(r) ==
    /\ pc[r] \in Undone => ~downloaded[r]
    /\ pc[r] \in {"delete", "sudodelete", "report"} /\ downloaded[r] => Own(output[r], r)
    /\ pc[r] = "ok" => Own(output[r], r)

OwnInv == \A r \in Runs : InDirectory(r) /\ InArchive(r) /\ InOutput(r)

(* A step of another run takes nothing of it away.                          *)
LEMMA OthersKeep ==
    ASSUME TypeInv, NEW r \in Runs, Start(r) \/ Step(r), NEW q \in Runs \ {r},
           InDirectory(q), InArchive(q), InOutput(q)
    PROVE  InDirectory(q)' /\ InArchive(q)' /\ InOutput(q)'
<1>1. pc'[q] = pc[q] /\ turn'[q] = turn[q] /\ Node(q)' = Node(q)
  BY StepControl DEF Node
<1>2. pc[q] \in Working => Node(q) \in NodeSet
  BY NodeType DEF TypeInv, NodePicked
<1>3. InDirectory(q)'
  <2>1. Whole(q) # Part(r)
    BY DEF Whole, Part
  <2>2. \A n \in NodeSet : dir[n] \ {Part(r)} \subseteq dir'[n]
    BY DirTypes
  <2>. QED
    BY <1>1, <1>2, <2>1, <2>2 DEF InDirectory, Working
<1>4. InArchive(q)'
  BY <1>1, <1>2, ArchiveTypes DEF InArchive, Working, Own
<1>5. InOutput(q)'
  BY <1>1, OutputTypes DEF InOutput, Own
<1>. QED
  BY <1>3, <1>4, <1>5

(* Nor does a step of its own.                                              *)
LEMMA SelfKeeps ==
    ASSUME TypeInv, NEW r \in Runs, Start(r) \/ Step(r),
           InDirectory(r), InArchive(r), InOutput(r)
    PROVE  InDirectory(r)' /\ InArchive(r)' /\ InOutput(r)'
<1>1. pc \in [Runs -> PCs] /\ downloaded \in [Runs -> BOOLEAN]
  BY DEF TypeInv, TypeOK
<1>2. pc[r] \in Working => Node(r) \in NodeSet /\ Node(r)' = Node(r)
  BY NodeType, StepControl DEF TypeInv, NodePicked, Node
<1>3. CASE Start(r) \/ Access(r) \/ Clear(r) \/ BackupBegins(r)
  <2>1. pc[r] \in Undone /\ pc'[r] \in {"access", "clear", "etcdctl", "etcdctl2", "critical", "panic"}
    BY <1>1, <1>3 DEF Start, Access, Clear, DeleteDirectory, BackupBegins, CallFails,
                      AfterFailedBackup, Goto, Undone
  <2>2. UNCHANGED <<output, downloaded>>
    BY <1>3 DEF Start, Access, Clear, DeleteDirectory, BackupBegins
  <2>. QED
    BY <2>1, <2>2 DEF InDirectory, InArchive, InOutput, Undone
<1>4. CASE BackupEnds(r)
  <2>1. pc[r] = "etcdctl2" /\ pc'[r] \in {"chmod", "critical", "panic"} /\ UNCHANGED <<output, downloaded>>
    BY <1>1, <1>4 DEF BackupEnds, CallFails, AfterFailedBackup, Goto
  <2>2. pc'[r] = "chmod" => dir' = [dir EXCEPT ![Node(r)] = (@ \ {Part(r)}) \cup {Whole(r)}]
    BY <1>1, <1>4 DEF BackupEnds, AfterFailedBackup, Goto
  <2>3. pc'[r] = "chmod" => Whole(r) \in dir'[Node(r)]
    BY <1>2, <2>1, <2>2 DEF TypeInv, TypeOK, Working
  <2>. QED
    BY <1>2, <2>1, <2>3 DEF InDirectory, InArchive, InOutput, Undone, Working
<1>5. CASE Chmod(r)
  <2>1. pc[r] = "chmod" /\ pc'[r] \in {"tar", "panic"} /\ UNCHANGED <<output, downloaded>> /\ dir' = dir
    BY <1>1, <1>5 DEF Chmod, CallFails, Goto, nodeVars
  <2>. QED
    BY <1>2, <2>1 DEF InDirectory, InArchive, InOutput, Undone, Working
<1>6. CASE Tar(r)
  <2>1. pc[r] = "tar" /\ pc'[r] \in {"clear2", "critical", "panic"} /\ UNCHANGED <<output, downloaded>>
    BY <1>1, <1>6 DEF Tar, AfterFailedTar, CallFails, Goto
  <2>2. pc'[r] = "clear2" => Archive(r, File(TRUE, dir[Node(r)]))
    BY <1>1, <1>6 DEF Tar, AfterFailedTar, CallFails, Goto
  <2>3. pc'[r] = "clear2" => archive'[Node(r)][r] = File(TRUE, dir[Node(r)])
    BY <1>2, <2>1, <2>2 DEF Archive, TypeInv, TypeOK, Working
  <2>4. Own(File(TRUE, dir[Node(r)]), r)
    BY <2>1 DEF InDirectory, Own, File
  <2>. QED
    BY <1>2, <2>1, <2>3, <2>4 DEF InDirectory, InArchive, InOutput, Undone, Working
<1>7. CASE ClearAgain(r)
  <2>1. /\ pc[r] = "clear2" /\ pc'[r] \in {"download", "panic"}
        /\ UNCHANGED <<output, downloaded, archive>>
    BY <1>1, <1>7 DEF ClearAgain, DeleteDirectory, Goto
  <2>. QED
    BY <1>2, <2>1 DEF InDirectory, InArchive, InOutput, Undone, Working, Own
<1>8. CASE Download(r)
  <2>1. pc[r] = "download" /\ pc'[r] = "delete"
    BY <1>1, <1>8 DEF Download, Goto
  <2>2. Own(archive[Node(r)][r], r) /\ ~downloaded[r] /\ output \in [Runs -> Files]
    BY <2>1 DEF InArchive, InOutput, Undone, TypeInv, TypeOK
  <2>3. \/ output' = [output EXCEPT ![r] = archive[Node(r)][r]]
        \/ downloaded' = downloaded
    BY <1>8 DEF Download
  <2>4. downloaded'[r] => Own(output'[r], r)
    BY <2>2, <2>3 DEF Own
  <2>. QED
    BY <2>1, <2>4 DEF InDirectory, InArchive, InOutput, Undone, Own
<1>9. CASE Delete(r)
  <2>1. /\ pc[r] \in {"delete", "sudodelete"} /\ pc'[r] \in {"sudodelete", "report"}
        /\ output' = output /\ downloaded' = downloaded
    BY <1>1, <1>9 DEF Delete, AfterFailedDelete, Goto
  <2>. QED
    BY <2>1 DEF InDirectory, InArchive, InOutput, Undone, Own
<1>10. CASE Report(r)
  <2>1. /\ pc[r] = "report" /\ output' = output
        /\ pc'[r] = IF downloaded[r] THEN "ok" ELSE "untransferred"
    BY <1>1, <1>10 DEF Report, AfterFailedTransfer, Goto
  <2>. QED
    BY <2>1 DEF InDirectory, InArchive, InOutput, Undone, Own
<1>. QED
  BY <1>3, <1>4, <1>5, <1>6, <1>7, <1>8, <1>9, <1>10 DEF Step

LEMMA InitOwn == Init => OwnInv
BY DEF Init, OwnInv, InDirectory, InArchive, InOutput, Undone, NoFile

LEMMA NextOwn == TypeInv /\ OwnInv /\ [Next]_vars => OwnInv'
<1>. SUFFICES ASSUME TypeInv, OwnInv, [Next]_vars PROVE OwnInv'
  OBVIOUS
<1>1. ASSUME NEW r \in Runs, Start(r) \/ Step(r), NEW q \in Runs
      PROVE  InDirectory(q)' /\ InArchive(q)' /\ InOutput(q)'
  <2>1. InDirectory(q) /\ InArchive(q) /\ InOutput(q)
    BY DEF OwnInv
  <2>2. CASE q = r
    BY <1>1, <2>1, <2>2, SelfKeeps
  <2>3. CASE q # r
    BY <1>1, <2>1, <2>3, OthersKeep
  <2>. QED
    BY <2>2, <2>3
<1>2. CASE UNCHANGED vars
  BY <1>2 DEF vars, nodeVars, OwnInv, InDirectory, InArchive, InOutput, Node
<1>. QED
  BY <1>1, <1>2 DEF Next, Ended, OwnInv

(* transferBackup says where the backup is only if the local file is        *)
(* complete and holds the backup of this run, whatever other runs leave in  *)
(* the directory on the node or do there at the same time.                  *)
THEOREM ReportedBackupIsOwn == Spec => []ReportedIsOwn
<1>1. OwnInv => ReportedIsOwn
  BY DEF OwnInv, InOutput, ReportedIsOwn, Own
<1>. QED
  BY <1>1, InitTypes, NextTypes, InitOwn, NextOwn, PTL DEF Spec

-----------------------------------------------------------------------------
(* A run makes its archive only on the node it picked, and when it has left *)
(* the deletion behind, it has left an archive only where that was refused. *)
Left(r) ==
    \A n \in NodeSet : archive[n][r].exists =>
        /\ pc[r] \notin {"idle", "access"}
        /\ pc[r] \in Working => n = Node(r)
        /\ pc[r] \in {"report", "ok", "untransferred"} => r \in kept

LeftInv == \A r \in Runs : Left(r)

LEMMA StepLeft ==
    ASSUME TypeInv, NEW r \in Runs, Start(r) \/ Step(r), Left(r)
    PROVE  Left(r)'
<1>1. pc \in [Runs -> PCs] /\ NodeSet' = NodeSet
  BY DEF TypeInv, TypeOK, NodeSet
<1>2. pc[r] \in Working => Node(r) \in NodeSet /\ Node(r)' = Node(r)
  BY NodeType, StepControl DEF TypeInv, NodePicked, Node
<1>3. \A n \in NodeSet : n # Node(r) => archive'[n][r] = archive[n][r]
  BY ArchiveTypes
<1>4. kept \subseteq kept'
  BY KeptTypes
<1>5. CASE Start(r) \/ Access(r)
  <2>1. pc[r] \in {"idle", "access"} /\ archive' = archive
    BY <1>5 DEF Start, Access, nodeVars
  <2>. QED
    BY <1>1, <2>1 DEF Left
<1>6. CASE Clear(r) \/ BackupBegins(r) \/ BackupEnds(r) \/ Chmod(r) \/ ClearAgain(r) \/ Download(r)
  <2>1. pc[r] \in Working /\ archive' = archive
    BY <1>6 DEF Clear, ClearAgain, DeleteDirectory, BackupBegins, BackupEnds, Chmod,
                Download, nodeVars, Working
  <2>2. pc'[r] \in {"clear2", "download", "delete", "etcdctl", "etcdctl2", "chmod", "tar",
                    "critical", "panic"}
    BY <1>1, <1>6 DEF Clear, ClearAgain, DeleteDirectory, BackupBegins, BackupEnds, Chmod,
                      Download, CallFails, AfterFailedBackup, Goto
  <2>. QED
    BY <1>1, <1>2, <2>1, <2>2 DEF Left
<1>7. CASE Tar(r)
  <2>1. pc[r] \in Working /\ pc'[r] \in {"clear2", "critical", "panic"}
    BY <1>1, <1>7 DEF Tar, AfterFailedTar, CallFails, Goto, Working
  <2>. QED
    BY <1>1, <1>2, <1>3, <2>1 DEF Left
<1>8. CASE Delete(r)
  <2>1. pc[r] \in Working /\ pc'[r] \in {"sudodelete", "report"}
    BY <1>1, <1>8 DEF Delete, AfterFailedDelete, Goto, Working
  <2>2. \A n \in NodeSet : n # Node(r) => ~archive'[n][r].exists
    BY <1>3, <2>1 DEF Left
  <2>3. pc'[r] = "report" => Archive(r, NoFile) \/ r \in kept'
    BY <1>1, <1>8 DEF Delete, AfterFailedDelete, Goto
  <2>4. Archive(r, NoFile) => ~archive'[Node(r)][r].exists
    BY <1>2, <2>1 DEF Archive, NoFile, TypeInv, TypeOK
  <2>. QED
    BY <1>1, <1>2, <2>1, <2>2, <2>3, <2>4 DEF Left
<1>9. CASE Report(r)
  <2>1. pc[r] = "report" /\ pc'[r] \in {"ok", "untransferred"} /\ archive' = archive
    BY <1>1, <1>9 DEF Report, AfterFailedTransfer, Goto, nodeVars
  <2>. QED
    BY <1>1, <1>4, <2>1 DEF Left, Working
<1>. QED
  BY <1>5, <1>6, <1>7, <1>8, <1>9 DEF Step

LEMMA InitLeft == Init => LeftInv
BY DEF Init, LeftInv, Left, NoFile

LEMMA NextLeft == TypeInv /\ LeftInv /\ [Next]_vars => LeftInv'
<1>. SUFFICES ASSUME TypeInv, LeftInv, [Next]_vars PROVE LeftInv'
  OBVIOUS
<1>1. ASSUME NEW r \in Runs, Start(r) \/ Step(r), NEW q \in Runs
      PROVE  Left(q)'
  <2>1. Left(q)
    BY DEF LeftInv
  <2>2. CASE q = r
    BY <1>1, <2>1, <2>2, StepLeft
  <2>3. CASE q # r
    <3>1. pc'[q] = pc[q] /\ Node(q)' = Node(q)
      BY <1>1, <2>3, StepControl DEF Node
    <3>2. \A n \in NodeSet : archive'[n][q] = archive[n][q]
      BY <1>1, <2>3, ArchiveTypes
    <3>3. kept \subseteq kept' /\ NodeSet' = NodeSet
      BY <1>1, KeptTypes DEF NodeSet
    <3>. QED
      BY <2>1, <3>1, <3>2, <3>3 DEF Left
  <2>. QED
    BY <2>2, <2>3
<1>2. CASE UNCHANGED vars
  BY <1>2 DEF vars, nodeVars, LeftInv, Left, Node, NodeSet
<1>. QED
  BY <1>1, <1>2 DEF Next, Ended, LeftInv

(* DeleteRemoteFile runs after every transfer: an archive is left only by a *)
(* run whose deletion was refused twice.                                    *)
THEOREM ArchivesAreDeleted == Spec => []ArchiveDeleted
<1>1. LeftInv => ArchiveDeleted
  BY DEF LeftInv, Left, ArchiveDeleted
<1>. QED
  BY <1>1, InitTypes, NextTypes, InitLeft, NextLeft, PTL DEF Spec

-----------------------------------------------------------------------------
(* The runs come to an end.  That a run takes a step as long as it has one  *)
(* is the fairness of FairSpec, and stays with TLC (RunsEnd).               *)

\* The commands that a run has still to give, when it has picked its node.
CommandsLeft(p) ==
    CASE p = "clear" -> 10 [] p = "etcdctl" -> 9 [] p = "etcdctl2" -> 8 [] p = "chmod" -> 7
      [] p = "tar" -> 6 [] p = "clear2" -> 5 [] p = "download" -> 4 [] p = "delete" -> 3
      [] p = "sudodelete" -> 2 [] p = "report" -> 1 [] OTHER -> 0

\* Before that, it tries one node after the other.
Remaining(r) ==
    CASE pc[r] = "idle"   -> Len(Nodes) + 12
      [] pc[r] = "access" -> Len(Nodes) + 12 - turn[r]
      [] OTHER            -> CommandsLeft(pc[r])

LEMMA RemainingType ==
    ASSUME TypeInv, NEW r \in Runs
    PROVE  /\ Remaining(r) \in Nat /\ CommandsLeft(pc[r]) \in 0 .. 10
           /\ pc[r] = "access" => Remaining(r) > 10
<1>1. CommandsLeft(pc[r]) \in 0 .. 10
  BY DEF CommandsLeft
<1>2. turn[r] \in 1 .. Len(Nodes) + 1 /\ Len(Nodes) \in Nat
  BY BackupAssumption DEF TypeInv, TypeOK
<1>. QED
  BY <1>1, <1>2 DEF Remaining

\* Once a node is picked, each step leads on to a later command.
LEMMA WorkAdvances ==
    ASSUME TypeInv, NEW r \in Runs, pc[r] \in Working, Step(r)
    PROVE  /\ pc' = [pc EXCEPT ![r] = pc'[r]]
           /\ pc'[r] \notin {"idle", "access"}
           /\ CommandsLeft(pc'[r]) < CommandsLeft(pc[r])
<1>0. pc \in [Runs -> PCs]
  BY DEF TypeInv, TypeOK
<1>1. \A p \in {"critical", "panic", "ok", "untransferred"} : CommandsLeft(p) = 0
  BY DEF CommandsLeft
<1>2. CASE Clear(r)
  BY <1>0, <1>2 DEF Clear, DeleteDirectory, Goto, CommandsLeft
<1>3. CASE BackupBegins(r)
  BY <1>0, <1>3 DEF BackupBegins, CallFails, Goto, AfterFailedBackup, CommandsLeft
<1>4. CASE BackupEnds(r)
  BY <1>0, <1>4 DEF BackupEnds, CallFails, Goto, AfterFailedBackup, CommandsLeft
<1>5. CASE Chmod(r) \/ Tar(r)
  <2>1. \/ pc[r] = "chmod" /\ \E p \in {"tar", "panic"} : Goto(r, p)
        \/ pc[r] = "tar" /\ \E p \in {"clear2", "critical", "panic"} : Goto(r, p)
    BY <1>5 DEF Chmod, Tar, AfterFailedTar, CallFails
  <2>. QED
    BY <1>0, <2>1 DEF Goto, CommandsLeft
<1>6. CASE ClearAgain(r) \/ Download(r)
  <2>1. \/ pc[r] = "clear2" /\ \E p \in {"download", "panic"} : Goto(r, p)
        \/ pc[r] = "download" /\ Goto(r, "delete")
    BY <1>6 DEF ClearAgain, Download, DeleteDirectory
  <2>. QED
    BY <1>0, <2>1 DEF Goto, CommandsLeft
<1>7. CASE Delete(r)
  BY <1>0, <1>7 DEF Delete, Goto, AfterFailedDelete, CommandsLeft
<1>8. CASE Report(r)
  BY <1>0, <1>8 DEF Report, Goto, AfterFailedTransfer, CommandsLeft
<1>9. CASE Access(r)
  BY <1>9 DEF Access, Working
<1>. QED
  BY <1>2, <1>3, <1>4, <1>5, <1>6, <1>7, <1>8, <1>9 DEF Step

LEMMA RunAdvances ==
    ASSUME TypeInv, TypeInv', NEW r \in Runs, Start(r) \/ Step(r)
    PROVE  /\ Remaining(r)' < Remaining(r)
           /\ \A q \in Runs \ {r} : Remaining(q)' = Remaining(q)
<1>1. \A q \in Runs \ {r} : Remaining(q)' = Remaining(q)
  BY StepControl DEF Remaining
<1>. SUFFICES Remaining(r)' < Remaining(r)
  BY <1>1
<1>2. /\ Len(Nodes) \in Nat /\ turn[r] \in 1 .. Len(Nodes) + 1
      /\ pc \in [Runs -> PCs] /\ turn \in [Runs -> 1 .. Len(Nodes) + 1]
  BY BackupAssumption DEF TypeInv, TypeOK
<1>3. CASE Start(r)
  <2>1. Remaining(r) = Len(Nodes) + 12
    BY <1>3 DEF Start, Remaining
  <2>2. CASE pc'[r] = "clear"
    BY <1>2, <2>1, <2>2 DEF Remaining, CommandsLeft
  <2>3. CASE pc'[r] = "access"
    <3>1. turn'[r] \in 1 .. Len(Nodes) + 1
      BY DEF TypeInv, TypeOK
    <3>. QED
      BY <1>2, <2>1, <2>3, <3>1 DEF Remaining
  <2>. QED
    BY <1>2, <1>3, <2>2, <2>3 DEF Start, Goto
<1>4. CASE Access(r)
  <2>1. Remaining(r) = Len(Nodes) + 12 - turn[r] /\ Remaining(r) > 10
    BY <1>4, RemainingType DEF Access, Remaining
  <2>2. CASE pc'[r] \in {"clear", "critical"}
    <3>1. Remaining(r)' \in {0, 10}
      BY <2>2 DEF Remaining, CommandsLeft
    <3>. QED
      BY <1>2, <2>1, <3>1
  <2>3. CASE pc'[r] = "access" /\ turn'[r] = turn[r] + 1
    BY <1>2, <2>1, <2>3 DEF Remaining
  <2>4. \/ pc' = [pc EXCEPT ![r] = "clear"] \/ pc' = [pc EXCEPT ![r] = "critical"]
        \/ pc[r] = "access" /\ pc' = pc /\ turn' = [turn EXCEPT ![r] = turn[r] + 1]
    BY <1>4 DEF Access, Goto
  <2>. QED
    BY <1>2, <2>2, <2>3, <2>4
<1>5. CASE pc[r] \in Working /\ Step(r)
  <2>1. /\ pc'[r] \notin {"idle", "access"}
        /\ CommandsLeft(pc'[r]) < CommandsLeft(pc[r])
    BY <1>5, WorkAdvances
  <2>2. pc[r] \notin {"idle", "access"}
    BY <1>5 DEF Working
  <2>3. Remaining(r)' = CommandsLeft(pc'[r]) /\ Remaining(r) = CommandsLeft(pc[r])
    BY <2>1, <2>2 DEF Remaining, CommandsLeft
  <2>. QED
    BY <2>1, <2>3
<1>6. Step(r) => Access(r) \/ pc[r] \in Working
  BY DEF Step, Clear, BackupBegins, BackupEnds, Chmod, Tar, ClearAgain, Download, Delete,
         Report, Working
<1>. QED
  BY <1>3, <1>4, <1>5, <1>6

\* Each step of a run, a failing one included, brings this run nearer to its end
\* and takes no other one back: no failure of a step keeps a run going, however
\* many runs there are at the same time (pkg/backup.go:62-103).
THEOREM RunsAdvance ==
    Spec => [][\E r \in Runs :
                  /\ Remaining(r) \in Nat /\ Remaining(r)' \in Nat
                  /\ Remaining(r)' < Remaining(r)
                  /\ \A q \in Runs \ {r} : Remaining(q)' = Remaining(q)]_vars
<1>. DEFINE Advance == \E r \in Runs :
                  /\ Remaining(r) \in Nat /\ Remaining(r)' \in Nat
                  /\ Remaining(r)' < Remaining(r)
                  /\ \A q \in Runs \ {r} : Remaining(q)' = Remaining(q)
<1>1. TypeInv /\ TypeInv' /\ [Next]_vars => [Advance]_vars
  <2>. SUFFICES ASSUME TypeInv, TypeInv', NEW r \in Runs, Start(r) \/ Step(r) PROVE Advance
    BY DEF Next, Ended
  <2>1. Remaining(r) \in Nat
    BY RemainingType
  <2>2. Remaining(r)' \in Nat
    <3>1. CommandsLeft(pc'[r]) \in Nat
      BY DEF CommandsLeft
    <3>2. turn'[r] \in 1 .. Len(Nodes) + 1 /\ Len(Nodes) \in Nat
      BY BackupAssumption DEF TypeInv, TypeOK
    <3>. QED
      BY <3>1, <3>2 DEF Remaining, CommandsLeft
  <2>. QED
    BY <2>1, <2>2, RunAdvances
<1>2. Spec => []TypeInv
  BY InitTypes, NextTypes, PTL DEF Spec
<1>. QED
  BY <1>1, <1>2, PTL DEF Spec
=============================================================================
