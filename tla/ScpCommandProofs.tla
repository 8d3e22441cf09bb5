-------------------------- MODULE ScpCommandProofs --------------------------
(***************************************************************************)
(* Proofs about ScpCommand, for any number of turns, also several of one   *)
(* node, whatever is at the paths, and every set of faults.                *)
(***************************************************************************)
EXTENDS ScpCommand, TLAPS

\* Only the end is beyond the last turn.
InTurn == pc # "exit" => turn <= Len(Turns)

\* A download looks at one and the same path of every node, which it leaves alone.
DownInv ==
    direction = "down" =>
        /\ remotePath = 1
        /\ pc \in {"local", "transfer"} => remoteType = TypeOf(remote[Node][1])

\* Files were downloaded to the current local path, or to one above it.
AboveInv == \A d \in Depths : local[d] \in Nodes => d <= localPath

\* A directory that was downloaded is an entry of the directory that was named.
NamedInv ==
    direction = "down" =>
        \A n \in Nodes : report[n] = "finished" /\ TypeOf(remote[n][1]) = "dir" =>
            named[n] \in 1 .. Len(Turns)

TypeInv == TypeOK /\ InTurn
ScpInv == TypeInv /\ DownInv /\ AboveInv /\ NamedInv

-----------------------------------------------------------------------------
(* Types                                                                    *)

LEMMA LengthType == Len(Turns) \in Nat \ {0} /\ Depths = 0 .. Len(Turns) + 1
BY ScpCommandAssumption DEF Depths

LEMMA NodeType == turn \in 1 .. Len(Turns) => Node \in Nodes
BY DEF Node, Nodes

\* What can be at a path of a node, and at a path of this host.
RemoteEntries == {"none"} \cup RemoteDirs \cup RemoteFiles
LocalEntries == {"none", "dir"} \cup LocalFiles
RemoteType == [Nodes -> [Depths -> RemoteEntries]]
LocalFilesType == [Depths -> LocalEntries]
HeldType == [Depths -> {"none", "part"} \cup Nodes]

LEMMA InitTypes == Init => TypeInv
<1>. SUFFICES ASSUME Init PROVE TypeInv
  OBVIOUS
<1>1. Trees \subseteq [Depths -> {"none"} \cup RemoteDirs \cup RemoteFiles]
  BY DEF Trees, RemoteFiles, RemoteDirs
<1>2. Trees \subseteq [Depths -> {"none", "dir"} \cup LocalFiles]
  BY DEF Trees, LocalFiles
<1>3. /\ remote \in [Nodes -> [Depths -> {"none"} \cup RemoteDirs \cup RemoteFiles]]
      /\ local \in [Depths -> {"none", "dir"} \cup LocalFiles]
  BY <1>1, <1>2 DEF Init
<1>4. report \in [Nodes -> Reports] /\ named \in [Nodes -> Depths]
  BY LengthType DEF Init, Reports
<1>5. turn \in 1 .. Len(Turns) + 1 /\ turn <= Len(Turns)
  BY LengthType DEF Init
<1>6. remotePath \in 1 .. turn /\ localPath \in 1 .. turn /\ sends \in Sent
  BY DEF Init, Sent
<1>7. held \in [Depths -> {"none", "part"} \cup Nodes]
  BY DEF Init
<1>. QED
  BY <1>3, <1>4, <1>5, <1>6, <1>7 DEF Init, TypeInv, TypeOK, InTurn

\* The end of a turn.
LEMMA NextTurnTypes ==
    ASSUME TypeInv, pc # "exit", NEW printed \in Reports, NEW p \in Depths,
           NextTurn(printed, p)
    PROVE  /\ report' \in [Nodes -> Reports] /\ named' \in [Nodes -> Depths]
           /\ turn' = turn + 1 /\ turn' \in 1 .. Len(Turns) + 1
           /\ pc' \in {"remote", "exit"} /\ InTurn'
           /\ \A n \in Nodes : n # Node => report'[n] = report[n] /\ named'[n] = named[n]
           /\ report'[Node] = printed /\ named'[Node] = p
<1>1. turn \in 1 .. Len(Turns) /\ Node \in Nodes
  BY NodeType, LengthType DEF TypeInv, TypeOK, InTurn
<1>2. report \in [Nodes -> Reports] /\ report' = [report EXCEPT ![Node] = printed]
  BY DEF TypeInv, TypeOK, NextTurn
<1>3. named \in [Nodes -> Depths] /\ named' = [named EXCEPT ![Node] = p]
  BY DEF TypeInv, TypeOK, NextTurn
<1>4. turn' = turn + 1 /\ pc' = IF turn < Len(Turns) THEN "remote" ELSE "exit"
  BY DEF NextTurn
<1>5. turn' \in 1 .. Len(Turns) + 1 /\ InTurn'
  BY <1>1, <1>4, LengthType DEF InTurn
<1>. QED
  BY <1>1, <1>2, <1>3, <1>4, <1>5

LEMMA PathTypes ==
    ASSUME TypeInv, pc # "exit"
    PROVE  /\ Len(Turns) \in Nat \ {0} /\ turn \in 1 .. Len(Turns) /\ Node \in Nodes
           /\ remotePath \in 1 .. Len(Turns) /\ localPath \in 1 .. Len(Turns)
           /\ 1 .. Len(Turns) + 1 \subseteq Depths
BY LengthType, NodeType DEF TypeInv, TypeOK, InTurn

-----------------------------------------------------------------------------
(* What a transfer may do                                                   *)

\* The turn ends with the report, having changed nothing on other nodes.
Uploads(printed, p) ==
    /\ NextTurn(printed, p) /\ UNCHANGED <<local, held>>
    /\ remote' \in RemoteType
    /\ \A n \in Nodes : n # Node => remote'[n] = remote[n]

\* It ends having changed no file here, but perhaps that at p.
Downloads(printed, p) ==
    /\ NextTurn(printed, p) /\ UNCHANGED <<remote, held>>
    /\ local' \in LocalFilesType
    /\ \A d \in Depths : local'[d] = local[d] \/ (d = p /\ local[d] # "dir")

Outcomes == {"finished", "failed"}

LEMMA OutcomesAreReports == Outcomes \subseteq Reports
BY DEF Outcomes, Reports

LEMMA StoresRemote ==
    ASSUME TypeInv, pc # "exit", NEW at \in Depths, NEW e \in RemoteEntries,
           remote' = [remote EXCEPT ![Node][at] = e]
    PROVE  /\ remote' \in RemoteType /\ remote'[Node][at] = e
           /\ \A n \in Nodes : n # Node => remote'[n] = remote[n]
<1>1. Node \in Nodes
  BY PathTypes
<1>2. remote \in RemoteType
  BY DEF TypeInv, TypeOK, RemoteType, RemoteEntries
<1>3. remote[Node] \in [Depths -> RemoteEntries]
  BY <1>1, <1>2 DEF RemoteType
<1>4. remote' = [remote EXCEPT ![Node] = [remote[Node] EXCEPT ![at] = e]]
  OBVIOUS
<1>5. [remote[Node] EXCEPT ![at] = e] \in [Depths -> RemoteEntries]
  BY <1>3
<1>6. [remote[Node] EXCEPT ![at] = e][at] = e
  BY <1>3
<1>. QED
  BY <1>1, <1>2, <1>4, <1>5, <1>6 DEF RemoteType

\* What is stored is there when the upload is reported as finished.
LEMMA StoresStep ==
    ASSUME TypeInv, pc # "exit", NEW at \in Depths, NEW p,
           NEW whole \in RemoteEntries, NEW part \in RemoteEntries,
           Stores(at, whole, part, p), UNCHANGED <<local, held>>
    PROVE  \E printed \in Outcomes :
               Uploads(printed, p) /\ (printed = "finished" => remote'[Node][at] = whole)
<1>1. CASE remote' = [remote EXCEPT ![Node][at] = whole] /\ NextTurn("finished", p)
  BY <1>1, StoresRemote DEF Uploads, Outcomes
<1>2. CASE remote' = [remote EXCEPT ![Node][at] = part] /\ NextTurn("failed", p)
  BY <1>2, StoresRemote DEF Uploads, Outcomes
<1>. QED
  BY <1>1, <1>2 DEF Stores, Failed

LEMMA StoresNothingStep ==
    ASSUME TypeInv, NEW printed \in Outcomes, NEW p,
           StoresNothing(printed, p), UNCHANGED <<local, held>>
    PROVE  Uploads(printed, p)
BY DEF StoresNothing, Uploads, TypeInv, TypeOK, RemoteType, RemoteEntries

LEMMA FailsEarlyStep ==
    ASSUME TypeInv, NEW p, FailsEarly(p)
    PROVE  "failed" \in Outcomes /\ Uploads("failed", p) /\ Downloads("failed", p)
BY DEF FailsEarly, Failed, Outcomes, Uploads, Downloads, TypeInv, TypeOK,
       RemoteType, RemoteEntries, LocalFilesType, LocalEntries

LEMMA UploadFileStep ==
    ASSUME TypeInv, pc # "exit", NEW p \in Depths \ {0}, UploadFile(p)
    PROVE  \E printed \in Outcomes :
               /\ Uploads(printed, p)
               /\ printed = "finished" => "new" \in {remote'[Node][p], remote'[Node][p - 1]}
<1>1. CASE FailsEarly(p)
  BY <1>1, FailsEarlyStep
<1>2. CASE ~FailsEarly(p)
  <2>. DEFINE at == StoredAt(p)
  <2>1. at \in {p, p - 1} /\ at \in Depths
    BY LengthType DEF StoredAt
  <2>2. /\ UNCHANGED <<local, held>>
        /\ Stores(at, "new", "part", p) \/ StoresNothing("failed", p)
    BY <1>2 DEF UploadFile, Failed
  <2>. HIDE DEF at
  <2>3. CASE Stores(at, "new", "part", p)
    <3>1. "new" \in RemoteEntries /\ "part" \in RemoteEntries
      BY DEF RemoteEntries, RemoteFiles
    <3>2. PICK printed \in Outcomes :
              Uploads(printed, p) /\ (printed = "finished" => remote'[Node][at] = "new")
      BY <2>1, <2>2, <2>3, <3>1, StoresStep
    <3>. QED
      BY <2>1, <3>2
  <2>4. CASE StoresNothing("failed", p)
    BY <2>2, <2>4, StoresNothingStep DEF Outcomes
  <2>. QED
    BY <2>2, <2>3, <2>4
<1>. QED
  BY <1>1, <1>2

\* DirectoryThere, of the tree of a node.
Placed(sent, tree, p) ==
    CASE sent = "itself" -> "copy" \in {tree[p], tree[p + 1]}
      [] sent = "files" -> tree[p] \in {"copy", "last"}
      [] sent = "dirs" -> tree[p] \in {"copy", "merged"}
      [] sent = "mixed" -> tree[p] = "copy"
      [] OTHER -> TRUE

LEMMA UploadDirectoryStep ==
    ASSUME TypeInv, pc # "exit", NEW p \in 1 .. Len(Turns), UploadDirectory(p)
    PROVE  \E printed \in Outcomes :
               /\ Uploads(printed, p)
               /\ printed = "finished" => Placed(sends, remote'[Node], p)
<1>. DEFINE Goal == \E printed \in Outcomes :
                       /\ Uploads(printed, p)
                       /\ printed = "finished" => Placed(sends, remote'[Node], p)
<1>0. p \in Depths /\ p + 1 \in Depths /\ p - 1 \in Depths
  BY LengthType
<1>1. {"copy", "dir", "last", "part", "merged"} \subseteq RemoteEntries
  BY DEF RemoteEntries, RemoteFiles, RemoteDirs
<1>2. "failed" \in Outcomes /\ "finished" \in Outcomes
  BY DEF Outcomes
<1>3. CASE FailsEarly(p)
  BY <1>3, FailsEarlyStep
<1>4. ASSUME UNCHANGED <<local, held>>, StoresNothing("failed", p)
      PROVE  Goal
  BY <1>2, <1>4, StoresNothingStep
<1>5. ASSUME UNCHANGED <<local, held>>, NEW at \in {p, p + 1},
             NEW whole \in RemoteEntries, NEW part \in RemoteEntries,
             Stores(at, whole, part, p),
             remote'[Node][at] = whole => Placed(sends, remote'[Node], p)
      PROVE  Goal
  <2>1. PICK printed \in Outcomes :
            Uploads(printed, p) /\ (printed = "finished" => remote'[Node][at] = whole)
    BY <1>0, <1>5, StoresStep
  <2>. QED
    BY <1>5, <2>1
<1>6. CASE UNCHANGED <<local, held>> /\ sends = "itself" /\ SendItself(p)
  <2>. DEFINE at == IF IsDir(p) THEN p + 1 ELSE p
  <2>1. Stores(at, "copy", "dir", p) \/ StoresNothing("failed", p)
    BY <1>6 DEF SendItself, Failed
  <2>2. at \in {p, p + 1}
    OBVIOUS
  <2>. HIDE DEF at
  <2>3. remote'[Node][at] = "copy" => Placed(sends, remote'[Node], p)
    BY <1>6, <2>2 DEF Placed
  <2>. QED
    BY <1>1, <1>4, <1>5, <1>6, <2>1, <2>2, <2>3
<1>7. CASE /\ UNCHANGED <<local, held>>
           /\ sends = "nothing" /\ StoresNothing("finished", p)
  BY <1>2, <1>7, StoresNothingStep DEF Placed
<1>8. CASE /\ UNCHANGED <<local, held>>
           /\ sends \in {"files", "dirs", "mixed"} /\ SendEntries(p)
  <2>1. CASE Stores(p, "copy", "dir", p)
    <3>1. remote'[Node][p] = "copy" => Placed(sends, remote'[Node], p)
      BY <1>8 DEF Placed
    <3>. QED
      BY <1>1, <1>5, <1>8, <2>1, <3>1
  <2>2. CASE sends = "files" /\ Stores(p, "last", "part", p)
    <3>1. remote'[Node][p] = "last" => Placed(sends, remote'[Node], p)
      BY <2>2 DEF Placed
    <3>. QED
      BY <1>1, <1>5, <1>8, <2>2, <3>1
  <2>3. CASE sends = "dirs" /\ Stores(p, "merged", "merged", p)
    <3>1. remote'[Node][p] = "merged" => Placed(sends, remote'[Node], p)
      BY <2>3 DEF Placed
    <3>. QED
      BY <1>1, <1>5, <1>8, <2>3, <3>1
  <2>4. ASSUME NEW first \in {"last", "merged"}, NextTurn("failed", p),
               remote' = [remote EXCEPT ![Node][p] = first]
        PROVE  Goal
    <3>1. Uploads("failed", p)
      BY <1>0, <1>1, <1>8, <2>4, StoresRemote DEF Uploads
    <3>. QED
      BY <1>2, <3>1
  <2>5. CASE StoresNothing("failed", p)
    BY <1>4, <1>8, <2>5
  <2>6. \/ Stores(p, "copy", "dir", p)
        \/ sends = "files" /\ Stores(p, "last", "part", p)
        \/ sends = "dirs" /\ Stores(p, "merged", "merged", p)
        \/ /\ NextTurn("failed", p)
           /\ \E first \in {"last", "merged"} : remote' = [remote EXCEPT ![Node][p] = first]
        \/ StoresNothing("failed", p)
    BY <1>8 DEF SendEntries, Failed
  <2>. QED
    BY <2>1, <2>2, <2>3, <2>4, <2>5, <2>6
<1>. QED
  BY <1>3, <1>6, <1>7, <1>8 DEF UploadDirectory

LEMMA DownloadFileStep ==
    ASSUME TypeInv, pc # "exit", NEW p \in Depths, DownloadFile(p)
    PROVE  \E printed \in Outcomes :
               Downloads(printed, p) /\ (printed = "finished" => local'[p] = Node)
<1>1. local \in LocalFilesType /\ Node \in LocalEntries /\ "part" \in LocalEntries
  BY PathTypes DEF TypeInv, TypeOK, LocalFilesType, LocalEntries, LocalFiles
<1>2. CASE FailsEarly(p)
  BY <1>2, FailsEarlyStep
<1>3. CASE NextTurn("failed", p) /\ UNCHANGED <<remote, local, held>>
  BY <1>1, <1>3 DEF Downloads, Outcomes
<1>4. ASSUME NEW e \in LocalEntries, local' = [local EXCEPT ![p] = e], local[p] # "dir"
      PROVE  /\ local' \in LocalFilesType /\ local'[p] = e
             /\ \A d \in Depths : local'[d] = local[d] \/ (d = p /\ local[d] # "dir")
  BY <1>1, <1>4 DEF LocalFilesType
<1>5. CASE /\ UNCHANGED <<remote, held>> /\ local[p] # "dir"
           /\ local' = [local EXCEPT ![p] = Node] /\ NextTurn("finished", p)
  BY <1>1, <1>4, <1>5 DEF Downloads, Outcomes
<1>6. CASE /\ UNCHANGED <<remote, held>> /\ local[p] # "dir"
           /\ local' = [local EXCEPT ![p] = "part"] /\ NextTurn("failed", p)
  BY <1>1, <1>4, <1>6 DEF Downloads, Outcomes
<1>. QED
  BY <1>2, <1>3, <1>5, <1>6 DEF DownloadFile, Failed

\* The turn ends; a directory may have become the entry of the one at p, and the
\* node's files may have been written over those in it.
DownloadsBelow(printed, p) ==
    /\ NextTurn(printed, p) /\ UNCHANGED remote
    /\ local' \in LocalFilesType /\ held' \in HeldType
    /\ \A d \in Depths : local'[d] = local[d]
                           \/ (d = p + 1 /\ local[d] = "none" /\ local'[d] = "dir")
    /\ \A d \in Depths : held'[d] = held[d] \/ held'[d] \in {"part", Node}

LEMMA DownloadDirectoryStep ==
    ASSUME TypeInv, pc # "exit", NEW p \in 1 .. Len(Turns), DownloadDirectory(p)
    PROVE  \E printed \in Outcomes :
               /\ DownloadsBelow(printed, p)
               /\ printed = "finished" => local'[p + 1] = "dir" /\ held'[p + 1] = Node
<1>1. local \in LocalFilesType /\ held \in HeldType /\ Node \in Nodes /\ p + 1 \in Depths
  BY PathTypes DEF TypeInv, TypeOK, LocalFilesType, LocalEntries, HeldType
<1>2. CASE FailsEarly(p)
  BY <1>1, <1>2 DEF FailsEarly, Failed, DownloadsBelow, Outcomes
<1>3. CASE NextTurn("failed", p) /\ UNCHANGED <<remote, local, held>>
  BY <1>1, <1>3 DEF DownloadsBelow, Outcomes
<1>4. ASSUME local[p + 1] \in {"none", "dir"}, local' = [local EXCEPT ![p + 1] = "dir"]
      PROVE  /\ local' \in LocalFilesType /\ local'[p + 1] = "dir"
             /\ \A d \in Depths : local'[d] = local[d]
                                    \/ (d = p + 1 /\ local[d] = "none" /\ local'[d] = "dir")
  BY <1>1, <1>4 DEF LocalFilesType, LocalEntries
<1>5. ASSUME NEW e \in {"part", Node}, held' = [held EXCEPT ![p + 1] = e]
      PROVE  /\ held' \in HeldType /\ held'[p + 1] = e
             /\ \A d \in Depths : held'[d] = held[d] \/ held'[d] \in {"part", Node}
  BY <1>1, <1>5 DEF HeldType
<1>6. CASE /\ UNCHANGED remote /\ local[p + 1] \in {"none", "dir"}
           /\ local' = [local EXCEPT ![p + 1] = "dir"]
           /\ held' = [held EXCEPT ![p + 1] = Node] /\ NextTurn("finished", p)
  BY <1>4, <1>5, <1>6 DEF DownloadsBelow, Outcomes
<1>7. CASE /\ UNCHANGED remote /\ local[p + 1] \in {"none", "dir"}
           /\ local' = [local EXCEPT ![p + 1] = "dir"]
           /\ held' \in {held, [held EXCEPT ![p + 1] = "part"]} /\ NextTurn("failed", p)
  <2>1. held' \in HeldType /\ \A d \in Depths : held'[d] = held[d] \/ held'[d] \in {"part", Node}
    BY <1>1, <1>5, <1>7
  <2>. QED
    BY <1>4, <1>7, <2>1 DEF DownloadsBelow, Outcomes
<1>. QED
  BY <1>2, <1>3, <1>6, <1>7 DEF DownloadDirectory, Failed

-----------------------------------------------------------------------------
(* The invariant                                                            *)

LEMMA TypeStep == TypeInv /\ [Next]_vars => TypeInv'
<1>. SUFFICES ASSUME TypeInv, [Next]_vars PROVE TypeInv'
  OBVIOUS
<1>. USE DEF TypeInv
<1>1. ASSUME pc # "exit", NEW printed \in Reports, NEW p \in Depths, NextTurn(printed, p),
             UNCHANGED <<direction, sends>>, remoteType' \in {"none", "dir", "file"},
             remotePath' \in 1 .. turn + 1, localPath' \in 1 .. turn + 1,
             remote' \in RemoteType, local' \in LocalFilesType, held' \in HeldType
      PROVE  TypeInv'
  <2>1. /\ report' \in [Nodes -> Reports] /\ named' \in [Nodes -> Depths]
        /\ turn' = turn + 1 /\ turn' \in 1 .. Len(Turns) + 1
        /\ pc' \in {"remote", "exit"} /\ InTurn'
    BY <1>1, NextTurnTypes
  <2>2. remotePath' \in 1 .. turn' /\ localPath' \in 1 .. turn'
    BY <1>1, <2>1
  <2>. QED
    BY <1>1, <2>1, <2>2 DEF TypeOK, RemoteType, RemoteEntries, LocalFilesType, LocalEntries, HeldType
<1>2. /\ remote \in RemoteType /\ local \in LocalFilesType /\ held \in HeldType
      /\ remotePath \in 1 .. turn + 1 /\ localPath \in 1 .. turn + 1
  BY DEF TypeOK, RemoteType, RemoteEntries, LocalFilesType, LocalEntries, HeldType
<1>3. Unprocessable \in Reports /\ "finished" \in Reports
  BY DEF Unprocessable, Reports
<1>4. CASE TypeOfRemotePath
  <2>1. /\ pc = "remote"
        /\ UNCHANGED <<direction, sends, remotePath, localPath, remote, local, held>>
    BY <1>4 DEF TypeOfRemotePath
  <2>2. CASE /\ remoteType' = TypeOf(remote[Node][remotePath]) /\ pc' = "local"
             /\ UNCHANGED <<turn, report, named>>
    BY <2>1, <2>2 DEF TypeOK, InTurn, TypeOf
  <2>3. CASE NextTurn(Unprocessable, remotePath) /\ UNCHANGED remoteType
    <3>1. remotePath \in Depths /\ remoteType \in {"none", "dir", "file"}
      BY <2>1, PathTypes DEF TypeOK
    <3>. QED
      BY <1>1, <1>2, <1>3, <2>1, <2>3, <3>1
  <2>. QED
    BY <1>4, <2>2, <2>3 DEF TypeOfRemotePath
<1>5. CASE ShellPanics
  BY <1>5 DEF ShellPanics, TypeOK, InTurn
<1>6. CASE TypeOfLocalPath
  <2>1. /\ pc = "local"
        /\ UNCHANGED <<direction, sends, remoteType, remotePath, localPath, remote, local, held>>
    BY <1>6 DEF TypeOfLocalPath
  <2>2. CASE pc' = "transfer" /\ UNCHANGED <<turn, report, named>>
    BY <2>1, <2>2 DEF TypeOK, InTurn
  <2>3. CASE NextTurn(Unprocessable, localPath)
    <3>1. localPath \in Depths /\ remoteType \in {"none", "dir", "file"}
      BY <2>1, PathTypes DEF TypeOK
    <3>. QED
      BY <1>1, <1>2, <1>3, <2>1, <2>3, <3>1
  <2>. QED
    BY <1>6, <2>2, <2>3 DEF TypeOfLocalPath
<1>7. CASE Up
  <2>1. /\ pc = "transfer" /\ UNCHANGED <<direction, sends, remoteType, localPath>>
        /\ remoteType' \in {"none", "dir", "file"}
    BY <1>7 DEF Up, InTheWay, TypeOK
  <2>2. CASE Critical /\ UNCHANGED <<remotePath, remote, local, held>>
    BY <2>1, <2>2 DEF Critical, TypeOK, InTurn
  <2>3. remotePath + 1 \in Depths \ {0} /\ remotePath \in Depths \ {0}
        /\ remotePath \in 1 .. Len(Turns) /\ remotePath + 1 \in 1 .. turn + 1
    BY <2>1, PathTypes DEF TypeOK
  <2>4. ASSUME NEW printed \in Outcomes, NEW p \in Depths, Uploads(printed, p),
               remotePath' \in 1 .. turn + 1
        PROVE  TypeInv'
    BY <1>1, <1>2, <2>1, <2>4, OutcomesAreReports DEF Uploads
  <2>5. CASE UploadDirectory(remotePath) /\ UNCHANGED remotePath
    <3>1. PICK printed \in Outcomes : Uploads(printed, remotePath)
      BY <2>1, <2>3, <2>5, UploadDirectoryStep
    <3>. QED
      BY <1>2, <2>3, <2>4, <2>5, <3>1
  <2>6. CASE remotePath' \in {remotePath, remotePath + 1} /\ UploadFile(remotePath')
    <3>1. remotePath' \in 1 .. turn + 1 /\ remotePath' \in Depths \ {0}
      BY <1>2, <2>3, <2>6
    <3>2. PICK printed \in Outcomes : Uploads(printed, remotePath')
      BY <2>1, <2>6, <3>1, UploadFileStep
    <3>. QED
      BY <2>4, <3>1, <3>2
  <2>. QED
    BY <1>7, <2>2, <2>5, <2>6 DEF Up, InTheWay
<1>8. CASE Down
  <2>1. /\ pc = "transfer" /\ UNCHANGED <<direction, sends, remoteType, remotePath>>
        /\ remoteType' \in {"none", "dir", "file"}
    BY <1>8 DEF Down, TypeOK
  <2>2. CASE Critical /\ UNCHANGED <<localPath, remote, local, held>>
    BY <2>1, <2>2 DEF Critical, TypeOK, InTurn
  <2>3. /\ localPath + 1 \in Depths /\ localPath \in Depths
        /\ localPath \in 1 .. Len(Turns) /\ localPath + 1 \in 1 .. turn + 1
    BY <2>1, PathTypes DEF TypeOK
  <2>4. CASE DownloadFile(localPath + 1) /\ KeptPath
    <3>1. PICK printed \in Outcomes : Downloads(printed, localPath + 1)
      BY <2>1, <2>3, <2>4, DownloadFileStep
    <3>2. localPath' = localPath + 1 /\ remote' = remote /\ held' = held /\ local' \in LocalFilesType
      BY <2>4, <3>1 DEF Downloads, KeptPath
    <3>. QED
      BY <1>1, <1>2, <2>1, <2>3, <3>1, <3>2, OutcomesAreReports DEF Downloads
  <2>5. CASE DownloadDirectory(localPath) /\ UNCHANGED localPath
    <3>1. PICK printed \in Outcomes : DownloadsBelow(printed, localPath)
      BY <2>1, <2>3, <2>5, DownloadDirectoryStep
    <3>. QED
      BY <1>1, <1>2, <2>1, <2>3, <2>5, <3>1, OutcomesAreReports DEF DownloadsBelow
  <2>6. CASE DownNothing
    BY <1>1, <1>2, <1>3, <2>1, <2>3, <2>6 DEF DownNothing
  <2>. QED
    BY <1>8, <2>2, <2>4, <2>5, <2>6 DEF Down, DownFile, DownDirectory
<1>9. CASE UNCHANGED vars
  BY <1>9 DEF vars, TypeOK, InTurn
<1>. QED
  BY <1>4, <1>5, <1>6, <1>7, <1>8, <1>9 DEF Next, Steps, Ended

\* The variables keep their types, and no path is appended to more often than
\* there were turns (pkg/scp.go).
THEOREM TypesHold == Spec => []TypeOK
<1>1. TypeInv => TypeOK
  BY DEF TypeInv
<1>. QED
  BY <1>1, InitTypes, TypeStep, PTL DEF Spec

-----------------------------------------------------------------------------
(* Downloads                                                                *)

\* What a step of a download makes of the report of n.
DownReport(n) ==
    \/ /\ report[n] = "finished" /\ named'[n] = named[n]
       /\ turn' = turn \/ n # Node
    \/ TypeOf(remote[n][1]) = "none"
    \/ TypeOf(remote[n][1]) = "file" /\ local'[named'[n]] = n
    \/ /\ TypeOf(remote[n][1]) = "dir" /\ named'[n] \in 1 .. Len(Turns)
       /\ local'[named'[n] + 1] = "dir" /\ held'[named'[n] + 1] = n

\* A step of a download from one path that never changes: what it does to the
\* files here, and to the reports.
LEMMA DownStep ==
    ASSUME ScpInv, Next, direction = "down"
    PROVE  /\ UNCHANGED <<direction, sends, remotePath, remote>>
           /\ localPath' \in {localPath, localPath + 1}
           /\ \A d \in Depths : local'[d] # local[d] =>
                  local[d] # "dir" /\ d > localPath /\ (local'[d] = "dir" \/ d <= localPath')
           /\ \/ turn' = turn /\ held' = held
              \/ /\ turn' = turn + 1 /\ turn \in 1 .. Len(Turns)
                 /\ \A d \in Depths : held'[d] = held[d] \/ held'[d] \in {"part", Node}
           /\ pc' \in {"local", "transfer"} => remoteType' = TypeOf(remote'[Node'][1])
           /\ \A n \in Nodes : report'[n] = "finished" => DownReport(n)
<1>. USE DEF ScpInv, TypeInv
<1>0. /\ Len(Turns) \in Nat /\ turn \in Nat /\ localPath \in Nat
      /\ pc # "exit" => turn \in 1 .. Len(Turns) /\ localPath + 1 \in Depths
             /\ localPath \in 1 .. Len(Turns) /\ Node \in Nodes /\ localPath \in Depths
             /\ remotePath \in Depths
  BY LengthType, PathTypes DEF TypeOK
<1>1. ASSUME pc # "exit", NEW printed \in Reports, NEW p \in Depths, NextTurn(printed, p)
      PROVE  /\ ~(pc' \in {"local", "transfer"}) /\ turn' = turn + 1
             /\ turn \in 1 .. Len(Turns)
             /\ \A n \in Nodes : n # Node => report'[n] = report[n] /\ named'[n] = named[n]
             /\ report'[Node] = printed /\ named'[Node] = p
  BY <1>0, <1>1, NextTurnTypes
<1>2. ASSUME UNCHANGED <<turn, report, named>>
      PROVE  \A n \in Nodes : report'[n] = "finished" => DownReport(n)
  BY <1>2 DEF DownReport
<1>3. CASE /\ UNCHANGED <<direction, sends, turn, remotePath, localPath, remote, local, held,
                          report, named>>
           /\ pc' \in {"local", "transfer"} => remoteType' = TypeOf(remote[Node][1])
  BY <1>0, <1>2, <1>3 DEF Node
<1>4. CASE /\ pc # "exit"
           /\ UNCHANGED <<direction, sends, remotePath, localPath, remote, local, held>>
           /\ \E p \in Depths : NextTurn(Unprocessable, p)
  <2>1. Unprocessable \in Reports /\ Unprocessable # "finished"
    BY DEF Unprocessable, Reports
  <2>2. /\ ~(pc' \in {"local", "transfer"}) /\ turn' = turn + 1 /\ turn \in 1 .. Len(Turns)
        /\ \A n \in Nodes : n # Node => report'[n] = report[n] /\ named'[n] = named[n]
        /\ report'[Node] # "finished"
    BY <1>1, <1>4, <2>1
  <2>3. \A n \in Nodes : report'[n] = "finished" => DownReport(n)
    BY <2>2 DEF DownReport
  <2>. QED
    BY <1>4, <2>2, <2>3
<1>5. CASE TypeOfRemotePath
  BY <1>0, <1>3, <1>4, <1>5 DEF TypeOfRemotePath, DownInv
<1>6. CASE ShellPanics
  BY <1>3, <1>6 DEF ShellPanics
<1>7. CASE TypeOfLocalPath
  BY <1>0, <1>3, <1>4, <1>7 DEF TypeOfLocalPath, DownInv
<1>8. CASE Up
  BY <1>8 DEF Up, InTheWay
<1>9. CASE Down
  <2>1. /\ pc = "transfer" /\ UNCHANGED <<direction, sends, remoteType, remotePath>>
        /\ remoteType = TypeOf(remote[Node][1])
    BY <1>9 DEF Down, DownInv
  <2>2. CASE Critical /\ UNCHANGED <<localPath, remote, local, held>>
    BY <1>3, <2>1, <2>2 DEF Critical
  <2>3. CASE remoteType = "file" /\ DownloadFile(localPath + 1) /\ KeptPath
    <3>1. PICK printed \in Outcomes : /\ Downloads(printed, localPath + 1)
                                      /\ printed = "finished" => local'[localPath + 1] = Node
      BY <1>0, <2>1, <2>3, DownloadFileStep
    <3>2. localPath' = localPath + 1 /\ UNCHANGED <<remote, held>>
      BY <2>3, <3>1 DEF KeptPath, Downloads
    <3>3. \A d \in Depths : local'[d] # local[d] => d = localPath + 1 /\ local[d] # "dir"
      BY <3>1 DEF Downloads
    <3>4. /\ ~(pc' \in {"local", "transfer"}) /\ turn' = turn + 1 /\ turn \in 1 .. Len(Turns)
          /\ \A n \in Nodes : n # Node => report'[n] = report[n] /\ named'[n] = named[n]
          /\ report'[Node] = printed /\ named'[Node] = localPath + 1
      BY <1>0, <1>1, <2>1, <3>1, OutcomesAreReports DEF Downloads
    <3>5. \A n \in Nodes : report'[n] = "finished" => DownReport(n)
      BY <2>1, <2>3, <3>1, <3>4 DEF DownReport
    <3>. QED
      BY <1>0, <2>1, <3>2, <3>3, <3>4, <3>5
  <2>4. CASE remoteType = "dir" /\ DownloadDirectory(localPath) /\ UNCHANGED localPath
    <3>1. PICK printed \in Outcomes :
              /\ DownloadsBelow(printed, localPath)
              /\ printed = "finished" =>
                     local'[localPath + 1] = "dir" /\ held'[localPath + 1] = Node
      BY <1>0, <2>1, <2>4, DownloadDirectoryStep
    <3>2. /\ ~(pc' \in {"local", "transfer"}) /\ turn' = turn + 1 /\ turn \in 1 .. Len(Turns)
          /\ \A n \in Nodes : n # Node => report'[n] = report[n] /\ named'[n] = named[n]
          /\ report'[Node] = printed /\ named'[Node] = localPath
      BY <1>0, <1>1, <2>1, <3>1, OutcomesAreReports DEF DownloadsBelow
    <3>3. \A n \in Nodes : report'[n] = "finished" => DownReport(n)
      BY <1>0, <2>1, <2>4, <3>1, <3>2 DEF DownReport
    <3>4. \A d \in Depths : local'[d] # local[d] =>
              local[d] # "dir" /\ d > localPath /\ local'[d] = "dir"
      BY <1>0, <3>1 DEF DownloadsBelow
    <3>5. /\ UNCHANGED remote
          /\ \A d \in Depths : held'[d] = held[d] \/ held'[d] \in {"part", Node}
      BY <3>1 DEF DownloadsBelow
    <3>. QED
      BY <2>1, <2>4, <3>2, <3>3, <3>4, <3>5
  <2>5. CASE DownNothing
    <3>1. /\ remoteType = "none" /\ NextTurn("finished", localPath)
          /\ UNCHANGED <<localPath, remote, local, held>>
      BY <2>5 DEF DownNothing
    <3>2. /\ ~(pc' \in {"local", "transfer"}) /\ turn' = turn + 1 /\ turn \in 1 .. Len(Turns)
          /\ \A n \in Nodes : n # Node => report'[n] = report[n] /\ named'[n] = named[n]
      BY <1>0, <1>1, <2>1, <3>1 DEF Reports
    <3>3. \A n \in Nodes : report'[n] = "finished" => DownReport(n)
      BY <2>1, <3>1, <3>2 DEF DownReport
    <3>. QED
      BY <2>1, <3>1, <3>2, <3>3
  <2>. QED
    BY <1>9, <2>2, <2>3, <2>4, <2>5 DEF Down, DownFile, DownDirectory
<1>10. CASE Ended
  <2>1. pc' = pc /\ pc \in {"exit", "panic"} /\ UNCHANGED vars
    BY <1>10 DEF Ended, vars
  <2>. QED
    BY <1>3, <2>1 DEF vars
<1>. QED
  BY <1>5, <1>6, <1>7, <1>8, <1>9, <1>10 DEF Next, Steps

-----------------------------------------------------------------------------
(* Uploads                                                                  *)

\* What a step of an upload makes of the report of n.
UpReport(n) ==
    \/ report[n] = "finished" /\ remote'[n] = remote[n] /\ named'[n] = named[n]
    \/ LocalType = "file" /\ "new" \in {remote'[n][named'[n]], remote'[n][named'[n] - 1]}
    \/ LocalType = "dir" /\ Placed(sends, remote'[n], named'[n])

LEMMA UpStep ==
    ASSUME TypeInv, Next, direction = "up"
    PROVE  /\ UNCHANGED <<direction, sends, localPath, local>>
           /\ \A n \in Nodes : report'[n] = "finished" => UpReport(n)
<1>. USE DEF TypeInv
<1>1. ASSUME pc # "exit", NEW printed \in Reports, NEW p \in Depths, NextTurn(printed, p)
      PROVE  /\ \A n \in Nodes : n # Node => report'[n] = report[n] /\ named'[n] = named[n]
             /\ report'[Node] = printed /\ named'[Node] = p
  BY <1>1, NextTurnTypes
<1>2. CASE UNCHANGED <<direction, sends, localPath, remote, local, report, named>>
  BY <1>2 DEF UpReport
<1>3. CASE /\ pc # "exit" /\ UNCHANGED <<direction, sends, localPath, remote, local>>
           /\ \E p \in Depths : NextTurn(Unprocessable, p)
  <2>1. Unprocessable \in Reports /\ Unprocessable # "finished"
    BY DEF Unprocessable, Reports
  <2>2. /\ \A n \in Nodes : n # Node => report'[n] = report[n] /\ named'[n] = named[n]
        /\ report'[Node] # "finished"
    BY <1>1, <1>3, <2>1
  <2>. QED
    BY <1>3, <2>2 DEF UpReport
<1>4. CASE TypeOfRemotePath
  BY <1>2, <1>3, <1>4, PathTypes DEF TypeOfRemotePath
<1>5. CASE ShellPanics
  BY <1>2, <1>5 DEF ShellPanics
<1>6. CASE TypeOfLocalPath
  BY <1>2, <1>3, <1>6, PathTypes DEF TypeOfLocalPath
<1>7. CASE Up
  <2>1. pc = "transfer" /\ UNCHANGED <<direction, sends, remoteType, localPath>>
    BY <1>7 DEF Up, InTheWay
  <2>2. CASE Critical /\ UNCHANGED <<remotePath, remote, local, held>>
    BY <1>2, <2>1, <2>2 DEF Critical
  <2>3. ASSUME NEW printed \in Outcomes, NEW p \in Depths, Uploads(printed, p)
        PROVE  /\ UNCHANGED local
               /\ \A n \in Nodes : n # Node =>
                      report'[n] = report[n] /\ named'[n] = named[n] /\ remote'[n] = remote[n]
               /\ report'[Node] = printed /\ named'[Node] = p
    BY <1>1, <2>1, <2>3, OutcomesAreReports DEF Uploads
  <2>4. /\ remotePath \in 1 .. Len(Turns) /\ remotePath \in Depths \ {0}
        /\ remotePath + 1 \in Depths \ {0}
    BY <2>1, PathTypes
  <2>5. CASE LocalType = "dir" /\ UploadDirectory(remotePath)
    <3>1. PICK printed \in Outcomes :
              /\ Uploads(printed, remotePath)
              /\ printed = "finished" => Placed(sends, remote'[Node], remotePath)
      BY <2>1, <2>4, <2>5, UploadDirectoryStep
    <3>2. /\ UNCHANGED local
          /\ \A n \in Nodes : n # Node =>
                 report'[n] = report[n] /\ named'[n] = named[n] /\ remote'[n] = remote[n]
          /\ report'[Node] = printed /\ named'[Node] = remotePath
      BY <2>3, <2>4, <3>1
    <3>. QED
      BY <2>1, <2>5, <3>1, <3>2 DEF UpReport
  <2>6. CASE /\ LocalType = "file" /\ remotePath' \in {remotePath, remotePath + 1}
             /\ UploadFile(remotePath')
    <3>1. remotePath' \in Depths \ {0}
      BY <2>4, <2>6
    <3>2. PICK printed \in Outcomes :
              /\ Uploads(printed, remotePath')
              /\ printed = "finished" =>
                     "new" \in {remote'[Node][remotePath'], remote'[Node][remotePath' - 1]}
      BY <2>1, <2>6, <3>1, UploadFileStep
    <3>3. /\ UNCHANGED local
          /\ \A n \in Nodes : n # Node =>
                 report'[n] = report[n] /\ named'[n] = named[n] /\ remote'[n] = remote[n]
          /\ report'[Node] = printed /\ named'[Node] = remotePath'
      BY <2>3, <3>1, <3>2
    <3>. QED
      BY <2>1, <2>6, <3>2, <3>3 DEF UpReport
  <2>. QED
    BY <1>7, <2>2, <2>5, <2>6 DEF Up, InTheWay
<1>8. CASE Down
  BY <1>8 DEF Down
<1>9. CASE Ended
  BY <1>2, <1>9 DEF Ended, vars
<1>. QED
  BY <1>4, <1>5, <1>6, <1>7, <1>8, <1>9 DEF Next, Steps

-----------------------------------------------------------------------------
(* Finished is done, and stays so                                           *)

LEMMA NotNodes == "none" \notin Nodes /\ "dir" \notin Nodes /\ "old" \notin Nodes
BY ScpCommandAssumption

LEMMA InitInv == Init => ScpInv /\ FinishedIsDone
<1>. SUFFICES ASSUME Init PROVE ScpInv /\ FinishedIsDone
  OBVIOUS
<1>1. TypeInv
  BY InitTypes
<1>2. DownInv
  BY DEF Init, DownInv
<1>3. local \in [Depths -> {"none", "dir", "old"}]
  BY DEF Init, Trees
<1>4. AboveInv
  BY <1>3, NotNodes DEF AboveInv
<1>5. FinishedIsDone /\ NamedInv
  BY DEF Init, FinishedIsDone, NamedInv
<1>. QED
  BY <1>1, <1>2, <1>4, <1>5 DEF ScpInv

LEMMA KeptStep == ScpInv /\ [Next]_vars =>
                      \A d \in Depths : local[d] \in Nodes => local'[d] = local[d]
<1>. SUFFICES ASSUME ScpInv, [Next]_vars, NEW d \in Depths, local[d] \in Nodes
              PROVE  local'[d] = local[d]
  OBVIOUS
<1>1. CASE UNCHANGED vars
  BY <1>1 DEF vars
<1>2. CASE Next /\ direction = "up"
  BY <1>2, UpStep DEF ScpInv
<1>3. CASE Next /\ direction = "down"
  <2>1. d <= localPath /\ d \in Nat /\ localPath \in Nat
    BY LengthType DEF ScpInv, AboveInv, TypeInv, TypeOK
  <2>2. local'[d] # local[d] => d > localPath
    BY <1>3, DownStep
  <2>. QED
    BY <2>1, <2>2
<1>. QED
  BY <1>1, <1>2, <1>3 DEF ScpInv, TypeInv, TypeOK

\* Another node's turn becomes a later one.
LEMMA LaterStep ==
    ASSUME NEW n \in Nodes, turn \in 1 .. Len(Turns), turn' = turn + 1, n # Node
    PROVE  LaterTurns(n) \subseteq LaterTurns(n)' /\ turn \in LaterTurns(n)'
<1>1. LaterTurns(n)' = {i \in 1 .. turn : \A j \in i .. turn : Turns[j] # n}
  BY LengthType DEF LaterTurns
<1>2. Turns[turn] # n
  BY DEF Node
<1>. QED
  BY <1>1, <1>2, LengthType DEF LaterTurns

\* The directory of n stays here; only a later turn writes over its files.
LEMMA HereStep ==
    ASSUME ScpInv, Next, direction = "down", NEW n \in Nodes, NEW p \in 1 .. Len(Turns),
           DirectoryHere(n, p), turn' = turn \/ n # Node
    PROVE  /\ local'[p + 1] = "dir"
           /\ \/ held'[p + 1] = n
              \/ \E i \in LaterTurns(n)' : held'[p + 1] \in {"part", Turns[i]}
<1>1. p + 1 \in Depths
  BY LengthType
<1>2. local'[p + 1] = "dir"
  BY <1>1, DownStep DEF DirectoryHere
<1>3. CASE turn' = turn /\ held' = held
  BY <1>2, <1>3 DEF DirectoryHere, LaterTurns
<1>4. CASE /\ turn' = turn + 1 /\ turn \in 1 .. Len(Turns)
           /\ held'[p + 1] = held[p + 1] \/ held'[p + 1] \in {"part", Node}
  <2>1. n # Node
    BY <1>4, LengthType
  <2>2. LaterTurns(n) \subseteq LaterTurns(n)' /\ turn \in LaterTurns(n)'
    BY <1>4, <2>1, LaterStep
  <2>3. Turns[turn] = Node
    BY DEF Node
  <2>. QED
    BY <1>2, <1>4, <2>2, <2>3 DEF DirectoryHere
<1>. QED
  BY <1>1, <1>3, <1>4, DownStep

LEMMA InvStep == ScpInv /\ FinishedIsDone /\ [Next]_vars => ScpInv' /\ FinishedIsDone'
<1>. SUFFICES ASSUME ScpInv, FinishedIsDone, [Next]_vars PROVE ScpInv' /\ FinishedIsDone'
  OBVIOUS
<1>1. TypeInv'
  BY TypeStep DEF ScpInv
<1>2. CASE UNCHANGED vars
  <2>1. FinishedIsDone'
    BY <1>2 DEF vars, FinishedIsDone, FileThere, DirectoryThere, DirectoryHere, LaterTurns, LocalType
  <2>2. DownInv' /\ AboveInv' /\ NamedInv'
    BY <1>2 DEF vars, ScpInv, DownInv, AboveInv, NamedInv, Node
  <2>. QED
    BY <1>1, <2>1, <2>2 DEF ScpInv
<1>3. CASE Next /\ direction = "up"
  <2>1. /\ UNCHANGED <<direction, sends, localPath, local>>
        /\ \A n \in Nodes : report'[n] = "finished" => UpReport(n)
    BY <1>3, UpStep DEF ScpInv
  <2>2. LocalType' = LocalType
    BY <2>1 DEF LocalType, TypeOf
  <2>3. DownInv' /\ AboveInv' /\ NamedInv'
    BY <1>3, <2>1 DEF DownInv, AboveInv, NamedInv, ScpInv
  <2>4. FinishedIsDone'
    <3>. SUFFICES ASSUME NEW n \in Nodes, report'[n] = "finished"
                  PROVE  IF LocalType = "file"
                         THEN "new" \in {remote'[n][named'[n]], remote'[n][named'[n] - 1]}
                         ELSE Placed(sends, remote'[n], named'[n])
      BY <1>3, <2>1, <2>2 DEF FinishedIsDone, FileThere, DirectoryThere, Placed
    <3>1. CASE report[n] = "finished" /\ remote'[n] = remote[n] /\ named'[n] = named[n]
      BY <1>3, <3>1 DEF FinishedIsDone, FileThere, DirectoryThere, Placed
    <3>2. CASE ~(report[n] = "finished" /\ remote'[n] = remote[n] /\ named'[n] = named[n])
      BY <2>1, <3>2 DEF UpReport
    <3>. QED
      BY <3>1, <3>2
  <2>. QED
    BY <1>1, <2>3, <2>4 DEF ScpInv
<1>4. CASE Next /\ direction = "down"
  <2>1. /\ UNCHANGED <<direction, sends, remotePath, remote>>
        /\ localPath' \in {localPath, localPath + 1}
        /\ \A d \in Depths : local'[d] # local[d] =>
               d > localPath /\ (local'[d] = "dir" \/ d <= localPath')
        /\ pc' \in {"local", "transfer"} => remoteType' = TypeOf(remote'[Node'][1])
        /\ \A n \in Nodes : report'[n] = "finished" => DownReport(n)
    BY <1>4, DownStep
  <2>2. DownInv'
    BY <1>4, <2>1 DEF DownInv, ScpInv
  <2>3. AboveInv'
    <3>. SUFFICES ASSUME NEW d \in Depths, local'[d] \in Nodes PROVE d <= localPath'
      BY DEF AboveInv
    <3>1. d \in Nat /\ localPath \in Nat
      BY LengthType DEF ScpInv, TypeInv, TypeOK
    <3>2. CASE local'[d] = local[d]
      BY <2>1, <3>1, <3>2 DEF ScpInv, AboveInv
    <3>3. CASE local'[d] # local[d]
      BY <2>1, <3>3, NotNodes
    <3>. QED
      BY <3>2, <3>3
  <2>4. NamedInv'
    <3>. SUFFICES ASSUME NEW n \in Nodes, report'[n] = "finished", TypeOf(remote[n][1]) = "dir"
                  PROVE  named'[n] \in 1 .. Len(Turns)
      BY <1>4, <2>1 DEF NamedInv
    <3>. QED
      BY <1>4, <2>1 DEF DownReport, ScpInv, NamedInv
  <2>5. FinishedIsDone'
    <3>. SUFFICES ASSUME NEW n \in Nodes, report'[n] = "finished"
                  PROVE  CASE TypeOf(remote[n][1]) = "file" -> local'[named'[n]] = n
                           [] TypeOf(remote[n][1]) = "dir" ->
                                  /\ local'[named'[n] + 1] = "dir"
                                  /\ \/ held'[named'[n] + 1] = n
                                     \/ \E i \in LaterTurns(n)' :
                                            held'[named'[n] + 1] \in {"part", Turns[i]}
                           [] OTHER -> TRUE
      BY <1>4, <2>1 DEF FinishedIsDone, DirectoryHere
    <3>1. CASE /\ report[n] = "finished" /\ named'[n] = named[n]
               /\ turn' = turn \/ n # Node
      <4>1. CASE TypeOf(remote[n][1]) = "file"
        <5>1. local[named[n]] = n /\ named[n] \in Depths
          BY <1>4, <3>1, <4>1 DEF FinishedIsDone, ScpInv, TypeInv, TypeOK
        <5>. QED
          BY <3>1, <4>1, <5>1, KeptStep
      <4>2. CASE TypeOf(remote[n][1]) = "dir"
        <5>1. DirectoryHere(n, named[n]) /\ named[n] \in 1 .. Len(Turns)
          BY <1>4, <3>1, <4>2 DEF FinishedIsDone, ScpInv, NamedInv
        <5>. QED
          BY <1>4, <3>1, <4>2, <5>1, HereStep
      <4>. QED
        BY <4>1, <4>2
    <3>2. CASE ~(/\ report[n] = "finished" /\ named'[n] = named[n]
                 /\ turn' = turn \/ n # Node)
      BY <2>1, <3>2 DEF DownReport
    <3>. QED
      BY <3>1, <3>2
  <2>. QED
    BY <1>1, <2>2, <2>3, <2>4, <2>5 DEF ScpInv
<1>. QED
  BY <1>2, <1>3, <1>4 DEF ScpInv, TypeInv, TypeOK

\* What scp reports as finished is at the path that the report names, whatever the
\* paths have become in the turns before (pkg/scp.go:66 and 82 change them); and
\* when there is no directory for it, or a later turn has written over it, what is
\* there is what FileThere, DirectoryThere and DirectoryHere say.
THEOREM FinishedMeansDone == Spec => []FinishedIsDone
BY InitInv, InvStep, PTL DEF Spec

\* Until the transfer, what was found out about the remote path still holds.
CheckedInv ==
    pc \in {"local", "transfer"} => remoteType = TypeOf(remote[Node][remotePath])

LEMMA CheckedStep == TypeInv /\ CheckedInv /\ [Next]_vars => CheckedInv'
<1>. SUFFICES ASSUME TypeInv, CheckedInv, [Next]_vars PROVE CheckedInv'
  OBVIOUS
<1>1. CASE UNCHANGED vars
  BY <1>1 DEF vars, CheckedInv, Node
<1>2. CASE TypeOfRemotePath \/ TypeOfLocalPath
  BY <1>2 DEF TypeOfRemotePath, TypeOfLocalPath, NextTurn, CheckedInv, Node
<1>3. CASE ShellPanics
  BY <1>3 DEF ShellPanics, CheckedInv
<1>4. CASE Up \/ Down
  <2>1. pc' \notin {"local", "transfer"}
    BY <1>4 DEF Up, Down, DownFile, DownDirectory, DownNothing, UploadFile, UploadDirectory,
        DownloadFile, DownloadDirectory, FailsEarly, Stores, StoresNothing, SendItself,
        SendEntries, Critical, NextTurn
  <2>. QED
    BY <2>1 DEF CheckedInv
<1>. QED
  BY <1>1, <1>2, <1>3, <1>4 DEF Next, Steps, Ended

\* A turn changes the files of its own node only, and of that node none at the
\* path that it has checked.
LEMMA CheckedKept ==
    ASSUME TypeInv, CheckedInv, [Next]_vars, direction = "up", NEW n \in Nodes,
           TypeOf(remote[n][remotePath]) = "file"
    PROVE  remote'[n][remotePath] = remote[n][remotePath]
<1>1. CASE Up /\ ~InTheWay
  <2>1. n # Node
    BY <1>1 DEF Up, InTheWay, CheckedInv
  <2>2. remote' = remote \/ \E d, entry : remote' = [remote EXCEPT ![Node][d] = entry]
    BY <1>1 DEF Up, UploadFile, UploadDirectory, FailsEarly, Stores, StoresNothing,
        SendItself, SendEntries
  <2>. QED
    BY <2>1, <2>2 DEF TypeInv, TypeOK
<1>2. CASE UNCHANGED remote
  BY <1>2
<1>. QED
  BY <1>1, <1>2 DEF Next, Steps, Ended, vars, TypeOfRemotePath, TypeOfLocalPath, ShellPanics,
      Up, Down

\* No turn overwrites or spoils a file that an earlier one has downloaded, although
\* all of them were given one path (pkg/scp.go:82), nor one that it found at the
\* path it has checked for an upload (pkg/scp.go:63).
THEOREM FilesAreKept == Spec => FilesKept
<1>1. Init => CheckedInv
  BY DEF Init, CheckedInv
<1>2. ScpInv /\ CheckedInv /\ [Next]_vars =>
        [/\ \A d \in Depths : local[d] \in Nodes => local'[d] = local[d]
         /\ direction = "up" => \A n \in Nodes :
                TypeOf(remote[n][remotePath]) = "file" =>
                    remote'[n][remotePath] = remote[n][remotePath]]_vars
  BY KeptStep, CheckedKept DEF ScpInv
<1>3. ScpInv => TypeInv
  BY DEF ScpInv
<1>. QED
  BY <1>1, <1>2, <1>3, CheckedStep, InitInv, InvStep, PTL DEF Spec, FilesKept

-----------------------------------------------------------------------------
(* The turns come to an end.  That a step is taken as long as there is one  *)
(* is the fairness of FairSpec, and stays with TLC (EveryTurnReported).     *)

Printed == Reports \ {"none"}

\* The program ends within the turn.
Stops == pc' \in {"exit", "panic"} /\ UNCHANGED <<turn, report>>

\* A step goes on within the turn, ends it with a report, or ends the command.
LEMMA StepsOfTurn ==
    ASSUME Steps
    PROVE  /\ pc \notin {"exit", "panic"}
           /\ \/ pc = "remote" /\ pc' = "local" /\ UNCHANGED <<turn, report>>
              \/ pc = "local" /\ pc' = "transfer" /\ UNCHANGED <<turn, report>>
              \/ Stops
              \/ \E printed \in Printed : \E p : NextTurn(printed, p)
<1>1. {"unprocessable", "failed", "finished"} \subseteq Printed
  BY DEF Printed, Reports
<1>2. CASE TypeOfRemotePath
  BY <1>1, <1>2 DEF TypeOfRemotePath, Unprocessable
<1>3. CASE TypeOfLocalPath
  BY <1>1, <1>3 DEF TypeOfLocalPath, Unprocessable
<1>4. \A p : UploadFile(p) \/ UploadDirectory(p) \/ DownloadFile(p) \/ DownloadDirectory(p)
               => NextTurn("finished", p) \/ NextTurn("failed", p)
  BY DEF UploadFile, UploadDirectory, DownloadFile, DownloadDirectory, FailsEarly, Failed,
         Stores, StoresNothing, SendItself, SendEntries
<1>5. CASE Up
  BY <1>1, <1>4, <1>5 DEF Up, InTheWay, Critical, Stops
<1>6. CASE Down
  BY <1>1, <1>4, <1>6 DEF Down, DownFile, DownDirectory, DownNothing, Critical, Stops
<1>7. CASE ShellPanics
  BY <1>7 DEF ShellPanics, Stops
<1>. QED
  BY <1>2, <1>3, <1>5, <1>6, <1>7 DEF Steps

\* What is left: the turns after this one, and the steps of this one.
StepsLeft == CASE pc = "remote" -> 3 [] pc = "local" -> 2 [] OTHER -> 1
Remaining == IF pc \in {"exit", "panic"} THEN 0 ELSE 3 * (Len(Turns) - turn) + StepsLeft

LEMMA RemainingType == TypeInv => Remaining \in Nat
BY LengthType DEF TypeInv, TypeOK, InTurn, Remaining, StepsLeft

\* Each step of scp, a failing one included, brings the command nearer to its
\* end: at most three of them for each node and no loop among them
\* (pkg/scp.go:37-99, pkg/generic-cmd.go:64-68).
THEOREM TurnsAdvance ==
    Spec => [][{Remaining, Remaining'} \subseteq Nat /\ Remaining' < Remaining]_vars
<1>1. TypeInv /\ TypeInv' /\ [Next]_vars =>
          [{Remaining, Remaining'} \subseteq Nat /\ Remaining' < Remaining]_vars
  <2>. SUFFICES ASSUME TypeInv, TypeInv', Steps
                PROVE  {Remaining, Remaining'} \subseteq Nat /\ Remaining' < Remaining
    BY DEF Next, Ended
  <2>1. Remaining \in Nat /\ Remaining' \in Nat
    <3>1. StepsLeft' \in 1 .. 3 /\ Len(Turns) \in Nat
      BY LengthType DEF StepsLeft
    <3>2. turn' \in 1 .. Len(Turns) + 1 /\ (pc' \notin {"exit", "panic"} => turn' <= Len(Turns))
      BY DEF TypeInv, TypeOK, InTurn
    <3>3. Remaining' = IF pc' \in {"exit", "panic"} THEN 0 ELSE 3 * (Len(Turns) - turn') + StepsLeft'
      BY DEF Remaining
    <3>. QED
      BY <3>1, <3>2, <3>3, RemainingType
  <2>2. pc \notin {"exit", "panic"} /\ turn \in 1 .. Len(Turns) /\ Len(Turns) \in Nat
    BY StepsOfTurn, LengthType DEF TypeInv, TypeOK, InTurn
  <2>3. Remaining = 3 * (Len(Turns) - turn) + StepsLeft /\ StepsLeft \in 1 .. 3
    BY <2>2 DEF Remaining, StepsLeft
  <2>4. CASE pc = "remote" /\ pc' = "local" /\ UNCHANGED <<turn, report>>
    BY <2>2, <2>4 DEF Remaining, StepsLeft
  <2>5. CASE pc = "local" /\ pc' = "transfer" /\ UNCHANGED <<turn, report>>
    BY <2>2, <2>5 DEF Remaining, StepsLeft
  <2>6. CASE pc' \in {"exit", "panic"}
    <3>1. Remaining' = 0
      BY <2>6 DEF Remaining
    <3>. QED
      BY <2>1, <2>2, <2>3, <3>1
  <2>7. CASE pc' = "remote" /\ turn' = turn + 1
    <3>1. Remaining' = 3 * (Len(Turns) - (turn + 1)) + 3
      BY <2>7 DEF Remaining, StepsLeft
    <3>. QED
      BY <2>1, <2>2, <2>3, <3>1
  <2>. QED
    BY <2>1, <2>4, <2>5, <2>6, <2>7, StepsOfTurn DEF Stops, NextTurn
<1>2. Spec => []TypeInv
  BY InitTypes, TypeStep, PTL DEF Spec
<1>. QED
  BY <1>1, <1>2, PTL DEF Spec

EarlierReported == \A n \in 1 .. Len(Turns) : n < turn => report[Turns[n]] # "none"

\* Unless PrintCritical or a panic ends the program within a turn, each node has had its turn
\* when scp ends, and the turn was reported (pkg/scp.go:37-99,
\* pkg/generic-cmd.go:64-68): what EveryTurnReported says of the end.
THEOREM EndIsReported ==
    Spec => [](pc \in {"exit", "panic"} => turn <= Len(Turns) \/ \A n \in Nodes : report[n] # "none")
<1>1. Init => EarlierReported
  BY DEF Init, EarlierReported
<1>2. TypeInv /\ EarlierReported /\ [Next]_vars => EarlierReported'
  <2>. SUFFICES ASSUME TypeInv, EarlierReported, [Next]_vars PROVE EarlierReported'
    OBVIOUS
  <2>1. CASE UNCHANGED <<turn, report>>
    BY <2>1 DEF EarlierReported
  <2>2. ASSUME pc # "exit", NEW printed \in Printed, NEW p, NextTurn(printed, p)
        PROVE  EarlierReported'
    <3>1. turn \in 1 .. Len(Turns) /\ Len(Turns) \in Nat
      BY <2>2, LengthType DEF TypeInv, TypeOK, InTurn
    <3>2. report \in [Nodes -> Reports] /\ printed # "none"
      BY DEF TypeInv, TypeOK, Printed
    <3>3. turn' = turn + 1 /\ report' = [report EXCEPT ![Turns[turn]] = printed]
      BY <2>2 DEF NextTurn, Node
    <3>4. \A n \in 1 .. Len(Turns) : Turns[n] \in Nodes
      BY DEF Nodes
    <3>5. ASSUME NEW n \in 1 .. Len(Turns), n < turn'
          PROVE  report'[Turns[n]] # "none"
      <4>1. n < turn \/ n = turn
        BY <3>1, <3>3, <3>5
      <4>. QED
        BY <3>2, <3>3, <3>4, <4>1 DEF EarlierReported
    <3>. QED
      BY <3>5 DEF EarlierReported
  <2>. QED
    BY <2>1, <2>2, StepsOfTurn DEF Next, Ended, vars, Stops
<1>3. TypeInv /\ EarlierReported =>
          (pc \in {"exit", "panic"} => turn <= Len(Turns) \/ \A n \in Nodes : report[n] # "none")
  BY LengthType DEF TypeInv, TypeOK, EarlierReported, Nodes
<1>4. Spec => []TypeInv
  BY InitTypes, TypeStep, PTL DEF Spec
<1>. QED
  BY <1>1, <1>2, <1>3, <1>4, PTL DEF Spec
=============================================================================
