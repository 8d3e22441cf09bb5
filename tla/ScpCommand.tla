----------------------------- MODULE ScpCommand -----------------------------
(***************************************************************************)
(* kubespector scp (pkg/scp.go with the transfers of ssh/scp.go): one file *)
(* or directory is copied to, or from, several nodes, one after the other  *)
(* (module FanOut).  The turn of a node looks at what the remote and the   *)
(* local path are, and may append the name of the file to one of them; the *)
(* appended path is the one the next node's turn looks at.                 *)
(*                                                                         *)
(* A path is told by how often the name was appended: 1 is the path the    *)
(* user gave, 2 the entry of that name in it, and so on; 0 is the          *)
(* directory the given path lies in.  What a transfer stores under a       *)
(* missing directory is what ScpSession!OkMeansStored says.                *)
(***************************************************************************)
EXTENDS Integers, Sequences, FiniteSets

CONSTANTS
    Turns,      \* the nodes in the order of their turns
    Here,       \* the nodes that are the program's own (LocalOn)
    Faults      \* subset of AllFaults

AllFaults == {"call",       \* the question for the remote path fails
              "connect",    \* no connection for the transfer
              "transfer"}   \* the transfer fails, perhaps after it has begun

Nodes == {Turns[i] : i \in 1 .. Len(Turns)}

\* Without a node there is no turn; a node is not mistaken for what is at a path.
ASSUME ScpCommandAssumption ==
    /\ Len(Turns) \in Nat \ {0}
    /\ Faults \subseteq AllFaults
    /\ Nodes \cap {"none", "dir", "old", "part"} = {}

Depths == 0 .. Len(Turns) + 1

VARIABLES
    direction,  \* TargetArg: "up" or "down"
    sends,      \* what the upload of a directory sends: see Sent
    turn,       \* the current turn
    pc,         \* "remote", "local", "transfer", "exit", "panic"
    remoteType, \* what typeOfRemotePath returned in this turn
    remotePath, \* scpOpts.RemotePath
    localPath,  \* scpOpts.LocalPath
    remote,     \* remote[n][d]: what is at that path of node n
    local,      \* local[d]: what is at that path of this host
    held,       \* held[d]: the files of a node's directory that directory d has
    report,     \* report[n]: what the turn of n printed
    named       \* named[n]: the path that it named

vars == <<direction, sends, turn, pc, remoteType, remotePath, localPath,
          remote, local, held, report, named>>

\* The directory with its name; or, when the local path ends in a slash, its
\* entries only: none, files, directories, or both.
Sent == {"itself", "nothing", "files", "dirs", "mixed"}

\* An entry that is a file: one that was there before, an incomplete one, a copy
\* of the local file, or of the file of a node, and the last of several files
\* that were stored over each other.
RemoteFiles == {"old", "part", "new", "last"}
LocalFiles == {"old", "part"} \cup Nodes

\* A directory: any, one with a whole copy of the local one, and one in which the
\* entries of several directories were stored over each other.
RemoteDirs == {"dir", "copy", "merged"}

TypeOf(entry) == IF entry \in RemoteDirs THEN "dir"
                 ELSE IF entry = "none" THEN "none" ELSE "file"

\* Entries exist in directories only.
Trees == {t \in [Depths -> {"none", "dir", "old"}] :
             \A d \in Depths \ {0} : t[d] # "none" => t[d - 1] = "dir"}

Init ==
    /\ direction \in {"up", "down"}
    /\ turn = 1 /\ pc = "remote" /\ remoteType = "none"
    /\ remotePath = 1 /\ localPath = 1
    /\ remote \in [Nodes -> Trees] /\ local \in Trees
    /\ sends \in IF direction = "up" /\ local[1] = "dir" THEN Sent ELSE {"itself"}
    /\ held = [d \in Depths |-> "none"]
    /\ report = [n \in Nodes |-> "none"] /\ named = [n \in Nodes |-> 1]

Node == Turns[turn]

\* The turn ends with a line that names a path; so does the command after the
\* last one.
NextTurn(printed, path) ==
    /\ report' = [report EXCEPT ![Node] = printed]
    /\ named' = [named EXCEPT ![Node] = path]
    /\ turn' = turn + 1
    /\ pc' = IF turn < Len(Turns) THEN "remote" ELSE "exit"

\* PrintCritical ends the program.
Critical == pc' = "exit" /\ UNCHANGED <<turn, report, named>>

-----------------------------------------------------------------------------
(* What the paths are                                                       *)

Unprocessable_Silent == "none"
Unprocessable == "unprocessable"

\* A question that cannot be asked is an error; on the program's own node, that
\* there is no shell to ask.
TypeOfRemotePath ==
    /\ pc = "remote"
    /\ \/ /\ remoteType' = TypeOf(remote[Node][remotePath]) /\ pc' = "local"
          /\ UNCHANGED <<turn, report, named>>
       \/ /\ "call" \in Faults /\ NextTurn(Unprocessable, remotePath)
          /\ UNCHANGED remoteType
    /\ UNCHANGED <<direction, sends, remotePath, localPath, remote, local, held>>

\* When the shell of the program's own node fails, the program panics.
ShellPanics ==
    /\ pc = "remote" /\ "call" \in Faults /\ Node \in Here
    /\ pc' = "panic"
    /\ UNCHANGED <<direction, sends, turn, remoteType, remotePath, localPath,
                   remote, local, held, report, named>>

\* A local path that does not exist is an error, also as a target.
TypeOfLocalPath ==
    /\ pc = "local"
    /\ IF local[localPath] = "none"
       THEN NextTurn(Unprocessable, localPath)
       ELSE pc' = "transfer" /\ UNCHANGED <<turn, report, named>>
    /\ UNCHANGED <<direction, sends, remoteType, remotePath, localPath, remote, local, held>>

LocalType == TypeOf(local[localPath])

-----------------------------------------------------------------------------
(* Transfers                                                                *)

\* The transfer returns an error and leaves everything as it was: no
\* connection; or on the program's own node, where directories are not
\* supported and copyFile opens its target for reading only.
Refused == Node \in Here \/ "connect" \in Faults

Failed_Ignored == "finished"
Failed == "failed"

FailsEarly(p) ==
    /\ Refused \/ "transfer" \in Faults
    /\ NextTurn(Failed, p) /\ UNCHANGED <<remote, local, held>>

\* The upload stores something, and the report names the path p.
Stores(at, whole, part, p) ==
    \/ remote' = [remote EXCEPT ![Node][at] = whole] /\ NextTurn("finished", p)
    \/ /\ "transfer" \in Faults
       /\ remote' = [remote EXCEPT ![Node][at] = part] /\ NextTurn(Failed, p)

StoresNothing(printed, p) == NextTurn(printed, p) /\ UNCHANGED remote

IsDir(d) == TypeOf(remote[Node][d]) = "dir"

\* Where scp -t DIR (external) puts a file of that name: into the directory, or,
\* when DIR is none, into a file of the name DIR.
StoredAt(p) == IF IsDir(p - 1) THEN p ELSE p - 1

\* Some entry above may be missing, or the entry may be a directory.
CanStoreAt(d) == ~IsDir(d) /\ (d > 0 => IsDir(d - 1))

\* Whether there is a directory above path 0 is not known.
MayFailAt(d) == ~CanStoreAt(d) \/ (d = 0 /\ remote[Node][d] = "none")

UploadFile(p) ==
    \/ FailsEarly(p)
    \/ /\ Node \notin Here /\ UNCHANGED <<local, held>>
       /\ LET at == StoredAt(p) IN
          \/ CanStoreAt(at) /\ Stores(at, "new", "part", p)
          \/ MayFailAt(at) /\ StoresNothing(Failed, p)

\* scp -r -t (external): the directory goes below the one that is there, or
\* becomes a new one of the name that was given.
SendItself(p) ==
    LET at == IF IsDir(p) THEN p + 1 ELSE p IN
    IF TypeOf(remote[Node][at]) # "file" /\ IsDir(at - 1)
    THEN Stores(at, "copy", "dir", p)
    ELSE StoresNothing(Failed, p)

\* The entries go into the directory that is there.  When there is none, each of
\* them is stored under the name that was given, over the one before.
SendEntries(p) ==
    \/ IsDir(p) /\ Stores(p, "copy", "dir", p)
    \/ /\ ~IsDir(p) /\ IsDir(p - 1)
       /\ \/ sends = "files" /\ Stores(p, "last", "part", p)
          \/ sends = "dirs" /\ Stores(p, "merged", "merged", p)
          \/ /\ sends = "mixed" /\ NextTurn(Failed, p)
             /\ \E first \in {"last", "merged"} :
                    remote' = [remote EXCEPT ![Node][p] = first]
    \/ ~IsDir(p) /\ ~IsDir(p - 1) /\ StoresNothing(Failed, p)

UploadDirectory(p) ==
    \/ FailsEarly(p)
    \/ /\ Node \notin Here /\ UNCHANGED <<local, held>>
       /\ \/ sends = "itself" /\ SendItself(p)
          \/ sends = "nothing" /\ StoresNothing("finished", p)
          \/ sends \in {"files", "dirs", "mixed"} /\ SendEntries(p)

\* os.Create empties a file that is there.
DownloadFile(p) ==
    \/ FailsEarly(p)
    \/ /\ Node \notin Here /\ UNCHANGED <<remote, held>>
       /\ IF local[p] = "dir"
          THEN NextTurn(Failed, p) /\ UNCHANGED local
          ELSE \/ local' = [local EXCEPT ![p] = Node] /\ NextTurn("finished", p)
               \/ /\ "transfer" \in Faults
                  /\ local' = [local EXCEPT ![p] = "part"] /\ NextTurn(Failed, p)

\* The directory keeps its name below p; its files are written over those that an
\* earlier turn has put there.
DownloadDirectory(p) ==
    \/ FailsEarly(p)
    \/ /\ Node \notin Here /\ UNCHANGED remote
       /\ IF local[p + 1] \in {"none", "dir"}
          THEN /\ local' = [local EXCEPT ![p + 1] = "dir"]
               /\ \/ held' = [held EXCEPT ![p + 1] = Node] /\ NextTurn("finished", p)
                  \/ /\ "transfer" \in Faults /\ NextTurn(Failed, p)
                     /\ held' \in {held, [held EXCEPT ![p + 1] = "part"]}
          ELSE NextTurn(Failed, p) /\ UNCHANGED <<local, held>>

-----------------------------------------------------------------------------
(* scp                                                                      *)

InTheWay_Ignored == FALSE
InTheWay == remoteType = "file"

Up ==
    /\ pc = "transfer" /\ direction = "up"
    /\ \/ InTheWay /\ Critical /\ UNCHANGED <<remotePath, remote, local, held>>
       \/ /\ ~InTheWay /\ LocalType = "dir"
          /\ UploadDirectory(remotePath) /\ UNCHANGED remotePath
       \/ /\ ~InTheWay /\ LocalType = "file"
          /\ remotePath' = IF remoteType = "dir" THEN remotePath + 1 ELSE remotePath
          /\ UploadFile(remotePath')
    /\ UNCHANGED <<direction, sends, remoteType, localPath>>

\* scpOpts.LocalPath keeps the name that is appended.
KeptPath_AsGiven == UNCHANGED localPath
KeptPath_Twice == localPath' = localPath + 2
KeptPath == localPath' = localPath + 1

DownFile ==
    /\ remoteType = "file"
    /\ \/ LocalType = "file" /\ Critical /\ UNCHANGED <<localPath, remote, local, held>>
       \/ LocalType = "dir" /\ DownloadFile(localPath + 1) /\ KeptPath

DownDirectory ==
    /\ remoteType = "dir" /\ UNCHANGED localPath
    /\ \/ LocalType = "file" /\ Critical /\ UNCHANGED <<remote, local, held>>
       \/ LocalType = "dir" /\ DownloadDirectory(localPath)

\* Nothing is transferred, and that is reported as finished.
DownNothing ==
    /\ remoteType = "none" /\ NextTurn("finished", localPath)
    /\ UNCHANGED <<localPath, remote, local, held>>

Down ==
    /\ pc = "transfer" /\ direction = "down"
    /\ DownFile \/ DownDirectory \/ DownNothing
    /\ UNCHANGED <<direction, sends, remoteType, remotePath>>

Steps == TypeOfRemotePath \/ ShellPanics \/ TypeOfLocalPath \/ Up \/ Down
Ended == pc \in {"exit", "panic"} /\ UNCHANGED vars
Next == Steps \/ Ended

\* The program is sequential, and its calls return (SSHExecutor!CallReturns,
\* ScpSession!Returns).
Spec == Init /\ [][Next]_vars
FairSpec == Spec /\ WF_vars(Steps)

-----------------------------------------------------------------------------
(* Properties                                                               *)

Reports == {"none", "unprocessable", "failed", "finished"}

\* The variables keep their types; no path is appended to more often than
\* there were turns.
TypeOK ==
    /\ direction \in {"up", "down"} /\ sends \in Sent
    /\ turn \in 1 .. Len(Turns) + 1
    /\ pc \in {"remote", "local", "transfer", "exit", "panic"}
    /\ remoteType \in {"none", "dir", "file"}
    /\ remotePath \in 1 .. turn /\ localPath \in 1 .. turn
    /\ remote \in [Nodes -> [Depths -> {"none"} \cup RemoteDirs \cup RemoteFiles]]
    /\ local \in [Depths -> {"none", "dir"} \cup LocalFiles]
    /\ held \in [Depths -> {"none", "part"} \cup Nodes]
    /\ report \in [Nodes -> Reports] /\ named \in [Nodes -> Depths]

\* The file is at p; or, when p lies in no directory, in the place of that directory.
FileThere(n, p) == "new" \in {remote[n][p], remote[n][p - 1]}

\* The directory is at p, or below p under its own name.  Of a directory that was
\* given with a slash the entries are in p, unless p was none: then a file, or a
\* directory, in which they were stored over each other is there.
DirectoryThere(n, p) ==
    CASE sends = "itself" -> "copy" \in {remote[n][p], remote[n][p + 1]}
      [] sends = "files" -> remote[n][p] \in {"copy", "last"}
      [] sends = "dirs" -> remote[n][p] \in {"copy", "merged"}
      [] sends = "mixed" -> remote[n][p] = "copy"
      [] OTHER -> TRUE

\* The turns since that of n.
LaterTurns(n) == {i \in 1 .. turn - 1 : \A j \in i .. turn - 1 : Turns[j] # n}

\* The directory is below p, with the files of n, or with those of a node whose
\* later turn has written over them.
DirectoryHere(n, p) ==
    /\ local[p + 1] = "dir"
    /\ \/ held[p + 1] = n
       \/ \E i \in LaterTurns(n) : held[p + 1] \in {"part", Turns[i]}

\* "Scp ... finished" means that the node, or this host, has the whole copy at the
\* path that the line names, whatever the paths have become in the turns before:
\* but for a target that is none, where FileThere and DirectoryThere say what is
\* stored instead, for a directory that a later turn wrote over, and for a
\* download from a path at which the node has nothing.
FinishedIsDone ==
    \A n \in Nodes : report[n] = "finished" =>
        IF direction = "up"
        THEN IF LocalType = "file" THEN FileThere(n, named[n]) ELSE DirectoryThere(n, named[n])
        ELSE CASE TypeOf(remote[n][1]) = "file" -> local[named[n]] = n
               [] TypeOf(remote[n][1]) = "dir" -> DirectoryHere(n, named[n])
               [] OTHER -> TRUE

\* A file that one node's turn has downloaded is not overwritten by a later turn,
\* nor left half overwritten when that fails, although all turns download to the
\* one path that the user gave.  (The files of a directory are: DirectoryHere.)
\* An upload never touches a file at the path that its turn has checked, "Can not
\* upload local file ... to existing remote file" (scp.go:64).  That this is the
\* path the user gave can not be said: after a turn that has appended the name, the
\* check looks below it, and a file at the path given is overwritten.
FilesKept ==
    [][/\ \A d \in Depths : local[d] \in Nodes => local'[d] = local[d]
       /\ direction = "up" => \A n \in Nodes :
              TypeOf(remote[n][remotePath]) = "file" =>
                  remote'[n][remotePath] = remote[n][remotePath]]_vars

\* The command ends, and unless it stops within a turn, each node has had its turn.
EveryTurnReported ==
    <>(pc \in {"exit", "panic"} /\ (turn <= Len(Turns) \/ \A n \in Nodes : report[n] # "none"))
=============================================================================
