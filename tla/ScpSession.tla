----------------------------- MODULE ScpSession -----------------------------
(***************************************************************************)
(* One session of the scp protocol (ssh/communicator): the upload of a     *)
(* file or a directory, the download of a file, the download of a          *)
(* directory.  Two processes talk over two first-in first-out streams: the *)
(* client is the code of communicator.go, the server is the program scp on *)
(* the node, started with -t (it stores) or -f (it sends).                 *)
(*                                                                         *)
(* The server is external.  It speaks the protocol as the client's other   *)
(* half does: as a sink it answers like DownloadDir (once before the first *)
(* header, once to a header, to a file's content and to the end of a       *)
(* directory), as a source it sends what DownloadDir reads and waits for   *)
(* each of those answers.  It exits with 0 only if it met no error.        *)
(*                                                                         *)
(* An upload runs scp -vt or scp -rvt without -d, and nothing checks that  *)
(* the target is a directory: what belongs directly into a target that is  *)
(* none goes under the target's own name.                                  *)
(***************************************************************************)
EXTENDS Integers, FiniteSets, Sequences, SequencesExt

CONSTANTS
    Names,      \* file and directory names
    FirstWord,  \* FirstWord[n]: the name up to its first space
    Kinds,      \* subset of {"upload", "download", "downloadDir"}
    Plans,      \* the files and directories to transfer, as the walk meets them
    Faults      \* subset of AllFaults

AllFaults == {"session",  \* the session or the program on the node does not start
              "local",    \* opening, reading or writing a local file fails
              "short",    \* a local file is shorter than when its size was taken
              "node",     \* scp cannot open, read or write a file on the node
              "crash"}    \* the connection or scp on the node dies

\* An item of a walk: a directory (D), its end (E), or a file (C).
Item == [type : {"C", "D", "E"}, name : Names]

\* The directories open after the first i items of a plan.
DirsOf(p) ==
    LET f[i \in 0 .. Len(p)] ==
            IF i = 0 THEN <<>>
            ELSE CASE p[i].type = "D" -> Append(f[i - 1], p[i].name)
                   [] p[i].type = "E" -> Front(f[i - 1])
                   [] OTHER -> f[i - 1]
    IN f

\* A walk leaves each directory it has entered and no other, and meets no file
\* twice.
IsWalk(p) ==
    /\ \A i \in 1 .. Len(p) : p[i].type = "E" => DirsOf(p)[i - 1] # <<>>
    /\ DirsOf(p)[Len(p)] = <<>>
    /\ \A i, j \in 1 .. Len(p) :
           /\ p[i].type = "C" /\ p[j].type = "C"
           /\ DirsOf(p)[i] = DirsOf(p)[j] /\ p[i].name = p[j].name
           => i = j

ASSUME ScpAssumption ==
    /\ FirstWord \in [Names -> Names]
    /\ Kinds \subseteq {"upload", "download", "downloadDir"}
    /\ \A p \in Plans : p \in Seq(Item) /\ IsWalk(p)
    /\ Faults \subseteq AllFaults

VARIABLES
    kind, plan, \* the session, fixed when it begins
    target,     \* what the target is when it begins: "dir", "file" or "none"
    pos,        \* the next item of the source
    dirs,       \* the directories the sink has entered (dirStack above dst)
    file,       \* the item whose content the sink expects
    store,      \* what the sink has written: paths, and the item each came from
    made,       \* the directories that scp has entered on the node
    stdin,      \* the stream from the client to the server
    stdout,     \* the stream from the server to the client
    open,       \* the client has not closed stdin
    client,     \* program point of the client
    server,     \* program point of the server
    bad,        \* the server failed to read or write the current file
    errs,       \* the server has met an error
    exit,       \* how the server ended: "zero", "nonzero", "missing" (no status)
    result,     \* what the upload or download returns: "none", "ok", "error"
    refused     \* history: the headers of the client that the server refused

fixed == <<kind, plan, target>>
sinkVars == <<dirs, file, store, made>>
serverVars == <<server, bad, errs, exit, refused>>
vars == <<fixed, pos, sinkVars, stdin, stdout, open, client, serverVars, result>>

Init ==
    /\ kind \in Kinds /\ plan \in Plans
    /\ target \in IF kind = "upload" THEN {"dir", "file", "none"} ELSE {"dir"}
    /\ pos = 1 /\ dirs = <<>> /\ file = 0 /\ store = {} /\ made = {}
    /\ stdin = <<>> /\ stdout = <<>> /\ open = TRUE
    /\ client = "begin" /\ server = "start"
    /\ bad = FALSE /\ errs = FALSE /\ exit = "none" /\ result = "none"
    /\ refused = {}

-----------------------------------------------------------------------------
(* Messages and paths                                                       *)

Msg(type, item) == [type |-> type, item |-> item]
Ok  == Msg("ok", 0)     \* the byte 0
Err == Msg("err", 0)    \* the byte 1 or 2 and a message
EndOf(item) == Msg("ok", item)  \* the byte 0 after the content of an item

ToServer(m) == stdin' = Append(stdin, m)
ToClient(m) == stdout' = Append(stdout, m)

OpenDirs == DirsOf(plan)

FilesOf == {i \in 1 .. Len(plan) : plan[i].type = "C"}
PathOf(i) == Append(OpenDirs[i], plan[i].name)

\* Where a path of the walk lies, seen from the target: a target that is no
\* directory stands for the first name of the path, whatever that name is.
OnNode(path) == IF target = "dir" THEN path ELSE Tail(path)
TargetPath(i) == OnNode(PathOf(i))

\* There is a file: the target itself, or one that was written.
FileAt(path) == (target = "file" /\ path = <<>>) \/ \E s \in store : s.path = path

\* Writing to a path replaces what was there; item 0 stands for content that
\* is not whole.
Put(path, item) ==
    store' = {s \in store : s.path # path} \cup {[path |-> path, from |-> item]}

\* DownloadDir scans the name with %s, which stops at a space.
Scanned(name) == FirstWord[name]

\* Where the client writes: to the file it was given, or below dst.
LocalPath_Flat == <<Scanned(plan[file].name)>>
LocalPath ==
    IF kind = "download" THEN <<plan[file].name>>
    ELSE Append(dirs, Scanned(plan[file].name))

-----------------------------------------------------------------------------
(* The client: scpSession around the callback                               *)

\* The callback's or a later error is returned; closing the session closes
\* its streams.
Fail == client' = "done" /\ result' = "error" /\ open' = FALSE

Begin ==
    /\ client = "begin"
    /\ \/ /\ client' = IF kind = "upload" THEN "next" ELSE "ask"
          /\ UNCHANGED <<open, result>>
       \/ "session" \in Faults /\ Fail
    /\ UNCHANGED <<fixed, pos, sinkVars, stdin, stdout, serverVars>>

Reading == {"dirAck", "fileAck", "dataAck", "line", "content", "status"}

\* The other side is gone: the read gives io.EOF, which scpSession takes for
\* the end of the callback.
AfterEOF == client' = "close" /\ UNCHANGED <<open, result>>

ReadEOF ==
    /\ client \in Reading /\ stdout = <<>> /\ server = "exited"
    /\ AfterEOF
    /\ IF client = "content" THEN Put(LocalPath, 0) ELSE UNCHANGED store
    /\ UNCHANGED <<fixed, pos, dirs, file, made, stdin, stdout, serverVars>>

\* An error message ends the transfer (checkSCPStatus, or the header's byte).
ReadErr ==
    /\ client \in Reading \ {"content"} /\ stdout # <<>> /\ Head(stdout) = Err
    /\ Fail /\ stdout' = Tail(stdout)
    /\ UNCHANGED <<fixed, pos, sinkVars, stdin, serverVars>>

CloseStdin_Never == UNCHANGED open
CloseStdin == open' = FALSE

CallbackDone ==
    /\ client = "close"
    /\ client' = "wait" /\ CloseStdin
    /\ UNCHANGED <<fixed, pos, sinkVars, stdin, stdout, serverVars, result>>

\* session.Wait: no status, or one that is not 0, is an error.
SessionResult_Ignored == "ok"
SessionResult == IF exit = "zero" THEN "ok" ELSE "error"

SessionWait ==
    /\ client = "wait" /\ server = "exited"
    /\ client' = "done" /\ result' = SessionResult
    /\ UNCHANGED <<fixed, pos, sinkVars, stdin, stdout, open, serverVars>>

Gets(m) == stdout # <<>> /\ Head(stdout) = m /\ stdout' = Tail(stdout)

-----------------------------------------------------------------------------
(* The client as source: scpUploadFile, scpUploadDirProtocol, scpUploadDir  *)

AtItem(types) == client = "next" /\ pos <= Len(plan) /\ plan[pos].type \in types

\* The answer to the end of a directory is not read.
UploadHeader ==
    /\ AtItem({"C", "D", "E"})
    /\ ToServer(Msg(plan[pos].type, pos))
    /\ CASE plan[pos].type = "D" -> client' = "dirAck" /\ UNCHANGED pos
         [] plan[pos].type = "C" -> client' = "fileAck" /\ UNCHANGED pos
         [] plan[pos].type = "E" -> client' = "next" /\ pos' = pos + 1
    /\ UNCHANGED <<fixed, sinkVars, stdout, open, serverVars, result>>

\* Opening a file, following a link or reading a directory fails.
UploadOpenFails ==
    /\ "local" \in Faults
    /\ AtItem({"C", "D"})
    /\ Fail
    /\ UNCHANGED <<fixed, pos, sinkVars, stdin, stdout, serverVars>>

\* Readdir follows the answer to the directory's header.
DirAcked ==
    /\ client = "dirAck" /\ Gets(Ok)
    /\ \/ client' = "next" /\ pos' = pos + 1 /\ UNCHANGED <<open, result>>
       \/ "local" \in Faults /\ Fail /\ UNCHANGED pos
    /\ UNCHANGED <<fixed, sinkVars, stdin, serverVars>>

\* The content, then the byte 0.  When the file is shorter than announced,
\* CopyN fails with the io.EOF that scpSession ignores.
AfterData_Unread == client' = "next" /\ pos' = pos + 1
AfterData == client' = "dataAck" /\ UNCHANGED pos

FileAcked ==
    /\ client = "fileAck" /\ Gets(Ok)
    /\ \/ /\ stdin' = stdin \o <<Msg("data", pos), EndOf(pos)>>
          /\ AfterData /\ UNCHANGED <<open, result>>
       \/ "short" \in Faults /\ ToServer(Msg("part", pos)) /\ AfterEOF /\ UNCHANGED pos
       \/ "local" \in Faults /\ ToServer(Msg("part", pos)) /\ Fail /\ UNCHANGED pos
    /\ UNCHANGED <<fixed, sinkVars, serverVars>>

DataAcked ==
    /\ client = "dataAck" /\ Gets(Ok)
    /\ client' = "next" /\ pos' = pos + 1
    /\ UNCHANGED <<fixed, sinkVars, stdin, open, serverVars, result>>

UploadDone ==
    /\ client = "next" /\ pos > Len(plan)
    /\ client' = "close"
    /\ UNCHANGED <<fixed, pos, sinkVars, stdin, stdout, open, serverVars, result>>

-----------------------------------------------------------------------------
(* The client as sink: scpDownloadSession and DownloadDir                   *)

Ask ==
    /\ client = "ask"
    /\ ToServer(Ok) /\ client' = "line"
    /\ UNCHANGED <<fixed, pos, sinkVars, stdout, open, serverVars, result>>

HeaderIs(type) ==
    /\ client = "line" /\ stdout # <<>> /\ Head(stdout).type = type
    /\ stdout' = Tail(stdout)

HeaderC ==
    /\ HeaderIs("C")
    /\ ToServer(Ok) /\ file' = Head(stdout).item
    /\ \/ client' = "content" /\ UNCHANGED <<open, result>>
       \/ kind = "downloadDir" /\ "local" \in Faults /\ Fail
    /\ UNCHANGED <<fixed, pos, dirs, store, made, serverVars>>

HeaderD ==
    /\ HeaderIs("D")
    /\ \/ /\ kind = "downloadDir" /\ client' = "ask"
          /\ dirs' = Append(dirs, Scanned(plan[Head(stdout).item].name))
          /\ UNCHANGED <<open, result>>
       \/ /\ kind = "download" \/ "local" \in Faults
          /\ Fail /\ UNCHANGED dirs
    /\ UNCHANGED <<fixed, pos, file, store, made, stdin, serverVars>>

\* dst itself stays on the stack: the source ends no directory it has not begun.
Leave_Stay == dirs
Leave == Front(dirs)

HeaderE ==
    /\ HeaderIs("E")
    /\ dirs' = Leave /\ client' = "ask"
    /\ UNCHANGED <<fixed, pos, file, store, made, stdin, open, serverVars, result>>

\* As many bytes as announced; "part" stands for bytes that are not the file's.
Content ==
    /\ client = "content" /\ stdout # <<>> /\ Head(stdout).type \in {"data", "part"}
    /\ stdout' = Tail(stdout)
    /\ \/ /\ Put(LocalPath, IF Head(stdout).type = "data" THEN file ELSE 0)
          /\ client' = "status"
          /\ IF kind = "download" THEN ToServer(Ok) ELSE UNCHANGED stdin
          /\ UNCHANGED <<open, result>>
       \/ "local" \in Faults /\ Put(LocalPath, 0) /\ Fail /\ UNCHANGED stdin
    /\ UNCHANGED <<fixed, pos, dirs, file, made, serverVars>>

StatusOk ==
    /\ client = "status" /\ Gets(Ok)
    /\ client' = IF kind = "download" THEN "close" ELSE "ask"
    /\ UNCHANGED <<fixed, pos, sinkVars, stdin, open, serverVars, result>>

-----------------------------------------------------------------------------
(* The server (external)                                                    *)

\* It ends with status 0 only without an error; the status may be lost.
Exits(status) ==
    /\ server' = "exited"
    /\ exit' \in {status} \cup (IF "crash" \in Faults THEN {"missing"} ELSE {})

Takes(m) == stdin # <<>> /\ Head(stdin) = m /\ stdin' = Tail(stdin)
TakesType(type) == stdin # <<>> /\ Head(stdin).type = type /\ stdin' = Tail(stdin)
Closed == stdin = <<>> /\ ~open
Sink == kind = "upload"

ServerDies ==
    /\ "crash" \in Faults /\ server # "exited"
    /\ server' = "exited" /\ exit' \in {"nonzero", "missing"}
    /\ \E n \in 0 .. Len(stdout) : stdout' = SubSeq(stdout, 1, n)
    /\ UNCHANGED <<fixed, pos, sinkVars, stdin, open, client, bad, errs, result, refused>>

SinkStarts ==
    /\ Sink /\ server = "start"
    /\ ToClient(Ok) /\ server' = "line"
    /\ UNCHANGED <<fixed, pos, sinkVars, stdin, open, client, bad, errs, exit, result, refused>>

\* A file or directory that cannot be created, or where the other kind is, is
\* answered with an error; the sink goes on with the next header, in the
\* directory where it is.
SinkHeader ==
    /\ Sink /\ server = "line" /\ stdin # <<>>
    /\ LET m == Head(stdin)
           inDirs == Append(dirs, plan[m.item].name) IN
       /\ m.type \in {"C", "D"} /\ stdin' = Tail(stdin)
       /\ \/ /\ ToClient(Ok) /\ UNCHANGED <<errs, refused>>
             /\ \/ /\ m.type = "C" /\ OnNode(inDirs) \notin made
                   /\ file' = m.item /\ bad' = FALSE
                   /\ server' = "data" /\ UNCHANGED <<dirs, made>>
                \/ /\ m.type = "D" /\ ~FileAt(OnNode(inDirs))
                   /\ dirs' = inDirs /\ made' = made \cup {OnNode(inDirs)}
                   /\ UNCHANGED <<server, file, bad>>
          \/ /\ \/ "node" \in Faults
                \/ m.type = "C" /\ OnNode(inDirs) \in made
                \/ m.type = "D" /\ FileAt(OnNode(inDirs))
             /\ ToClient(Err) /\ errs' = TRUE /\ refused' = refused \cup {m.item}
             /\ UNCHANGED <<server, dirs, file, bad, made>>
    /\ UNCHANGED <<fixed, pos, store, open, client, exit, result>>

\* The end of a directory it has not entered ends the program.
SinkDirEnd ==
    /\ Sink /\ server = "line" /\ TakesType("E")
    /\ ToClient(Ok)
    /\ IF dirs = <<>>
       THEN Exits(IF errs THEN "nonzero" ELSE "zero") /\ UNCHANGED dirs
       ELSE dirs' = Front(dirs) /\ UNCHANGED <<server, exit>>
    /\ UNCHANGED <<fixed, pos, file, store, made, open, client, bad, errs, result, refused>>

\* Content where a header is expected: the client went on after a refusal.
SinkStray ==
    /\ Sink /\ server = "line" /\ stdin # <<>> /\ Head(stdin).type \notin {"C", "D", "E"}
    /\ stdin' = Tail(stdin) /\ ToClient(Err) /\ errs' = TRUE
    /\ Exits("nonzero")
    /\ UNCHANGED <<fixed, pos, sinkVars, open, client, bad, result, refused>>

NodePath == OnNode(Append(dirs, plan[file].name))

SinkData ==
    /\ Sink /\ server = "data" /\ TakesType("data")
    /\ server' = "end"
    /\ \/ Put(NodePath, file) /\ UNCHANGED bad
       \/ "node" \in Faults /\ Put(NodePath, 0) /\ bad' = TRUE
    /\ UNCHANGED <<fixed, pos, dirs, file, made, stdout, open, client, errs, exit, result,
                   refused>>

SinkDataEnd ==
    /\ Sink /\ server = "end" /\ TakesType("ok")
    /\ ToClient(IF bad THEN Err ELSE Ok) /\ errs' = (errs \/ bad)
    /\ server' = "line"
    /\ UNCHANGED <<fixed, pos, sinkVars, open, client, bad, exit, result, refused>>

\* The client has closed the stream, between headers or in a file.
SinkEOF ==
    /\ Sink
    /\ \/ /\ server = "line" /\ Closed /\ UNCHANGED <<stdin, store>>
          /\ Exits(IF errs THEN "nonzero" ELSE "zero")
       \/ /\ server = "data"
          /\ Closed \/ (stdin # <<>> /\ Head(stdin).type = "part")
          /\ stdin' = <<>> /\ Put(NodePath, 0) /\ Exits("nonzero")
    /\ UNCHANGED <<fixed, pos, dirs, file, made, stdout, open, client, bad, errs, result,
                   refused>>

\* As a source it first waits for an answer.
SourceStarts ==
    /\ ~Sink /\ server = "start" /\ Takes(Ok)
    /\ server' = "next"
    /\ UNCHANGED <<fixed, pos, sinkVars, stdout, open, client, bad, errs, exit, result, refused>>

\* The item after item i; a directory that cannot be read is left out whole.
After(i) ==
    IF plan[i].type = "D"
    THEN CHOOSE j \in i + 2 .. Len(plan) + 1 :
            /\ OpenDirs[j - 1] = OpenDirs[i - 1]
            /\ \A k \in i .. j - 2 : OpenDirs[k] # OpenDirs[i - 1]
    ELSE i + 1

SourceHeader ==
    /\ ~Sink /\ server = "next" /\ pos <= Len(plan)
    /\ \/ /\ ToClient(Msg(plan[pos].type, pos))
          /\ server' = IF plan[pos].type = "C" THEN "fileAck" ELSE "ack"
          /\ bad' = FALSE /\ UNCHANGED <<pos, errs>>
       \/ /\ "node" \in Faults /\ plan[pos].type # "E"
          /\ ToClient(Err) /\ errs' = TRUE /\ pos' = After(pos)
          /\ UNCHANGED <<server, bad>>
    /\ UNCHANGED <<fixed, sinkVars, stdin, open, client, exit, result, refused>>

SourceData ==
    /\ ~Sink /\ server = "fileAck" /\ Takes(Ok)
    /\ \/ stdout' = stdout \o <<Msg("data", pos), Ok>> /\ UNCHANGED errs
       \/ /\ "node" \in Faults
          /\ stdout' = stdout \o <<Msg("part", pos), Err>> /\ errs' = TRUE
    /\ server' = "ack"
    /\ UNCHANGED <<fixed, pos, sinkVars, open, client, bad, exit, result, refused>>

SourceAcked ==
    /\ ~Sink /\ server = "ack" /\ Takes(Ok)
    /\ pos' = pos + 1 /\ server' = "next"
    /\ UNCHANGED <<fixed, sinkVars, stdout, open, client, bad, errs, exit, result, refused>>

\* The walk is over, or the client is gone.
SourceEnds ==
    /\ ~Sink
    /\ \/ server = "next" /\ pos > Len(plan) /\ Exits(IF errs THEN "nonzero" ELSE "zero")
       \/ server \in {"start", "ack", "fileAck"} /\ Closed /\ Exits("nonzero")
    /\ UNCHANGED <<fixed, pos, sinkVars, stdin, stdout, open, client, bad, errs, result, refused>>

-----------------------------------------------------------------------------

Client ==
    \/ Begin \/ ReadEOF \/ ReadErr \/ CallbackDone \/ SessionWait
    \/ UploadHeader \/ UploadOpenFails \/ DirAcked
    \/ FileAcked \/ DataAcked \/ UploadDone
    \/ Ask \/ HeaderC \/ HeaderD \/ HeaderE \/ Content \/ StatusOk

Server ==
    \/ SinkStarts \/ SinkHeader \/ SinkDirEnd \/ SinkStray \/ SinkData
    \/ SinkDataEnd \/ SinkEOF
    \/ SourceStarts \/ SourceHeader \/ SourceData \/ SourceAcked \/ SourceEnds

Ended == client = "done" /\ server = "exited" /\ UNCHANGED vars

Next == Client \/ Server \/ ServerDies \/ Ended

\* Neither the client nor, as long as the connection holds, the node stops
\* for ever where it could go on.
Spec == Init /\ [][Next]_vars
FairSpec == Spec /\ WF_vars(Client) /\ WF_vars(Server)

-----------------------------------------------------------------------------
(* Properties                                                               *)

Asked == {[path |-> PathOf(i), from |-> i] : i \in FilesOf}

\* Of the files that come to one path, the last one of the walk.
LastOnes == {i \in FilesOf : \A j \in FilesOf : i < j => TargetPath(j) # TargetPath(i)}
Merged == {[path |-> TargetPath(i), from |-> i] : i \in LastOnes}

OneWord == \A i \in 1 .. Len(plan) : FirstWord[plan[i].name] = plan[i].name
DirDownload == kind = "downloadDir" /\ OneWord

Messages == [type : {"ok", "err", "data", "part", "C", "D", "E"}, item : 0 .. Len(plan)]

Types ==
    /\ kind \in Kinds /\ plan \in Plans /\ target \in {"dir", "file", "none"}
    /\ pos \in 1 .. Len(plan) + 1 /\ file \in 0 .. Len(plan)
    /\ dirs \in Seq(Names) /\ made \subseteq Seq(Names)
    /\ \A s \in store : s.path \in Seq(Names) /\ s.from \in 0 .. Len(plan)
    /\ stdin \in Seq(Messages) /\ stdout \in Seq(Messages) /\ open \in BOOLEAN
    /\ client \in Reading \cup {"begin", "next", "ask", "close", "wait", "done"}
    /\ server \in {"start", "line", "data", "end", "next", "fileAck", "ack", "exited"}
    /\ bad \in BOOLEAN /\ errs \in BOOLEAN
    /\ exit \in {"none", "zero", "nonzero", "missing"} /\ (exit = "none" <=> server # "exited")
    /\ result \in {"none", "ok", "error"} /\ refused \subseteq 1 .. Len(plan)

\* The variables keep their types; DownloadDir's stack is always one of the
\* directories of the walk.
TypeOK ==
    /\ Types
    /\ DirDownload => \E i \in 0 .. Len(plan) : dirs = OpenDirs[i]

\* An upload or download that returns no error has stored, whole, every file
\* asked for under its own path below a target that is a directory, and nothing
\* else, although answers are read late, the end of a stream is taken for
\* success and local files may shrink.  (Of a directory that is downloaded when
\* no name has a space.)  A target that is no directory takes the place of the
\* first name of every path, and of the files that meet there, without an
\* error, the last one is left: the contents of a directory are not all uploaded.
OkMeansStored ==
    result = "ok" /\ (kind = "downloadDir" => OneWord) =>
        store = IF target = "dir" THEN Asked ELSE Merged

\* A file that DownloadDir has stored is not replaced by a later one of the
\* same transfer, also when the two have one name in different directories.
KeptOnceStored ==
    [][DirDownload => \A s \in store : s.from # 0 => s \in store']_vars

\* checkSCPStatus reads the answers late, by one from the start and by one more
\* after each end of a directory: after a refused header an upload goes on for
\* as many answers, but no more.
AnswersBetween(i, j) ==
    2 * Cardinality({k \in i .. j - 1 : plan[k].type = "C"})
        + Cardinality({k \in i .. j - 1 : plan[k].type = "D"})

RefusalNoticed ==
    \A i \in refused :
        AnswersBetween(i, pos) <= 1 + Cardinality({k \in 1 .. i - 1 : plan[k].type = "E"})

\* The two sides never wait for each other: every transfer returns.
Returns == <>(client = "done")
=============================================================================
