# Verification of kubespector

kubespector is a command line program that inspects and drives a Kubernetes
cluster from outside: it connects to the nodes named in a configuration file over
ssh, runs commands on them, copies files, and runs two performance tests with the
help of pods it deploys.  This directory holds TLA+ modules translated from its Go
source, TLC configurations that check them on small instances, and proofs of the
theorems that matter most, checked by TLAPS.

To check a model: `tlc -config X.cfg M`; to check proofs: `tlapm M.tla`.
`PROJECT.json` names every run, the source lines behind every definition
(`map`), for each property a plausible bug that it catches (`mutants`), and the
places of the code that are hard to test (`hazards`), each with the properties that
would catch it going wrong.

## The system

A run of the program is one command.  `cmd/` parses flags and the configuration and
calls one function of `pkg/`; that function works through a `CommandExecutor`,
implemented by `ssh.Executor`; the executor opens, for each call, a connection with
the `Comm` of `ssh/communicator`.  The command itself is sequential.  Concurrency is
below `PerformCmd` (goroutines for the handshake and for the end of a session), in
the two programs that the scale test deploys (the aggregator fetches from all
loadbots at once; the loadbot serves metrics while it measures), on the nodes and
in the cluster, which change while the program looks at them.

| component | state it keeps | operations | what is hard | what makes it correct | module |
|---|---|---|---|---|---|
| ssh executor and communicator (`ssh/ssh.go`, `ssh/utils.go`, `ssh/communicator/`) | attempts of the connection loop; `Comm`'s connection and client; the handshake goroutine and the error it shares with `reconnect`; the exit channel of `RemoteCmd` | `PerformCmd`, `establishSSHCommunication`, `reconnect`, `newSession`, `Start`, `Wait`, `SetExited` | the timer racing the handshake, wakeups, lost replies, endless retries, connections left open | a command starts at most once; a nil error means exit status 0; no session without a live client; no lost wakeup; refusals bounded; calls return | `SSHExecutor` |
| generic commands (`pkg/generic-cmd.go`, `exec`, `logs`, `restart`, `status`, `stop`, `util/`) | selected nodes, the turn, the output file | `runGeneric` with an initializer and a processor | duplicates under a comparison that is not transitive, partial failure of the file | each named node has one turn, in host order; each result is shown; nothing written is lost | `Nodes`, `Targets`, `GenericCmd` |
| scale test (`pkg/scale.go`) | desired replicas, attempts, summary | create, scale, wait, fetch, evaluate | ignored errors of scaling, polls without a bound, pods of an earlier run, nested loops of attempts | measured with the replicas of the scenario; none skipped; ends | `ScaleTest` |
| scale test aggregator (`resources/scaletest/aggregator`) with the loadbot (`vegeta-server`) | desired replicas, parts, summary; the loadbot's metrics | scale, wait, `fetchResults`, evaluate; attack loop, `ServeHTTP` | goroutines that append to one slice, answers that fail, pods that come and go, a reader before the first result | every answer counted once; a scenario is summed up from enough measurements of its own, at its size | `Aggregator` |
| etcd backup (`pkg/backup.go`, `types/etcd.go`) | the backup directory and the archive on the node, the local file | backup, archive, download, delete | leftovers of an earlier run, failed steps, two runs sharing a directory | what is reported is this run's backup, whole; no archive stays behind unnoticed | `EtcdBackup` |
| scp command (`pkg/scp.go`, `ssh/scp.go`) | the remote and local path, the files on both sides | up, down | paths changed by one turn are used by the next | what is reported as finished is at the path it names; downloaded files are not overwritten | `ScpCommand` |
| file transfer protocol (`ssh/communicator/communicator.go`) | the position of both ends in the dialogue, two streams, the files stored | upload of files and directories, download of files and directories | answers read late, errors in the middle, names, both ends waiting | no error means all is stored, in its place below a target that is a directory; a refusal is noticed; transfers return | `ScpSession` |
| kubectl and node access (`pkg/kubectl.go`, `ssh/k8s.go`, `GetFirstAccessibleNode`) | the executor's node, temporary files | pick a node, deploy a template, count nodes, create, scale, remove | a node that answered the check is gone when it is used; errors that are dropped | commands go to the picked node; a temporary file stays behind only where its deletion failed | in `Netperf`, `ClusterStatus`, `EtcdBackup`, `ScaleTest` |
| network test (`pkg/netperf.go`) | services, controllers and pods in the cluster, the files of results in a pod, on a master and locally | create, wait, fetch, remove | polls without a bound, pods that are replaced while they are asked, leftovers of earlier runs, four steps of a fetch | what it calls DONE is one pod's complete set of results; what stays behind is known at every end; ends | `Netperf` |
| cluster status (`pkg/cluster-status.go`) | group, node, the loops | statistics; services, containers, certificates, disks, kubernetes | `break`s, exits and panics in the middle of nested loops; one executor for all of them | with groups given, each check is made of everything configured, on each node, before the next | `Nodes`, `Targets`, `ClusterStatus` |
| command line, printer, types, build (`cmd/`, `integration/`, `types/`, `build/`) | flags and configuration | parsing, formatting | nothing that a model would show better than a test | - | - |

How they interact: every command calls the executor and only the executor; a call
returns an output and an error, and `PrintCritical` (`os.Exit`) or a panic ends the
program wherever it happens.  Nothing is persisted between runs except files, local
ones and those on the nodes, and the resources in the cluster.

## The modules

    RemoteCall  <= implemented by =  SSHExecutor        one call of PerformCmd
    FanOut      <= implemented by =  GenericCmd, and the statistics of ClusterStatus
    Nodes                            entries and their comparison
    Targets                          groups, the first of a name, sorting; used by both
    ScpSession                       one transfer by the scp protocol
    ScpCommand                       the turns of scp; transfers as ScpSession allows
    EtcdBackup                       runs of backup; calls as RemoteCall allows
    Aggregator                       main, its goroutines, the pods
    ScaleTest                        the same test driven over ssh
    Netperf                          runs of the network test, and the cluster

Two modules are abstract.  `RemoteCall` is what every command relies on: a call is
made, the command runs on the node at most once, and the call answers `ok` only if
it has run to its end with status 0, `error` otherwise, or the program crashes in
it.  `FanOut` is what a user of `exec`, `logs` or `restart` relies on: a set of nodes is
chosen once, each of them has one turn, one after the other, and the command is
finished when all have had theirs, unless it aborts.  The modules above the
executor do not contain its threads; they take its calls as `RemoteCall` describes
them, an error telling nothing about whether the command has had its effect.

**SSHExecutor.** Three threads share memory: the caller, the goroutine in `reconnect`
that does the handshake, and the goroutine in `Start` that waits for the session.
`pc` is the caller's place in `PerformCmd` and below; `attempts`, `conn`, `client`,
`err`, `exitCh`, `exitStatus` are the variables of the code with those names.  `err` is a variable
because `reconnect`'s named result is: the goroutine assigns it, and so does the
statement `return ErrHandshakeTimeout`, without synchronisation; `SelectExpires`,
`StoreTimeout` and `HandshakeStores` are separate steps so that each order is explored.
`runs`, `authSeen` and `late` are history variables.  The command on the node is
`remote`, moved by the environment.

**Nodes, Targets, GenericCmd, FanOut.** `Nodes` has `NodeEquals`, `NodeInArray`,
`IsNodeAddressValid` as operators on records with a host and an IP that may be empty.
`Targets` is what the two commands that choose nodes share: the configuration, the loops'
places in it, `FindGroupByName` (the first group of a name) and the sort by host.
`GenericCmd` walks the arguments and groups as `runGeneric` does, one node per step,
sorts (`sort.Slice` is not stable: any order that respects `Rank`), and gives the
nodes their turns: initializer, processor, and for `exec` and `logs` the output file.
`LocalOn` is the entry of the program's own node: there a failing command panics in `shell`
(`ShellPanics`), and the turns after it are not had, which is `FanOut`'s `Abort`.

**Aggregator.** `Main` is `main` with `waitForPods`, scaling, listing and the judging of
results; `Goroutine(p)` is the function literal of `fetchResults` for one pod, whose
`append` is read, modify and write in steps of their own, so that a lock in the wrong place would show.
The cluster moves pods from created to running to ending to gone.  `attacked` is the
loadbot: whether it has published metrics.  A goroutine may be `hung`: `http.Get` has no
timeout, and nothing ends the wait for a pod that is lost while it is asked.

**ScaleTest.** The phases of `ScaleTest` up to the end of `showSummary`; the cluster is
counts of pods per controller and state, which is all `kubectl get` shows the program.
`attempts` and `tries` are the counters of the loops nested in one another.

**EtcdBackup.** One step per command on the node; only `etcdctl backup` takes two, so
that runs overlap in it.  `dir[n]` is the set of backups, whole or begun, in
`localEtcdBackupDir`; an archive holds what the directory held when `tar` read it.  `Download`
copies what the archive holds, whole or not, and can only fail on the local node, where
`copyFile` opens its target for reading.

**ScpSession.** Client and server are processes that talk over `stdin` and `stdout`, two
first-in first-out streams.  The client is `scpSession`, `scpUploadFile`,
`scpUploadDirectory`, `checkSCPStatus`, `DownloadDir` and the callbacks around them; what
is sent is a walk: the items of a directory in the order of the code, each directory left
once for each time it was entered, and no file met twice (`IsWalk`).  `FirstWord` is
what `%s` of `Sscanf` leaves of a name.  `target` is what an upload finds at the path it
goes to, a directory, a file or nothing: `scp -t` is started without `-d`, so each item that
belongs directly into a target that is no directory takes the target's own name (`OnNode`),
files over files and directories into one another; `made` are the directories it has
entered, onto which no file can go.

**ScpCommand.** `turn` is the node whose turn it is; `remotePath` and `localPath` count how
often the file's name was appended to what the user gave, because the changed
`scpOpts` is what the next turn starts from.  `remote[n][d]` and `local[d]` are what lies at the
path with the name appended `d` times, 0 being the directory above; `named` is the path that a
node's report names.  `sends` is what an upload of a directory sends: itself, or, when the
path ends in a slash, its entries, which without a directory to go to are stored over each
other (`SendEntries`).  `held` is whose files a downloaded directory holds.  On the program's
own node a failing question panics (`ShellPanics`).

**Netperf.** Runs of the test follow one another on one cluster, because what one leaves is what
the next finds.  `pc` walks through `Netperf`: the node, the preconditions, for each resource
the four steps of `DeployKubernetesResource` (`UploadFile`, `Apply`, `DeleteRemoteFile` with
and without sudo, the judgement of the error), the polls, the fetch of the two files in two
steps each (`CopyFromPod` to the master, `DownloadFile` from there), the clean-up.  The cluster keeps
for each controller a live pod and one that is being deleted, which `kubectl` still lists as
Running; `gen` numbers the pods of the orchestrator and `csv` is what each has measured, so
that results can be told from those of another pod.  `copied` and `local` are the files
in `/tmp` of a master and in the output directory.  `stuck` and `refused` are histories
of what could not be deleted.  A master may go away for good after it was picked.

**ClusterStatus.** `Select` is the choice of groups; `CollectNode`, `CollectGroup` and
`SortNodes` are the loops that gather the nodes of these groups for the statistics, one entry a
step, and sort them.  Then come the statistics, and nested loops over groups (`g`), checks
(`check`), nodes (`k`) and things (`thing`).  Four of the five checks have the same loop over nodes, which
is modelled once (`EnterNode`, `LeaveNodes`, `NextNode`); each check has its own action for a
command, and the Kubernetes check its own search for a node.  `made` is the history of commands and
where they went.  `StatusSpec` and its parts carry that prefix because the proofs of this module and
of `GenericCmd` are in one module.

## What each run checks

| run | configuration | states | shows |
|---|---|---|---|
| `ssh_faults` | two calls, remote and local nodes, bastion, two attempts, all faults | 6 997 | live client, nothing left open by failures, refusals bounded, implements `RemoteCall` (at most once, ok means status 0), returns |
| `ssh_endless_retry` | one call to a remote node, one attempt configured, all faults | violation | handshakes that fail or time out are not counted and retried for ever |
| `generic` | all configurations of two groups of two of five entries with every selection; one group of three, `exec` and `logs`, the file failing, one entry or none the program's own node | 868 514 | no node or machine twice, named nodes targeted, every result in the file or on the screen after what was there, also when the program's own node panics, implements `FanOut` |
| `aggregator_faults` | two loadbots, one webserver, two scenarios, two fetches wanted, one pod lost, all faults | 243 361 | every answer once, own measurements, at size, ends |
| `scale_faults` | five scenarios with up to two replicas, empty cluster or leftovers, all faults | 34 322 | at size, none skipped, ends |
| `backup_faults` | two runs that may overlap, two nodes, none or one local, all faults | 12 997 | what is reported is this run's, archives are deleted, runs end |
| `scp_command` | three turns, the second one local, anything at the paths, all faults | 234 955 | finished means done at the path that is named, files downloaded or checked for kept, every turn reported |
| `scp_faults` | eight walks up and down, the target a directory, a file or nothing, all faults | 18 339 | ok means stored, refusals noticed, nothing replaced, returns |
| `netperf_faults` | two runs with and without clean-up, two masters, one of them perhaps local, two workers, two faults of any kind | 691 603 | DONE means whole results of one pod, what is left at each end, ends |
| `netperf_cleanup` | one run, no faults | violation | the orchestrator's controller stays after the clean-up |
| `cluster_status` | up to two groups of five node lists, with everything or little configured, four ways to name groups, all or two checks, a local node or none | 298 364 | with groups given, nothing skipped, the statistics of each node included; statistics implement `FanOut` |
| `cluster_status_no_args` | the same | violation | a call without arguments checks nothing |

Every property of a passing run has a mutant: a plausible change of the code, written
as a second form of a definition, which the run must refute.  The disagreements of the
violation runs are described under `findings`.

What some of the passing properties except, so that nobody reads more into them:
`NothingSkipped` is about calls that name groups (`cluster_status_no_args` is about the others)
and promises nothing for the nodes after an entry without an address, nor for the groups
after a check that ends the program.  `FinishedIsDone` accepts, and spells out, what an upload
to a path without its directory stores, a downloaded
directory that a later turn has written over, and a download from a path with nothing at it.
`FilesKept` speaks of the path an upload has checked, which after a turn that appended the name is no
longer the one the user gave.  `OkMeansStored` says what is left in a target that is no directory,
where files replace each other without an error.  `LeftBehind` says what a run leaves at each of its ends: a definition only on a master where
its removal failed; on the master the two files of results, which nothing removes; after a
clean-up the namespace, which no step removes, and of the other resources only those whose removal
failed; without a clean-up all of them; and after an exit or a panic everything made so far.

### Bounds, and why they are enough

- `SSHExecutor`: `MaxCalls = 2` because nothing but `leaked` and an open connection
  passes from one call to the next; two attempts are the least with which the loop
  both goes on and stops.  `authSeen` is capped above the limit.  The theorems hold for
  every number.
- `GenericCmd`: a duplicate needs two entries, non-transitivity three, a group after
  another two groups.  Two machines with every partial way to name them give all
  outcomes of `NodeEquals`; two arguments and three nodes suffice to have a failing
  turn between two good ones.
- `Aggregator`: two goroutines for the race of the appends, two fetches wanted and two
  attempts for each so that a failure can be both absorbed and not; `MaxDeaths = 1`
  bounds the pods the cluster loses.  The theorems hold for any number of goroutines.
- `Netperf`: the program has three workers, which it treats alike; two are the least that are
  more than one.  Two runs, because a run meets what any earlier one has left, and a third
  can find nothing that the second could not.  `MaxFaults = 2` is shared by failing calls, lost
  masters, lost nodes and replaced pods: one fault and another while it is being dealt with (an
  error of `rm` and of `sudo rm`, a copy that fails and a pod that is replaced).
- `ClusterStatus`: an entry without an address before, between and without others; two things
  to look at where a loop has something to skip, one elsewhere, and none; a group that is
  named twice, and one that is not configured.
- `ScaleTest`: the percentages of the program need ten replicas for one pod.
  `SmallScenarios` has their shape with 50 in place of 10, so that two replicas do.
- `EtcdBackup`: two runs overlap in every way two can; a third adds no new kind of
  leftover.  `Overlap = TRUE` includes runs one after the other.
- `ScpCommand`: three turns because a path appended in the first is looked at in the
  second and may be appended to again for the third.
- `ScpSession`: the walks hold a file, an empty directory, a file before and in a
  directory, siblings, nesting, names with a space and files of one name in different
  directories, files and directories of one name that meet at a target that is none; the
  protocol treats longer ones as sequences of these.

### Fairness, and why the code justifies it

- `SSHExecutor`: weak fairness of the caller, of each goroutine (the Go scheduler) and of
  the command on the node.  A node that never answers a handshake needs none: the
  timer of `reconnect` is the caller's own step.  That commands end is assumed; the
  program has no timeout for them.
- `ScpCommand`, `EtcdBackup`, `Netperf`: weak fairness of the (single) thread of each
  run; its calls return by `SSHExecutor!CallReturns`.  Which outcome a call has is never fair.
- `ScpSession`: weak fairness of both ends; `ServerDies` is a fault and has none.
- `Netperf`: weak fairness also of the cluster's steps towards what is deployed and of the orchestrator,
  which measures once all workers run.  `RunsEnd` names what the polls wait for in vain: a
  master that is gone, workers whose nodes are not Ready, a pod name that stands for no pod.
- `Aggregator`, `ScaleTest`: weak fairness of the program, of each goroutine and of the
  cluster's steps towards the number asked for.  Strong fairness only says that
  listing pods does not fail for ever: a poll calls it once a second without end, and
  nothing in the program bounds that.  Scaling that has failed is not repeated, so
  `Ends` excepts it explicitly, as the aggregator's does a request that is never answered.

## What is proved

All theorems hold for every value of the constants that satisfies the modules'
assumptions (`SSHAssumption`, `NodesAssumption`, `RankAssumption`, `GenericAssumption`, `StatusAssumption`,
`AggregatorAssumption`, `ScaleTestAssumption`, `BackupAssumption`, `ScpCommandAssumption`,
`ScpAssumption`, `NetperfAssumption`), which state types, that the model's names for what is at a path are no
nodes, that `scp` has a node at all (without one it does nothing), that what an upload sends
is a walk (the recursion of `scpUploadDir` over a file system), that there is a worker, and
what the program checks (a `MaxReplicas` above 1).

- **SSHExecutorProofs**: types, `AtMostOnce`, `OkMeansExitZero`, `NoLostWakeup`,
  `LiveClientAtStart`, `FailedConnectLeavesNothingOpen`, `AuthFailuresBounded`, and that
  `PerformCmd` implements `RemoteCall`.  `CommandInv` relates the node's command, the
  waiter and the exit channel (a closed channel means a waiter that is done, and the
  reverse); `ConnInv` says for each place of the caller which states of connection, client
  and handshake goroutine go together, which is where the race of timer and goroutine
  is argued; `AuthInv` says the loop has counted all refusals but the last answer.
- **GenericCmdProofs**: types, `TurnsDistinct`, `NamedNodesTargeted`, `EveryResultShown`, and `FanOut`; also
  `FileOnlyGrows` and `InHostOrder`, which no run checks any more.  All hold with a panic of the
  program's own node in any turn.
  `SelectInv` carries distinctness through the selection and the sort (a permutation
  of distinct entries is distinct, `SortedDistinct`); `TurnInv` says the turns so far are a prefix;
  `FromConfig`, that they are entries of the configuration, so that in a comparable one
  entries that share a name are equal (`SharedIsEqual`); `ShownInv` counts results.  `CoverInv` says
  which entries the nested loops have seen so far, and that each of them that is named is, or counts
  as the same as, one selected; the sort and the turns keep what is selected.
- **GenericCmdProofs**, second part: `ClusterStatus`, whose proofs need the same lemmas about
  comparing, collecting and sorting entries.  Types (with `StatusLoops`: which loops are open at
  each program point and what they are at), `NothingSkipped` and `StatsImplementFanOut`.
  `StatusPast` says that what the loops have behind them is complete: of each check of each group
  every command was made that the code does not excuse (a node without an address and those after
  it, a group that is not configured).  With groups given, an exit is in the Kubernetes check at hand.  It is inductive because of `StatusPresent` (inside a
  check, all was made on the nodes passed, and on this one what comes before the thing the loop
  is at) and of `StatusStops` (the command ends only behind the last group, exits only without
  groups or in the Kubernetes check it is at, panics only on its own node or over the output of `df`).
  For the statistics, `StatusCover` says what the loops of the collection have seen, as
  `CoverInv` does for `GenericCmd`, and `StatusVisits` that the turns so far are a prefix of the
  sorted nodes.
- **AggregatorProofs**: types, `EveryAnswerOnce`, `OwnMeasurements`, `MeasuredAtSize`, for any
  finite number of loadbots.  `LockInv`: one goroutine at most is in the critical section, it
  has read the current slice, and goroutines live only while main waits.  `AnswerInv`: the
  slice holds exactly those that have answered and left the critical section.  `MeasuredAtSize`
  holds where scenarios do not shrink (`Growing`): then no pod is being deleted and there
  are never more than were asked for, so that what a poll has counted is still there when
  it is measured.
- **ScaleTestProofs**: types with the bounds of the nested loops, `NoneSkipped`, and
  `MeasuredAtSize`.  The last is proved under `Growing` (scenarios do not shrink and want at
  least one pod of each kind, which the program's own satisfy from ten replicas on):
  `SizeInv` says that no controller has more pods than it was asked for, so that a
  count over both controllers suffices for each of them.
- **EtcdBackupProofs**: types, `ReportedIsOwn` and `ArchiveDeleted`, for any number of runs.
  `OwnInv` follows the run's own backup from the directory into the archive and the
  output; what makes it inductive beside other runs is that none of their steps takes
  it out of the directory (`rm -f` removes no directory) or writes their archive.
  `LeftInv` ties an archive to the node its run has picked.  `RunsAdvance`: each step makes `Remaining`,
  a natural number, smaller for one run and larger for none.
- **ScpCommandProofs**: types, `FinishedIsDone` and `FilesKept`, for any number of turns,
  several of one node included.  `DownInv`: a download looks at one path of every node, which it
  leaves alone; `AboveInv`: downloaded files are at or above the current local path, while
  every later store is below it, which is why no turn overwrites a file that an earlier one brought;
  `NamedInv`: a downloaded directory is an entry of the one that its report names; `CheckedInv`: what a
  turn has found out about the remote path still holds when it uploads.
  `TurnsAdvance`: each step makes the number of steps that are left smaller; `EndIsReported`: a command that
  ends without an error has reported every turn.
- **NetperfProofs**: types, `LeftBehind` and `ResultsWhole`, for any number of master and worker
  nodes, runs and faults.  `OrchestratorInv` counts the pods of the orchestrator by the faults
  that took one, as its controller is never removed; `DeployInv` says which resources exist at
  each point of deployment and clean-up; `TempInv`, that nothing was uploaded to the
  program's own node; `FetchInv` follows a finished pod's two files from its log to the program.
- **ScpSessionProofs**: types with the directories of `DownloadDir`, `OkMeansStored`, `RefusalNoticed` and
  `KeptOnceStored`, for every walk, every kind of transfer and every fault.  `TypeInv` holds the types,
  what the two streams may contain, and which program points of client and server go together
  (`StageInv`).  `UpStream`: the messages under way to the server follow one another as the walk
  says, and the last of them is the one the client sent last; so the first of them tells where
  the server is, and `UpInv` says that the files before that item are stored and the sink is in its
  directory.  `AnswerInv` says that, while the client goes on, the answers it has read and the ones
  under way to it are as many as the items so far call for, exactly, and that they are never more;
  from it `RefusedInv` gives that an error is never further behind the answers read than the ends
  of directories before it.  `DownInv` describes, item by
  item, where client and server of a download are and what is in the stream between them.  `HereFirst`, `HereAll`
  and `HereOther` say which file is left at a path of a target that is no directory.  Under them lie
  lemmas about walks: a directory's end returns to the stack before it (`WalkReturns`, by the least
  item that would break it), and different files have different paths (`PathsDiffer`).
  `SomeoneCanGoOn`: until both have ended, one of client and server has a step (`ClientCan`,
  `ServerCan` spell out when).  An upload could wait in vain because it reads its answers one early and
  skips the ones to the ends of directories: the exact count of `AnswerInv` is what shows that each answer it
  waits for is already there or will be given to a message already sent, and `SinkReads` that the
  server takes that message.  For downloads, `TalkInv` describes all of them as `DownInv` does those
  without names that break.  `SessionsAdvance`: each step of either side, whatever fails, makes
  `Remaining` smaller, which weighs the items ahead, the messages under way and the places of both
  sides.

Every invariant and every action property or refinement that a passing run checks is a theorem.

Only model-checked: liveness (`CallReturns`, `Returns`, `Ends`, `RunsEnd`,
`EveryTurnReported`), which needs fairness and ENABLED and is out of the prover's reach, and the three
violations.  Of the argument for liveness the part without fairness is proved for `ScpCommand`,
`EtcdBackup` and `ScpSession`: each step makes a natural number smaller, so there is no endless run, and a
session always has a step until both sides have ended.  What is left to TLC there is that a step that can be
taken is taken.  `SSHExecutor`, `ScaleTest`, `Aggregator` and `Netperf` have no such number: they
retry or poll without a bound, and end only because the cluster or the node moves.

## What is assumed of code that is not here

- `scp` on the node follows the protocol as the client's other half does: a sink answers as
  `DownloadDir` does, a source waits for each answer, the exit status is 0 only if it met
  no error.  `scp -t FILE` stores over FILE; `scp -t DIR` into it; `scp -t NAME`, where there is
  nothing, under NAME.
- `etcdctl backup` into a directory that is not empty may refuse or add to it.
- Replication controllers bring the number of their pods to the one asked for.
- `kubectl apply` changes nothing that is already as wanted, and may answer AlreadyExists for a service;
  `kubectl delete` refuses a name without a type and a resource that is not there; `kubectl get
  pods` lists pods that are being deleted, and by label may list two.
- The netperf orchestrator measures once, when its service and all workers are there,
  writes both files before it ends its log with the marker, and keeps both while it lives.
- Two backups started within one second would share the archive's name, which holds
  the time; the model gives each run its own.

## Not modelled

- What follows `showSummary` in the scale test (clean-up, scaling back): it is never
  reached, because `logOpts` is nil there and `showSummary` panics.
- `evaluateData` (arithmetic on floats), tables and messages.
- sftp transfers: calls of a library, one after the other.  Agent forwarding: never enabled.
- `pkg/kubectl.go`: one call with the user's arguments; the search for its node is the one in
  `Netperf` and `EtcdBackup`.
- The words that `cluster-status` prints, and the templates in paths of certificates.  A group
  whose nodes are given as an empty list, where the four checks print that they skip it, is
  taken for one without nodes: no command is run in either.  With Kubernetes among the checks such
  a group would end the program (`cluster-status.go:380`); the models' exit for a group without
  resources stands for it.

## Behaviour noted while reading

Places where the code does something other than it seems to mean, besides those that
a run shows:

- `ssh/utils.go:53` sets the default of `HandshakeAttempts` on a copy; `README.md:80` says it is 3.
- `vegeta-server.go:48` answers `null` before the first attack ends; the aggregator counts it
  as a measurement.
- `aggregator.go:384` counts the pods that are Running, those being deleted included: after a
  scenario that asks for fewer than the one before it, one that asks for more again could be
  measured below its size.  The program's own scenarios only grow from ten replicas on.
- `FindGroupByName` finds the first group of a name: the nodes of a second one are never selected.
- `scale.go:537`: see above; started by `cmd/scale.go:27`.
- `communicator.go:850` never reads the answer to the end of a directory, nor the one before
  the first header: all later answers are read one early, and an upload goes on for as
  many answers after a directory was refused.
- `communicator.go:194` scans names with `%s`: of a name with a space the first word is used,
  and two such names may overwrite each other.
- `scp.go:80`: a download from a path that does not exist transfers nothing and is reported
  as finished.  A new local file name, which the message at `scp.go:84` offers, is not
  possible: `typeOfLocalPath` fails on it and the turn ends (`scp.go:48`).
- `scp.go`: `PrintCritical` in one turn ends the program, so that later nodes have no turn.
- `ssh.go:105`: a local command that fails panics in the type assertion; as `rm -f` on a directory
  fails, a backup on the local node always ends so once its archive is made (`backup.go:92`).
- `backup.go:98` deletes the archive on the node also when the download failed;
  `DeleteRemoteFile` (`ssh/scp.go:124`) reports an error although its second try succeeded.
- `netperf.go:415` removes the orchestrator without its type: see `netperf_cleanup`.  Its pod keeps its log,
  and the next run takes the results in it for new ones.  Two pods of the orchestrator, one of
  them being deleted, have their names joined into one (`netperf.go:431`), for which `kubectl logs`
  fails for ever.
- `netperf.go:206` uses the second line of `kubectl get nodes` without a look at how many there are.
- `ssh/scp.go:139`: `copyFile` opens its target for reading, so that nothing is ever deployed from the
  program's own node, nor downloaded on it.
- `scp.go:66`: a path that was appended on one node hides from the check at `scp.go:57` the file that
  is at the given path on the next one, and `scp -t` overwrites it; the message at `scp.go:64` says it
  can not be, and `pkg/scp_test.go:151` asserts the message.
- `scp.go:69`: for a remote path that is none `scp -vt` is given its directory; when that is none as well,
  the file is stored under the name of the directory, and the report names the path.  The comment at
  `scp.go:67` says that the file will be created.
- `communicator.go:596`: with a trailing slash "only upload the contents" (`communicator.go:591`) to a path
  that does not exist stores every item under the name of that path, one over the other, without an error.
- `scale.go:385`: 10 percent of fewer than ten replicas is none, which the check at `scale.go:155` accepts:
  the third scenario then scales both kinds to 0 and polls for ever for pods that nobody asked for;
  the aggregator (`aggregator.go:386`) waits in the same way, or goes on at once while pods are still ending.
- `scp.go:79`: directories of several nodes are downloaded to one place, later files over earlier
  ones of the same name, and every node is reported as finished.
- `communicator.go:318`: after a timeout the late goroutine of `reconnect` may overwrite the error that is
  about to be returned, even with nil; `communicator.go:50` says that the connection failed.
- `cluster-status.go:176`: one entry without an address ends
  the loop over the nodes; `cluster-status.go:335`: a row of `df` in two lines panics;
  `cluster-status.go:384`: a group without Kubernetes resources ends the program, groups after it included.
  `cluster-status.go:276` calls every certificate it can read valid, also an expired one;
  `systemctl is-active` exits non-zero for what `cluster-status.go:192` would warn about.
- `ssh/utils.go:29`: for an entry without an address the executor dials this host.
- `logs.go:85` ignores `--sudo`.  A trailing comma in a list of nodes selects entries with an
  empty host or IP (`generic-cmd.go:21`).
- Every command opens a connection that nothing closes (`ssh.go:40`).

## Plan

Done, in this order: `RemoteCall` and `SSHExecutor` (everything rests on them), `Nodes`, `FanOut`
and `GenericCmd`, `Aggregator`, `ScaleTest`, `ScpSession`, `EtcdBackup`, `ScpCommand`, `Netperf`,
`ClusterStatus`, each with its run and the theorems about it; `Targets` was taken out of
`GenericCmd` so that the proofs about the choice of nodes serve `ClusterStatus` as well.

Next: `ScpCommand` as an implementation of an abstract transfer, of which `ScpSession` is the other
end.
