# TLA+ models of the MIT 6.5840 labs

The repository holds solutions and infrastructure of the distributed systems
labs of MIT 6.5840, in Go, under `src/src/`: MapReduce (`mr`), a key/value
server with retrying clerks (`kvsrv1`), the Raft library (`raft1`), and the
tester with its simulated network (`labrpc`, `tester1`). This directory holds
TLA+ modules translated from that code, TLC configurations and TLAPS proofs.

Paths below are relative to `src/src/`.

## The system

| part | state | operations | talks to |
|---|---|---|---|
| Raft library, `raft1/raft.go` | term, vote, log behind a snapshot, commit and apply indices, the leader's per-peer indices | ticker (elections, heartbeats, commit, apply), three RPC handlers and the handling of their replies, `Start`, `Snapshot`, restart | peers by RPC, service by `applyCh`, persister |
| test service, `raft1/server.go` | copy of the applied log, own `lastApplied` | consume `applyCh`, take a snapshot every few entries, ingest one | Raft, persister |
| persister, `tester1/persister.go` | Raft state and snapshot | atomic `Save`, reads at restart | Raft |
| key/value server, `kvsrv1/server.go` | map from keys to value and version | `Get`, conditional `Put` | clerks by RPC |
| clerk, `kvsrv1/client.go` | the `first` flag of a Put's loop | `Get`, `Put`: repeat the RPC until it is answered | server by RPC |
| network, `labrpc/labrpc.go` | ends, connections, servers | deliver, drop or delay a request or a reply; give up on a handler | everyone |
| MapReduce, `mr` | task states with start times, phase; files of workers | `GetTask`, `ReportTask`, timeout scan, map and reduce execution | workers by RPC, files |
| shard configuration, `shardkv1/shardcfg` | shard to group, group to servers | `Join`, `Leave`, `Rebalance` | (controller is a skeleton) |
| test clients, `kvtest1` | what a client knows of a key, counts of its answers | read-modify-write of a list, repeated Puts, the checks at the end | clerks |
| sockets, `tester1/demux`, `tester1/sockrpc` | tags, calls that wait for a reply | send and receive over one connection, fail all when it breaks | tester, server processes |
| tester, `tester1` | groups of servers, their processes, persisters and links; ends of clients | start, shut down, restart, connect, partition | all of the above |

`kvsrv1/lock`, `kvraft1` and `shardkv1` (client, controller, groups) are
skeletons without code at this commit. `PROJECT.json` lists every component
with its status.

What is hard here: `rf.mu` is released around each RPC, so that what a
goroutine read before the call is stale after it; requests and replies are
lost, delayed and reordered; servers crash between any two critical sections
and come back from the persister; compaction renumbers the log under requests
that are on their way; a clerk cannot tell a lost request from a lost reply;
a handler may outlive the call that started it; goroutines meet at a channel
without a lock; a server is replaced by a new process of the same name while
calls to it are under way; and Go iterates over maps in a random order. The list `hazards` in
`PROJECT.json` gives each at its line.

What makes the parts correct: at most one leader per term, agreement of logs,
durability of committed entries and agreement of services for Raft;
linearizability, at-most-once Puts, truthful answers and termination of the
retry loop for the key/value service; an output that equals the sequential
program's, and completion of the job, for MapReduce; balanced, deterministic
and minimal changes for shard configurations; and for the tester that what a
client was told is in the persister the next process gets, and that every call
returns.

## Modules

`Raft.tla` — the Raft library with persister, network and service. One action
per critical section of `rf.mu`:

| action | code |
|---|---|
| `startElection` | `startElection` up to the goroutines, ll. 411-459 |
| `requestVoteReply` | the reply in such a goroutine, ll. 460-483 |
| `sendHeartbeats` | first critical section, which copies term, commit index, snapshot index and snapshot for the goroutines, ll. 488-508 |
| `heartbeatSend`, `heartbeatStale` | second critical section: build InstallSnapshot or AppendEntries, or return, ll. 508-569 |
| `appendEntriesReply`, `installSnapshotReply` | third critical section, ll. 571-599 and 527-542 |
| `RequestVote`, `AppendEntries`, `InstallSnapshot` | the handlers |
| `Start`, `Snapshot`, `updateCommitIndex`, `applyCommitted` | the methods of these names |
| `Restart` | a crash, then `Make` and `readPersist` |

`log[i][k+1]` is `rf.log[k]`, with the dummy entry first. `applied[i]` is the
service's log; a snapshot image is the sequence of entries applied up to its
index, so that a wrong image is visible. Requests and replies are sets: a
message in a set may be consumed late, in any order, or never, which covers
loss. A reply replaces its request. Two abstractions: time is left out, the
ticker may fire whenever its guard allows; and what is sent on `applyCh`
reaches the service in the critical section that produced it (the code sends
after unlocking; that is module `RaftApply`).

`RaftApply.tla` — one server, seen from its `applyCh`: the loop that calls
`applyCommitted` (`Collect`, `UnlockLoop`, `LoopReturn`), the handlers of
`InstallSnapshot` (`InstallSnapshot`, `UnlockHandler`) and the service of
`raft1/server.go` (`IngestSnap`, `ApplyCommand`, `TakeSnapshot`) with the checks
it and the tester make. The channel is unbuffered, so a send and its receive
are one step (`ReceiveFromLoop`, `ReceiveFromHandler`). `mu` is the holder of
`rf.mu`. The rest of Raft is the environment `Replicate`. That servers agree on
the committed command of an index is `Raft`'s concern; here a command is its
index. `snapshots` chooses between `applierSnap` and `applier`. `told` and
`lastCmd` are history variables.

`KV.tla` — server, clerks and network of lab 2. A clerk's RPC is at "request"
or at "reply"; `ServerGet` and `ServerPut` are the handlers, `RequestLost`,
`ReplyLost` and `GivenUp` the three ways a call fails, after each of which the
loop makes it again; `late` holds the Puts whose handler still runs after
`labrpc` stopped to wait, and `LatePut` runs it. `issued`, `took` and
`returned` are history variables that no action depends on, except that an
operation's identity is the clerk's next number.

`KVStore.tla` — what the tests ask for: porcupine's search over the step function
of `models1/kv.go`, as a store. An operation acts in one step between its call
and its answer: `TakeEffect` for a Put that names the current version, `Refuse`
for any other, `Read` for a Get; `Forget` lets it act again at a later moment,
unless it has changed the store. `MayReturn` allows the answers of `kv.go:53-63`
and no other: OK or ErrMaybe to a Put that was stored, ErrVersion or ErrMaybe to
one that was not. Where `kv.go` compares only the value of a Get, `KVStore`
compares its version as well.

`KV` does not implement `KVStore` for every client. A Put that names a version
above 0 of a key that does not exist is answered ErrNoKey (`server.go:68`), an
answer that `kv.go:62` allows to no Put (run `KVPorcupine`). Such a Put can also
take effect after its answer: the handler of a first try is given up
(`labrpc.go:328-348`), the repetition is refused and returns, and once other
clients have brought the key to the version named the first handler is
accepted. Both need a client that names a version still to come. `NamesKnown`
says that none does, and is the hypothesis of the theorem `KVImplements`; the
clients of the tests take versions from earlier answers, and for them it is
part of what is proved.

`KVTest.tla` — the clients of the key/value tests on top of `KV`:
`OneClientAppend`, `OneClientPut` with `OnePut`, and `PutAtLeastOnce`, each as
the steps between two calls of its clerk. A behaviour runs one of the three
tests. `CheckAppends` and `CheckPutConcurrent` are the tests' own checks; the
branch of `CheckPutConcurrent` for a reliable network is left out, because
`KV`'s network always may lose messages. `PorcupineAccepts` is their call of
`checkPorcupine`: the calls and answers of a test refine `KVStore`, from the store
that its set-up left (the append test has put an empty list).

`MapReduce.tla` — coordinator, workers and files of lab 1. `GetMapTask` and
`GetReduceTask` are the branches of `GetTask` that change something (a worker
told to wait asks again), `ReportTask` and `checkTimeout` the other entry
points, `Exit` the end of `mrcoordinator`. A worker executes its task file by
file: `CreateInter` and `CloseInter` per partition for `doMap`; `ReadInter` per
map task, then `CreateOut` and `CloseOut`, for `doReduce`. It may crash or
fall behind between any two of these. Time is abstract: the scan finds any set
of tasks too old; `slow` counts those whose worker was still at it. A file is
"complete" when the process that created it last has come to its end: `mapf`
and `reducef` are taken to be deterministic, so overlapping writers write the
same bytes, and every partition to have records.

`MapReduceData.tla` — what those files hold: the records of `wc` and `indexer`,
the partition by `ihash`, what `doReduce` gathers, sorts and writes, next to
`mrsequential`. It adds no action; `OutputIsSequential` joins it to the
state of `MapReduce`. A record carries the place it comes from, so that a file of
records is a set. `sort.Sort` is not stable, so the lines for every order
of a key's values are in the set, and have to be one line.

`ShardCfg.tla` — `shardcfg.go`: `Join`, `Leave` and `Rebalance`, one action per
iteration of their loops, by several controllers that each work on a `Copy` of
the published configuration. The gids of a `Join` are taken in any order, as Go
iterates over a map. `fatal` and `failed` stand for `log.Fatalf` and for a
returned `false`; the callers stop the test on either, so that only complete
changes are published.

`Demux.tla` — calls over a socket: tags and the map of calls, the reader, and
what happens to the calls when the connection breaks. `LabNet.tla` — a client's
RPC through `labrpc`: `Route`, `DropRequest`, `Dispatch`, `TakeReply` or
`GiveUp`, `Decide`, `Return` are `processReq` cut at each point where it takes the
network's lock or waits. `Groups.tla` composes the two with the processes of a
group: `ShutdownServer` is `Shutdown`, `DeleteServer`, `CheckpointPersister`,
`Kill`; a start is `StartServer`, `InitDaemon` in the process, `WaitInit`,
`AddServer`, `ConnectStarted`; `Partition` begins a partition, and `PartitionOne`
is one turn of its loops; calls may be at any of their steps in between.
`links` has the enabled ends between servers. The service in a process saves
what a call asks for and then answers, as every persistent service of the labs
has to.

The `MC` modules hold what TLC needs: symmetry, the finite arguments of `Join`
and `Leave`, connections and inputs, and for Raft a view that drops votes of
servers that are no candidates and peer indices of servers that do not lead;
the code overwrites both before it reads them again.

`RaftProofs.tla`, `RaftLogProofs.tla`, `RaftSafetyProofs.tla`,
`RaftApplyProofs.tla`, `KVProofs.tla`, `MapReduceProofs.tla`,
`ShardCfgProofs.tla`, `GroupsProofs.tla` — theorems.

## Runs

| run | instance | shows |
|---|---|---|
| `RaftCommit` | 3 servers, 1 index, terms to 4, 1 message in flight | `ElectionSafety`, `LeaderCompleteness`, `CommittedIsDurable`, `StateMachineSafety` |
| `RaftReplication` | 3 servers, 2 indices, snapshot at 2, terms to 2, 1 message in flight | `TypeOK`, `LogMatching`, `MatchIndexIsStored` |
| `RaftReordering` | 2 servers, 2 indices, snapshot at 1, terms to 2, 2 in flight, 1 restart | `StateMachineSafety`, `NothingSkipped`, `CommittedIsKept`, `VoteIsKept` |
| `RaftApply` | 4 indices, snapshots every 2, 2 handlers, 2 InstallSnapshots, 1 crash, under `FairSpec` | `NothingIsLost`, `CommandsComeOnce`, `CommitsAreApplied`, `InstallSnapshotReturns` |
| `KVAppends` | 2 clients, 4 clerk calls each, 1 late handler, under `TestSpec` | `TypeOK`, `AtMostOnce`, `AnswersAreTrue`, `TestsPass`, `AppendsAreExact`, `AtLeastOnceIsKnown`, `PorcupineAccepts`, `EveryCallReturns` |
| `MapReduceJob` | 3 workers, 2 map and 2 reduce tasks, 1 crash, 1 time-out of a running worker, every pair of files of up to two words, under `FairSpec` | `TypeOK`, `PhasesInOrder`, `CrashesAreHarmless`, `OutputIsSequential`, `JobEnds` |
| `ShardBalance` | 2 controllers, 7 shards, 4 gids, 4 changes, under `FairSpec` | `Balanced`, `MovesAreNeeded`, `CtrlersAgree`, `OneGroupPerServer`, `IsMemberMeansPresent`, `RebalanceEnds` |
| `GroupRestarts` | 2 servers, 1 client with 2 calls, 2 operations of the tester, a second process of one server | `AcknowledgedIsSaved`, `ServicesAreReady`, `LinksFollowOperations`, `RepliesMatchCalls`, `SendReceiveReturns`, `CallsReturn` |

Bounds. Four terms and one index are the smallest instance in which an entry
of an old term is spread by a later leader and overwritten by a third (Figure
8 of the Raft paper). Two terms and two indices give conflicting suffixes and
the back-up of `nextIndex`. Two messages in flight let a stale request or
reply cross a newer one; three servers with two in flight is beyond TLC, which
is why `RaftReordering` has two servers; an entry behind the snapshot and a crash
at any moment are in it. With one key nothing is lost: keys do
not interact in the server. Three workers let one crash and one be slow while a
third works; two tasks of each kind let phases end with a task under way. Two
words and files of two words give keys with several values, from one file and
from both, and partitions that stay empty. Four indices and two handlers let
two snapshots and a command wait at the channel at once. Four clerk calls are
two read-modify-writes, so that both clients meet the other's and a repeated
Put, and a late handler of the first Put meets the second. Seven shards over up to four groups have every remainder, and a `Join` of
two groups makes the order of the map matter. Two operations of the tester are
a shutdown and the restart, with the client's two calls anywhere in between;
the client calls the server that is restarted (`ClerkServers`), the second
server is there for the links. A partition followed by a shutdown and a restart
takes more operations than the run has; the theorem `LinksAreFollowed` covers it.

Four runs are expected to fail; each states what a comment, the report, the
test service or the tests' model says of the code, and `findings` in `PROJECT.json` quotes it:

* `RaftApplyOrder` (`AppliedInOrder`): the handler of `InstallSnapshot` and the
  apply loop send after they have released `rf.mu`. A command that was collected
  after the handler's unlock can be received before the snapshot, and the
  service's check of the order fails.
* `RaftDummyEntry` (`StateMachineSafety`): with `nextIndex` taken back to
  `rf.snapshotIndex` and copies from before the snapshot, `startIdx` is 0 and
  the dummy entry is replicated as a command. The passing runs that check the
  same invariant do not have a snapshot and three servers with two messages in
  flight, which it takes.
* `MapReduceRewrite` (`OutputIsComplete`): a timed-out worker that is still
  running creates its intermediate file again while a reduce task reads it, so
  the finished job lacks records. The report says that map tasks write
  temporary files and rename them; the code does not.
* `KVPorcupine` (`Linearizable`): 2 clerks whose clients name any version up to 1.
  A Put of version 1 of a key that does not exist returns ErrNoKey, and no
  history with such a Put is linearizable for `models1/kv.go`. The two tests that
  make one (`kvsrv_test.go:39` and `:88`, which expect ErrNoKey) call the clerk
  directly, so that porcupine's log does not have it.

Seen while modelling, without a run of their own: `InstallSnapshot` hands a
snapshot between `snapshotIndex` and `lastApplied` to the service, which goes
back while `lastApplied` stays (`raft.go:228`; the histories `told` and
`lastCmd` of `RaftApply` count what was told, not what the service kept); the
goroutine of a heartbeat pairs the old `snapshotIndex` with the current
`rf.snapshotTerm` (`raft.go:520`); a request that such a
goroutine builds may end below the leader's commit index, and `AppendEntries`
then takes `commitIndex` back (`raft.go:374`); `lastApplied` stays and nothing is
applied twice. The instances of the runs are too small for the latter.

Seen while reading the tester, and modelled as the code does it:
`RPCSrv.Close` closes the listener only, so that a process goes on to answer
after its checkpoint although `daemonsrv.go:160` says that this stops replies
(`labrpc`'s check for a dead server makes it harmless, see
`AcknowledgedIsSaved`); `OnePut` compares the entry it reads back with `&&`
where a different author or a different version would each be wrong
(`kvtest.go:228`). Not modelled: `PutAtLeastOnceJson` puts with version 0 every
time (`kvtest.go:204`); `Clnt.ConnectTo` enables ends and never disables the
others (`clnts.go:84-95`), and `Clnt.Disconnect(srv)` disables one end and leaves
`srvs` as it is (`clnts.go:97-107`), so that either would break what
`LinksFollowOperations` says of a client's ends, but nothing calls them;
`OneClientAppend` and `CheckAppends` have no caller at this commit.

Deadlock is not checked: every run ends when its bounds are used up, and a
client that has nothing to do is no error; what has to go on is stated as a
liveness property.

Fairness. `Raft` is checked for safety only. `KVTest!TestSpec` assumes strong
fairness of the handlers and of the return of each client's clerk: `labrpc` drops a
request or a reply with probability 1/10, so of a call that is repeated for
ever some request and some reply get through; `KV!FairSpec`, of `KVPorcupine`, is
the same for any clients. No fairness is assumed of the
failures, of late handlers, or of clients making calls.

`MapReduce!FairSpec` assumes weak fairness of each running worker, of the
time-out of tasks that no running worker holds (the scan runs every second and
ten seconds pass), and of the coordinator's exit. Time-outs of running workers
are bounded by `MaxSlow`: with unboundedly many a job need not end.

`RaftApply!FairSpec` assumes that a goroutine that waits for nobody runs on,
that Go's mutex serves its waiters (strong fairness of the two steps that take
`rf.mu`), and that Go serves the senders on a channel first come first served
(strong fairness of the receives). `ShardCfg!FairSpec` assumes weak fairness of
each controller's computation. `Groups!Spec` assumes weak fairness of each
goroutine: the tester within an operation, the processes and their handlers, the
reader of each connection, each `SendReceive` and each call in `labrpc`; nothing
is assumed of the beginning of an operation or a call, or of losses.

Every property has a mutant: a definition such as `CanVoteAgain` in
`Raft.tla`, marked "Faulty", that changes one definition the way a plausible
mistake would, and makes TLC report that property.

## Proofs

`RaftProofs.tla` proves, for every finite set of servers, every set of
commands and all bounds:

* `TypeCorrect`: `Spec => []TypeOK`. `TypeOK` is inductive; one lemma per
  action, over lemmas about `Merge`, `Compact`, `Max` and `Min`.
* `ElectionSafe`: `Spec => []ElectionSafety`. `ElectionSafety` is not
  inductive. `VoteInv` adds that the disk agrees with memory on term and vote
  (`DiskInSync`); that a granted reply under way and a counted vote are final:
  the voter still has that vote or is in a later term (`RepliesAreFinal`,
  `VotesAreFinal`); that no voter is behind two candidates of a term, be it by
  replies, counted votes or one of each (`RepliesAgree`, `RepliesAreNew`,
  `VotesAreDisjoint`); and that a leader has counted a majority
  (`LeadersHaveMajorities`). Two majorities would share a voter.
* `VotesKept`: `Spec => VoteIsKept`, from the part of `VoteInv` that says that
  the disk agrees with memory: without it a restart could take a vote back.

`RaftLogProofs.tla` and `RaftSafetyProofs.tla` prove Raft's log properties, for
every set of servers and all bounds, under the hypothesis `SnapshotAt = {}`: the
service takes no snapshots, as in labs 3A to 3C (`applier` of `raft1/server.go`).
The hypothesis is needed. With snapshots `StateMachineSafety` is false
(`RaftDummyEntry`), and `InstallSnapshot` keeps the log behind the snapshot
without comparing terms (`raft.go:212`), so logs may differ behind it.

* `HistoryExplains`: the inductive invariant. Why an entry is safe depends on who
  elected whom and who had accepted what by then, which the state does not keep.
  So `LogSafety` says that there is a history `h` that explains the state: the log
  of each term's leader as far as it has grown (`llog`), that leader (`lead`) and
  the majority that elected it (`voters`), every vote given (`cast`), and how much
  of a leader's log each server has accepted in its term (`acked`). Its parts are
  `ElectionInv` (votes and leaders of the present are those of the history),
  `LogInv` (a log is, up to each of its entries, the log of the leader of that
  entry's term), `AckInv` (an accepted entry is held until a leader without it
  is elected; candidates that a majority accepts hold it), `MessageInv`
  (every request, reply and goroutine under way says what the history knows,
  however old it is), and `ServerInv` (peer indices, commit indices and what was
  applied are justified by acceptances). Elections, `Start` and an accepted
  `AppendEntries` extend the history; every other step keeps it.
* `LogsAreMatching`, `MatchesAreStored`, `NoneIsSkipped`, `CommitsAreDurable`,
  `LeadersAreComplete`, `StateMachinesAreSafe`: `LogMatching`,
  `MatchIndexIsStored`, `NothingSkipped`, `CommittedIsDurable`,
  `LeaderCompleteness` and `StateMachineSafety` follow from `LogSafety`. The core
  is that two majorities meet: the one that accepted a committed entry and the
  one that elects a later leader.
* `CommitsAreKept`: the action property `CommittedIsKept`, from the same invariant.

`RaftApplyProofs.tla` proves, for every set of handlers, every log and
`SnapShotInterval`, with and without snapshots:

* `ApplyingIsOrdered`, `CommandsAreNotLost`, `CommandsAreInOrder`: `NothingIsLost`
  and `CommandsComeOnce`. The inductive invariant `ApplyInv` adds that
  `snapshotIndex`, `lastApplied` and `commitIndex` are in this order
  (`IndicesOrdered`), that the persister's snapshot is the one Raft counts from
  (`ImageSaved`), that a goroutine that has returned has nothing left to send
  (`NothingLeft`), and that nothing sent or waiting is above `lastApplied`
  (`NothingAhead`); without the last, a second collection could repeat a command.

`KVProofs.tla` proves, for all clerks, keys, values and bounds:

* `KVTypes`, `KVAnswers`, `KVAtMostOnce`: types, `AnswersAreTrue` and
  `AtMostOnce`. The inductive invariant `KVInv` adds that identities are
  unique and belong to their clerk (`OpInv`); that a Put that took effect left
  a newer version behind than it names, so that no copy of it is accepted
  again (`TookInv`); what a reply at the clerk says (`ReplyInv`); that during
  the first RPC there is no late copy and a refusal is final (`FirstInv`);
  and that an operation answered ErrVersion has no late copy (`ReturnInv`).
* `KVImplements`: `Spec /\ []NamesKnown => Linearizable`, the refinement of
  `KVStore`. Every step maps to a step of `KVStore` or to a stutter: handlers to
  `Read`, `TakeEffect` or `Refuse`, a lost reply to `Forget`, `LatePut` to
  `TakeEffect` or a stutter. Beside `KVInv` it needs `KnownInv`: a Put that does
  not wait for its handler names an older version than its key has, so that a
  handler that is accepted late belongs to a call that still waits, and no Put is
  answered ErrNoKey.
* `KVTestsLinearizable`: `TestSpec => PorcupineAccepts`, by the same lemmas;
  `KnownInv` follows from `TestInv` below, without a hypothesis.
* `KVTestsPass`, `KVAppendsExact`, `KVAtLeastOnce`: `TestsPass`,
  `AppendsAreExact` and `AtLeastOnceIsKnown` for any finite number of clients, on
  top of `KVInv`. The inductive invariant is `TestInv`. `PendInv`: a Put that names
  the key's latest version is the present, unanswered one of its clerk, so that a
  handler, late or not, changes nothing or lands the Put its client waits for.
  `ClientInv` says what a client at each place of its code has called. `AppendInv`:
  a client that knows the latest version knows the list; the iterations it had an
  answer for are 0 to `i - 1`; those answered OK are in the list, and what the
  list has of a client increases and is accounted for. The bound of `CheckAppends`
  on skipped iterations is a count over that. `PutsInv`: every version below the
  latest is among the Puts that a client counted or waits for. `OnceInv`: the only
  client that puts knows the version, or is one behind with its last Put unanswered.

`MapReduceProofs.tla` proves, for any workers and positive numbers of tasks:

* `MRTypes`, `MRPhases`, `MRCrashes`: types, `PhasesInOrder` and
  `CrashesAreHarmless`. The inductive invariant `MRInv` adds how far each
  worker is and that a task it came to the end of counts as executed
  (`Executing`); that completed tasks were executed and what the phase implies
  about the lists (`Phases`); and, as long as no running worker has lost its
  task, that each task has one executor (`Holders`) and what the files that it
  has written so far contain (`Files`).
* `MRSequential`: `OutputIsSequential`, for every input and every hash. All records
  of a key are in one reduce task (`WhatIsGathered`), so that the lines of all
  output files together are those of `mrsequential` (`LinesTogether`). Two orders
  of a key's records have the same values equally often (`ValuesOf`, by a
  bijection between the places of a value and the records that have it), and
  `Reduce` depends on no more than that (`OneLine`). That the output files are
  there is `OutputWritten`, which `MRCrashes` rests on too.

`ShardCfgProofs.tla` proves, for any controllers, servers, finite set of gids,
lists of changes and 1 to 256 shards:

* `ShardCfgTypeOK`, `RebalanceIsBalanced`, `GroupsAreDisjoint`,
  `IsMemberIsExact`: types, `Balanced`, `OneGroupPerServer` and
  `IsMemberMeansPresent`. The inductive invariant adds, per controller, how far
  its loop is: shards before `next` are with present groups (`Assigned`), the
  servers of its groups are disjoint (`Disjoint`), and a finished configuration
  is well formed (`Sound`). That the group with most and the one with least
  shards exist, and that a configuration in which no two groups are `Uneven` is
  balanced, are lemmas. `IsMemberIsExact` is a count: if a present group had no
  shard, the others would have at most one each, and there would be more groups
  than shards.
* `CtrlersCompute`: `CtrlersAgree`. `Rebalance` is taken as a computation: its
  actions are steps of a relation on a controller's state (`ActionIsStep`), the
  relation is a function (`StepIsFunctional`, because `analyze` names one group
  with most and one with least shards and the gids are sorted), and `Leads(k, n)`
  says that `n` is in every set of states that has `k` and is closed under steps,
  which needs no induction. Two states that one leads to are on one way (`OneWay`),
  and nothing follows the end (`LeadsEnd`). `WayInv` adds that `Join` and `Leave`
  hand `Rebalance` the same state whatever order they took the groups in, and
  stop before that exactly when the change cannot be made (`Possible`).
* `NoNeedlessMove`: `MovesAreNeeded`, along the same ways (`MoveInv`). After a
  `Join` the counts of the old groups stay within one of each other, those of the
  new ones too, and no new group has more than an old one; the group with most
  shards is then old and the one with least new. After a `Leave` the first loop
  ends even, and the second has nothing to do.

`GroupsProofs.tla` proves, for any servers, clients, processes per server, calls
and operations of the tester:

* `GroupsAreConsistent`, `RepliesAreMatched`, `ServicesComeFirst`,
  `AcknowledgedSurvives`, `LinksAreFollowed`: `RepliesMatchCalls`,
  `ServicesAreReady`, `AcknowledgedIsSaved` and `LinksFollowOperations`. The
  inductive invariant `AllInv` spans the three modules. `ProcessInv`: the
  network's table names the server's last process, and that one is up; what is
  not in the table has ended or is the tester's present work. `LinkInv`: links
  join connected servers, which are in the table. `CallInv`: each call has one
  dispatch, begun on a process that was in the table; the map of calls and the
  goroutines in `SendReceive` agree on the tags; a message is at one place and its
  call waits; the reader closes the map only when nothing can come any more.
  `SavedInv`: what a running process executed is in its persister, and what was
  answered with success is in the persister that counts. The step that matters is
  `Decide`: a process still in the table has not been checkpointed, so that what
  it stored will be; a process that serves after its checkpoint is no longer there.

Assumptions are those named `ASSUME` in `Raft.tla`, `RaftApply.tla`, `KV.tla`,
`KVTest.tla`, `MapReduce.tla`, `MapReduceData.tla`, `ShardCfg.tla`, `Demux.tla` and
`Groups.tla`: bounds are natural numbers, the sets of servers, gids and clients of a
test are finite, words are numbers in the order of their strings, a job has at least one map and
one reduce task, `None` is no member of the other sets, gids are positive, and
there are at most 256 shards (`analyze` starts its minimum at 257). In `Groups.tla`
a connection is a process of a server, each server has a first one, a call is named
by its client and its number, and the servers a clerk may call are servers of the
group. TLC evaluates the assumptions of a module in every run that extends it. The
theorems about the test clients have the hypothesis that what the clients put,
entries and lists of entries, are values of the store (`TestValue \subseteq Value`).
Only the types name `Value`; no step of a test client depends on it, so TLC's
instance makes do with a finite part of it.

Only model-checked: the liveness properties (`EveryCallReturns`, `JobEnds`,
`CommitsAreApplied`, `InstallSnapshotReturns`, `RebalanceEnds`,
`SendReceiveReturns`, `CallsReturn`), which the prover does not do; Raft's log
properties with snapshots, which no theorem for all constants can state (see
above). Every other property that a passing run checks is stated by a theorem
(`TypeOK`, `AtMostOnce` and `AnswersAreTrue` of `KVAppends` by theorems about `KV`
with arbitrary clients).

## What is left

In this order:

1. Repair of a follower's log by `XTerm` and `XIndex` with fair heartbeats
   (`raft.go:590`): logs agree eventually.
2. The direction from a daemon to the tester (`tester1/testsrv.go`), by which
   servers of a group call each other.

Not modelled: `labgob` (reflection over Go types); annotations, which record a
test and draw it; porcupine's search (external; its criterion is `KVStore`);
`Key2Shard` and the JSON encoding of configurations; `MakePartition`, statistics
and size queries of the tester; the command line programs other than
`mrsequential`; the MapReduce applications other than `wc` and `indexer`, which
only crash, sleep or count; and `kvsrv1/lock`, `kvraft1` and the rest of
`shardkv1`, which hold no code.
