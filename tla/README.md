# Verification of the distributed key-value store

TLA+ specifications of the key-value store in this repository, model-checked
with TLC and, for its safety, proved with TLAPS. Every definition is translated
from the Go code; `PROJECT.json` says from which lines.

## 1. The system

A cluster of nodes keeps one key-value map. Each node is a process with these
parts.

| part | source | state | operations |
|---|---|---|---|
| Raft elections | `internal/raft/election.go`, `rpc_handlers.go`, `raft.go` | term, vote, role, votes, timer | timer, `startElection`, vote calls and answers, `becomeLeader`, `stepDown` |
| Raft replication | `internal/raft/replication.go`, `rpc_handlers.go` | log, commit index, next and match index, leader loops | heartbeats, `sendAppendEntries`, `HandleAppendEntries`, `checkCommit`, `Propose` |
| Raft log | `internal/raft/log.go` | last index, cache | append, truncate, read through the cache |
| Apply pipeline | `replication.go` (`applyLoop`) | last applied, channel | deliver committed entries |
| Snapshots | `rpc_handlers.go` (`HandleInstallSnapshot`) | stored snapshot | install, cut the log |
| Key-value server | `internal/server/kv_server.go` | pending operations, request number | get, put, delete, apply, stop |
| HTTP interface | `internal/server/http_handler.go` | none | serve, forward to the leader |
| WebSocket hub | `internal/server/websocket.go` | clients | register, broadcast, remove, stop |
| Transport | `internal/transport/` | connections | call, reconnect, stop |
| Storage | `internal/storage/` | Raft state, log, map | atomic writes, in memory or in Badger |
| Start-up | `cmd/server/main.go` | peers | parse the peers, start, stop in order |
| Configuration, metrics, test utilities, dashboard | `config.go`, `internal/metrics`, `pkg/testutil`, `web` | none that matters | validate, count, show |

A client's write goes from the HTTP interface to the key-value server, which
registers the request and proposes a command to Raft. The leader appends it and
replicates it over the transport; once a quorum has it, it is committed, and
the apply pipeline hands it to the key-value servers, which change the map and
answer the request. Raft relies on storage for what must survive a crash, and
on the transport for calls that may fail.

What makes this hard to test: goroutines that take and release the node's lock
several times within one operation (election timer, vote calls, append calls,
leader loops); calls that are lost, late or answered out of order; crashes
between a write and an answer; storage operations that fail half-way through a
handler; tokens left in channels. `PROJECT.json` lists these hazards with the
lines where they bite. The properties each part owes:

- elections: one leader per term, across crashes and failed saves;
- replication: log matching, finality of commits, a leader has what was
  committed, its bookkeeping is true, repair of a log makes progress;
- log and storage: the cache agrees with storage, a write is all or nothing;
- apply pipeline, key-value server: every node applies the committed commands in
  order and once, a request gets its own result and exactly one, reads are not
  older than acknowledged writes;
- snapshots: log and snapshot together lose nothing;
- HTTP, WebSocket, transport: requests end, shutdown ends and leaks nothing.

## 2. Modules

| module | content |
|---|---|
| `Raft` | elections and replication of all nodes, network, crashes, storage faults; the properties |
| `ReplicatedLog` | what Raft promises: one log that only grows, nodes learn prefixes of it |
| `RaftHistory` | `Raft` with history variables, and the inductive invariants over them |
| `RaftCommitted` | the properties of what was committed; implements `ReplicatedLog` |
| `KVServer` | the key-value servers with the apply pipeline, over a consensus that is assumed to be as `ReplicatedLog` says |
| `Storage` | what the storage interface promises |
| `BadgerStorage`, `MemoryStorage` | the two engines; each implements `Storage` |
| `RaftLog` | the log with its cache over both engines, the storage half of `HandleInstallSnapshot`, restarts |
| `Forwarding` | the HTTP interface: forwarding of writes, addresses from the peer list |
| `WebSocketHub`, `Transport` | the hub; the connection pool and the server for the peers' calls |
| `ServerProcess` | composes the hub and the transport with `main`'s start and shutdown |
| `MCRaft`, `MCKVServer`, `MCRaftLog`, `MCForwarding` | symmetries, views and addresses for TLC; `ServerProcess` needs none |
| `RaftElectionProofs` | types, votes and terms of `Raft`: their inductive invariants |
| `RaftReignProofs` | where the entries of logs and messages come from |
| `RaftSafetyProofs` | what a quorum has acknowledged stays, and what is committed was acknowledged |
| `RaftProofs` | the theorems about `Raft`, and that it implements `ReplicatedLog` |
| `KVServerProofs` | types, pending operations, pipeline, stores and local reads of the servers |
| `KVAnswerProofs` | what the answers of one leader are worth until a restart |
| `ForwardingProofs`, `ServerProcessProofs` | safety of forwarding, of one process |

`Raft` and `KVServer` meet in `ReplicatedLog`. That the first implements it is
checked and proved (`ImplementsReplicatedLog`). For the second it is an
assumption: its consensus actions are an environment written after
`ReplicatedLog`, which also takes for granted that only leaders commit first
(`checkCommit`), that a committed command was proposed at a leader, and that it is
in the log once (`Propose` alone puts it there). The two are not composed by a
theorem.

### How `Raft` corresponds to the code

The variables are the fields of `RaftNode` under their names. Besides them:

- `disk` is the saved term and vote. The log is written through, so `log`
  is memory and storage at once. A write is atomic in both engines.
- `votesReceived` is the set of voters, where the code has a counter per
  election: each peer is called once per election.
- `timerFired` is the election timer's goroutine between its look at the role
  and `startElection`, where the lock is free. `leaderLoops` counts the running
  leader loops, `stepDownCh` says whether the channel holds its token.
- `voteRequests`, `voteResponses`, `appendCalls`, `appendRequests` and
  `appendResponses` are the RPC goroutines by where they stand. An answer
  carries what the goroutine keeps on its stack (`prevLogIndex`, the number of
  entries sent).

An action is what a goroutine does while it holds the node's lock:

| action | code |
|---|---|
| `TimerFires`, `startElection`, `CheckWon` | `electionTimer`; the two critical sections of `startElection` |
| `HandleRequestVote`, `ReceiveVote` | the handler; the end of `sendRequestVote`, with `becomeLeader` or `stepDown` |
| `sendHeartbeats`, `leaderLoopReturns` | `leaderLoop` |
| `sendAppendEntries`, `ReceiveAppend` | the two critical sections of `sendAppendEntries`, with `checkCommit` |
| `HandleAppendEntries` | the handler, Rules 1 to 5 |
| `Propose` | the same |
| `LoseRPC` | a call whose request or answer is lost or late |
| `Restart` | crash, `NewRaftNode`, `restoreState`, `Start` |

Abstractions:

- Sets of RPCs deliver in any order. Goroutines with equal arguments are one
  element of a set; `Taken` lets one stay when it is taken, which stands for
  its twin. Calls that fail at once are the peers left out of `reached`.
- `StorageFaults` says which operations may fail: `"save"` of term and vote,
  `"append"`, `"truncate"`, `"read"`. A failed write changes nothing. The entries
  a handler can read are a set chosen per handler: it reads an entry at most
  once from storage, and then from the cache. `GetEntries` does not use the
  cache, and fails by itself.
- A handler that stops at a failed append or truncation leaves the same log as
  a crash at that point.
- `resetTimerCh` and `newEntryCh` only move a step in time, and time is not
  modelled: any timeout may expire at any moment. `leaderId` is kept though
  Raft never reads it: the servers do, in `Forwarding`.
- `resp.MatchIndex` is never read and left out. So are metrics and the log
  output.
- The self entries of `nextIndex` and `matchIndex` do not exist in the code and
  are never read.

`RaftHistory` adds three variables that no action reads. `chosen` is the longest
prefix that any node ever knew to be committed; `commitIndex` is lost in a
crash. `reign[t]` is the log of the leader of the term t, as far as it got, and
`acks` says who acknowledged in which term the log up to which index. The
properties speak of `chosen`, the proofs of all three.

### How `KVServer` corresponds to the code

A request is one call of `Put`, `Delete` or `Get`; `pc` is where its goroutine
is. A value is the name of the request that wrote it, so all values differ.

| action | code |
|---|---|
| `Register`, `ProposeAccepted`, `ProposeRefused` | `Put`, `Delete`, and `propose` up to its `select` |
| `Receive`, `Closed`, `GiveUp` | the cases of the `select`: result, `stopCh`, timeout or context |
| `Collect`, `SendApply` | `RaftNode.applyLoop`: the batch under the lock, and the sends without it |
| `ApplyCommand`, `Notify` | the two halves of `handleApplyMsg`, with `applyCommand` |
| `GetAsLeader`, `GetIndex`, `GetValue`, `GetGiveUp`, `GetLocal` | `Get`, between two looks at the Raft node |
| `CancelPending`, `CloseStopCh`, `LoopReturns` | `Stop` |
| `Lead`, `StepDown`, `Choose`, `Learn` | the environment: consensus, as `ReplicatedLog` has it |
| `Crash` | the process ends and starts again; `store` is all that is left |

`Learn` and the crash let a node learn of the same entries again, as after a
restart. The history variables `highest`, `seen`, `floor` and `started` serve
the properties about reads.

### How the storage modules correspond to the code

`BadgerStorage` has one map `db` with the four key prefixes, `MemoryStorage` the
slice and its offset. `RaftLog` makes every call on both engines, and reads from
Badger; reopening is Badger's, and the in-memory engine, which no restart
survives in the code, is kept to compare the two further. `SaveSnapshot` and `TruncateBefore` are the two storage operations of
`HandleInstallSnapshot`, and the second may fail or not be reached. Readers
share the log's lock, so two may write the cache at the same time: this is a
data race, and each write may be lost (`StoreEntry`). The other outcome, that
the Go runtime ends the process, is `Restart`.

An entry is an index and a term; the command goes with them. `SaveRaftState`
keeps one value for term and vote. Nothing in the repository calls
`SendInstallSnapshot`, so snapshots are what the handler is written for: they
cover a prefix of the log and arrive in order. The constants `SnapshotsAhead`,
`StaleSnapshots` and `StaleAppends` lift these restrictions one by one.

### How `Forwarding` corresponds to the code

A request is a chain of handlers, `hops`, one per time it was passed on. A
handler goes on when the one before it has given up on it. `parsePeers` and
`derivePeerHTTPAddrs` are those of `main.go`, on records of host and port;
the constants give the hosts and ports of a deployment. Elections are reduced
to what changes `leaderId` and who leads: a quorum elects a node, nodes hear of
it at any time or never, and a candidate that does not win deposes a leader. A
handler that waits may get a result at any time, since the server hands out
results by request number and a number is not unique (`kv_request_id`): what a
success says of the write itself is a question to `KVServer`. `settled` remembers whether anything moved since the request
was sent.

### How `ServerProcess` corresponds to the code

`main` is the statement that `main` is at, and the hub's `Stop` and the
transport's `Stop` are inlined in their steps. `WebSocketHub` keeps apart what
holds `h.mu` and what is inside `closeOnce`; where the code takes the lock
for a moment the action needs it free. The gorilla library panics on two writes
at once to one connection: in the handler the HTTP server recovers it
(`SendPanics`), in the broadcast loop nothing does (`Crash`). In `Transport`
one step is what `getOrCreateConnection` does under `connMu`, and `open` counts
the connections that exist, in the pool or not.

## 3. What TLC checks

### Runs of `MCRaft`

`Electing` are the nodes whose timer may expire, `Crashing` those that may
crash. The bounds: `MaxTerm`, `MaxLog`, `MaxTimers` (timer goroutines between
check and election), `MaxVoteRPCs` and `MaxAppendRPCs` (RPCs of either kind in
flight, over all nodes).

| run | instance | shows |
|---|---|---|
| `election` | 3 nodes, 2 electing, all crash; save and append faults; 2 terms, 2 timers, 2 vote RPCs | `ElectionSafety`, and `VoteInv`, the inductive invariant of its proof |
| `reorder` | 3 nodes, 1 leader, 1 command; 3 entries, 2 append RPCs | the leader's bookkeeping is true (`MatchIndexSound`, `NextIndexInRange`) and commits are final (`ImplementsReplicatedLog`) though requests and answers overtake each other |
| `terms` | 3 nodes, 2 electing, 3 terms, 2 entries | `LogMatching`, `LeaderCompleteness`, `RejectionBacksUp` while two leaders overwrite each other's entries |
| `faults` | 3 nodes, 2 electing and crashing; append and truncate faults; 2 terms, 2 entries | `TypeOK`; what was committed stays on a quorum (`CommittedIsStored`) and is the same everywhere (`StateMachineSafety`); a node remembers every term it has answered in (`PersistBeforeResponding`); `NextIndexInRange`, `LeaderAppendOnly` and `ImplementsReplicatedLog` across changes of leader |
| `single` | 1 node, 2 commands, under fairness | `SingleNodeLeads` |
| `stale_token` | 2 nodes, 2 terms | refutes `LeaderHasLoop`, see below |

Three nodes are the smallest cluster in which a quorum can leave a node out.
Two electing nodes suffice for two leaders of different terms and for split
votes, and the third is the voter they compete for. Three terms are needed for
the case in which a leader returns after another one has overwritten its
entries and finds an old entry on a quorum. Two AppendEntries in flight are
needed for one to overtake another. One RPC in flight at a time does not
serialise the nodes: a request built in an old term stays in flight while
elections go on.

The symmetry permutes nodes within `Electing` and within the rest. The view
leaves out what no later step reads (the indices of a node that does not lead,
the votes of a follower, the timer and loops of a node that the bounds keep
from leading again).

A mutation of `checkCommit` that drops the comparison of the term is not
detected by these runs, and rightly so: `becomeLeader` appends a no-op and every
AppendEntries of the term carries all entries from `nextIndex` on, so that an
older entry is never on a quorum without the no-op of the term being there
too. This holds while reads do not fail. A read that fails empties the request
(`log.go:153`), whose success then raises `matchIndex` over older entries alone,
and there the comparison does matter; but `MCRaftReadFault` shows that failing
reads break the commits even with it.

### Runs of the other modules

| run | instance | shows |
|---|---|---|
| `kv` | `MCKVServer`: a leader and a follower, 2 writers, 1 linearizable reader, 1 crash, log of 2, `applyCh` of 1 | the store is the replay of the log, also when the log is applied again over it (`StoreIsReplay`); until a restart a success is the client's own (`AnswerIsOwnUntilRestart`) and reads are linearizable (`ReadsLinearizableUntilRestart`) |
| `kv_live` | `MCKVServer`: 1 node, 2 writers, 1 local reader, `Stop`, append faults, fair | `TypeOK`; no result is dropped (`RegisteredIsWaiting`); `ReadsCommitted`; `Stop` releases every waiting write (`StopAnswersAll`) and a committed write is answered (`CommittedIsAnswered`) |
| `kv_request_id` | `MCKVServer`: 1 node, 2 writers, 1 crash | refutes `AnswerIsOwn`, see below |
| `storage` | `MCRaftLog`: 3 entries, 2 terms, cache of 2, 2 readers | each engine implements `Storage` (`BadgerImplements`, `MemoryImplements`) and both answer alike (`EnginesAnswerAlike`); `LogReadsBack`, `RestartFindsLog`, `CacheBounded` |
| `forwarding` | `MCForwarding`: 3 nodes, 1 write, 1 read, 2 terms, 3 hops, fair | `ProposedOnce`; the answer tells whether the write was proposed, unless a hop gave up (`AnswerTellsProposal`); `ArrivesAtHint`, `OneHopWhenSettled`; `EveryRequestAnswered` |
| `process` | `ServerProcess`: 1 client, 1 peer, 2 callers, 1 call of a peer, fair | `ClosedOnce`, `MapMatchesConnections`, `PoolKnowsOpen`, `ServedFromOpenStore`; the shutdown ends or is stuck in one of two known ways (`ShutdownReturns`) |

Why these bounds.

- `kv`, `kv_live`: two writes suffice for one to be in the pipeline while the
  other registers, for a full `applyCh`, and for an old number to meet a new
  request. The properties until a restart are about one node that can lead: with
  two they fail, as the next section shows. The follower of `kv` has a store
  that lags behind, and is asked for linearizable reads, too; what it learns
  late, or again after its restart, it applies as the leader does. The view
  leaves out what these properties do not read any more: requests that have
  failed, and after a restart all of a request but whether it may still propose.
- `storage`: a cache of two evicts with the third entry, and `CacheSize \div 2`
  is then 1; three entries leave one before, in and behind a cut. Two readers
  are needed for the race on the cache.
- `forwarding`: two terms leave a deposed leader and stale hints, three hops
  a circle. The bound on hops does not hide an endless one, since every
  handler in a circle has its own timeout.
- `process`: one client meets its handler, its reader, the broadcaster and
  `Stop`. `MCServerProcessTwo.cfg` checks the four invariants with two clients
  (848 000 states); the proofs cover any number.

Deadlock is not checked: the bounded instances stop at their bounds, and a
process that has ended stops.

### Fairness

- `single`: the election timer expires, and a node's own goroutines go on.
- `kv_live`: the apply loop, the server's loop, the rest of `Stop` once it has
  begun, and the goroutine of a request go on when they can; a committed
  entry becomes known to each node (`Learn`), as heartbeats carry the commit
  index. Elections, clients and the timeouts of requests owe nothing, so the
  answers come without help of a timeout.
- `forwarding`: every handler goes on, and its timers fire. No election
  and no failure is owed.
- `process`: `main`, the handlers and the broadcaster go on; the HTTP server's
  30 seconds pass. `LoopEnds` has strong fairness: the loop's `select` has a
  ticker and `stopCh` ready again and again and chooses at random. Peers and
  clients owe nothing.

The Go scheduler, `time.After` and `context.WithTimeout` give all of this.
Nothing is assumed of the network.

### Disagreements found

Two are runs of the project that TLC refutes, against a line of the repository.

- `stale_token` (`LeaderHasLoop`). `stepDown` leaves a token in `stepDownCh`
  also when the node was not leader, contrary to the comment above the call
  (`raft.go:366`). The node wins a later election, and the new leader loop takes
  the token and returns: it leads, but sends no heartbeat.
- `kv_request_id` (`AnswerIsOwn`). Request numbers start again with every
  process and are stored in the log, though `types.go:66` calls them unique. A
  command from before a restart completes a new request that has its number,
  and the client is told of success before its command is committed.

The others have a configuration each. TLC reports a violation for each.

| configuration | property | what happens |
|---|---|---|
| `MCRaftLostTerm` | `PersistBeforeResponding` | `stepDown` drops the error of the save and the node answers in the new term (`raft.go:362`); after a crash it is back in the old one, contrary to `raft.go:49` and `README.md:62`. Elections stay safe nevertheless, which is what `VotesCorrect` proves. |
| `MCRaftReadFault` | `CommittedIsStored` | `GetEntries` returns nothing when the read fails; the request carries no entries but the commit index, and a follower with other entries commits them (`log.go:153`, `rpc_handlers.go:157`), contrary to `README.md:61`. |
| `MCRaftReadVote` | `LeaderCompleteness` | `LastTerm` is 0 when the read fails (`log.go:58`). If it fails at the candidate and at the voter, the two compare lengths only, and a node without a committed entry is elected. |
| `MCRaftSingleStuck` | `SingleNodeCommits` | A node without peers never commits: only a peer's answer leads to `checkCommit` (`replication.go:137`), contrary to `README.md:135` and `kv_server.go:325`. |
| `MCKVServerReadIndex` | `ReadSeesCommitted` | `lastApplied` moves when the batch is collected (`replication.go:222`), before the store changes: a linearizable `Get` misses a committed write, contrary to `kv_server.go:210`. |
| `MCKVServerNewLeader` | `ReadsLinearizable` | A deposed leader, or a new one before its first commit, serves an old value. The comment at `kv_server.go:212` knows the first case as a race window. |
| `MCKVServerSkipped` | `StoreIsReplay` | An entry that cannot be read is skipped for good (`replication.go:222`). |
| `MCRaftLogAhead` | `RestartFindsLog` | After a snapshot beyond the end of the log `lastIndex` stays behind (`rpc_handlers.go:202`); a restart finds another. |
| `MCRaftLogOld` | `LogReadsBack` | A delayed snapshot replaces a newer one, whose log is gone. |
| `MCRaftLogLastTerm` | `LastTermKnown` | A log that lies in the snapshot altogether has last term 0 (`log.go:58`), where the storage has the snapshot's. |
| `MCRaftLogStale` | `EnginesAnswerAlike` | An append below the cut is dropped by one engine (`memory.go:145`) and stored by the other. |
| `MCForwardingLoop` | `NoLoop` | A write goes in circles: the header "to prevent infinite loops" (`http_handler.go:249`) is never read. |
| `MCForwardingTimeout` | `NotLeaderMeansNothingDone` | The forwarding client gives up, the answer is "not leader", and the write is carried out. |
| `MCForwardingLocal` | `PeersKnown` | With `configs/node*.yaml` all peers have the ID `localhost` (`main.go:223`). |
| `MCServerProcessHub` | `ShutdownAlwaysReturns` | `Stop` holds the mutex and waits for a `closeOnce` that waits for the mutex, or a client registers too late (`websocket.go:131`, `:154`). |
| `MCServerProcessPool` | `StoppedMeansClosed` | A goroutine that still runs dials after `Stop` has closed "all connections" (`grpc_server.go:128`). |

The four of `RaftLog` need an `InstallSnapshot`, which no node sends yet.

## 4. What is proved

The `Proofs` modules prove what follows for every value of the constants: any
cluster, commands, requests, clients, peers and goroutines, every set of
crashing nodes, and all bounds. The third column is what is assumed of
`StorageFaults` and of the deployment; where it is empty, everything may fail.

| theorem | property (always) | if |
|---|---|---|
| `TypeCorrect` (`RaftElectionProofs`) | `TypeOK` of `Raft` | |
| `VotesCorrect` (same) | `VoteInv` | |
| `OneLeaderPerTerm` (this and the next in `RaftProofs`) | `ElectionSafety` | |
| `SendersAreElected` | `SenderElected` | |
| `LeadersAppendOnly` | `LeaderAppendOnly` | |
| `LogsCorrect` | `LogInv` | no failing reads |
| `LogsMatch` | `LogMatching` | no failing reads |
| `NextIndicesInRange` | `NextIndexInRange` | no failing reads |
| `RejectionsBackUp` | `RejectionBacksUp` | no failing reads |
| `TermsAreSaved`, `AnswersAreSaved` | `TermsSaved`, `PersistBeforeResponding` | no failing saves |
| `SafetyCorrect` | `SafetyInv` | neither |
| `MatchIndicesSound` | `MatchIndexSound` | neither |
| `StateMachinesSafe` | `StateMachineSafety` | neither |
| `LeadersComplete` | `LeaderCompleteness` | neither |
| `CommittedStored` | `CommittedIsStored` | neither |
| `RaftImplementsLog` | `ImplementsReplicatedLog` | neither |
| `TypeCorrect` (`KVServerProofs`) | `TypeOK` of `KVServer` | |
| `PendingCorrect` (same) | `RegisteredIsWaiting` | |
| `LocalReadsCorrect` (same) | `ReadsCommitted` | |
| `StoresCorrect` (same) | `StoreIsReplay` | no failing reads or applies |
| `AnswersAreOwn` (`KVAnswerProofs`) | `AnswerIsOwnUntilRestart` | one node leads |
| `LeaderReadsCorrect` (same) | `ReadsLinearizableUntilRestart` | one node leads, no failing reads or applies |
| `ForwardingCorrect` (`ForwardingProofs`) | `ProposedOnce` | |
| `AnswersTellProposals` (same) | `AnswerTellsProposal` | |
| `ArrivalsCorrect`, `SettledCorrect` (same) | `ArrivesAtHint`, `OneHopWhenSettled` | host names are node IDs |
| `PoolCorrect`, `StoreCorrect` (`ServerProcessProofs`) | `PoolKnowsOpen`, `ServedFromOpenStore` | |
| `ClosesCorrect`, `MapCorrect` (same) | `ClosedOnce`, `MapMatchesConnections` | |

The conditions are there for a reason, which configurations of section 3 show.
With failing reads a follower commits entries that
the leader does not have (`MCRaftReadFault`) and a node without a committed
entry is elected (`MCRaftReadVote`); with failing saves a node forgets a term it
answered in (`MCRaftLostTerm`); a skipped entry is missing in a store
(`MCKVServerSkipped`); a second leader serves old values
(`MCKVServerNewLeader`); host names that are not IDs leave peers unknown
(`MCForwardingLocal`). Failing appends and truncations, which leave a log
half-written, are covered by all theorems about `Raft`.

**Types of Raft.** By itself `TypeOK` is not inductive: `prevLogIndex` is
`nextIndex - 1`, and `nextIndex` may come from a rejection. `IndexInv` adds that
a leader's `nextIndex` is at least 1 and that a rejection which names a term
names an index.

**Elections.** `ElectionSafety` speaks of leaders, but a step that makes a
leader uses votes given long before, so the invariant must follow a vote from
the voter to the candidate. `VotesBind` says that a vote that is counted or on
its way binds the voter both in memory and in storage (`KeepsVote`): in a later
term, or in this one with the same vote. The case that could break it is
`becomeLeader` whose no-op cannot be stored: it calls `stepDown` in its own
term and clears the vote it gave itself. `KeepsVote` fails for this vote, but
the node has then left the election, so the vote no longer counts, and
`VotesUnique` keeps the remaining votes apart. `VotesSaved` covers failed saves:
storage is never ahead of memory, and a candidate's vote for itself is saved.
Two leaders of a term would have two quorums of votes with a common voter
(`QuorumsIntersect`), which `VotesUnique` excludes. `SenderElected` says that an
AppendEntries comes from a node that was elected in its term, so none reaches
the leader of that term from another node, and `LeaderAppendOnly` follows.

**Logs.** Log matching compares two logs, but where an entry comes from is a
third one: that of the leader which appended it, possibly long overwritten. So
the invariant `LogInv` is about `reign`. Every log is `Rooted`: up to each of
its entries it agrees with the reign of the entry's term (`ReignInv`). An
AppendEntries carries a piece of the reign of its term (`RequestInv`), whose
last entry is of that term, and an answer is about such a piece
(`ResponseInv`); `NextInv` keeps the leader's indices in its log. A follower
that takes the piece, or the part of it that it could store, stays rooted,
because Rule 2 has compared the entry before it. Two rooted logs with an entry
of the same term agree up to it, since both agree with that reign. For
`RejectionBacksUp`, a conflict names a term whose reign has, at
`prevLogIndex`, another entry than the leader.

**Commitment.** What is committed depends on what was acknowledged, also by
nodes that have crashed or moved on since, so `SafetyInv` is about `acks`. A
node still has what it acknowledged to the leader of t, or has reached the term
of a later leader that lacks it (`KeepsAcked`). A candidate has what its voters
acknowledged in earlier terms, with the same exception: this is what
`isLogUpToDate` is for (`VotersInv`). So a later leader has the entries of an
earlier one, or there is a quorum of nodes that did not acknowledge them and
never will, because their terms have passed (`LaterLeaderHas`). A committed
entry was acknowledged by a quorum, two quorums meet, and the second case is
excluded. `CommitInv` says that all that the nodes, the AppendEntries in flight
and `chosen` take to be committed is `Settled` in this sense. `TermsSaved` is
needed because the terms of the voters must not go back in a crash, which is
why saves must not fail here, though they may for `ElectionSafety`.

**Refinement.** `chosen` and the committed prefixes of the nodes are the
variables of `ReplicatedLog`. Each step of `RaftHistory` moves the `commitIndex`
of one node at most, and what it adds agrees with `chosen`, as both are settled
(`Learn`); a restart is `Forget`; the others stutter, since no step changes an
entry that its node knows to be committed.

**Pending operations.** `RegisteredIsWaiting` says that a registered channel is
empty. `Notify` sends to whoever is registered under a command's number, and
0 stands for "not registered", so `EntryInv` and `CommandInv` first follow the
commands from the request through the log and the pipeline: no number is 0.
`PendingInv` adds that a request that has not begun is not registered and its
channel is empty, which `Register` relies on. That the numbers are not unique
does no harm here: every receiver is unregistered as it is served.

**Pipeline and stores.** `PipeInv` says of each entry between `applyLoop` and
the store which entry of the log it is: the one that its position in the
batch and the channel, counted back from `lastApplied`, says, or an earlier one
where reads fail (`CountedAt`). From it `ValueInv` (every value in a store was
its key's at some point of the log) holds under all faults, and gives
`ReadsCommitted`. For `StoreIsReplay` the store has to be described while it is
behind itself: after a restart the log is applied again over the store that
was left. `StoreInv` says that a key which the entries applied so far have
written has the value of their replay, and one which nothing ever applied has
written is absent. When the pipeline has caught up with `highest`, the two
cases are all. The proof needs of `Replay`
only what one more entry changes, and that a longer log has the same replays.

**Answers of one leader.** The numbers of requests are unique until a restart
(`IdInv`) and commands in the log stem from requests at the one node that leads
(`OriginInv`). So the entry that `Notify` reports (`NotifyInv`) and a result
that waits in a channel (`OwnInv`) belong to the request that gets them.
For reads, all that answers have revealed is in the store of the leader
(`SeenInv`), and a read sees all of its store.

**Forwarding.** `ChainInv`: a handler that is not the last of its chain has not
proposed, and one that has proposed is not refused any more, so it never
forwards. Two that have proposed would both be last. A handler that waits has
proposed, and `AnswerInv` follows the answers back along the chain: a handler
relays what the next one answered or has given up on it. For `ArrivesAtHint` and `OneHopWhenSettled` the addresses
that `derivePeerHTTPAddrs` makes of host names lead to the nodes meant, and
while nothing has moved every hint is the leader.

**One process.** `PoolInv` is `PoolKnowsOpen` with types. `StoreInv` follows
`main`: once the transport is told to stop no call begins, and the storage is
closed after the last has ended or the stop was cut off. `HubInv` ties the
number of times a connection was closed to its `closeOnce` (`OnceCounts`), and
the map to the connections (`MapIsOpen`, `MapIsFull`). It needs
`KnownAreRegistered`: nobody, the broadcaster with its old copy of the map
included, has a client in hand that is not registered.

The assumptions on the constants are in the modules that declare them: the nodes
of `Raft` are a finite nonempty set without `None`, the commands do not contain
`NoOp`, writers and readers (of `Forwarding`: writes and reads) differ, `Nowhere`
is not a node, the bounds are natural numbers. `ServerProcess` needs none.
The invariants were model-checked before they were proved: `VoteInv` still is, in
`election`, and `LogInv`, `SafetyInv` and `SenderElected` can be with
`MCRaftHistory.cfg` (module `MCRaft`, 315 838 states), where appends and
truncations fail but, as `SafetyInv` needs, neither saves nor reads do.

Model-checked only:

- all liveness (`SingleNodeLeads`, `EveryRequestAnswered`, `StopAnswersAll`,
  `CommittedIsAnswered`, `ShutdownReturns`), which is out of the prover's reach;
- the storage engines and the log's cache (`EnginesAnswerAlike`, `LogReadsBack`,
  `RestartFindsLog`, `CacheBounded`, `BadgerImplements`, `MemoryImplements`). What
  these compare are maxima and images of sets of keys of two data
  structures, over which the proofs would be inductions on data.

## 5. Not modelled

- *Delivery of a snapshot.* `HandleInstallSnapshot` hands the snapshot to the
  server, which ignores it, and no node sends one. What the handler does to the
  storage and the log is in `RaftLog`; its effect on `commitIndex` and
  `lastApplied` is left out.
- *Storage.* A Badger transaction is atomic and durable. `MemoryStorage.Close`,
  which drops everything at the end of a test, `Sync` and `RunGC` are left out,
  and encodings with them.
- *Configuration.* Only the peer list is modelled. Defaults, environment
  variables and validation are sequential parsing without state.
- *HTTP and WebSocket contents.* `/cluster/info`, `/health` and `/metrics` only
  read; bodies, sizes and `getClusterState` are data that no step depends on.
- *Transport.* `CloseConnection` has no caller. The generated code for the
  protocol buffers is the records of `Raft`; nothing serves `kv.proto`.
- *Metrics, test utilities, dashboard.* They change nothing that the system
  reads back.
- *Time.* A timeout may expire at any moment. Whether elections settle depends
  on the ratio of timeouts to delays, so no cluster-wide liveness is stated.
