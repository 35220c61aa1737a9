------------------------------ MODULE KVServer ------------------------------
(***************************************************************************)
(* The key-value servers of a cluster, internal/server/kv_server.go, and   *)
(* the goroutine of each Raft node that feeds them, applyLoop of           *)
(* internal/raft/replication.go.  Consensus is their environment, assumed  *)
(* to be as ReplicatedLog says: one log that only grows, of which every    *)
(* node knows a prefix, and holds what leaders proposed, each command once.*)
(*                                                                         *)
(* A request is one call of Put, Delete or Get by one client.  The value   *)
(* that a Put stores is the name of its request: all values differ.        *)
(***************************************************************************)
EXTENDS Integers, Sequences, FiniteSets, FiniteSetsExt

CONSTANTS
  Node,         \* the servers
  Key,          \* the keys
  Op,           \* the writes that clients ask for, of Put and Delete
  Writer,       \* the requests that Put or Delete
  Reader,       \* the requests that Get
  LocalReader,  \* those of them that do not ask for a linearizable read
  NoOp,         \* the nil command of the entry a new leader appends
  Absent,       \* what a Get of a missing key returns
  Electing,     \* bound: the nodes that may become leader
  Stopping,     \* the nodes whose operator may stop them
  MaxCrashes,   \* bound: crashes of all nodes together
  MaxLog,       \* bound: entries chosen
  ApplyCap,     \* capacity of applyCh, 100 in cmd/server
  StorageFaults \* the uses of storage that may fail

ASSUME RequestAssumption ==
  /\ Writer \cap Reader = {}
  /\ Op \subseteq {"Put", "Delete"}
  /\ Absent \notin Writer /\ LocalReader \subseteq Reader
ASSUME BoundAssumption ==
  /\ Electing \subseteq Node /\ Stopping \subseteq Node
  /\ MaxCrashes \in Nat /\ MaxLog \in Nat /\ ApplyCap \in Nat \ {0}
  /\ StorageFaults \subseteq {"append", "read", "apply"}

VARIABLES
  \* consensus
  proposed,      \* the entries leaders have appended to their logs
  chosen,        \* the entries that are committed, in order
  commitIndex, leading,
  \* apply pipeline
  lastApplied,
  toApply,       \* the batch that applyLoop has collected and not yet sent
  applyCh,
  \* server
  store,         \* the keys in storage: survives a crash
  notifying,     \* the request ID and result whose client is not yet notified
  pendingOps,    \* pendingOps[n][r]: the ID under which r is registered, or 0
  nextRequestID,
  stopPhase,     \* how far Stop is: "no", "cancelled", "closed", "stopped"
  \* requests
  pc, at,        \* where the request's goroutine is, and on which node
  cmd,           \* what it asks for
  resultCh,      \* what its channel, of capacity 1, holds
  readIndex,     \* the commit index that a Get waits for
  answer, value, \* what the request returned
  \* history
  crashes,       \* how many crashes there were
  highest,       \* the most entries that n's store has ever reflected
  seen,          \* what the answers given so far have revealed of chosen
  floor,         \* seen, when the read began
  started        \* how much was chosen when the read began

consensusVars == <<proposed, chosen, commitIndex, leading>>
pipeVars == <<lastApplied, toApply, applyCh>>
serverVars == <<store, notifying, pendingOps, nextRequestID, stopPhase>>
requestVars == <<pc, at, cmd, resultCh, readIndex, answer, value>>
historyVars == <<crashes, highest, seen, floor, started>>
vars == <<consensusVars, pipeVars, serverVars, requestVars, historyVars>>

Request == Writer \cup Reader
Command == [op : {"Put", "Delete"}, key : Key, id : Nat \ {0}, by : Writer]
\* The nil command is no Put or Delete.
ASSUME NoOpAssumption == NoOp \notin Command
Entry == Command \cup {NoOp}
Empty == "empty"
Nowhere == "nowhere"
\* It is no node.
ASSUME NowhereAssumption == Nowhere \notin Node
Result == {"ok", "error", "closed"}
Answer == Result \cup {"none", "notLeader", "timeout", "lost"}

\* The state has the shape that the structs KVServer and RaftNode declare.
TypeOK ==
  /\ proposed \subseteq Command /\ chosen \in Seq(Entry)
  /\ commitIndex \in [Node -> Nat] /\ leading \in [Node -> BOOLEAN]
  /\ lastApplied \in [Node -> Nat]
  /\ toApply \in [Node -> Seq(Entry)] /\ applyCh \in [Node -> Seq(Entry)]
  /\ store \in [Node -> [Key -> Writer \cup {Absent}]]
  /\ notifying \in [Node -> [id : Nat \ {0}, result : {"ok", "error"}] \cup {NoOp}]
  /\ pendingOps \in [Node -> [Writer -> Nat]]
  /\ nextRequestID \in [Node -> Nat]
  /\ stopPhase \in [Node -> {"no", "cancelled", "closed", "stopped"}]
  /\ pc \in [Request -> {"idle", "propose", "wait", "index", "get", "done"}]
  /\ at \in [Request -> Node \cup {Nowhere}]
  /\ \A r \in Writer : pc[r] # "idle" => cmd[r] \in Command
  /\ \A r \in Reader : pc[r] # "idle" => cmd[r] \in [op : {"Get"}, key : Key]
  /\ resultCh \in [Writer -> Result \cup {Empty}]
  /\ readIndex \in [Reader -> Nat]
  /\ answer \in [Request -> Answer]
  /\ value \in [Reader -> Writer \cup {Absent}]
  /\ crashes \in Nat /\ highest \in [Node -> Nat] /\ seen \in Nat
  /\ floor \in [Reader -> Nat] /\ started \in [Reader -> Nat]

-----------------------------------------------------------------------------
(* What a log stands for *)

\* The first k chosen entries, replayed on an empty store.
Replay(k) ==
  [key \in Key |->
     LET writes == {i \in 1..k : chosen[i] # NoOp /\ chosen[i].key = key} IN
     IF writes = {} \/ chosen[Max(writes)].op = "Delete" THEN Absent
     ELSE chosen[Max(writes)].by]

\* The entries that n has handed to its store since it started.
Applied(n) == lastApplied[n] - Len(toApply[n]) - Len(applyCh[n])

-----------------------------------------------------------------------------
(* Consensus, as the server sees it *)

Init ==
  /\ proposed = {} /\ chosen = << >>
  /\ commitIndex = [n \in Node |-> 0] /\ leading = [n \in Node |-> FALSE]
  /\ lastApplied = [n \in Node |-> 0]
  /\ toApply = [n \in Node |-> << >>] /\ applyCh = [n \in Node |-> << >>]
  /\ store = [n \in Node |-> [k \in Key |-> Absent]]
  /\ notifying = [n \in Node |-> NoOp]
  /\ pendingOps = [n \in Node |-> [r \in Writer |-> 0]]
  /\ nextRequestID = [n \in Node |-> 0]
  /\ stopPhase = [n \in Node |-> "no"]
  /\ pc = [r \in Request |-> "idle"]
  /\ at = [r \in Request |-> Nowhere] /\ cmd = [r \in Request |-> NoOp]
  /\ resultCh = [r \in Writer |-> Empty]
  /\ readIndex = [r \in Reader |-> 0]
  /\ answer = [r \in Request |-> "none"]
  /\ value = [r \in Reader |-> Absent]
  /\ crashes = 0 /\ highest = [n \in Node |-> 0] /\ seen = 0
  /\ floor = [r \in Reader |-> 0] /\ started = [r \in Reader |-> 0]

\* n wins an election; nodes that led before may not know yet.
Lead(n) ==
  /\ n \in Electing /\ ~leading[n]
  /\ leading' = [leading EXCEPT ![n] = TRUE]
  /\ UNCHANGED <<proposed, chosen, commitIndex>>
  /\ UNCHANGED <<pipeVars, serverVars, requestVars, historyVars>>

\* n learns of a later term.
StepDown(n) ==
  /\ leading[n]
  /\ leading' = [leading EXCEPT ![n] = FALSE]
  /\ UNCHANGED <<proposed, chosen, commitIndex>>
  /\ UNCHANGED <<pipeVars, serverVars, requestVars, historyVars>>

\* n, which leads, advances its commit index over one more entry: a command that
\* was proposed and is not committed yet, or the no-op of a leader.  That terms and
\* majorities keep the log one is left to Raft; a commit of several entries is
\* several of these steps.
Choose(n, e) ==
  /\ leading[n] /\ Len(chosen) < MaxLog
  /\ e = NoOp \/ \A i \in DOMAIN chosen : chosen[i] # e
  /\ chosen' = Append(chosen, e)
  /\ commitIndex' = [commitIndex EXCEPT ![n] = Len(chosen) + 1]
  /\ UNCHANGED <<proposed, leading>>
  /\ UNCHANGED <<pipeVars, serverVars, requestVars, historyVars>>

\* n learns that the first i entries are committed.
Learn(n, i) ==
  /\ i > commitIndex[n]
  /\ commitIndex' = [commitIndex EXCEPT ![n] = i]
  /\ UNCHANGED <<proposed, chosen, leading>>
  /\ UNCHANGED <<pipeVars, serverVars, requestVars, historyVars>>

-----------------------------------------------------------------------------
(* RaftNode.applyLoop *)

\* Under the lock: the committed entries that are not applied form a batch.
\* When entry k cannot be read the batch ends before it, but lastApplied has
\* moved to k already.
Collect(n, k, failed) ==
  /\ toApply[n] = << >> /\ lastApplied[n] < commitIndex[n]
  /\ IF failed THEN "read" \in StorageFaults /\ k \in lastApplied[n] + 1..commitIndex[n]
               ELSE k = commitIndex[n]
  /\ lastApplied' = [lastApplied EXCEPT ![n] = k]
  /\ toApply' = [toApply EXCEPT
       ![n] = SubSeq(chosen, lastApplied[n] + 1, IF failed THEN k - 1 ELSE k)]
  /\ UNCHANGED <<applyCh, consensusVars, serverVars, requestVars, historyVars>>

\* Mutant: a message that finds the channel full is dropped.
SendApplyDropping(n) ==
  /\ toApply[n] # << >>
  /\ applyCh' = [applyCh EXCEPT
       ![n] = IF Len(@) < ApplyCap THEN Append(@, Head(toApply[n])) ELSE @]
  /\ toApply' = [toApply EXCEPT ![n] = Tail(@)]
  /\ UNCHANGED <<lastApplied, consensusVars, serverVars, requestVars, historyVars>>

\* Without the lock: the batch goes to the channel message by message.
SendApply(n) ==
  /\ toApply[n] # << >> /\ Len(applyCh[n]) < ApplyCap
  /\ applyCh' = [applyCh EXCEPT ![n] = Append(@, Head(toApply[n]))]
  /\ toApply' = [toApply EXCEPT ![n] = Tail(@)]
  /\ UNCHANGED <<lastApplied, consensusVars, serverVars, requestVars, historyVars>>

-----------------------------------------------------------------------------
(* KVServer.applyLoop *)

\* What the storage holds after the command; the no-op of a leader decodes to
\* no command at all.
applyCommand(s, e) ==
  IF e = NoOp THEN s
  ELSE [s EXCEPT ![e.key] = IF e.op = "Put" THEN e.by ELSE Absent]

\* The first half of handleApplyMsg: the command takes effect, unless the
\* storage fails.  After Stop has closed stopCh the loop may take the message
\* or return.
ApplyCommand(n, result) ==
  LET e == Head(applyCh[n]) IN
  /\ applyCh[n] # << >> /\ notifying[n] = NoOp /\ stopPhase[n] # "stopped"
  /\ result = "ok" \/ ("apply" \in StorageFaults /\ e # NoOp)
  /\ store' = [store EXCEPT ![n] = IF result = "ok" THEN applyCommand(@, e) ELSE @]
  /\ notifying' = [notifying EXCEPT
       ![n] = IF e = NoOp THEN NoOp ELSE [id |-> e.id, result |-> result]]
  /\ applyCh' = [applyCh EXCEPT ![n] = Tail(@)]
  /\ highest' = [highest EXCEPT ![n] = Max({@, Applied(n) + 1})]
  /\ UNCHANGED <<pendingOps, nextRequestID, stopPhase, lastApplied, toApply>>
  /\ UNCHANGED <<consensusVars, requestVars, crashes, seen, floor, started>>

\* The requests registered on n under the ID id: at most one.
Registered(n, id) == {r \in Writer : pendingOps[n][r] = id}

\* A send that does not block: a full channel keeps what it has.
Send(ch, r, result) == [ch EXCEPT ![r] = IF @ = Empty THEN result ELSE @]

Unregister(n, r) == [pendingOps EXCEPT ![n][r] = 0]

\* Mutant: leaves the operation registered.
NotifyKeeping(n) ==
  /\ notifying[n] # NoOp
  /\ \E r \in Registered(n, notifying[n].id) : resultCh' = Send(resultCh, r, "ok")
  /\ notifying' = [notifying EXCEPT ![n] = NoOp]
  /\ UNCHANGED <<pendingOps, store, nextRequestID, stopPhase, pipeVars, consensusVars>>
  /\ UNCHANGED <<pc, at, cmd, readIndex, answer, value, historyVars>>

\* The second half: whoever is registered under the command's ID gets the
\* result and is no longer registered.
Notify(n) ==
  /\ notifying[n] # NoOp
  /\ LET waiting == Registered(n, notifying[n].id) IN
     IF waiting = {} THEN UNCHANGED <<pendingOps, resultCh>>
     ELSE \E r \in waiting : /\ pendingOps' = Unregister(n, r)
                             /\ resultCh' = Send(resultCh, r, notifying[n].result)
  /\ notifying' = [notifying EXCEPT ![n] = NoOp]
  /\ UNCHANGED <<store, nextRequestID, stopPhase, pipeVars, consensusVars>>
  /\ UNCHANGED <<pc, at, cmd, readIndex, answer, value, historyVars>>

-----------------------------------------------------------------------------
(* KVServer.Put, Delete and propose *)

\* Mutants: the ID is the counter before it is incremented; the counter is
\* never written back.
RegisterOld(r, n, op, key) ==
  /\ pc[r] = "idle"
  /\ nextRequestID' = [nextRequestID EXCEPT ![n] = @ + 1]
  /\ pendingOps' = [pendingOps EXCEPT ![n][r] = nextRequestID[n]]
  /\ cmd' = [cmd EXCEPT ![r] = [op |-> op, key |-> key, id |-> nextRequestID[n], by |-> r]]
  /\ at' = [at EXCEPT ![r] = n] /\ pc' = [pc EXCEPT ![r] = "propose"]
  /\ UNCHANGED <<store, notifying, stopPhase, resultCh, readIndex, answer, value>>
  /\ UNCHANGED <<consensusVars, pipeVars, historyVars>>

RegisterSame(r, n, op, key) ==
  /\ pc[r] = "idle"
  /\ pendingOps' = [pendingOps EXCEPT ![n][r] = nextRequestID[n] + 1]
  /\ cmd' = [cmd EXCEPT ![r] =
               [op |-> op, key |-> key, id |-> nextRequestID[n] + 1, by |-> r]]
  /\ at' = [at EXCEPT ![r] = n] /\ pc' = [pc EXCEPT ![r] = "propose"]
  /\ UNCHANGED <<store, notifying, nextRequestID, stopPhase, resultCh, readIndex>>
  /\ UNCHANGED <<answer, value, consensusVars, pipeVars, historyVars>>

\* A fresh ID, and the channel registered under it before anything is
\* proposed.
Register(r, n, op, key) ==
  LET id == nextRequestID[n] + 1 IN
  /\ pc[r] = "idle"
  /\ nextRequestID' = [nextRequestID EXCEPT ![n] = id]
  /\ pendingOps' = [pendingOps EXCEPT ![n][r] = id]
  /\ cmd' = [cmd EXCEPT ![r] = [op |-> op, key |-> key, id |-> id, by |-> r]]
  /\ at' = [at EXCEPT ![r] = n]
  /\ pc' = [pc EXCEPT ![r] = "propose"]
  /\ UNCHANGED <<store, notifying, stopPhase, resultCh, readIndex, answer, value>>
  /\ UNCHANGED <<consensusVars, pipeVars, historyVars>>

\* The goroutine of r returns.
Return(r, a) ==
  /\ pc' = [pc EXCEPT ![r] = "done"]
  /\ answer' = [answer EXCEPT ![r] = a]

\* raft.Propose appends the command to the log of a leader.
ProposeAccepted(r) ==
  /\ pc[r] = "propose" /\ leading[at[r]]
  /\ proposed' = proposed \cup {cmd[r]}
  /\ pc' = [pc EXCEPT ![r] = "wait"]
  /\ UNCHANGED <<chosen, commitIndex, leading, pipeVars, serverVars, historyVars>>
  /\ UNCHANGED <<at, cmd, resultCh, readIndex, answer, value>>

\* It fails, and propose takes the registration back.
ProposeRefused(r) ==
  /\ pc[r] = "propose"
  /\ \/ ~leading[at[r]] /\ Return(r, "notLeader")
     \/ leading[at[r]] /\ "append" \in StorageFaults /\ Return(r, "error")
  /\ pendingOps' = Unregister(at[r], r)
  /\ UNCHANGED <<store, notifying, nextRequestID, stopPhase, at, cmd, resultCh>>
  /\ UNCHANGED <<readIndex, value, consensusVars, pipeVars, historyVars>>

\* The positions of r's command in the log: none or one.
Position(r) == {i \in DOMAIN chosen : chosen[i] = cmd[r]}

\* The waiting goroutine finds a result in its channel.
Receive(r) ==
  /\ pc[r] = "wait" /\ resultCh[r] # Empty
  /\ Return(r, resultCh[r])
  /\ resultCh' = [resultCh EXCEPT ![r] = Empty]
  /\ seen' = IF resultCh[r] = "ok" THEN Max(Position(r) \cup {seen}) ELSE seen
  /\ UNCHANGED <<at, cmd, readIndex, value, crashes, highest, floor, started>>
  /\ UNCHANGED <<consensusVars, pipeVars, serverVars>>

\* Mutant: the select has no case for stopCh.
ClosedMissing(r) == FALSE /\ UNCHANGED vars

\* It finds stopCh closed.
Closed(r) ==
  /\ pc[r] = "wait" /\ stopPhase[at[r]] \in {"closed", "stopped"}
  /\ Return(r, "closed")
  /\ UNCHANGED <<at, cmd, resultCh, readIndex, value>>
  /\ UNCHANGED <<consensusVars, pipeVars, serverVars, historyVars>>

\* The operation's timeout passes or its context is cancelled.
GiveUp(r) ==
  /\ pc[r] = "wait"
  /\ Return(r, "timeout")
  /\ pendingOps' = Unregister(at[r], r)
  /\ UNCHANGED <<store, notifying, nextRequestID, stopPhase, at, cmd, resultCh>>
  /\ UNCHANGED <<readIndex, value, consensusVars, pipeVars, historyVars>>

-----------------------------------------------------------------------------
(* KVServer.Get *)

\* Mutant: any node serves the read.
GetAnywhere(r, n, key) ==
  /\ pc[r] = "idle"
  /\ pc' = [pc EXCEPT ![r] = "index"]
  /\ at' = [at EXCEPT ![r] = n]
  /\ cmd' = [cmd EXCEPT ![r] = [op |-> "Get", key |-> key]]
  /\ floor' = [floor EXCEPT ![r] = seen]
  /\ started' = [started EXCEPT ![r] = Len(chosen)]
  /\ UNCHANGED <<resultCh, readIndex, answer, value, crashes, highest, seen>>
  /\ UNCHANGED <<consensusVars, pipeVars, serverVars>>

\* A linearizable read begins with the question whether n leads.
GetAsLeader(r, n, key) ==
  /\ pc[r] = "idle"
  /\ IF leading[n] THEN pc' = [pc EXCEPT ![r] = "index"] /\ UNCHANGED answer
                   ELSE Return(r, "notLeader")
  /\ at' = [at EXCEPT ![r] = n]
  /\ cmd' = [cmd EXCEPT ![r] = [op |-> "Get", key |-> key]]
  /\ floor' = [floor EXCEPT ![r] = seen]
  /\ started' = [started EXCEPT ![r] = Len(chosen)]
  /\ UNCHANGED <<resultCh, readIndex, value, crashes, highest, seen>>
  /\ UNCHANGED <<consensusVars, pipeVars, serverVars>>

\* Then it notes the commit index.
GetIndex(r) ==
  /\ pc[r] = "index"
  /\ readIndex' = [readIndex EXCEPT ![r] = commitIndex[at[r]]]
  /\ pc' = [pc EXCEPT ![r] = "get"]
  /\ UNCHANGED <<at, cmd, resultCh, answer, value>>
  /\ UNCHANGED <<consensusVars, pipeVars, serverVars, historyVars>>

\* It reads once lastApplied has reached that index.  The value reveals the
\* earliest point of the log, not before the read's floor, that explains it.
GetValue(r) ==
  LET key == cmd[r].key
      points == {i \in floor[r]..Len(chosen) : Replay(i)[key] = store[at[r]][key]} IN
  /\ pc[r] = "get" /\ lastApplied[at[r]] >= readIndex[r]
  /\ Return(r, "ok")
  /\ value' = [value EXCEPT ![r] = store[at[r]][key]]
  /\ seen' = IF points = {} THEN seen ELSE Max({seen, Min(points)})
  /\ UNCHANGED <<at, cmd, resultCh, readIndex, crashes, highest, floor, started>>
  /\ UNCHANGED <<consensusVars, pipeVars, serverVars>>

\* Or it gives up waiting.
GetGiveUp(r) ==
  /\ pc[r] = "get" /\ lastApplied[at[r]] < readIndex[r]
  /\ Return(r, "timeout")
  /\ UNCHANGED <<at, cmd, resultCh, readIndex, value>>
  /\ UNCHANGED <<consensusVars, pipeVars, serverVars, historyVars>>

\* Mutant: reads what is proposed.
GetLocalProposed(r, n, key) ==
  /\ pc[r] = "idle"
  /\ at' = [at EXCEPT ![r] = n]
  /\ cmd' = [cmd EXCEPT ![r] = [op |-> "Get", key |-> key]]
  /\ Return(r, "ok")
  /\ \E c \in proposed : value' = [value EXCEPT ![r] = c.by]
  /\ UNCHANGED <<resultCh, readIndex, historyVars, consensusVars, pipeVars, serverVars>>

\* Any other read answers from the storage of the node at once.
GetLocal(r, n, key) ==
  /\ pc[r] = "idle"
  /\ at' = [at EXCEPT ![r] = n]
  /\ cmd' = [cmd EXCEPT ![r] = [op |-> "Get", key |-> key]]
  /\ Return(r, "ok")
  /\ value' = [value EXCEPT ![r] = store[n][key]]
  /\ UNCHANGED <<resultCh, readIndex, historyVars>>
  /\ UNCHANGED <<consensusVars, pipeVars, serverVars>>

-----------------------------------------------------------------------------
(* KVServer.Stop, and a crash *)

\* Stop answers the operations that are registered.
CancelPending(n) ==
  /\ n \in Stopping /\ stopPhase[n] = "no"
  /\ resultCh' = [r \in Writer |-> IF pendingOps[n][r] # 0
                                   THEN Send(resultCh, r, "closed")[r] ELSE resultCh[r]]
  /\ pendingOps' = [pendingOps EXCEPT ![n] = [r \in Writer |-> 0]]
  /\ stopPhase' = [stopPhase EXCEPT ![n] = "cancelled"]
  /\ UNCHANGED <<store, notifying, nextRequestID, consensusVars, pipeVars, historyVars>>
  /\ UNCHANGED <<pc, at, cmd, readIndex, answer, value>>

\* Then it closes stopCh,
CloseStopCh(n) ==
  /\ stopPhase[n] = "cancelled"
  /\ stopPhase' = [stopPhase EXCEPT ![n] = "closed"]
  /\ UNCHANGED <<store, notifying, pendingOps, nextRequestID>>
  /\ UNCHANGED <<consensusVars, pipeVars, requestVars, historyVars>>

\* and waits for applyLoop to return.
LoopReturns(n) ==
  /\ stopPhase[n] = "closed" /\ notifying[n] = NoOp
  /\ stopPhase' = [stopPhase EXCEPT ![n] = "stopped"]
  /\ UNCHANGED <<store, notifying, pendingOps, nextRequestID>>
  /\ UNCHANGED <<consensusVars, pipeVars, requestVars, historyVars>>

\* Mutant: lastApplied is persistent.
CrashPersisting(n) ==
  /\ crashes < MaxCrashes
  /\ crashes' = crashes + 1
  /\ leading' = [leading EXCEPT ![n] = FALSE]
  /\ toApply' = [toApply EXCEPT ![n] = << >>]
  /\ applyCh' = [applyCh EXCEPT ![n] = << >>]
  /\ UNCHANGED <<proposed, chosen, commitIndex, lastApplied, serverVars, requestVars>>
  /\ UNCHANGED <<highest, seen, floor, started>>

\* The process ends and is started again: only what is in storage is left, and
\* the requests it was serving get no answer.
Crash(n) ==
  LET lost == {r \in Request : at[r] = n /\ pc[r] # "done"} IN
  /\ crashes < MaxCrashes
  /\ crashes' = crashes + 1
  /\ leading' = [leading EXCEPT ![n] = FALSE]
  /\ commitIndex' = [commitIndex EXCEPT ![n] = 0]
  /\ lastApplied' = [lastApplied EXCEPT ![n] = 0]
  /\ toApply' = [toApply EXCEPT ![n] = << >>]
  /\ applyCh' = [applyCh EXCEPT ![n] = << >>]
  /\ notifying' = [notifying EXCEPT ![n] = NoOp]
  /\ pendingOps' = [pendingOps EXCEPT ![n] = [r \in Writer |-> 0]]
  /\ nextRequestID' = [nextRequestID EXCEPT ![n] = 0]
  /\ stopPhase' = [stopPhase EXCEPT ![n] = "no"]
  /\ pc' = [r \in Request |-> IF r \in lost THEN "done" ELSE pc[r]]
  /\ answer' = [r \in Request |-> IF r \in lost THEN "lost" ELSE answer[r]]
  /\ resultCh' = [r \in Writer |-> IF r \in lost THEN Empty ELSE resultCh[r]]
  /\ UNCHANGED <<proposed, chosen, store, at, cmd, readIndex, value>>
  /\ UNCHANGED <<highest, seen, floor, started>>

-----------------------------------------------------------------------------
(* The specification *)

Consensus ==
  \/ \E n \in Node : Lead(n) \/ StepDown(n)
  \/ \E n \in Node, e \in proposed \cup {NoOp} : Choose(n, e)
  \/ \E n \in Node : \E i \in DOMAIN chosen : Learn(n, i)

Pipeline(n) ==
  \/ \E k \in 1..commitIndex[n], failed \in BOOLEAN : Collect(n, k, failed)
  \/ SendApply(n)
  \/ \E result \in {"ok", "error"} : ApplyCommand(n, result)
  \/ Notify(n)

Write ==
  \E r \in Writer :
    \/ \E n \in Node, op \in Op, key \in Key : Register(r, n, op, key)
    \/ ProposeAccepted(r) \/ ProposeRefused(r)
    \/ Receive(r) \/ Closed(r) \/ GiveUp(r)

Read ==
  \/ \E r \in Reader \ LocalReader :
       \/ \E n \in Node, key \in Key : GetAsLeader(r, n, key)
       \/ GetIndex(r) \/ GetValue(r) \/ GetGiveUp(r)
  \/ \E r \in LocalReader, n \in Node, key \in Key : GetLocal(r, n, key)

Stop == \E n \in Node : CancelPending(n) \/ CloseStopCh(n) \/ LoopReturns(n)

Next ==
  \/ Consensus
  \/ \E n \in Node : Pipeline(n)
  \/ Write
  \/ Read
  \/ Stop
  \/ \E n \in Node : Crash(n)

Spec == Init /\ [][Next]_vars

\* The goroutines of a server run whenever they can, and leaders keep sending
\* heartbeats with their commit index.  Clients, elections, timeouts and
\* crashes owe nothing.
FairSpec ==
  /\ Spec
  /\ \A n \in Node : /\ WF_vars(Pipeline(n))
                    /\ WF_vars(\E i \in DOMAIN chosen : Learn(n, i))
                    /\ WF_vars(CloseStopCh(n)) /\ WF_vars(LoopReturns(n))
  /\ \A r \in Writer : /\ WF_vars(ProposeAccepted(r) \/ ProposeRefused(r))
                      /\ WF_vars(Receive(r) \/ Closed(r))

-----------------------------------------------------------------------------
(* Properties *)

\* A store that has caught up with what it ever held is the replay of the log:
\* the entries that applyLoop sends again after every restart, and the batches
\* it builds while lastApplied is already ahead, lose and repeat nothing.
StoreIsReplay ==
  \A n \in Node : Applied(n) >= highest[n] => store[n] = Replay(Applied(n))

\* A registered operation is one whose goroutine still waits, and its channel
\* has room: no result that handleApplyMsg or Stop sends is dropped, and
\* pendingOps does not grow for ever.
RegisteredIsWaiting ==
  \A n \in Node, r \in Writer : pendingOps[n][r] # 0 =>
    /\ resultCh[r] = Empty /\ at[r] = n
    /\ pc[r] \in {"propose", "wait"} \/ stopPhase[n] # "no"

\* A client is told of success only for its own command: propose returns nil
\* only when the very command it proposed is committed and applied.
AnswerIsOwn ==
  \A r \in Writer : answer[r] = "ok" => \E i \in Position(r) : i <= highest[at[r]]

\* While one node leads and no process has restarted it is so.
AnswerIsOwnUntilRestart == crashes = 0 => AnswerIsOwn

\* A linearizable Get returns the value of its key at a point of the log not
\* before anything that an answer given earlier had revealed.
ReadsLinearizable ==
  \A r \in Reader \ LocalReader : answer[r] = "ok" =>
    \E i \in floor[r]..Len(chosen) : Replay(i)[cmd[r].key] = value[r]

\* While only one node can lead and no process has restarted it is so: the others,
\* whose stores lag behind, refuse (Get, "not leader"), and the leader's store holds
\* all that was answered, although Get does not wait until what it reads at is there.
ReadsLinearizableUntilRestart == crashes = 0 => ReadsLinearizable

\* Any other Get returns a value that was committed for its key at some point,
\* on a node that leads or follows, that is stopped or has just restarted.
ReadsCommitted ==
  \A r \in LocalReader : answer[r] = "ok" =>
    \E i \in 0..Len(chosen) : Replay(i)[cmd[r].key] = value[r]

\* A linearizable Get reflects every write that was committed when it began.
ReadSeesCommitted ==
  \A r \in Reader \ LocalReader : answer[r] = "ok" =>
    \E i \in started[r]..Len(chosen) : Replay(i)[cmd[r].key] = value[r]

\* Stop leaves no caller of Put or Delete waiting for its timeout.
StopAnswersAll ==
  \A r \in Writer : (pc[r] = "wait" /\ stopPhase[at[r]] # "no") ~> pc[r] = "done"

\* A command that is committed is answered, however soon after Propose it is
\* applied: its channel is registered before.
CommittedIsAnswered ==
  \A r \in Writer : (pc[r] = "wait" /\ Position(r) # {}) ~> pc[r] = "done"
=============================================================================
