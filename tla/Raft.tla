-------------------------------- MODULE Raft --------------------------------
(***************************************************************************)
(* The consensus core, package internal/raft: leader election, log         *)
(* replication and commitment of a fixed set of nodes, with the goroutines *)
(* that run them.  Every handler holds rn.mu from its first to its last    *)
(* access to the node's state, so a handler is one action; an RPC is three *)
(* or four actions (call, prepare, handle, receive) because the caller     *)
(* releases rn.mu between them.                                            *)
(***************************************************************************)
EXTENDS Integers, Sequences, FiniteSets, FiniteSetsExt

CONSTANTS
  Node,           \* the IDs of the cluster's nodes (rn.id and rn.peers)
  Command,        \* the commands a client may propose
  NoOp,           \* the nil command of the entry a new leader appends
  None,           \* the empty string: no vote, no known leader
  StorageFaults,  \* the storage operations that may return an error
  Crashing,       \* the nodes that may crash and restart
  Electing,       \* bound: the nodes whose election timeout may expire
  MaxTerm,        \* bound: no election starts a term above it
  MaxLog,         \* bound: no leader appends an entry beyond this index
  MaxTimers,      \* bound: election timeouts pending at a time
  MaxVoteRPCs,    \* bound: RequestVote RPCs in flight
  MaxAppendRPCs   \* bound: AppendEntries RPCs in flight

ASSUME NodeAssumption == IsFiniteSet(Node) /\ Node # {} /\ None \notin Node
ASSUME CommandAssumption == NoOp \notin Command
ASSUME FaultAssumption ==
  /\ StorageFaults \subseteq {"save", "append", "truncate", "read"}
  /\ Crashing \subseteq Node
ASSUME BoundAssumption ==
  /\ Electing \subseteq Node
  /\ MaxTerm \in Nat /\ MaxLog \in Nat
  /\ MaxTimers \in Nat /\ MaxVoteRPCs \in Nat /\ MaxAppendRPCs \in Nat

VARIABLES
  currentTerm, votedFor,      \* in memory
  disk,                       \* what SaveRaftState last wrote: term and vote
  log,                        \* write-through: the log in storage
  commitIndex,
  nextIndex, matchIndex,      \* nextIndex[n][p]: read only while n leads
  state, leaderId,
  votesReceived,              \* the voters n's running election has counted
  timerFired,                 \* has n's electionTimer decided on an election?
  leaderLoops,                \* how many leaderLoop goroutines n runs
  stepDownCh,                 \* is there a token in n's stepDownCh?
  voteRequests, voteResponses,\* RequestVote RPCs in flight, by direction
  appendCalls,                \* sendAppendEntries goroutines not yet prepared
  appendRequests, appendResponses  \* AppendEntries RPCs in flight

persistVars == <<currentTerm, votedFor, disk>>
leaderVars == <<nextIndex, matchIndex>>
loopVars == <<timerFired, leaderLoops, stepDownCh>>
voteVars == <<voteRequests, voteResponses>>
appendVars == <<appendCalls, appendRequests, appendResponses>>
vars == <<persistVars, log, commitIndex, leaderVars, state, leaderId,
          votesReceived, loopVars, voteVars, appendVars>>

-----------------------------------------------------------------------------
(* Types *)

PersistentState == [term : Nat, vote : Node \cup {None}]
Entry == [term : Nat, command : Command \cup {NoOp}]

VoteRequest == [from : Node, to : Node, term : Nat,
                lastLogIndex : Nat, lastLogTerm : Nat]
VoteResponse == [from : Node, to : Node, term : Nat,
                 respTerm : Nat, granted : BOOLEAN]
AppendCall == [from : Node, to : Node, term : Nat, leaderCommit : Nat]
AppendRequest == [from : Node, to : Node, term : Nat, leaderCommit : Nat,
                  prevLogIndex : Nat, prevLogTerm : Nat, entries : Seq(Entry)]
AppendResponse == [from : Node, to : Node, term : Nat,
                   prevLogIndex : Nat, sent : Nat, respTerm : Nat,
                   success : BOOLEAN, conflictIndex : Nat, conflictTerm : Nat]

\* The state of the nodes and of the RPCs in flight has the shape that the
\* struct RaftNode and the protobuf messages declare, and the log indices and
\* terms, which are int64 in the code, never become negative.
TypeOK ==
  /\ currentTerm \in [Node -> Nat]
  /\ votedFor \in [Node -> Node \cup {None}]
  /\ disk \in [Node -> PersistentState]
  /\ log \in [Node -> Seq(Entry)]
  /\ commitIndex \in [Node -> Nat]
  /\ nextIndex \in [Node -> [Node -> Nat]]
  /\ matchIndex \in [Node -> [Node -> Nat]]
  /\ state \in [Node -> {"Follower", "Candidate", "Leader"}]
  /\ leaderId \in [Node -> Node \cup {None}]
  /\ votesReceived \in [Node -> SUBSET Node]
  /\ timerFired \in [Node -> BOOLEAN]
  /\ leaderLoops \in [Node -> Nat]
  /\ stepDownCh \in [Node -> BOOLEAN]
  /\ voteRequests \subseteq VoteRequest
  /\ voteResponses \subseteq VoteResponse
  /\ appendCalls \subseteq AppendCall
  /\ appendRequests \subseteq AppendRequest
  /\ appendResponses \subseteq AppendResponse

-----------------------------------------------------------------------------
(* Storage, peers and the log *)

\* The outcomes of one kind of storage operation: TRUE is success.
Outcomes(kind) == IF kind \in StorageFaults THEN BOOLEAN ELSE {TRUE}

Peers(n) == Node \ {n}

\* Mutant: rounds half of the nodes up before it adds one.
quorumSizeRoundedUp == (Cardinality(Node) + 1) \div 2 + 1

\* Mutant: half of the nodes.
quorumSizeHalf == Cardinality(Node) \div 2

quorumSize == Cardinality(Node) \div 2 + 1

\* The entries of n's log that a handler can read: a read that misses the cache
\* goes to storage, where it may fail.
Readable(n) == IF "read" \in StorageFaults THEN SUBSET DOMAIN log[n]
                                           ELSE {DOMAIN log[n]}

\* Index 0, an index beyond the log, and an entry that cannot be read all have
\* term 0.
GetTerm(n, i, readable) == IF i \in readable THEN log[n][i].term ELSE 0

LastTerm(n, readable) == GetTerm(n, Len(log[n]), readable)

\* Mutant: compares the lengths only.
isLogUpToDateByIndex(n, lastLogIndex, lastLogTerm, readable) ==
  lastLogIndex >= Len(log[n])

\* Is the candidate's log at least as up-to-date as n's?
isLogUpToDate(n, lastLogIndex, lastLogTerm, readable) ==
  LET myLastTerm == LastTerm(n, readable) IN
  IF lastLogTerm # myLastTerm THEN lastLogTerm > myLastTerm
                              ELSE lastLogIndex >= Len(log[n])

\* The first index of the term t, which some entry that n can read has.
findFirstIndexOfTerm(n, t, readable) ==
  Min({i \in readable : log[n][i].term = t})

\* The position in entries of the first one that an entry of n's log
\* contradicts; Len(entries) + 1 when there is none.
FirstConflict(n, prev, entries, readable) ==
  Min({j \in DOMAIN entries : /\ prev + j \in readable
                              /\ log[n][prev + j].term # entries[j].term}
      \cup {Len(entries) + 1})

\* Mutant: always drops what the log has beyond the request.
StoredTruncating(n, prev, entries, missing, k, cut) ==
  [i \in 1..prev + k |->
     IF i - prev \in missing /\ i - prev <= k THEN entries[i - prev]
                                              ELSE log[n][i]]

\* The log when the positions up to k of entries are done: those in missing
\* are written, over what an unreadable index holds; cut says that the log was
\* truncated on the way.
Stored(n, prev, entries, missing, k, cut) ==
  [i \in 1..(IF cut THEN prev + k ELSE Max({Len(log[n]), prev + k})) |->
     IF i - prev \in missing /\ i - prev <= k THEN entries[i - prev]
                                              ELSE log[n][i]]

\* Mutant: reports success when an append has failed.
AppendOutcomesHidingErrors(n, prev, entries, readable) ==
  LET first == FirstConflict(n, prev, entries, readable)
      missing == {j \in DOMAIN entries :
                    j >= first \/ prev + j \notin readable}
      After(k, cut) == Stored(n, prev, entries, missing, k, cut)
  IN {<<After(Len(entries), first <= Len(entries)), TRUE>>}
     \cup {<<After(k - 1, first <= k), TRUE>> : k \in missing}

\* The logs, with success or failure, that Rules 3 and 4 may leave: they skip
\* the entries that n has, truncate at the first conflict and append the rest;
\* they fail at the truncation or at any append.
AppendOutcomes(n, prev, entries, readable) ==
  LET first == FirstConflict(n, prev, entries, readable)
      missing == {j \in DOMAIN entries :
                    j >= first \/ prev + j \notin readable}
      After(k, cut) == Stored(n, prev, entries, missing, k, cut)
  IN {<<After(Len(entries), first <= Len(entries)), TRUE>>}
     \cup {<<After(k - 1, first <= k), FALSE>> :
             k \in IF "append" \in StorageFaults THEN missing ELSE {}}
     \cup (IF "truncate" \in StorageFaults /\ first <= Len(entries)
             THEN {<<After(first - 1, FALSE), FALSE>>} ELSE {})

-----------------------------------------------------------------------------
(* Elections *)

\* Mutant: saves the vote as it was before the handler changed it.
SavedTooEarly(n, term, vote, ok) ==
  IF ok THEN [term |-> term, vote |-> votedFor[n]] ELSE disk[n]

\* Mutant: forgets to save.
SavedNever(n, term, vote, ok) == disk[n]

\* The record a save writes; an unsuccessful save leaves the old one.
Saved(n, term, vote, ok) ==
  IF ok THEN [term |-> term, vote |-> vote] ELSE disk[n]

\* Adopt a term, forget the vote and follow.  The error of the save is
\* dropped, and the leader loop is signalled whether or not n was leading.
stepDown(n, newTerm, saveOK) ==
  /\ currentTerm' = [currentTerm EXCEPT ![n] = newTerm]
  /\ votedFor' = [votedFor EXCEPT ![n] = None]
  /\ disk' = [disk EXCEPT ![n] = Saved(n, newTerm, None, saveOK)]
  /\ state' = [state EXCEPT ![n] = "Follower"]
  /\ stepDownCh' = [stepDownCh EXCEPT ![n] = TRUE]

\* Has n's running election enough votes?
Won(n) == state[n] = "Candidate" /\ Cardinality(votesReceived[n]) >= quorumSize

\* The election timeout of n expires; a leader ignores it.  rn.mu is released
\* between this check and startElection.  The goroutine is back at its timer
\* only after startElection has looked whether n has won (CheckWon).
TimerFires(n) ==
  /\ n \in Electing /\ currentTerm[n] < MaxTerm
  /\ ~timerFired[n]
  /\ state[n] # "Leader" /\ ~Won(n)
  /\ Cardinality({p \in Node : timerFired[p] /\ currentTerm[p] < MaxTerm})
       < MaxTimers
  /\ timerFired' = [timerFired EXCEPT ![n] = TRUE]
  /\ UNCHANGED <<persistVars, log, commitIndex, leaderVars, state, leaderId,
                 votesReceived, leaderLoops, stepDownCh, voteVars, appendVars>>

\* The calls of n, a candidate in term, to the peers in reached.
VoteCalls(n, term, reached, readable) ==
  {[from |-> n, to |-> p, term |-> term, lastLogIndex |-> Len(log[n]),
    lastLogTerm |-> LastTerm(n, readable)] : p \in reached}

\* n becomes a candidate in the next term and calls its peers; the calls to
\* the ones not in reached fail at once.  When the save fails the election is
\* aborted, in the new term.
startElection(n) ==
  /\ timerFired[n]
  /\ currentTerm[n] < MaxTerm
  /\ timerFired' = [timerFired EXCEPT ![n] = FALSE]
  /\ currentTerm' = [currentTerm EXCEPT ![n] = @ + 1]
  /\ votedFor' = [votedFor EXCEPT ![n] = n]
  /\ \/ /\ "save" \in StorageFaults
        /\ state' = [state EXCEPT ![n] = "Follower"]
        /\ UNCHANGED <<disk, votesReceived, voteRequests>>
     \/ /\ disk' = [disk EXCEPT ![n] =
                      [term |-> currentTerm[n] + 1, vote |-> n]]
        /\ state' = [state EXCEPT ![n] = "Candidate"]
        /\ votesReceived' = [votesReceived EXCEPT ![n] = {n}]
        /\ \E readable \in Readable(n), reached \in SUBSET Peers(n) :
             /\ Cardinality(voteRequests) + Cardinality(voteResponses)
                  + Cardinality(reached) <= MaxVoteRPCs
             /\ voteRequests' = voteRequests \cup
                  VoteCalls(n, currentTerm[n] + 1, reached, readable)
  /\ UNCHANGED <<log, commitIndex, leaderVars, leaderId, leaderLoops,
                 stepDownCh, voteResponses, appendVars>>

\* n leads its term, forgets what it knew of its peers' logs, appends a no-op
\* and starts a leader loop; when the append fails it steps down in its term.
becomeLeader(n) ==
  /\ leaderId' = [leaderId EXCEPT ![n] = n]
  /\ nextIndex' = [nextIndex EXCEPT ![n] = [p \in Node |-> Len(log[n]) + 1]]
  /\ matchIndex' = [matchIndex EXCEPT ![n] = [p \in Node |-> 0]]
  /\ \/ /\ Len(log[n]) < MaxLog
        /\ log' = [log EXCEPT ![n] =
                     Append(@, [term |-> currentTerm[n], command |-> NoOp])]
        /\ state' = [state EXCEPT ![n] = "Leader"]
        /\ leaderLoops' = [leaderLoops EXCEPT ![n] = @ + 1]
        /\ UNCHANGED <<persistVars, stepDownCh>>
     \/ /\ "append" \in StorageFaults
        /\ \E saveOK \in Outcomes("save") : stepDown(n, currentTerm[n], saveOK)
        /\ UNCHANGED <<log, leaderLoops>>

\* The wait for the votes ends and startElection looks whether n has won.  In a
\* cluster of one node the vote for itself suffices; in a larger one the last
\* vote has made n leader already (ReceiveVote), and the look changes nothing.
CheckWon(n) ==
  /\ Won(n) /\ ~timerFired[n]
  /\ becomeLeader(n)
  /\ UNCHANGED <<commitIndex, votesReceived, timerFired, voteVars, appendVars>>

\* Mutant: votes for every candidate.
canVoteAgain(vote, candidate) == TRUE

\* May n, whose vote in its term is vote, vote for candidate?
canVote(vote, candidate) == vote \in {None, candidate}

ReplyVote(m, respTerm, granted) ==
  /\ voteRequests' = voteRequests \ {m}
  /\ voteResponses' = voteResponses \cup
       {[from |-> m.from, to |-> m.to, term |-> m.term,
         respTerm |-> respTerm, granted |-> granted]}

\* The vote of m.to in m.term, before it looks at the candidate: stepDown
\* clears the vote of an older term.
VoteBefore(m) == IF m.term > currentTerm[m.to] THEN None ELSE votedFor[m.to]

\* Does m.to grant its vote to m.from?  Only if the vote is saved.
Grants(m, saveOK, readable) ==
  /\ canVote(VoteBefore(m), m.from)
  /\ isLogUpToDate(m.to, m.lastLogIndex, m.lastLogTerm, readable)
  /\ saveOK

\* m.to moves to m.term, stepping down in a newer one, and votes or not.
Vote(m, granted, downOK) ==
  LET n == m.to
      newer == m.term > currentTerm[n]
      vote == IF granted THEN m.from ELSE VoteBefore(m)
  IN /\ currentTerm' = [currentTerm EXCEPT ![n] = m.term]
     /\ votedFor' = [votedFor EXCEPT ![n] = vote]
     /\ disk' = [disk EXCEPT ![n] =
                   Saved(n, m.term, vote, granted \/ (newer /\ downOK))]
     /\ state' = [state EXCEPT ![n] = IF newer THEN "Follower" ELSE @]
     /\ stepDownCh' = [stepDownCh EXCEPT ![n] = @ \/ newer]
     /\ ReplyVote(m, m.term, granted)

\* m.to answers a RequestVote: a stale one with its own term, any other with
\* its vote.
HandleRequestVote(m) ==
  /\ m \in voteRequests
  /\ \/ /\ m.term < currentTerm[m.to]
        /\ ReplyVote(m, currentTerm[m.to], FALSE)
        /\ UNCHANGED <<persistVars, state, stepDownCh>>
     \/ /\ m.term >= currentTerm[m.to]
        /\ \E downOK, saveOK \in Outcomes("save"),
              readable \in Readable(m.to) :
             Vote(m, Grants(m, saveOK, readable), downOK)
  /\ UNCHANGED <<log, commitIndex, leaderVars, leaderId, votesReceived,
                 timerFired, leaderLoops, appendVars>>

\* n receives the answer to its RequestVote: it ignores it unless it is still
\* a candidate in the term of the call, steps down in a newer term, and
\* otherwise counts a vote and leads with a quorum of them.
ReceiveVote(m) ==
  LET n == m.from
      votes == votesReceived[n] \cup {m.to}
      relevant == state[n] = "Candidate" /\ currentTerm[n] = m.term
      stale == relevant /\ m.respTerm > currentTerm[n]
      counted == relevant /\ ~stale /\ m.granted
      wins == counted /\ Cardinality(votes) >= quorumSize
  IN
  /\ m \in voteResponses
  /\ voteResponses' = voteResponses \ {m}
  /\ votesReceived' = IF counted THEN [votesReceived EXCEPT ![n] = votes]
                                 ELSE votesReceived
  /\ \/ wins /\ becomeLeader(n)
     \/ /\ stale
        /\ \E saveOK \in Outcomes("save") : stepDown(n, m.respTerm, saveOK)
        /\ UNCHANGED <<log, leaderVars, leaderId, leaderLoops>>
     \/ /\ ~wins /\ ~stale
        /\ UNCHANGED <<persistVars, log, leaderVars, state, leaderId,
                       leaderLoops, stepDownCh>>
  /\ UNCHANGED <<commitIndex, timerFired, voteRequests, appendVars>>

-----------------------------------------------------------------------------
(* Replication *)

\* The RPCs left in flight when m is taken from them: goroutines with equal
\* arguments are one element, so m may stand for more than one.
Taken(rpcs, m) == {rpcs, rpcs \ {m}}

\* The bound on the AppendEntries RPCs in flight.
Fits(calls, requests, responses) ==
  Cardinality(calls) + Cardinality(requests) + Cardinality(responses)
    <= MaxAppendRPCs

\* A leader loop of n starts a sendAppendEntries goroutine for each peer, with
\* the term and the commit index read under one lock.  The calls to the peers
\* not in reached fail.
sendHeartbeats(n) ==
  /\ leaderLoops[n] > 0
  /\ state[n] = "Leader"
  /\ \E reached \in SUBSET Peers(n) :
       LET calls == {[from |-> n, to |-> p, term |-> currentTerm[n],
                      leaderCommit |-> commitIndex[n]] : p \in reached}
       IN /\ ~(calls \subseteq appendCalls)
          /\ appendCalls' = appendCalls \cup calls
          /\ Fits(appendCalls', appendRequests, appendResponses)
  /\ UNCHANGED <<persistVars, log, commitIndex, leaderVars, state, leaderId,
                 votesReceived, loopVars, voteVars, appendRequests,
                 appendResponses>>

\* The goroutine takes rn.mu again, and sends all entries from nextIndex on if
\* n still leads the term of the call.  GetEntries reads past the cache, and
\* returns nothing when that fails.
sendAppendEntries(c) ==
  LET n == c.from
      next == nextIndex[n][c.to]
      Request(readable, readOK) ==
        [from |-> n, to |-> c.to, term |-> c.term,
         leaderCommit |-> c.leaderCommit, prevLogIndex |-> next - 1,
         prevLogTerm |-> GetTerm(n, next - 1, readable),
         entries |-> IF readOK THEN SubSeq(log[n], next, Len(log[n]))
                               ELSE << >>]
  IN
  /\ c \in appendCalls
  /\ appendCalls' \in Taken(appendCalls, c)
  /\ IF state[n] = "Leader" /\ currentTerm[n] = c.term
       THEN /\ \E readable \in Readable(n), readOK \in Outcomes("read") :
                 appendRequests' =
                   appendRequests \cup {Request(readable, readOK)}
            /\ Fits(appendCalls', appendRequests', appendResponses)
       ELSE appendRequests' = appendRequests
  /\ UNCHANGED <<persistVars, log, commitIndex, leaderVars, state, leaderId,
                 votesReceived, loopVars, voteVars, appendResponses>>

\* Mutant: does not compare the terms.
PrevMatchesIndex(n, prev, prevTerm, readable) ==
  prev = 0 \/ prev \in readable

\* Rule 2: n's log has the entry before the new ones.
PrevMatches(n, prev, prevTerm, readable) ==
  prev = 0 \/ (prev \in readable /\ log[n][prev].term = prevTerm)

\* Mutant: names the end of the log whatever the reason.
ConflictAtEnd(n, prev, readable) == <<Len(log[n]) + 1, 0>>

\* What a rejection by Rule 2 tells the leader: an index and a term.
Conflict(n, prev, readable) ==
  IF prev \in readable
    THEN <<findFirstIndexOfTerm(n, log[n][prev].term, readable),
           log[n][prev].term>>
    ELSE <<Len(log[n]) + 1, 0>>

\* Mutant: adopts an older commit index too.
NewCommitIndexBackwards(n, leaderCommit, lastIndex) ==
  Min({leaderCommit, lastIndex})

\* Rule 5: the leader's commit index, up to the end of the follower's log.
NewCommitIndex(n, leaderCommit, lastIndex) ==
  IF leaderCommit > commitIndex[n] THEN Min({leaderCommit, lastIndex})
                                   ELSE commitIndex[n]

ReplyAppend(m, respTerm, success, conflict) ==
  /\ appendRequests' \in Taken(appendRequests, m)
  /\ appendResponses' = appendResponses \cup
       {[from |-> m.from, to |-> m.to, term |-> m.term,
         prevLogIndex |-> m.prevLogIndex, sent |-> Len(m.entries),
         respTerm |-> respTerm, success |-> success,
         conflictIndex |-> conflict[1], conflictTerm |-> conflict[2]]}
  /\ Fits(appendCalls, appendRequests', appendResponses')

\* m.to follows the leader of m.term, stepping down first if the term is newer.
\* One that leads the term itself would not notice.
Follow(m, downOK) ==
  LET n == m.to
      newer == m.term > currentTerm[n]
  IN /\ currentTerm' = [currentTerm EXCEPT ![n] = m.term]
     /\ votedFor' = [votedFor EXCEPT ![n] = IF newer THEN None ELSE @]
     /\ disk' = [disk EXCEPT ![n] = Saved(n, m.term, None, newer /\ downOK)]
     /\ stepDownCh' = [stepDownCh EXCEPT ![n] = @ \/ newer]
     /\ state' = [state EXCEPT ![n] =
                    IF newer \/ @ = "Candidate" THEN "Follower" ELSE @]
     /\ leaderId' = [leaderId EXCEPT ![n] = m.from]

\* Rules 2 to 5: m.to rejects the entries, or stores them, or fails to.
AcceptEntries(m, readable) ==
  LET n == m.to
      prev == m.prevLogIndex
  IN
  \/ /\ ~PrevMatches(n, prev, m.prevLogTerm, readable)
     /\ ReplyAppend(m, m.term, FALSE, Conflict(n, prev, readable))
     /\ UNCHANGED <<log, commitIndex>>
  \/ /\ PrevMatches(n, prev, m.prevLogTerm, readable)
     /\ \E o \in AppendOutcomes(n, prev, m.entries, readable) :
          /\ log' = [log EXCEPT ![n] = o[1]]
          /\ commitIndex' =
               IF o[2] THEN [commitIndex EXCEPT ![n] =
                               NewCommitIndex(n, m.leaderCommit, Len(o[1]))]
                       ELSE commitIndex
          /\ ReplyAppend(m, m.term, o[2], <<0, 0>>)

\* m.to answers an AppendEntries: a stale one with its own term (Rule 1).
HandleAppendEntries(m) ==
  /\ m \in appendRequests
  /\ appendCalls' = appendCalls
  /\ \/ /\ m.term < currentTerm[m.to]
        /\ ReplyAppend(m, currentTerm[m.to], FALSE, <<0, 0>>)
        /\ UNCHANGED <<persistVars, log, commitIndex, state, leaderId,
                       stepDownCh>>
     \/ /\ m.term >= currentTerm[m.to]
        /\ \E downOK \in Outcomes("save") : Follow(m, downOK)
        /\ \E readable \in Readable(m.to) : AcceptEntries(m, readable)
  /\ UNCHANGED <<leaderVars, votesReceived, timerFired, leaderLoops, voteVars>>

\* Mutant: counts the leader twice.
CommitPointCountingTwice(n, match, readable) ==
  Max({commitIndex[n]} \cup
      {i \in commitIndex[n] + 1 .. Len(log[n]) :
         /\ GetTerm(n, i, readable) = currentTerm[n]
         /\ Cardinality({p \in Peers(n) : match[p] >= i}) + 2 >= quorumSize})

\* The highest index of n's term that a quorum has, given what its peers match.
CommitPoint(n, match, readable) ==
  Max({commitIndex[n]} \cup
      {i \in commitIndex[n] + 1 .. Len(log[n]) :
         /\ GetTerm(n, i, readable) = currentTerm[n]
         /\ Cardinality({p \in Peers(n) : match[p] >= i}) + 1 >= quorumSize})

\* Mutant: goes one back without a look at the lower end.
BackUpBelowOne(n, m, readable) ==
  IF m.conflictIndex > 0 THEN m.conflictIndex ELSE nextIndex[n][m.to] - 1

\* Where n tries next after the rejection m.
BackUp(n, m, readable) ==
  LET sameTerm == {i \in readable : log[n][i].term = m.conflictTerm}
      next == nextIndex[n][m.to]
  IN CASE m.conflictTerm > 0 /\ sameTerm # {} -> Max(sameTerm) + 1
       [] m.conflictTerm > 0 /\ sameTerm = {} -> m.conflictIndex
       [] m.conflictTerm = 0 /\ m.conflictIndex > 0 -> m.conflictIndex
       [] OTHER -> IF next > 1 THEN next - 1 ELSE next

\* Mutant: counts one entry too many.
MatchedByOneMore(m) == m.prevLogIndex + m.sent + 1

\* What a success tells n of the peer's log: all of the request is in it.
MatchedBy(m) == m.prevLogIndex + m.sent

\* The leader n applies the answer m of a peer to the indices it keeps for it,
\* and commits what a quorum now has.
ApplyAppendResponse(n, m, readable) ==
  IF m.success
    THEN LET match == [matchIndex[n] EXCEPT ![m.to] = Max({@, MatchedBy(m)})]
         IN /\ matchIndex' = [matchIndex EXCEPT ![n] = match]
            /\ nextIndex' = [nextIndex EXCEPT ![n][m.to] = MatchedBy(m) + 1]
            /\ commitIndex' = [commitIndex EXCEPT
                                 ![n] = CommitPoint(n, match, readable)]
    ELSE /\ nextIndex' = [nextIndex EXCEPT ![n][m.to] = BackUp(n, m, readable)]
         /\ UNCHANGED <<matchIndex, commitIndex>>

\* n receives the answer to its AppendEntries, and ignores it unless it still
\* leads the term of the call.
ReceiveAppend(m) ==
  LET n == m.from
      relevant == state[n] = "Leader" /\ currentTerm[n] = m.term
      stale == relevant /\ m.respTerm > currentTerm[n]
  IN
  /\ m \in appendResponses
  /\ appendResponses' \in Taken(appendResponses, m)
  /\ \/ /\ ~relevant
        /\ UNCHANGED <<persistVars, state, stepDownCh, leaderVars,
                       commitIndex>>
     \/ /\ stale
        /\ \E saveOK \in Outcomes("save") : stepDown(n, m.respTerm, saveOK)
        /\ UNCHANGED <<leaderVars, commitIndex>>
     \/ /\ relevant /\ ~stale
        /\ \E readable \in Readable(n) : ApplyAppendResponse(n, m, readable)
        /\ UNCHANGED <<persistVars, state, stepDownCh>>
  /\ UNCHANGED <<log, leaderId, votesReceived, timerFired, leaderLoops,
                 voteVars, appendCalls, appendRequests>>

\* A client's command reaches n, which leads; when the append fails nothing
\* changes.
Propose(n, c) ==
  /\ state[n] = "Leader"
  /\ Len(log[n]) < MaxLog
  /\ log' = [log EXCEPT ![n] = Append(@, [term |-> currentTerm[n],
                                          command |-> c])]
  /\ UNCHANGED <<persistVars, commitIndex, leaderVars, state, leaderId,
                 votesReceived, loopVars, voteVars, appendVars>>

\* A leader loop of n takes the token from stepDownCh and returns.
leaderLoopReturns(n) ==
  /\ leaderLoops[n] > 0
  /\ stepDownCh[n]
  /\ leaderLoops' = [leaderLoops EXCEPT ![n] = @ - 1]
  /\ stepDownCh' = [stepDownCh EXCEPT ![n] = FALSE]
  /\ UNCHANGED <<persistVars, log, commitIndex, leaderVars, state, leaderId,
                 votesReceived, timerFired, voteVars, appendVars>>

-----------------------------------------------------------------------------
(* The network and the machines *)

\* An RPC fails: the request or the answer is lost, or comes after the
\* caller's RPCTimeout.
LoseRPC ==
  /\ \/ \E m \in voteRequests :
          /\ voteRequests' = voteRequests \ {m}
          /\ UNCHANGED <<voteResponses, appendVars>>
     \/ \E m \in voteResponses :
          /\ voteResponses' = voteResponses \ {m}
          /\ UNCHANGED <<voteRequests, appendVars>>
     \/ \E m \in appendRequests :
          /\ appendRequests' = appendRequests \ {m}
          /\ UNCHANGED <<voteVars, appendCalls, appendResponses>>
     \/ \E m \in appendResponses :
          /\ appendResponses' = appendResponses \ {m}
          /\ UNCHANGED <<voteVars, appendCalls, appendRequests>>
  /\ UNCHANGED <<persistVars, log, commitIndex, leaderVars, state, leaderId,
                 votesReceived, loopVars>>

\* n crashes, and NewRaftNode and Start bring it back from what is stored.
\* Its goroutines are gone; the requests they sent may still arrive.
Restart(n) ==
  /\ n \in Crashing
  /\ currentTerm' = [currentTerm EXCEPT ![n] = disk[n].term]
  /\ votedFor' = [votedFor EXCEPT ![n] = disk[n].vote]
  /\ commitIndex' = [commitIndex EXCEPT ![n] = 0]
  /\ nextIndex' = [nextIndex EXCEPT ![n] = [p \in Node |-> 0]]
  /\ matchIndex' = [matchIndex EXCEPT ![n] = [p \in Node |-> 0]]
  /\ state' = [state EXCEPT ![n] = "Follower"]
  /\ leaderId' = [leaderId EXCEPT ![n] = None]
  /\ votesReceived' = [votesReceived EXCEPT ![n] = {}]
  /\ timerFired' = [timerFired EXCEPT ![n] = FALSE]
  /\ leaderLoops' = [leaderLoops EXCEPT ![n] = 0]
  /\ stepDownCh' = [stepDownCh EXCEPT ![n] = FALSE]
  /\ voteResponses' = {m \in voteResponses : m.from # n}
  /\ appendCalls' = {m \in appendCalls : m.from # n}
  /\ appendResponses' = {m \in appendResponses : m.from # n}
  /\ UNCHANGED <<disk, log, voteRequests, appendRequests>>

Init ==
  /\ currentTerm = [n \in Node |-> 0]
  /\ votedFor = [n \in Node |-> None]
  /\ disk = [n \in Node |-> [term |-> 0, vote |-> None]]
  /\ log = [n \in Node |-> << >>]
  /\ commitIndex = [n \in Node |-> 0]
  /\ nextIndex = [n \in Node |-> [p \in Node |-> 0]]
  /\ matchIndex = [n \in Node |-> [p \in Node |-> 0]]
  /\ state = [n \in Node |-> "Follower"]
  /\ leaderId = [n \in Node |-> None]
  /\ votesReceived = [n \in Node |-> {}]
  /\ timerFired = [n \in Node |-> FALSE]
  /\ leaderLoops = [n \in Node |-> 0]
  /\ stepDownCh = [n \in Node |-> FALSE]
  /\ voteRequests = {} /\ voteResponses = {}
  /\ appendCalls = {} /\ appendRequests = {} /\ appendResponses = {}

Next ==
  \/ \E n \in Node :
       \/ TimerFires(n)
       \/ startElection(n)
       \/ CheckWon(n)
       \/ sendHeartbeats(n)
       \/ \E c \in Command : Propose(n, c)
       \/ leaderLoopReturns(n)
       \/ Restart(n)
  \/ \E m \in voteRequests : HandleRequestVote(m)
  \/ \E m \in voteResponses : ReceiveVote(m)
  \/ \E c \in appendCalls : sendAppendEntries(c)
  \/ \E m \in appendRequests : HandleAppendEntries(m)
  \/ \E m \in appendResponses : ReceiveAppend(m)
  \/ LoseRPC

Spec == Init /\ [][Next]_vars

\* What the Go scheduler and the timers promise of a node's own goroutines: a
\* timeout expires, and a goroutine that can go on does.
Fairness ==
  \A n \in Node :
    /\ WF_vars(TimerFires(n)) /\ WF_vars(startElection(n))
    /\ WF_vars(CheckWon(n)) /\ WF_vars(sendHeartbeats(n))
    /\ WF_vars(leaderLoopReturns(n))

-----------------------------------------------------------------------------
(* Safety *)

\* At most one node leads a term: becomeLeader needs the votes of a quorum,
\* and HandleRequestVote gives one vote per term, across crashes and failed
\* saves.
ElectionSafety ==
  \A n1, n2 \in Node :
    state[n1] = "Leader" /\ state[n2] = "Leader"
      /\ currentTerm[n1] = currentTerm[n2] => n1 = n2

\* Does n stand for election, or lead?
Running(n) == state[n] # "Follower"

\* Neither in memory nor after a crash can v vote for another node than c in
\* the term t.
KeepsVote(v, c, t) ==
  /\ currentTerm[v] > t \/ (currentTerm[v] = t /\ votedFor[v] = c)
  /\ disk[v].term > t \/ (disk[v].term = t /\ disk[v].vote = c)

\* Storage never runs ahead of memory, and a candidate has saved its vote for
\* itself.
VotesSaved ==
  \A n \in Node :
    /\ disk[n].term <= currentTerm[n]
    /\ Running(n) =>
         votedFor[n] = n /\ disk[n] = [term |-> currentTerm[n], vote |-> n]

\* Every vote that was counted, or is on its way back, binds the voter.
VotesBind ==
  /\ \A n \in Node : Running(n) =>
       \A v \in votesReceived[n] : KeepsVote(v, n, currentTerm[n])
  /\ \A m \in voteResponses : m.granted => KeepsVote(m.to, m.from, m.term)

\* The vote of a node in a term is with one candidate, wherever it is.
VotesUnique ==
  /\ \A n1, n2 \in Node :
       Running(n1) /\ Running(n2) /\ currentTerm[n1] = currentTerm[n2]
         /\ n1 # n2 => votesReceived[n1] \cap votesReceived[n2] = {}
  /\ \A n \in Node : \A m \in voteResponses :
       Running(n) /\ m.granted /\ m.term = currentTerm[n]
         /\ m.to \in votesReceived[n] => m.from = n
  /\ \A m1, m2 \in voteResponses :
       m1.granted /\ m2.granted /\ m1.to = m2.to /\ m1.term = m2.term
         => m1.from = m2.from

\* Why elections are safe: the votes a leader counted are a quorum, and no
\* other node can have or get any of them in its term, though a failed save in
\* stepDown leaves storage behind, and a leader that cannot append its no-op
\* clears its vote in the term it was elected in.
VoteInv ==
  /\ VotesSaved
  /\ VotesBind
  /\ VotesUnique
  /\ \A m \in voteRequests \cup voteResponses : m.from # m.to
  /\ \A n \in Node :
       state[n] = "Leader" => Cardinality(votesReceived[n]) >= quorumSize

\* v's vote in the term t is with l for good: nobody else counts it, and no
\* answer that gives it to another is under way.
VoteIsWith(v, l, t) ==
  /\ KeepsVote(v, l, t)
  /\ \A d \in Node : Running(d) /\ currentTerm[d] = t /\ d # l
       => v \notin votesReceived[d]
  /\ \A m \in voteResponses : m.granted /\ m.to = v /\ m.term = t
       => m.from = l

\* Neither now nor after a crash does l stand for election in the term t.
StoodIn(l, t) ==
  /\ currentTerm[l] > t \/ (currentTerm[l] = t /\ state[l] # "Candidate")
  /\ disk[l].term >= t

\* l has been elected in the term t: the votes of a quorum are with it, and it
\* will not stand in that term again, so that nobody else is elected in it.
Elected(l, t) ==
  /\ StoodIn(l, t)
  /\ \E Q \in SUBSET Node : /\ Cardinality(Q) >= quorumSize
                            /\ \A v \in Q : VoteIsWith(v, l, t)

\* A leader is the node that was elected in its term, and no other is.
LeaderIsElected ==
  \A n \in Node : state[n] = "Leader" =>
    /\ Elected(n, currentTerm[n])
    /\ \A l \in Node : Elected(l, currentTerm[n]) => n = l

\* AppendEntries RPCs come from nodes that were elected in their term and go
\* to others, so that none reaches the leader of its own term: the case that
\* HandleAppendEntries leaves out when it lets a candidate step down.
SenderElected ==
  \A m \in appendCalls \cup appendRequests :
    m.from # m.to /\ Elected(m.from, m.term)

\* While no save fails, the term in storage is the one in memory, and no
\* message is ahead of the node that sent it.
TermsSaved ==
  /\ \A n \in Node : disk[n].term = currentTerm[n]
  /\ \A m \in voteResponses \cup appendResponses :
       m.respTerm <= currentTerm[m.to]
  /\ \A m \in voteRequests \cup voteResponses : m.term <= currentTerm[m.from]

\* Terms do not go back in a step.
TermsGrow == \A n \in Node : currentTerm[n] <= currentTerm'[n]

\* Before a node answers in a term it has saved the term, so that it cannot
\* answer in an older one after a crash: the save in stepDown, whose error is
\* dropped, comes before every answer.
PersistBeforeResponding ==
  \A m \in voteResponses \cup appendResponses : disk[m.to].term >= m.respTerm

\* Two logs that have an entry of the same term at an index are identical up
\* to it: what Rules 2 to 4 of HandleAppendEntries are for.
LogMatching ==
  \A n1, n2 \in Node : \A i \in DOMAIN log[n1] \cap DOMAIN log[n2] :
    log[n1][i].term = log[n2][i].term
      => \A j \in 1..i : log[n1][j] = log[n2][j]

\* The entries that two nodes have committed, and so deliver to their state
\* machines, agree: neither checkCommit nor Rule 5 commits an entry that
\* another node replaces.
StateMachineSafety ==
  \A n1, n2 \in Node : \A i \in 1..Min({commitIndex[n1], commitIndex[n2]}) :
    /\ i \in DOMAIN log[n1] /\ i \in DOMAIN log[n2]
    /\ log[n1][i] = log[n2][i]

\* What a leader believes of a follower in its term is true: entries it counts
\* as replicated (matchIndex) are in the follower's log, after partial appends,
\* failed truncations, crashes and answers in any order.
MatchIndexSound ==
  \A n, p \in Node :
    state[n] = "Leader" /\ p # n /\ currentTerm[p] = currentTerm[n]
      => \A i \in 1..matchIndex[n][p] :
           /\ i \in DOMAIN log[n] /\ i \in DOMAIN log[p]
           /\ log[p][i] = log[n][i]

\* The index a leader sends from is never 0 and at most one past its log: the
\* bounds that the subtraction for prevLogIndex and the slice of the entries in
\* sendAppendEntries need, whatever rejection moved nextIndex.
NextIndexInRange ==
  \A n \in Node : \A p \in Peers(n) :
    state[n] = "Leader" => nextIndex[n][p] \in 1..Len(log[n]) + 1

\* A rejection that names a conflict makes the leader try strictly earlier than
\* the request that was rejected, in either branch of the back-up of
\* sendAppendEntries, so that repairing a follower's log cannot cycle.
RejectionBacksUp ==
  \A m \in appendResponses :
    state[m.from] = "Leader" /\ currentTerm[m.from] = m.term
      /\ ~m.success /\ m.conflictIndex > 0
      => BackUp(m.from, m, DOMAIN log[m.from]) \in 1..m.prevLogIndex

\* While a node leads a term its log only grows: no AppendEntries of the same
\* term reaches it, which HandleAppendEntries does not check for a leader.
LeaderAppendOnly ==
  [][\A n \in Node :
       state[n] = "Leader" /\ state'[n] = "Leader"
         /\ currentTerm'[n] = currentTerm[n]
         => /\ Len(log[n]) <= Len(log'[n])
            /\ SubSeq(log'[n], 1, Len(log[n])) = log[n]]_vars

\* What TypeOK needs to be inductive: prevLogIndex is nextIndex - 1, and the
\* index of a rejection that names a term becomes nextIndex.
IndexInv ==
  /\ \A n, p \in Node : state[n] = "Leader" => nextIndex[n][p] >= 1
  /\ \A m \in appendResponses : m.conflictTerm > 0 => m.conflictIndex >= 1

TypeInv == TypeOK /\ IndexInv

\* A node that leads runs a leader loop, without which it sends no heartbeat
\* and replicates nothing; stepDown is to stop the loop of a leader only.
LeaderHasLoop ==
  \A n \in Node : state[n] = "Leader" => leaderLoops[n] > 0

-----------------------------------------------------------------------------
(* Liveness *)

\* A node without peers elects itself for good, though no vote ever reaches
\* sendRequestVote: the last check of startElection does it.
SingleNodeLeads ==
  \A n \in Node : <>[](Node = {n} => state[n] = "Leader")

\* A node without peers commits what it appends: it is a quorum by itself.
SingleNodeCommits ==
  \A n \in Node : (Node = {n} /\ Len(log[n]) > 0) ~> commitIndex[n] > 0
=============================================================================
