----------------------------- MODULE RaftHistory -----------------------------
(***************************************************************************)
(* Raft with the history that its safety is about.  commitIndex is         *)
(* volatile and a leader's log is gone once it steps down, so a state does *)
(* not show what was committed before a crash, what the leader of an older *)
(* term sent, or who acknowledged it.  Three history variables, which no   *)
(* action reads, keep that.                                                *)
(***************************************************************************)
EXTENDS Raft

VARIABLES
  chosen,  \* the longest log prefix that a node ever knew to be committed
  reign,   \* reign[t]: the log of the leader of the term t, as far as it got
  acks     \* who has acknowledged, in which term, the log up to which index

\* The entries n knows to be committed, as far as applyLoop finds them in the
\* log to deliver them.
Committed(n) == SubSeq(log[n], 1, Min({commitIndex[n], Len(log[n])}))

Leaders == {n \in Node : state[n] = "Leader"}

\* The acknowledgements that are on their way to a leader; a leader counts
\* itself for all of its log.
Acked ==
  {[node |-> m.to, term |-> m.term, index |-> m.prevLogIndex + m.sent] :
     m \in {r \in appendResponses : r.success}}
  \cup {[node |-> n, term |-> currentTerm[n], index |-> Len(log[n])] :
          n \in Leaders}

InitC == Init /\ chosen = << >> /\ reign = << >> /\ acks = {}

\* A step moves the commitIndex of one node at most, so one at most is ahead.
RecordChosen ==
  \/ /\ \A n \in Node : commitIndex'[n] <= Len(chosen)
     /\ UNCHANGED chosen
  \/ \E n \in Node : /\ commitIndex'[n] > Len(chosen)
                     /\ chosen' = Committed(n)'

RecordReign ==
  reign' = [t \in DOMAIN reign \cup {currentTerm'[n] : n \in Leaders'} |->
              IF \E n \in Leaders' : currentTerm'[n] = t
                THEN log'[CHOOSE n \in Leaders' : currentTerm'[n] = t]
                ELSE reign[t]]

NextC ==
  /\ Next
  /\ RecordChosen
  /\ RecordReign
  /\ acks' = acks \cup Acked'

varsC == <<vars, chosen, reign, acks>>

SpecC == InitC /\ [][NextC]_varsC

FairSpecC == SpecC /\ Fairness

-----------------------------------------------------------------------------
(* Why Raft is safe: the inductive invariants, over the history. *)

\* The logs s and u are identical through the index k.
Agree(s, u, k) ==
  /\ k <= Len(s) /\ k <= Len(u)
  /\ \A i \in 1..k : s[i] = u[i]

\* Every entry of the log s, and all before it, comes from the leader of the
\* entry's term; R is a record of reigns.
Rooted(s, R) ==
  \A i \in 1..Len(s) :
    s[i].term \in DOMAIN R /\ Agree(s, R[s[i].term], i)

\* One node leads a term, its log is on record, and the last entry of it was
\* appended in the term: by becomeLeader, or Propose.
ReignInv ==
  /\ DOMAIN reign \subseteq Nat \ {0}
  /\ reign \in [DOMAIN reign -> Seq(Entry)]
  /\ \A n \in Node : Running(n) => currentTerm[n] > 0
  /\ \A n \in Leaders : currentTerm[n] \in DOMAIN reign
                       /\ reign[currentTerm[n]] = log[n]
  /\ \A t \in DOMAIN reign :
       /\ reign[t] # << >> /\ reign[t][Len(reign[t])].term = t
       /\ Rooted(reign[t], reign)
       /\ \E l \in Node : Elected(l, t)
  /\ \A n \in Node : Rooted(log[n], reign)

\* The last index an AppendEntries covers; it is the end of the leader's log
\* at the time when it was sent.
LastSent(m) == m.prevLogIndex + Len(m.entries)

\* An AppendEntries carries a piece of its leader's log that ends in an entry
\* of the leader's own term.
Carries(R, m) ==
  /\ m.term \in DOMAIN R
  /\ LastSent(m) \in 1..Len(R[m.term])
  /\ R[m.term][LastSent(m)].term = m.term
  /\ \A j \in 1..Len(m.entries) :
       m.entries[j] = R[m.term][m.prevLogIndex + j]
  /\ m.prevLogIndex > 0 => m.prevLogTerm = R[m.term][m.prevLogIndex].term

RequestInv == \A m \in appendRequests : Carries(reign, m)

\* The answer is about that piece; and a rejection names an index that the
\* leader has, and a term whose leader had another entry before the new ones.
AnswersTo(R, m) ==
  /\ m.term \in DOMAIN R
  /\ m.prevLogIndex + m.sent \in 1..Len(R[m.term])
  /\ R[m.term][m.prevLogIndex + m.sent].term = m.term
  /\ m.conflictIndex <= m.prevLogIndex
  /\ m.conflictTerm > 0 =>
       /\ m.conflictTerm \in DOMAIN R
       /\ m.prevLogIndex \in 1..Len(R[m.conflictTerm])
       /\ R[m.conflictTerm][m.prevLogIndex].term = m.conflictTerm
       /\ R[m.term][m.prevLogIndex].term # m.conflictTerm

ResponseInv == \A m \in appendResponses : AnswersTo(reign, m)

\* The indices of a leader stay in its log.
NextInv ==
  \A n \in Leaders, p \in Node : nextIndex[n][p] \in 1..Len(log[n]) + 1

LogInv == ReignInv /\ RequestInv /\ ResponseInv /\ NextInv

\* In the record A of acknowledgements, v has the log of the leader of t
\* through the index i.
HasAcked(A, v, t, i) ==
  \E a \in A : a.node = v /\ a.term = t /\ a.index >= i

\* A leader after the term t, up to the term b, does not have the log of the
\* leader of t through the index i.
Lost(R, t, i, b) ==
  \E u \in DOMAIN R : t < u /\ u <= b /\ ~Agree(R[u], R[t], i)

\* The indices at which the leader of t may commit: those of its own term.
OwnIndices(R, t) == {i \in 1..Len(R[t]) : R[t][i].term = t}

\* A quorum has acknowledged the log of the leader of t through i, an entry of
\* its own term: what checkCommit looks for.
CommittedAt(R, A, t, i) ==
  /\ t \in DOMAIN R /\ i \in OwnIndices(R, t)
  /\ \E Q \in SUBSET Node : /\ Cardinality(Q) >= quorumSize
                            /\ \A v \in Q : HasAcked(A, v, t, i)

\* The log s is committed through k by a leader of a term up to b.
Settled(R, A, s, k, b) ==
  k > 0 => \E t \in DOMAIN R : \E i \in OwnIndices(R, t) :
             /\ t <= b /\ k <= i
             /\ CommittedAt(R, A, t, i)
             /\ Agree(s, R[t], k)

\* Terms only grow along the logs, up to the term of their node.
TermInv ==
  /\ \A n \in Node : \A i \in 1..Len(log[n]) : log[n][i].term <= currentTerm[n]
  /\ \A t \in DOMAIN reign : \A i \in 1..Len(reign[t]) : reign[t][i].term <= t

\* An acknowledgement is of entries that the leader has, and the term of the
\* one who gave it does not go back.  What a leader counts was acknowledged.
AckInv ==
  /\ Acked \subseteq acks
  /\ \A a \in acks :
       /\ a.node \in Node /\ a.term \in DOMAIN reign
       /\ a.index \in OwnIndices(reign, a.term)
       /\ a.term <= currentTerm[a.node]
  /\ \A n \in Leaders, p \in Node : matchIndex[n][p] > 0 =>
       HasAcked(acks, p, currentTerm[n], matchIndex[n][p])

\* A node still has what it acknowledged, unless a later leader whose term it
\* has reached lacks it.
KeepsAcked ==
  \A v \in Node, t \in DOMAIN reign : \A i \in OwnIndices(reign, t) :
    HasAcked(acks, v, t, i) =>
      Agree(log[v], reign[t], i) \/ Lost(reign, t, i, currentTerm[v])

\* A candidate has what its voters acknowledged in earlier terms, with the same
\* exception: isLogUpToDate compared its log with theirs.
CandidateHas(n, v) ==
  \A t \in DOMAIN reign : \A i \in OwnIndices(reign, t) :
    t < currentTerm[n] /\ HasAcked(acks, v, t, i) =>
      Agree(log[n], reign[t], i) \/ Lost(reign, t, i, currentTerm[n])

Stands(n, t) == state[n] = "Candidate" /\ currentTerm[n] = t

VotersInv ==
  /\ \A n \in Node : Stands(n, currentTerm[n]) =>
       \A v \in votesReceived[n] : CandidateHas(n, v)
  /\ \A m \in voteResponses :
       m.granted /\ Stands(m.from, m.term) => CandidateHas(m.from, m.to)
  /\ \A m \in voteRequests : Stands(m.from, m.term) =>
       /\ m.lastLogIndex = Len(log[m.from])
       /\ m.lastLogTerm = LastTerm(m.from, DOMAIN log[m.from])

\* A later leader has the log of an earlier one through i, or a quorum will
\* never acknowledge it.
LaterLeaderHas ==
  \A t, u \in DOMAIN reign : \A i \in OwnIndices(reign, t) : t < u =>
    \/ Agree(reign[u], reign[t], i)
    \/ \E Q \in SUBSET Node :
         /\ Cardinality(Q) >= quorumSize
         /\ \A v \in Q : currentTerm[v] > t /\ ~HasAcked(acks, v, t, i)

\* What the nodes, the AppendEntries in flight and the history take to be
\* committed is.
CommitInv ==
  /\ \A n \in Node :
       /\ Settled(reign, acks, log[n], commitIndex[n], currentTerm[n])
       /\ commitIndex[n] <= Len(chosen)
  /\ \A m \in appendCalls \cup appendRequests :
       /\ m.term \in DOMAIN reign
       /\ Settled(reign, acks, reign[m.term], m.leaderCommit, m.term)
  /\ \A m \in appendRequests : m.leaderCommit <= LastSent(m)
  /\ chosen \in Seq(Entry)
  /\ \E n \in Node :
       Settled(reign, acks, chosen, Len(chosen), currentTerm[n])

SafetyInv ==
  /\ TermsSaved /\ TermInv /\ AckInv /\ KeepsAcked /\ VotersInv
  /\ LaterLeaderHas /\ CommitInv
=============================================================================
