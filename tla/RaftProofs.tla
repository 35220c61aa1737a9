----------------------------- MODULE RaftProofs -----------------------------
(***************************************************************************)
(* What is proved of Raft, and that it implements the replicated log.  The *)
(* arguments are in RaftReignProofs (where entries come from) and in       *)
(* RaftSafetyProofs (what a quorum has acknowledged stays).  They take     *)
(* facts of RaftElectionProofs as hypotheses, which are discharged here.   *)
(***************************************************************************)
EXTENDS RaftElectionProofs, RaftSafetyProofs, RaftCommitted, FiniteSetTheorems

-----------------------------------------------------------------------------
(* Election safety *)

\* Two quorums of nodes have a node in common.
LEMMA QuorumsIntersect ==
  ASSUME NEW A \in SUBSET Node, NEW B \in SUBSET Node,
         Cardinality(A) >= quorumSize, Cardinality(B) >= quorumSize
  PROVE  A \cap B # {}
<1>1. IsFiniteSet(Node) /\ IsFiniteSet(A) /\ IsFiniteSet(B)
  BY Zenon, NodeAssumption, FS_Subset
<1>2. /\ Cardinality(Node) \in Nat /\ Cardinality(A) \in Nat
      /\ Cardinality(B) \in Nat
  BY Zenon, <1>1, FS_CardinalityType
<1>3. Cardinality(A) + Cardinality(B) > Cardinality(Node)
  BY SMTT(30), <1>2 DEF quorumSize
<1> QED BY Zenon, <1>1, <1>3, FS_MajoritiesIntersect

\* The invariant gives election safety: two leaders of a term have a voter in
\* common, whose vote is with one of them.
LEMMA VoteInvSafe == TypeOK /\ VoteInv => ElectionSafety
<1> SUFFICES ASSUME TypeOK, VoteInv, NEW n1 \in Node, NEW n2 \in Node,
                    state[n1] = "Leader", state[n2] = "Leader",
                    currentTerm[n1] = currentTerm[n2], n1 # n2
             PROVE  FALSE
  BY Zenon DEF ElectionSafety
<1>1. /\ votesReceived[n1] \in SUBSET Node /\ votesReceived[n2] \in SUBSET Node
      /\ Cardinality(votesReceived[n1]) >= quorumSize
      /\ Cardinality(votesReceived[n2]) >= quorumSize
  BY Zenon, VoteTypes DEF VoteInv
<1>2. votesReceived[n1] \cap votesReceived[n2] = {}
  BY Zenon DEF VoteInv, VotesUnique, Running
<1> QED BY Zenon, <1>1, <1>2, QuorumsIntersect

\* At most one node leads a term, for every number of nodes, under crashes,
\* lost and reordered RPCs and storage that fails: what startElection,
\* HandleRequestVote, sendRequestVote and becomeLeader are to guarantee.
THEOREM OneLeaderPerTerm == Spec => []ElectionSafety
BY TypeCorrect, VotesCorrect, VoteInvSafe, PTL

-----------------------------------------------------------------------------
(* Who was elected stays elected *)

\* A step takes nothing from a node that was elected: its votes stay with it,
\* after it has stepped down and after crashes too.
LEMMA ElectedStable ==
  ASSUME VoteStep, NEW l \in Node, NEW t \in Nat, Elected(l, t)
  PROVE  Elected(l, t)'
<1>1. PICK Q \in SUBSET Node :
        Cardinality(Q) >= quorumSize /\ \A v \in Q : VoteIsWith(v, l, t)
  BY Zenon DEF Elected
<1>2. StoodIn(l, t) /\ StoodIn(l, t)'
  BY Zenon DEF Elected, VoteStep, NobodyReturns
<1>3. ASSUME NEW v \in Q PROVE VoteIsWith(v, l, t)'
  <2>1. VoteIsWith(v, l, t) /\ v \in Node
    BY Zenon, <1>1
  <2>2. KeepsVote(v, l, t) /\ Binding(v, l, t)
    BY SMTT(30), <1>2, <2>1 DEF VoteIsWith, Binding, StoodIn
  <2>3. StillKeeps(v, l, t)
    BY Zenon, <2>1, <2>2 DEF VoteStep, VotesKept
  <2>4. ASSUME NEW d \in Node, Running(d)', currentTerm'[d] = t, d # l
        PROVE  v \notin votesReceived'[d]
    <3>1. ~(currentTerm'[v] = t /\ votedFor'[v] = d)
      BY SMTT(30), <2>3, <2>4 DEF StillKeeps
    <3>2. ~(Running(d) /\ currentTerm[d] = t /\ v \in votesReceived[d])
      BY Zenon, <2>1, <2>4 DEF VoteIsWith
    <3>3. ~\E m \in voteResponses : m.granted /\ m.from = d /\ m.to = v
                                    /\ m.term = t
      BY Zenon, <2>1, <2>4 DEF VoteIsWith
    <3> QED BY Zenon, <2>4, <3>1, <3>2, <3>3 DEF VoteStep, VotesTraced
  <2>5. ASSUME NEW m \in voteResponses', m.granted, m.to = v, m.term = t
        PROVE  m.from = l
    <3>1. currentTerm'[v] = t => votedFor'[v] = l
      BY SMTT(30), <2>3 DEF StillKeeps
    <3>2. m \in voteResponses => m.from = l
      BY Zenon, <2>1, <2>5 DEF VoteIsWith
    <3> QED BY Zenon, <2>5, <3>1, <3>2 DEF VoteStep, VotesTraced
  <2> QED BY Zenon, <2>3, <2>4, <2>5 DEF VoteIsWith, StillKeeps, KeepsVote
<1> QED BY Zenon, <1>1, <1>2, <1>3 DEF Elected

\* A node that leads was elected in its term.
LEMMA LeaderElected ==
  ASSUME TypeOK, VoteInv, NEW n \in Node, state[n] = "Leader"
  PROVE  Elected(n, currentTerm[n])
<1> DEFINE Q == votesReceived[n]
           t == currentTerm[n]
<1>1. /\ Q \in SUBSET Node /\ Cardinality(Q) >= quorumSize
      /\ t \in Nat /\ Running(n)
  BY Zenon, VoteTypes DEF VoteInv, Running
<1>2. StoodIn(n, t)
  <2>1. disk[n] = [term |-> t, vote |-> n]
    BY Zenon, <1>1 DEF VoteInv, VotesSaved
  <2>2. disk[n].term = t /\ state[n] # "Candidate"
    BY SMTT(30), <2>1
  <2> QED BY SMTT(30), <1>1, <2>2 DEF StoodIn
<1>3. ASSUME NEW v \in Q PROVE VoteIsWith(v, n, t)
  BY Zenon, <1>1 DEF VoteIsWith, VoteInv, VotesBind, VotesUnique
<1> HIDE DEF Q
<1> QED BY Zenon, <1>1, <1>2, <1>3 DEF Elected

\* No other node than the elected one leads, or has the votes to.
LEMMA OnlyElectedLeads ==
  ASSUME TypeOK, VoteInv, NEW l \in Node, NEW n \in Node, Running(n),
         Cardinality(votesReceived[n]) >= quorumSize,
         Elected(l, currentTerm[n])
  PROVE  n = l
<1>1. PICK Q \in SUBSET Node :
        /\ Cardinality(Q) >= quorumSize
        /\ \A v \in Q : VoteIsWith(v, l, currentTerm[n])
  BY Zenon DEF Elected
<1>2. votesReceived[n] \in SUBSET Node
  BY Zenon, VoteTypes
<1>3. PICK v \in Q : v \in votesReceived[n]
  BY Zenon, <1>1, <1>2, QuorumsIntersect
<1> QED BY Zenon, <1>1, <1>3 DEF VoteIsWith

\* Leaders are elected: as one formula, which also holds after a step.
LEMMA LeadersAreElected == TypeOK /\ VoteInv => LeaderIsElected
<1> SUFFICES ASSUME TypeOK, VoteInv, NEW n \in Node, state[n] = "Leader"
             PROVE  /\ Elected(n, currentTerm[n])
                    /\ \A l \in Node : Elected(l, currentTerm[n]) => n = l
  BY Zenon DEF LeaderIsElected
<1>1. Running(n) /\ Cardinality(votesReceived[n]) >= quorumSize
  BY Zenon DEF VoteInv, Running
<1> QED BY Zenon, <1>1, LeaderElected, OnlyElectedLeads

\* AppendEntries calls and requests come from elected nodes: sendHeartbeats
\* runs in a leader, and sendAppendEntries keeps the term of the call.
LEMMA SenderElectedStep ==
  ASSUME TypeOK, VoteInv, SenderElected, [Next]_vars, VoteStep
  PROVE  SenderElected'
<1>1. ASSUME NEW m \in appendCalls \cup appendRequests
      PROVE  m.from # m.to /\ Elected(m.from, m.term)'
  <2>1. m.from \in Node /\ m.term \in Nat
    BY Zenon DEF TypeOK, AppendCall, AppendRequest
  <2> QED BY Zenon, <1>1, <2>1, ElectedStable DEF SenderElected
<1>2. CASE appendCalls' \subseteq appendCalls
           /\ appendRequests' \subseteq appendRequests
  BY Zenon, <1>1, <1>2 DEF SenderElected
<1>3. ASSUME NEW n \in Node, sendHeartbeats(n)
      PROVE  SenderElected'
  <2>1. /\ appendRequests' = appendRequests
        /\ \A m \in appendCalls' : m \in appendCalls \/
             (m.from = n /\ m.to \in Peers(n) /\ m.term = currentTerm[n])
    BY SMTT(30), <1>3 DEF sendHeartbeats
  <2>2. Elected(n, currentTerm[n])'
    <3>1. Elected(n, currentTerm[n]) /\ currentTerm[n] \in Nat
      BY Zenon, <1>3, LeaderElected, VoteTypes DEF sendHeartbeats
    <3>2. currentTerm' = currentTerm
      BY Zenon, <1>3 DEF sendHeartbeats, persistVars
    <3> QED BY Zenon, <3>1, <3>2, ElectedStable
  <2>3. currentTerm' = currentTerm
    BY Zenon, <1>3 DEF sendHeartbeats, persistVars
  <2> QED BY Zenon, <1>1, <2>1, <2>2, <2>3 DEF SenderElected, Peers
<1>4. ASSUME NEW c \in appendCalls, sendAppendEntries(c)
      PROVE  SenderElected'
  <2>1. /\ appendCalls' \subseteq appendCalls
        /\ \A m \in appendRequests' : m \in appendRequests \/
             (m.from = c.from /\ m.to = c.to /\ m.term = c.term)
    BY SMTT(30), <1>4 DEF sendAppendEntries, Taken
  <2> QED BY Zenon, <1>1, <2>1 DEF SenderElected
<1>5. CASE ~(\/ \E n \in Node : sendHeartbeats(n)
             \/ \E c \in appendCalls : sendAppendEntries(c))
  <2>1. appendCalls' \subseteq appendCalls
        /\ appendRequests' \subseteq appendRequests
    BY Zenon, <1>5
    DEF Next, vars, TimerFires, startElection, CheckWon, Propose,
        leaderLoopReturns, Restart, HandleRequestVote, ReceiveVote,
        HandleAppendEntries, AcceptEntries, ReplyAppend, Taken, ReceiveAppend,
        LoseRPC, appendVars
  <2> QED BY Zenon, <1>2, <2>1
<1> QED BY Zenon, <1>3, <1>4, <1>5

\* Every AppendEntries comes from a node that was elected in its term and goes
\* to another, so that none reaches the leader of its own term: the case that
\* HandleAppendEntries does not handle.
THEOREM SendersAreElected == Spec => []SenderElected
<1>1. Init => SenderElected
  BY Zenon DEF Init, SenderElected
<1>2. TypeOK /\ VoteInv /\ SenderElected /\ [Next]_vars => SenderElected'
  BY Zenon, StepKeepsVotes, SenderElectedStep
<1> QED BY <1>1, <1>2, TypeCorrect, VotesCorrect, PTL DEF Spec

\* While a node leads a term its log only grows, under all faults: Propose
\* appends, and the AppendEntries that would truncate it are of other terms.
THEOREM LeadersAppendOnly == Spec => LeaderAppendOnly
<1> DEFINE GoesOn(n) ==
             state[n] = "Leader" /\ state'[n] = "Leader"
               /\ currentTerm'[n] = currentTerm[n]
               => /\ Len(log[n]) <= Len(log'[n])
                  /\ SubSeq(log'[n], 1, Len(log[n])) = log[n]
<1>1. ASSUME TypeOK, VoteInv, SenderElected, [Next]_vars, NEW n \in Node,
             state[n] = "Leader", state'[n] = "Leader",
             currentTerm'[n] = currentTerm[n]
      PROVE  \/ log'[n] = log[n]
             \/ \E e \in Entry : log'[n] = Append(log[n], e)
  <2>1. log \in [Node -> Seq(Entry)] /\ currentTerm[n] \in Nat
        /\ state \in [Node -> {"Follower", "Candidate", "Leader"}]
    BY <1>1, Zenon DEF TypeOK
  <2>2. ASSUME NEW c \in Command, NEW k \in Node, Propose(k, c)
        PROVE  \/ log'[n] = log[n]
               \/ \E e \in Entry : log'[n] = Append(log[n], e)
    <3>1. [term |-> currentTerm[n], command |-> c] \in Entry
      BY Zenon, <2>1 DEF Entry
    <3> QED BY Zenon, <2>1, <2>2, <3>1 DEF Propose
  <2>3. ASSUME NEW k \in Node, becomeLeader(k), state[k] = "Candidate"
        PROVE  log'[n] = log[n]
    BY Zenon, <1>1, <2>1, <2>3 DEF becomeLeader
  <2>4. ASSUME NEW m \in appendRequests, HandleAppendEntries(m)
        PROVE  log'[n] = log[n]
    <3>1. m.to \in Node /\ m.from \in Node /\ m.term \in Nat
      BY Zenon, <1>1 DEF TypeOK, AppendRequest
    <3>2. CASE n # m.to \/ m.term < currentTerm[n]
      <4>1. n = m.to => ~(m.term >= currentTerm[n])
        BY SMTT(30), <2>1, <3>1, <3>2
      <4>2. n = m.to => log' = log
        BY Zenon, <2>4, <4>1 DEF HandleAppendEntries
      <4>3. n # m.to => log'[n] = log[n]
        BY Zenon, <2>1, <2>4, <3>1 DEF HandleAppendEntries, AcceptEntries
      <4> QED BY Zenon, <4>2, <4>3
    <3>3. CASE n = m.to /\ m.term >= currentTerm[n]
      <4>1. \E downOK : Follow(m, downOK)
        <5>1. ~(m.term < currentTerm[m.to])
          BY SMTT(30), <2>1, <3>1, <3>3
        <5> QED BY Zenon, <2>4, <5>1 DEF HandleAppendEntries
      <4>2. currentTerm'[n] = m.term
        BY Zenon, <3>3, <4>1, <1>1, VoteTypes DEF Follow
      <4>3. n = m.from
        <5>1. Running(n) /\ Cardinality(votesReceived[n]) >= quorumSize
          BY Zenon, <1>1 DEF Running, VoteInv
        <5>2. Elected(m.from, currentTerm[n])
          BY Zenon, <1>1, <4>2 DEF SenderElected
        <5> QED BY Zenon, <1>1, <3>1, <5>1, <5>2, OnlyElectedLeads
      <4> QED BY Zenon, <1>1, <3>3, <4>3 DEF SenderElected
    <3> QED BY SMTT(30), <2>1, <3>1, <3>2, <3>3
  <2>5. ASSUME NEW m \in voteResponses, ReceiveVote(m)
        PROVE  log'[n] = log[n]
    <3>1. m.from \in Node
      BY Zenon, <1>1, VoteTypes DEF VoteResponse
    <3>2. \/ becomeLeader(m.from) /\ state[m.from] = "Candidate"
          \/ log' = log
      BY Zenon, <2>5 DEF ReceiveVote
    <3> QED BY Zenon, <2>3, <3>1, <3>2
  <2>6. ASSUME NEW k \in Node, CheckWon(k)
        PROVE  log'[n] = log[n]
    BY Zenon, <2>3, <2>6 DEF CheckWon, Won
  <2>7. CASE \/ UNCHANGED vars
             \/ \E k \in Node : TimerFires(k) \/ startElection(k)
                  \/ sendHeartbeats(k) \/ leaderLoopReturns(k) \/ Restart(k)
             \/ \E m \in voteRequests : HandleRequestVote(m)
             \/ \E c \in appendCalls : sendAppendEntries(c)
             \/ \E m \in appendResponses : ReceiveAppend(m)
             \/ LoseRPC
    BY Zenon, <2>7
    DEF vars, TimerFires, startElection, sendHeartbeats, leaderLoopReturns,
        Restart, HandleRequestVote, sendAppendEntries, ReceiveAppend, LoseRPC
  <2> QED BY Zenon, <1>1, <2>2, <2>4, <2>5, <2>6, <2>7 DEF Next
<1>2. ASSUME NEW s \in Seq(Entry), NEW u,
             u = s \/ \E e \in Entry : u = Append(s, e)
      PROVE  Len(s) <= Len(u) /\ SubSeq(u, 1, Len(s)) = s
  BY SMTT(30), <1>2
<1>3. TypeOK /\ VoteInv /\ SenderElected /\ [Next]_vars
        => [\A n \in Node : GoesOn(n)]_vars
  <2> SUFFICES ASSUME TypeOK, VoteInv, SenderElected, [Next]_vars,
                      NEW n \in Node
               PROVE  GoesOn(n)
    BY Zenon
  <2>1. log[n] \in Seq(Entry)
    BY Zenon DEF TypeOK
  <2> QED BY Zenon, <1>1, <1>2, <2>1
<1> QED BY <1>3, TypeCorrect, VotesCorrect, SendersAreElected, PTL
        DEF Spec, LeaderAppendOnly

-----------------------------------------------------------------------------
(* The hypotheses of the steps *)

\* What Min and Max of FiniteSetsExt give.
LEMMA HaveMinMax == MinMax
BY Zenon, MinNat, MaxNat DEF MinMax

\* Quorums as necessary for commitment: all nodes are one, any two meet, and a
\* leader adds itself to the peers that it counts.
LEMMA HaveQuorums == Quorums
<1>1. IsFiniteSet(Node) /\ Cardinality(Node) \in Nat /\ Cardinality(Node) # 0
  BY Zenon, NodeAssumption, FS_CardinalityType, FS_EmptySet
<1>2. Cardinality(Node) >= quorumSize
  BY SMTT(30), <1>1 DEF quorumSize
<1>3. ASSUME NEW n \in Node, NEW S \in SUBSET Peers(n), Cardinality(S) + 1 >= quorumSize
      PROVE  Cardinality(S \cup {n}) >= quorumSize
  <2>1. IsFiniteSet(S) /\ n \notin S
    BY Zenon, <1>1, FS_Subset DEF Peers
  <2>2. Cardinality(S \cup {n}) = Cardinality(S) + 1
    BY Zenon, <2>1, FS_AddElement
  <2> QED BY Zenon, <1>3, <2>2
<1>4. ASSUME NEW P \in SUBSET Node, NEW Q \in SUBSET Node,
             Cardinality(P) >= quorumSize, Cardinality(Q) >= quorumSize
      PROVE  \E v \in P : v \in Q
  BY Zenon, <1>4, QuorumsIntersect
<1> QED BY Zenon, <1>2, <1>3, <1>4 DEF Quorums

\* What the steps of Raft keep of elections.
LEMMA ElectionStep ==
  ASSUME TypeOK, TypeOK', VoteInv, VoteInv', [Next]_vars
  PROVE  /\ ElectionSafety' /\ LeaderIsElected /\ LeaderIsElected'
         /\ ElectedStays
<1>1. LeaderIsElected
  BY Zenon, LeadersAreElected
<1>2. LeaderIsElected'
  BY LeadersAreElected, PTL
<1>3. ElectionSafety'
  BY VoteInvSafe, PTL
<1>4. ElectedStays
  BY Zenon, StepKeepsVotes, ElectedStable DEF ElectedStays
<1> QED BY Zenon, <1>1, <1>2, <1>3, <1>4

\* A step of Raft with its history is a step of Raft.
LEMMA StepIsRaft == [NextC]_varsC => [Next]_vars /\ ChosenStep
BY Zenon DEF NextC, varsC, vars, ChosenStep

-----------------------------------------------------------------------------
(* Where entries come from.  With reads that fail a leader may send less than *)
(* it believes to, and a follower may take what it cannot read for missing,   *)
(* so these theorems are about storage whose reads do not fail.               *)

\* Without reads that fail the inductive invariant holds: every log has its
\* root in the reigns, and so has what AppendEntries RPCs carry both ways.
THEOREM LogsCorrect ==
  ASSUME "read" \notin StorageFaults
  PROVE  SpecC => []LogInv
<1>1. InitC => Init /\ LogInv
  BY DEF InitC, Init, LogInv, ReignInv, RequestInv, ResponseInv, NextInv,
         Leaders, Running, Rooted
<1>2. TypeInv /\ TypeInv' /\ VoteInv /\ VoteInv' /\ SenderElected /\ LogInv
        /\ [NextC]_varsC => LogInv'
  <2> SUFFICES ASSUME TypeInv, TypeInv', VoteInv, VoteInv', SenderElected,
                      LogInv, [NextC]_varsC
               PROVE  LogInv'
    BY Zenon
  <2>1. TypeOK /\ TypeOK' /\ [Next]_vars
    BY Zenon, StepIsRaft DEF TypeInv
  <2>2. /\ ElectionSafety' /\ LeaderIsElected /\ LeaderIsElected'
        /\ ElectedStays
    BY Zenon, <2>1, ElectionStep
  <2> QED BY Zenon, <2>1, <2>2, HaveMinMax, LogInvStep
<1> QED
  BY <1>1, <1>2, StepIsRaft, TypeInvCorrect, VotesCorrect, SendersAreElected, PTL
  DEF SpecC, Spec

\* Without reads that fail, two logs that have an entry of the same term at an
\* index are identical up to it: Rules 2 to 4 of HandleAppendEntries keep it so
\* through partial appends, failed truncations, failed saves and crashes, with
\* any number of nodes and of RPCs in flight.
THEOREM LogsMatch ==
  ASSUME "read" \notin StorageFaults
  PROVE  SpecC => []LogMatching
<1>1. InitC => Init
  BY Zenon DEF InitC
<1> QED
  BY <1>1, LogInvMatches, StepIsRaft, LogsCorrect, TypeInvCorrect, PTL
  DEF SpecC, Spec

\* Without reads that fail, the index a leader sends from is in its log or just
\* after it, so that the subtraction and the slice of sendAppendEntries are in
\* range whatever answers have moved it.
THEOREM NextIndicesInRange ==
  ASSUME "read" \notin StorageFaults
  PROVE  SpecC => []NextIndexInRange
<1>1. LogInv => NextIndexInRange
  BY Zenon DEF LogInv, NextInv, Leaders, NextIndexInRange, Peers
<1> QED BY <1>1, LogsCorrect, PTL

\* Without reads that fail, a rejection that names a conflict makes the leader
\* try strictly earlier than the rejected request: an entry of the conflict's
\* term at prevLogIndex or beyond would make the two logs agree there.
THEOREM RejectionsBackUp ==
  ASSUME "read" \notin StorageFaults
  PROVE  SpecC => []RejectionBacksUp
<1>1. InitC => Init
  BY DEF InitC
<1>2. TypeInv /\ LogInv => RejectionBacksUp
  BY Zenon, HaveMinMax, LogInvBacksUp
<1> QED
  BY <1>1, <1>2, StepIsRaft, LogsCorrect, TypeInvCorrect, PTL DEF SpecC, Spec

-----------------------------------------------------------------------------
(* What is committed stays committed.  A save that fails lets a node forget,  *)
(* in a crash, the term in which it acknowledged entries, so these theorems   *)
(* are about storage whose saves do not fail either; an append or a           *)
(* truncation still may.                                                      *)

\* Without saves that fail, the term in memory is the one in storage at every
\* step of every handler.
THEOREM TermsAreSaved ==
  ASSUME "save" \notin StorageFaults
  PROVE  Spec => []TermsSaved
<1>1. Init => TermsSaved
  BY DEF Init, TermsSaved
<1>2. TypeOK /\ TypeOK' /\ TermsSaved /\ [Next]_vars => TermsSaved'
  BY Zenon, TermsSavedStep
<1> QED BY <1>1, <1>2, TypeCorrect, PTL DEF Spec

\* Without saves that fail, a node has saved every term that it answered in
\* before the answer is out: stepDown comes before the answer in
\* HandleRequestVote and HandleAppendEntries, and stepDown saves.
THEOREM AnswersAreSaved ==
  ASSUME "save" \notin StorageFaults
  PROVE  Spec => []PersistBeforeResponding
<1>1. TypeOK /\ TermsSaved => PersistBeforeResponding
  <2> SUFFICES ASSUME TypeOK, TermsSaved,
                      NEW m \in voteResponses \cup appendResponses
               PROVE  disk[m.to].term >= m.respTerm
    BY Zenon DEF PersistBeforeResponding
  <2>1. m.to \in Node /\ m.respTerm \in Nat
    BY Zenon DEF TypeOK, VoteResponse, AppendResponse
  <2>2. currentTerm[m.to] \in Nat /\ disk[m.to].term = currentTerm[m.to]
        /\ m.respTerm <= currentTerm[m.to]
    BY Zenon, <2>1 DEF TypeOK, TermsSaved
  <2> QED BY Zenon, <2>1, <2>2
<1> QED BY <1>1, TermsAreSaved, TypeCorrect, PTL

\* What a step of Raft with its history does, when storage neither fails to
\* read nor to save: it keeps the invariants, terms, votes and reigns.
LEMMA StepKeepsSafety ==
  ASSUME "read" \notin StorageFaults, "save" \notin StorageFaults,
         TypeInv, TypeInv', VoteInv, VoteInv', SenderElected, LogInv, LogInv',
         SafetyInv, [NextC]_varsC
  PROVE  SafeStep /\ SafetyInv' /\ ChosenStep
<1>1. TypeOK /\ TypeOK' /\ [Next]_vars /\ ChosenStep
  BY Zenon, StepIsRaft DEF TypeInv
<1>2. ElectionSafety' /\ LeaderIsElected /\ LeaderIsElected' /\ ElectedStays
  BY Zenon, <1>1, ElectionStep
<1>3. TermsSaved /\ Acked \subseteq acks
  BY Zenon DEF SafetyInv, AckInv
<1>4. TermsSaved' /\ TermsGrow
  BY Zenon, <1>1, <1>3, TermsSavedStep
<1>5. SafeStep
  BY Zenon, <1>1, <1>2, <1>3, <1>4, HaveMinMax, StepIsSafe
<1>6. SafetyInv'
  BY Zenon, <1>1, <1>4, <1>5, HaveQuorums, SafetyInvStep
<1> QED BY Zenon, <1>1, <1>5, <1>6

\* The invariant holds in the beginning, when nothing is stored or sent.
LEMMA SafetyInvInit == InitC => SafetyInv
<1> SUFFICES ASSUME InitC PROVE SafetyInv
  BY Zenon
<1>1. /\ TermsSaved /\ TermInv /\ KeepsAcked /\ VotersInv /\ LaterLeaderHas
  BY SMTT(30) DEF InitC, Init, TermsSaved, TermInv, KeepsAcked, VotersInv, LaterLeaderHas,
         Stands, Running
<1>2. AckInv
  BY Zenon DEF InitC, Init, AckInv, Acked, Leaders, Running
<1>3. CommitInv
  BY SMTT(30), NodeAssumption DEF InitC, Init, CommitInv, Settled
<1> QED BY Zenon, <1>1, <1>2, <1>3 DEF SafetyInv

\* When storage neither fails to read nor to save, the inductive invariant of
\* commitment holds: nodes keep what they acknowledged, candidates have what
\* their voters acknowledged, and later leaders what a quorum did.
THEOREM SafetyCorrect ==
  ASSUME "read" \notin StorageFaults, "save" \notin StorageFaults
  PROVE  SpecC => []SafetyInv
<1>1. InitC => Init
  BY Zenon DEF InitC
<1>2. TypeInv /\ TypeInv' /\ VoteInv /\ VoteInv' /\ SenderElected /\ LogInv
        /\ LogInv' /\ SafetyInv /\ [NextC]_varsC => SafetyInv'
  BY Zenon, StepKeepsSafety
<1> QED
  BY Zenon, <1>1, <1>2, SafetyInvInit, StepIsRaft, LogsCorrect, TypeInvCorrect,
     VotesCorrect, SendersAreElected, PTL
  DEF SpecC, Spec

\* When storage neither fails to read nor to save, a peer in the leader's term
\* has the leader's entries through the matchIndex it is counted with: no
\* late, lost or reordered answer makes checkCommit count what is not stored.
THEOREM MatchIndicesSound ==
  ASSUME "read" \notin StorageFaults, "save" \notin StorageFaults
  PROVE  SpecC => []MatchIndexSound
<1>1. InitC => Init
  BY Zenon DEF InitC
<1> QED
  BY <1>1, SafetyMatches, StepIsRaft, LogsCorrect, SafetyCorrect, TypeCorrect, PTL
  DEF SpecC, Spec

\* When storage neither fails to read nor to save, no two nodes commit
\* different entries at an index, so applyLoop delivers the same commands on
\* all of them, for every number of nodes and elections.
THEOREM StateMachinesSafe ==
  ASSUME "read" \notin StorageFaults, "save" \notin StorageFaults
  PROVE  SpecC => []StateMachineSafety
<1>1. InitC => Init
  BY DEF InitC
<1>2. TypeOK /\ LogInv /\ SafetyInv => StateMachineSafety
  BY Zenon, HaveMinMax, HaveQuorums, SafetyStateMachines
<1> QED
  BY <1>1, <1>2, StepIsRaft, LogsCorrect, SafetyCorrect, TypeCorrect, PTL
  DEF SpecC, Spec

\* When storage neither fails to read nor to save, a leader whose term is the
\* newest has all that was ever committed: isLogUpToDate, votes of a quorum,
\* and commitment of entries of the leader's own term only.
THEOREM LeadersComplete ==
  ASSUME "read" \notin StorageFaults, "save" \notin StorageFaults
  PROVE  SpecC => []LeaderCompleteness
<1>1. InitC => Init
  BY DEF InitC
<1>2. TypeOK /\ LogInv /\ SafetyInv => LeaderCompleteness
  <2> SUFFICES ASSUME TypeOK, LogInv, SafetyInv, NEW n \in Node,
                      state[n] = "Leader",
                      \A p \in Node : currentTerm[p] <= currentTerm[n]
               PROVE  Agree(chosen, log[n], Len(chosen))
    BY Zenon DEF LeaderCompleteness
  <2> QED BY Zenon, HaveQuorums, NewestLeaderHas
<1> QED
  BY <1>1, <1>2, StepIsRaft, LogsCorrect, SafetyCorrect, TypeCorrect, PTL
  DEF SpecC, Spec

\* What a node knows to be committed is its log as far as its commitIndex, and
\* is settled.
LEMMA KnownIsSettled ==
  ASSUME TypeOK, LogInv, SafetyInv, NEW n \in Node
  PROVE  /\ Committed(n) \in Seq(Entry)
         /\ Settled(reign, acks, Committed(n), Len(Committed(n)), currentTerm[n])
<1>1. /\ log[n] \in Seq(Entry) /\ commitIndex[n] \in Nat /\ IsRecord(reign)
      /\ currentTerm[n] \in Nat
      /\ Settled(reign, acks, log[n], commitIndex[n], currentTerm[n])
  BY Zenon, HaveQuorums, LeadersHaveCommitted DEF TypeOK, SafetyInv, CommitInv
<1>2. commitIndex[n] <= Len(log[n])
  BY Zenon, <1>1, SettledLength
<1>3. /\ Committed(n) \in Seq(Entry) /\ Len(Committed(n)) = commitIndex[n]
      /\ Agree(Committed(n), log[n], commitIndex[n])
  BY Zenon, <1>1, <1>2, HaveMinMax, CommittedIs DEF Committed
<1>4. Settled(reign, acks, Committed(n), commitIndex[n], currentTerm[n])
  BY Zenon, <1>1, <1>3, SettledPrefix
<1> QED BY Zenon, <1>3, <1>4

\* When storage neither fails to read nor to save, what any node knows to be
\* committed, and all that ever was, is in the logs of a quorum.
THEOREM CommittedStored ==
  ASSUME "read" \notin StorageFaults, "save" \notin StorageFaults
  PROVE  SpecC => []CommittedIsStored
<1>1. InitC => Init
  BY DEF InitC
<1>2. TypeOK /\ LogInv /\ SafetyInv => CommittedIsStored
  <2> SUFFICES ASSUME TypeOK, LogInv, SafetyInv,
                      NEW s \in {chosen} \cup {Committed(n) : n \in Node}
               PROVE  Cardinality({v \in Node : Agree(s, log[v], Len(s))}) >= quorumSize
    BY Zenon DEF CommittedIsStored
  <2>1. s \in Seq(Entry) /\ \E b : Settled(reign, acks, s, Len(s), b)
    BY Zenon, KnownIsSettled DEF SafetyInv, CommitInv
  <2>2. PICK Q \in SUBSET Node : /\ Cardinality(Q) >= quorumSize
                                 /\ \A v \in Q : Agree(s, log[v], Len(s))
    BY Zenon, <2>1, HaveQuorums, QuorumStores
  <2> DEFINE S == {v \in Node : Agree(s, log[v], Len(s))}
  <2>3. Q \subseteq S
    BY Zenon, <2>2
  <2>4. IsFiniteSet(S)
    BY Zenon, NodeAssumption, FS_Subset
  <2> HIDE DEF S
  <2>5. /\ Cardinality(Q) <= Cardinality(S) /\ Cardinality(Q) \in Nat
        /\ Cardinality(S) \in Nat /\ Cardinality(Node) \in Nat
    BY Zenon, <2>3, <2>4, NodeAssumption, FS_Subset, FS_CardinalityType
  <2>6. Cardinality(S) >= quorumSize
    BY SMTT(30), <2>2, <2>5 DEF quorumSize
  <2> QED BY Zenon, <2>6 DEF S
<1> QED
  BY <1>1, <1>2, StepIsRaft, LogsCorrect, SafetyCorrect, TypeCorrect, PTL
  DEF SpecC, Spec

-----------------------------------------------------------------------------
(* Raft implements the replicated log *)

\* Logs that agree to the end of one are a log and its beginning.
LEMMA AgreeBegins ==
  ASSUME NEW s \in Seq(Entry), NEW w \in Seq(Entry), Agree(s, w, Len(s))
  PROVE  ReplicatedLog!Begins(s, w)
BY DEF ReplicatedLog!Begins, Agree

\* A step in which one node at most learns or forgets what is committed is one
\* of the replicated log.
LEMMA StepRefines ==
  ASSUME TypeOK, TypeOK', LogInv, LogInv', SafetyInv, SafetyInv', SafeStep,
         ChosenStep
  PROVE  ReplicatedLog!Next
<1> DEFINE learned == [n \in Node |-> Committed(n)]
           learnedNext == [n \in Node |-> Committed(n)']
<1>1. PICK q \in Node :
        /\ Learns(q) \/ (chosen' = chosen /\ Committed(q)' = << >>)
        /\ \A p \in Node \ {q} : Committed(p)' = Committed(p)
  BY Zenon, HaveQuorums, StepLearns
<1>2. learnedNext = [learned EXCEPT ![q] = Committed(q)']
  BY Zenon, <1>1
<1>3. learned[q] = Committed(q) /\ learnedNext[q] = Committed(q)'
  BY Zenon
<1>4. learned' = learnedNext
  BY Zenon
<1>5. CASE Learns(q)
  <2>1. Committed(q) \in Seq(Entry) /\ chosen \in Seq(Entry) /\ chosen' \in Seq(Entry)
    BY Zenon, KnownIsSettled DEF SafetyInv, CommitInv
  <2>2. Committed(q)' \in Seq(Entry)
    BY Zenon, HaveQuorums, NodeKnows DEF SafetyInv
  <2>3. /\ ReplicatedLog!Begins(chosen, chosen')
        /\ ReplicatedLog!Begins(Committed(q), Committed(q)')
        /\ ReplicatedLog!Begins(Committed(q)', chosen')
    BY Zenon, <1>5, <2>1, <2>2, AgreeBegins DEF Learns
  <2>4. chosen' \in {chosen, Committed(q)'}
    BY Zenon, <1>5 DEF Learns
  <2>5. ReplicatedLog!Learn(q)
    BY Zenon, <1>2, <1>3, <1>4, <2>3, <2>4 DEF ReplicatedLog!Learn
  <2> QED BY Zenon, <2>5 DEF ReplicatedLog!Next
<1>6. CASE chosen' = chosen /\ Committed(q)' = << >>
  <2>1. ReplicatedLog!Forget(q)
    BY Zenon, <1>2, <1>4, <1>6 DEF ReplicatedLog!Forget
  <2> QED BY Zenon, <2>1 DEF ReplicatedLog!Next
<1> QED BY Zenon, <1>1, <1>5, <1>6

\* When storage neither fails to read nor to save, Raft implements the
\* replicated log: what a node ever commits is committed for good, at its
\* index, and every node commits it in the same order, across leader changes,
\* crashes and whatever the network does.
THEOREM RaftImplementsLog ==
  ASSUME "read" \notin StorageFaults, "save" \notin StorageFaults
  PROVE  SpecC => ImplementsReplicatedLog
<1>1. InitC => Init
  BY DEF InitC
<1>2. InitC => ReplicatedLog!Init
  <2> SUFFICES ASSUME InitC PROVE ReplicatedLog!Init
    BY Zenon
  <2>1. ASSUME NEW n \in Node PROVE Committed(n) = << >>
    <3>1. log[n] = << >> /\ commitIndex[n] = 0 /\ {0, 0} \in SUBSET Nat
      BY SMTT(30) DEF InitC, Init
    <3>2. Min({0, 0}) = 0
      BY Zenon, <3>1, MinNat
    <3> QED BY SMTT(30), <3>1, <3>2 DEF Committed
  <2> QED BY Zenon, <2>1 DEF InitC, ReplicatedLog!Init
<1>3. TypeInv /\ TypeInv' /\ VoteInv /\ VoteInv' /\ SenderElected /\ LogInv
        /\ LogInv' /\ SafetyInv /\ [NextC]_varsC => ReplicatedLog!Next
  BY Zenon, StepKeepsSafety, StepRefines DEF TypeInv
<1> QED
  BY Zenon, <1>1, <1>2, <1>3, StepIsRaft, LogsCorrect, SafetyCorrect, TypeInvCorrect,
     VotesCorrect, SendersAreElected, PTL
  DEF SpecC, Spec, ImplementsReplicatedLog, ReplicatedLog!Spec

=============================================================================
