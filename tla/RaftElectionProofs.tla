------------------------- MODULE RaftElectionProofs -------------------------
(***************************************************************************)
(* Types, votes and terms, for every set of nodes and of commands, every   *)
(* combination of storage faults and crashes, and all bounds: no variable  *)
(* leaves its type, a vote that counts stays bound to its candidate, and   *)
(* a term that was answered in is saved.  The types rest on lemmas about   *)
(* the operators that compute logs and indices, for every log, every       *)
(* request and every set of entries that can be read.                      *)
(***************************************************************************)
EXTENDS Raft, WellFoundedInduction, TLAPS

-----------------------------------------------------------------------------
(* Minima and maxima *)

\* The order of the naturals as the relation that WellFoundedInduction uses.
LEMMA LessThanOnNat == OpToRel(<, Nat) = {p \in Nat \X Nat : p[1] < p[2]}
BY Zenon DEF OpToRel

\* The Min of FiniteSetsExt is the least element of a nonempty set of naturals
\* (findFirstIndexOfTerm, FirstConflict and NewCommitIndex use it).
LEMMA MinNat ==
  ASSUME NEW S \in SUBSET Nat, S # {}
  PROVE  Min(S) \in S /\ \A y \in S : Min(S) <= y
<1> DEFINE R == {p \in Nat \X Nat : p[1] < p[2]}
<1>1. IsWellFoundedOn(R, Nat)
  BY Zenon, NatLessThanWellFounded, LessThanOnNat
<1>2. \E x \in S : \A y \in S : <<y, x>> \notin R
  <2> HIDE DEF R
  <2> QED BY Zenon, <1>1, WFMin
<1>3. \E x \in S : \A y \in S : x <= y
  <2>1. PICK x \in S : \A y \in S : <<y, x>> \notin R
    BY Zenon, <1>2
  <2>2. ASSUME NEW y \in S PROVE x <= y
    <3>1. x \in Nat /\ y \in Nat /\ <<y, x>> \notin R
      BY Zenon, <2>1
    <3>2. ~ (y < x)
      BY Zenon, <3>1
    <3> QED BY <3>1, <3>2
  <2> QED BY Zenon, <2>2
<1> QED BY Zenon, <1>3 DEF Min

\* The Max of FiniteSetsExt is the greatest element of a nonempty bounded set
\* of naturals (CommitPoint, BackUp and Stored use it).
LEMMA MaxNat ==
  ASSUME NEW S \in SUBSET Nat, S # {}, NEW b \in Nat, \A x \in S : x <= b
  PROVE  Max(S) \in S /\ \A y \in S : y <= Max(S)
<1> DEFINE D == {b - x : x \in S}
<1>1. D \in SUBSET Nat /\ D # {}
  <2>1. \A x \in S : x \in Nat /\ b - x \in Nat
    OBVIOUS
  <2> QED BY Zenon, <2>1
<1>2. Min(D) \in D /\ \A y \in D : Min(D) <= y
  <2> HIDE DEF D
  <2> QED BY Zenon, <1>1, MinNat
<1>3. PICK x \in S : Min(D) = b - x
  BY Zenon, <1>2
<1>4. \A y \in S : y <= x
  <2> TAKE y \in S
  <2>1. b - y \in D
    BY Zenon
  <2>2. b - x <= b - y
    BY Zenon, <1>2, <1>3, <2>1
  <2> QED BY <2>2
<1> QED BY Zenon, <1>4 DEF Max

\* The smaller of two naturals (NewCommitIndex).
LEMMA MinPair == \A a, b \in Nat : Min({a, b}) \in Nat /\ Min({a, b}) <= b
<1> TAKE a, b \in Nat
<1>1. {a, b} \in SUBSET Nat /\ {a, b} # {}
  BY Zenon
<1>2. Min({a, b}) \in {a, b} /\ \A y \in {a, b} : Min({a, b}) <= y
  BY Zenon, <1>1, MinNat
<1> QED BY Zenon, <1>2

\* The greater of two naturals (the guards on backing up).
LEMMA MaxPair ==
  \A a, b \in Nat : Max({a, b}) \in {a, b} /\ Max({a, b}) >= a /\ Max({a, b}) >= b
<1> TAKE a, b \in Nat
<1>1. {a, b} \in SUBSET Nat /\ {a, b} # {} /\ \A x \in {a, b} : x <= a + b
  OBVIOUS
<1>2. Max({a, b}) \in {a, b} /\ \A y \in {a, b} : y <= Max({a, b})
  BY <1>1, MaxNat
<1> QED BY Zenon, <1>2

-----------------------------------------------------------------------------
(* The operators of the log *)

LEMMA FunctionIsSeq ==
  ASSUME NEW S, NEW n \in Nat, NEW s \in [1..n -> S]
  PROVE  s \in Seq(S)
OBVIOUS

\* The log that Propose leaves is a log.
LEMMA AppendEntryType ==
  ASSUME NEW l \in Seq(Entry), NEW t \in Nat, NEW c \in Command
  PROVE  Append(l, [term |-> t, command |-> c]) \in Seq(Entry)
<1>1. [term |-> t, command |-> c] \in Entry
  BY Zenon DEF Entry
<1> QED BY <1>1

\* FirstConflict is a position of entries that a readable index contradicts,
\* or the position after the last.
LEMMA FirstConflictRange ==
  ASSUME NEW n \in Node, NEW prev \in Nat, NEW entries \in Seq(Entry),
         NEW readable
  PROVE  FirstConflict(n, prev, entries, readable) \in 1..Len(entries) + 1
<1> DEFINE S == {j \in DOMAIN entries :
                   /\ prev + j \in readable
                   /\ log[n][prev + j].term # entries[j].term}
                \cup {Len(entries) + 1}
<1>1. Len(entries) \in Nat /\ DOMAIN entries = 1..Len(entries)
  OBVIOUS
<1>2. S \subseteq 1..Len(entries) + 1 /\ S # {}
  BY <1>1
<1>3. Min(S) \in S
  <2> HIDE DEF S
  <2>1. S \in SUBSET Nat
    BY <1>1, <1>2
  <2> QED BY Zenon, <1>2, <2>1, MinNat
<1> QED BY Zenon, <1>2, <1>3 DEF FirstConflict

\* Rules 3 and 4 leave a log without holes: an index beyond the old log is
\* written by an entry of the request.
LEMMA StoredType ==
  ASSUME NEW n \in Node, log[n] \in Seq(Entry), NEW prev \in 0..Len(log[n]),
         NEW entries \in Seq(Entry), NEW missing \in SUBSET DOMAIN entries,
         \A j \in DOMAIN entries : prev + j > Len(log[n]) => j \in missing,
         NEW k \in 0..Len(entries), NEW cut \in BOOLEAN
  PROVE  Stored(n, prev, entries, missing, k, cut) \in Seq(Entry)
<1> DEFINE len == Len(log[n])
           end == IF cut THEN prev + k ELSE Max({len, prev + k})
           new == [i \in 1..end |->
                     IF i - prev \in missing /\ i - prev <= k
                       THEN entries[i - prev] ELSE log[n][i]]
<1>1. len \in Nat /\ DOMAIN log[n] = 1..len
      /\ Len(entries) \in Nat /\ DOMAIN entries = 1..Len(entries)
  OBVIOUS
<1>2. end \in Nat /\ (end <= len \/ end <= prev + k)
  <2>1. prev + k \in Nat /\ Max({len, prev + k}) \in {len, prev + k}
    BY <1>1, MaxPair
  <2> QED BY <2>1, <1>1
<1>3. ASSUME NEW i \in 1..end PROVE new[i] \in Entry
  <2>1. CASE i - prev \in missing /\ i - prev <= k
    BY <2>1, <1>1, <1>2
  <2>2. CASE ~(i - prev \in missing /\ i - prev <= k)
    <3>1. i <= len
      <4> SUFFICES ASSUME i > len PROVE FALSE
        BY <1>1, <1>2
      <4>1. i - prev \in 1..k
        BY <1>1, <1>2
      <4>2. i - prev \in missing
        BY <4>1, <1>1
      <4> QED BY <4>1, <4>2, <2>2
    <3> QED BY <3>1, <2>2, <1>1
  <2> QED BY <2>1, <2>2
<1>4. new \in [1..end -> Entry]
  <2> HIDE DEF end
  <2> QED BY Zenon, <1>3
<1>5. new \in Seq(Entry)
  <2> HIDE DEF end, new
  <2> QED BY Zenon, <1>2, <1>4, FunctionIsSeq
<1> QED BY Zenon, <1>5 DEF Stored

\* What a follower may be left with after AppendEntries is a log.
LEMMA AppendOutcomesType ==
  ASSUME NEW n \in Node, log[n] \in Seq(Entry), NEW prev \in 0..Len(log[n]),
         NEW entries \in Seq(Entry), NEW readable \in SUBSET DOMAIN log[n],
         NEW o \in AppendOutcomes(n, prev, entries, readable)
  PROVE  o[1] \in Seq(Entry) /\ o[2] \in BOOLEAN
<1> DEFINE first == FirstConflict(n, prev, entries, readable)
           missing == {j \in DOMAIN entries :
                         j >= first \/ prev + j \notin readable}
           After(k, cut) == Stored(n, prev, entries, missing, k, cut)
<1>1. Len(log[n]) \in Nat /\ DOMAIN log[n] = 1..Len(log[n])
      /\ Len(entries) \in Nat /\ DOMAIN entries = 1..Len(entries)
  OBVIOUS
<1>2. first \in 1..Len(entries) + 1
  BY <1>1, FirstConflictRange
<1>3. \A k \in 0..Len(entries), cut \in BOOLEAN : After(k, cut) \in Seq(Entry)
  <2>1. missing \in SUBSET DOMAIN entries
    BY Zenon
  <2>2. \A j \in DOMAIN entries : prev + j > Len(log[n]) => j \in missing
    BY <1>1
  <2> HIDE DEF missing
  <2> QED BY Zenon, <2>1, <2>2, StoredType
<1>4. CASE o = <<After(Len(entries), first <= Len(entries)), TRUE>>
  <2>1. After(Len(entries), first <= Len(entries)) \in Seq(Entry)
    <3>1. Len(entries) \in 0..Len(entries)
      BY <1>1
    <3> HIDE DEF missing, first
    <3> QED BY Zenon, <3>1, <1>3 DEF Stored
  <2> QED BY Zenon, <1>4, <2>1
<1>5. ASSUME NEW k \in missing, o = <<After(k - 1, first <= k), FALSE>>
      PROVE  o[1] \in Seq(Entry) /\ o[2] \in BOOLEAN
  <2>1. k - 1 \in 0..Len(entries)
    BY <1>1
  <2>2. After(k - 1, first <= k) \in Seq(Entry)
    <3> HIDE DEF missing, first
    <3> QED BY Zenon, <2>1, <1>3 DEF Stored
  <2> QED BY Zenon, <1>5, <2>2
<1>6. CASE o = <<After(first - 1, FALSE), FALSE>>
  <2>1. After(first - 1, FALSE) \in Seq(Entry)
    <3>1. first - 1 \in 0..Len(entries)
      BY <1>1, <1>2
    <3> HIDE DEF missing, first
    <3> QED BY Zenon, <3>1, <1>3 DEF Stored
  <2> QED BY Zenon, <1>6, <2>1
<1> QED BY Zenon, <1>4, <1>5, <1>6 DEF AppendOutcomes

\* The entries a handler can read are entries of the log, and its terms are
\* naturals.
LEMMA ReadableType ==
  ASSUME NEW n \in Node, log[n] \in Seq(Entry), NEW readable \in Readable(n)
  PROVE  /\ readable \in SUBSET DOMAIN log[n]
         /\ \A i \in readable : log[n][i].term \in Nat
         /\ \A i : GetTerm(n, i, readable) \in Nat
         /\ LastTerm(n, readable) \in Nat
<1>1. readable \in SUBSET DOMAIN log[n]
  BY Zenon DEF Readable
<1>2. \A i \in readable : log[n][i].term \in Nat
  <2> TAKE i \in readable
  <2>1. log[n][i] \in Entry
    BY <1>1
  <2> QED BY Zenon, <2>1 DEF Entry
<1> QED BY Zenon, <1>1, <1>2 DEF GetTerm, LastTerm

\* A rejection carries naturals, and an index of at least 1 with a term.
LEMMA ConflictType ==
  ASSUME NEW n \in Node, log[n] \in Seq(Entry), NEW prev \in Nat,
         NEW readable \in Readable(n)
  PROVE  /\ Conflict(n, prev, readable)[1] \in Nat
         /\ Conflict(n, prev, readable)[2] \in Nat
         /\ Conflict(n, prev, readable)[1] >= 1
<1>1. /\ readable \in SUBSET DOMAIN log[n]
      /\ \A i \in readable : log[n][i].term \in Nat
  BY Zenon, ReadableType
<1>2. Len(log[n]) \in Nat /\ DOMAIN log[n] = 1..Len(log[n])
  OBVIOUS
<1>3. CASE prev \in readable
  <2> DEFINE t == log[n][prev].term
             S == {i \in readable : log[n][i].term = t}
  <2>1. S \in SUBSET Nat /\ S # {} /\ \A i \in S : i >= 1
    BY <1>1, <1>2, <1>3
  <2>2. Min(S) \in S
    <3> HIDE DEF S
    <3> QED BY Zenon, <2>1, MinNat
  <2>3. Conflict(n, prev, readable) = <<Min(S), t>>
    BY Zenon, <1>3 DEF Conflict, findFirstIndexOfTerm
  <2>4. Min(S) \in Nat /\ Min(S) >= 1
    <3> HIDE DEF S
    <3> QED BY Zenon, <2>1, <2>2
  <2>5. t \in Nat
    BY Zenon, <1>1, <1>3
  <2> HIDE DEF S, t
  <2> QED BY <2>3, <2>4, <2>5
<1>4. CASE prev \notin readable
  BY <1>2, <1>4 DEF Conflict
<1> QED BY Zenon, <1>3, <1>4

\* checkCommit moves the commit index to a natural that is not smaller.
LEMMA CommitPointType ==
  ASSUME NEW n \in Node, log[n] \in Seq(Entry), commitIndex[n] \in Nat,
         NEW match, NEW readable
  PROVE  CommitPoint(n, match, readable) \in Nat
<1> DEFINE c == commitIndex[n]
           S == {c} \cup
                {i \in c + 1 .. Len(log[n]) :
                   /\ GetTerm(n, i, readable) = currentTerm[n]
                   /\ Cardinality({p \in Peers(n) : match[p] >= i}) + 1
                        >= quorumSize}
<1>1. Len(log[n]) \in Nat /\ c \in Nat
  OBVIOUS
<1>2. S \in SUBSET Nat /\ S # {} /\ \A i \in S : i <= c + Len(log[n])
  BY <1>1
<1>3. Max(S) \in S
  <2> HIDE DEF S
  <2>1. c + Len(log[n]) \in Nat
    BY <1>1
  <2> QED BY Zenon, <1>2, <2>1, MaxNat
<1>4. CommitPoint(n, match, readable) = Max(S)
  BY Zenon DEF CommitPoint
<1> HIDE DEF S
<1> QED BY Zenon, <1>2, <1>3, <1>4

\* The back-up never leaves a leader with a nextIndex of 0.
LEMMA BackUpType ==
  ASSUME NEW n \in Node, log[n] \in Seq(Entry), NEW m \in AppendResponse,
         nextIndex[n][m.to] \in Nat, nextIndex[n][m.to] >= 1,
         m.conflictTerm > 0 => m.conflictIndex >= 1,
         NEW readable \in Readable(n)
  PROVE  BackUp(n, m, readable) \in Nat /\ BackUp(n, m, readable) >= 1
<1> DEFINE S == {i \in readable : log[n][i].term = m.conflictTerm}
<1>1. Len(log[n]) \in Nat /\ DOMAIN log[n] = 1..Len(log[n])
  OBVIOUS
<1>2. S \in SUBSET Nat /\ \A i \in S : i <= Len(log[n])
  BY <1>1, ReadableType
<1>3. S # {} => Max(S) \in Nat
  <2> HIDE DEF S
  <2>1. S # {} => Max(S) \in S
    BY Zenon, <1>1, <1>2, MaxNat
  <2> QED BY Zenon, <1>2, <2>1
<1>4. m.conflictTerm \in Nat /\ m.conflictIndex \in Nat
  BY Zenon DEF AppendResponse
<1>5. BackUp(n, m, readable) =
        CASE m.conflictTerm > 0 /\ S # {} -> Max(S) + 1
          [] m.conflictTerm > 0 /\ S = {} -> m.conflictIndex
          [] m.conflictTerm = 0 /\ m.conflictIndex > 0 -> m.conflictIndex
          [] OTHER -> IF nextIndex[n][m.to] > 1 THEN nextIndex[n][m.to] - 1
                                                ELSE nextIndex[n][m.to]
  BY Zenon DEF BackUp
<1> HIDE DEF S
<1> QED BY <1>3, <1>4, <1>5

-----------------------------------------------------------------------------
(* Types *)

\* NewRaft leaves every variable well typed.
LEMMA TypeInvInit == Init => TypeInv
BY DEF Init, TypeInv, TypeOK, IndexInv, PersistentState

\* startElection, and the timer that starts it.
LEMMA TypeInvElection ==
  ASSUME TypeInv, NEW n \in Node, TimerFires(n) \/ startElection(n)
  PROVE  TypeInv'
<1> USE DEF TypeInv
<1>1. CASE TimerFires(n)
  BY Zenon, <1>1 DEF TimerFires, TypeOK, IndexInv, persistVars, leaderVars, voteVars,
              appendVars
<1>2. CASE startElection(n)
  <2>1. voteRequests' \subseteq VoteRequest
    <3>1. ASSUME NEW readable \in Readable(n), NEW reached \in SUBSET Peers(n)
          PROVE  VoteCalls(n, currentTerm[n] + 1, reached, readable)
                   \subseteq VoteRequest
      <4>1. LastTerm(n, readable) \in Nat /\ Len(log[n]) \in Nat
        BY ReadableType DEF TypeOK
      <4>2. currentTerm[n] + 1 \in Nat /\ \A p \in reached : p \in Node
        BY DEF TypeOK, Peers
      <4> QED BY <4>1, <4>2 DEF VoteRequest, VoteCalls
    <3> QED BY Zenon, <1>2, <3>1 DEF startElection, TypeOK
  <2>2. disk' \in [Node -> PersistentState]
    <3>1. disk \in [Node -> PersistentState] /\ currentTerm[n] \in Nat
      BY Zenon DEF TypeOK
    <3>2. [term |-> currentTerm[n] + 1, vote |-> n] \in PersistentState
      BY <3>1 DEF PersistentState
    <3> QED BY Zenon, <1>2, <3>1, <3>2 DEF startElection
  <2>3. /\ state' \in [Node -> {"Follower", "Candidate", "Leader"}]
        /\ votesReceived' \in [Node -> SUBSET Node]
    <3>1. state \in [Node -> {"Follower", "Candidate", "Leader"}]
          /\ votesReceived \in [Node -> SUBSET Node] /\ {n} \in SUBSET Node
      BY Zenon DEF TypeOK
    <3> QED BY <1>2, <3>1 DEF startElection
  <2>4. \A p \in Node : state'[p] = "Leader" => state[p] = "Leader"
    BY ZenonT(40), <1>2 DEF startElection, TypeOK
  <2>5. currentTerm' \in [Node -> Nat] /\ timerFired' \in [Node -> BOOLEAN]
        /\ votedFor' \in [Node -> Node \cup {None}]
    BY <1>2 DEF startElection, TypeOK
  <2>6. TypeOK'
    BY Zenon, <1>2, <2>1, <2>2, <2>3, <2>5
    DEF startElection, TypeOK, leaderVars, appendVars
  <2>7. IndexInv'
    BY Zenon, <1>2, <2>4 DEF startElection, IndexInv, leaderVars, appendVars
  <2> QED BY <2>6, <2>7
<1> QED BY Zenon, <1>1, <1>2

\* Saved, of a type-correct term and vote, is type-correct; so is stepDown.
LEMMA SavedType ==
  ASSUME disk \in [Node -> PersistentState], NEW n \in Node, NEW term \in Nat,
         NEW vote \in Node \cup {None}, NEW ok
  PROVE  Saved(n, term, vote, ok) \in PersistentState
BY Zenon DEF Saved, PersistentState

\* stepDown sets a term, clears the vote and makes no leader.
LEMMA StepDownType ==
  ASSUME TypeOK, NEW n \in Node, NEW newTerm \in Nat, NEW saveOK,
         stepDown(n, newTerm, saveOK)
  PROVE  /\ currentTerm' \in [Node -> Nat]
         /\ votedFor' \in [Node -> Node \cup {None}]
         /\ disk' \in [Node -> PersistentState]
         /\ state' \in [Node -> {"Follower", "Candidate", "Leader"}]
         /\ stepDownCh' \in [Node -> BOOLEAN]
         /\ \A p \in Node : state'[p] = "Leader" => state[p] = "Leader"
<1>1. Saved(n, newTerm, None, saveOK) \in PersistentState
  BY Zenon, SavedType DEF TypeOK
<1> QED BY Zenon, <1>1 DEF TypeOK, stepDown

\* becomeLeader, from startElection or from sendRequestVote.
LEMMA BecomeLeaderType ==
  ASSUME TypeOK, NEW n \in Node, becomeLeader(n),
         \A p, q \in Node : state[p] = "Leader" => nextIndex[p][q] >= 1
  PROVE  /\ currentTerm' \in [Node -> Nat]
         /\ votedFor' \in [Node -> Node \cup {None}]
         /\ disk' \in [Node -> PersistentState]
         /\ log' \in [Node -> Seq(Entry)]
         /\ nextIndex' \in [Node -> [Node -> Nat]]
         /\ matchIndex' \in [Node -> [Node -> Nat]]
         /\ state' \in [Node -> {"Follower", "Candidate", "Leader"}]
         /\ leaderId' \in [Node -> Node \cup {None}]
         /\ leaderLoops' \in [Node -> Nat]
         /\ stepDownCh' \in [Node -> BOOLEAN]
         /\ \A p, q \in Node : state'[p] = "Leader" => nextIndex'[p][q] >= 1
<1>1. /\ log[n] \in Seq(Entry) /\ Len(log[n]) \in Nat
      /\ [term |-> currentTerm[n], command |-> NoOp] \in Entry
  <2>1. log[n] \in Seq(Entry) /\ Len(log[n]) \in Nat
    BY DEF TypeOK
  <2>2. currentTerm[n] \in Nat
    BY Zenon DEF TypeOK
  <2> QED BY <2>1, <2>2 DEF Entry
<1>2. /\ nextIndex' \in [Node -> [Node -> Nat]]
      /\ matchIndex' \in [Node -> [Node -> Nat]]
      /\ leaderId' \in [Node -> Node \cup {None}]
      /\ \A q \in Node : nextIndex'[n][q] >= 1
      /\ \A p \in Node \ {n} : nextIndex'[p] = nextIndex[p]
  BY <1>1 DEF TypeOK, becomeLeader
<1>3. CASE /\ log' = [log EXCEPT ![n] =
                     Append(@, [term |-> currentTerm[n], command |-> NoOp])]
           /\ state' = [state EXCEPT ![n] = "Leader"]
           /\ leaderLoops' = [leaderLoops EXCEPT ![n] = @ + 1]
           /\ UNCHANGED <<persistVars, stepDownCh>>
  <2>1. Append(log[n], [term |-> currentTerm[n], command |-> NoOp])
          \in Seq(Entry)
    BY <1>1
  <2>2. /\ log' \in [Node -> Seq(Entry)]
        /\ state' \in [Node -> {"Follower", "Candidate", "Leader"}]
        /\ leaderLoops' \in [Node -> Nat]
    BY <1>3, <2>1 DEF TypeOK
  <2>3. \A p \in Node \ {n} : state'[p] = state[p]
    BY Zenon, <1>3 DEF TypeOK
  <2> QED BY Zenon, <1>2, <1>3, <2>2, <2>3 DEF TypeOK, persistVars
<1>4. ASSUME NEW saveOK, stepDown(n, currentTerm[n], saveOK),
             UNCHANGED <<log, leaderLoops>>
      PROVE  /\ currentTerm' \in [Node -> Nat]
             /\ votedFor' \in [Node -> Node \cup {None}]
             /\ disk' \in [Node -> PersistentState]
             /\ log' \in [Node -> Seq(Entry)]
             /\ state' \in [Node -> {"Follower", "Candidate", "Leader"}]
             /\ leaderLoops' \in [Node -> Nat]
             /\ stepDownCh' \in [Node -> BOOLEAN]
             /\ \A p \in Node : state'[p] = "Leader" => state[p] = "Leader"
  <2>1. currentTerm[n] \in Nat
    BY DEF TypeOK
  <2> QED BY Zenon, <1>4, <2>1, StepDownType DEF TypeOK
<1> QED BY ZenonT(40), <1>2, <1>3, <1>4 DEF becomeLeader

\* becomeLeader, with a no-op that is stored or not.
LEMMA TypeInvCheckWon ==
  ASSUME TypeInv, NEW n \in Node, CheckWon(n)
  PROVE  TypeInv'
<1> USE DEF TypeInv
<1>1. becomeLeader(n)
  BY Zenon DEF CheckWon
<1>2. \A p, q \in Node : state[p] = "Leader" => nextIndex[p][q] >= 1
  BY Zenon DEF IndexInv
<1>3. TypeOK'
  BY Zenon, <1>1, <1>2, BecomeLeaderType
  DEF CheckWon, TypeOK, voteVars, appendVars
<1>4. IndexInv'
  <2>1. \A p, q \in Node : state'[p] = "Leader" => nextIndex'[p][q] >= 1
    BY Zenon, <1>1, <1>2, BecomeLeaderType
  <2> QED BY Zenon, <2>1 DEF CheckWon, IndexInv, appendVars
<1> QED BY Zenon, <1>3, <1>4

\* A voter answers with its term and may save the new one.
LEMMA TypeInvHandleRequestVote ==
  ASSUME TypeInv, NEW m \in voteRequests, HandleRequestVote(m)
  PROVE  TypeInv'
<1> USE DEF TypeInv
<1> DEFINE n == m.to
<1>1. m \in VoteRequest /\ n \in Node /\ m.from \in Node /\ m.term \in Nat
  BY Zenon DEF TypeOK, VoteRequest
<1> DEFINE Typed ==
             /\ currentTerm' \in [Node -> Nat]
             /\ votedFor' \in [Node -> Node \cup {None}]
             /\ disk' \in [Node -> PersistentState]
             /\ state' \in [Node -> {"Follower", "Candidate", "Leader"}]
             /\ stepDownCh' \in [Node -> BOOLEAN]
             /\ voteRequests' \subseteq VoteRequest
             /\ voteResponses' \subseteq VoteResponse
             /\ \A p \in Node : state'[p] = "Leader" => state[p] = "Leader"
<1>2. Typed
  <2>1. ASSUME NEW respTerm \in Nat, NEW granted \in BOOLEAN,
               ReplyVote(m, respTerm, granted)
        PROVE  /\ voteRequests' \subseteq VoteRequest
               /\ voteResponses' \subseteq VoteResponse
    <3>1. [from |-> m.from, to |-> m.to, term |-> m.term,
           respTerm |-> respTerm, granted |-> granted] \in VoteResponse
      BY Zenon, <1>1 DEF VoteResponse
    <3> QED BY Zenon, <2>1, <3>1 DEF ReplyVote, TypeOK
  <2>2. CASE /\ m.term < currentTerm[n]
             /\ ReplyVote(m, currentTerm[n], FALSE)
             /\ UNCHANGED <<persistVars, state, stepDownCh>>
    <3>1. currentTerm[n] \in Nat
      BY Zenon, <1>1 DEF TypeOK
    <3> QED BY Zenon, <2>1, <2>2, <3>1 DEF TypeOK, persistVars
  <2>3. ASSUME NEW granted \in BOOLEAN, NEW downOK, Vote(m, granted, downOK)
        PROVE  Typed
    <3> DEFINE vote == IF granted THEN m.from ELSE VoteBefore(m)
               ok == granted \/ (m.term > currentTerm[n] /\ downOK)
    <3>1. vote \in Node \cup {None}
      BY Zenon, <1>1 DEF VoteBefore, TypeOK
    <3>2. Saved(n, m.term, vote, ok) \in PersistentState
      <4> HIDE DEF vote, ok
      <4> QED BY Zenon, <1>1, <3>1, SavedType DEF TypeOK
    <3>3. disk' \in [Node -> PersistentState]
      BY Zenon, <2>3, <3>2 DEF Vote, TypeOK
    <3>4. votedFor' \in [Node -> Node \cup {None}]
      BY Zenon, <2>3, <3>1 DEF Vote, TypeOK
    <3>5. /\ voteRequests' \subseteq VoteRequest
          /\ voteResponses' \subseteq VoteResponse
      BY Zenon, <2>1, <2>3, <1>1 DEF Vote
    <3> QED BY Zenon, <1>1, <2>3, <3>3, <3>4, <3>5 DEF Vote, TypeOK
  <2>4. ASSUME NEW saveOK, NEW readable
        PROVE  Grants(m, saveOK, readable) \in BOOLEAN
    BY Zenon DEF Grants
  <2> QED BY Zenon, <2>2, <2>3, <2>4 DEF HandleRequestVote
<1> QED
  BY Zenon, <1>1, <1>2
  DEF HandleRequestVote, TypeOK, IndexInv, leaderVars, appendVars

\* A candidate counts a vote, or steps down to the term of the answer.
LEMMA TypeInvReceiveVote ==
  ASSUME TypeInv, NEW m \in voteResponses, ReceiveVote(m)
  PROVE  TypeInv'
<1> USE DEF TypeInv
<1> DEFINE n == m.from
<1>1. n \in Node /\ m.to \in Node /\ m.respTerm \in Nat
  BY Zenon DEF TypeOK, VoteResponse
<1>2. /\ votesReceived' \in [Node -> SUBSET Node]
      /\ voteResponses' \subseteq VoteResponse
  BY Zenon, <1>1 DEF ReceiveVote, TypeOK
<1>3. \A p, q \in Node : state[p] = "Leader" => nextIndex[p][q] >= 1
  BY DEF IndexInv
<1>4. CASE becomeLeader(n)
  <2>1. TypeOK'
    BY Zenon, <1>1, <1>2, <1>3, <1>4, BecomeLeaderType
    DEF ReceiveVote, TypeOK, appendVars
  <2>2. \A p, q \in Node : state'[p] = "Leader" => nextIndex'[p][q] >= 1
    BY Zenon, <1>1, <1>3, <1>4, BecomeLeaderType
  <2> QED BY Zenon, <2>1, <2>2 DEF ReceiveVote, IndexInv, appendVars
<1>5. CASE /\ \E saveOK \in Outcomes("save") : stepDown(n, m.respTerm, saveOK)
           /\ UNCHANGED <<log, leaderVars, leaderId, leaderLoops>>
  <2>1. TypeOK'
    BY Zenon, <1>1, <1>2, <1>5, StepDownType
    DEF ReceiveVote, TypeOK, leaderVars, appendVars
  <2>2. \A p \in Node : state'[p] = "Leader" => state[p] = "Leader"
    BY Zenon, <1>1, <1>5, StepDownType
  <2> QED BY Zenon, <1>5, <2>1, <2>2
          DEF ReceiveVote, IndexInv, leaderVars, appendVars
<1>6. CASE UNCHANGED <<persistVars, log, leaderVars, state, leaderId,
                       leaderLoops, stepDownCh>>
  <2>1. TypeOK'
    BY Zenon, <1>2, <1>6
    DEF ReceiveVote, TypeOK, persistVars, leaderVars, appendVars
  <2> QED BY Zenon, <1>6, <2>1 DEF ReceiveVote, IndexInv, leaderVars, appendVars
<1> QED BY Zenon, <1>4, <1>5, <1>6 DEF ReceiveVote

\* sendHeartbeats and sendAppendEntries: prevLogIndex is nextIndex - 1, which is
\* a natural because a leader has nextIndex >= 1.
LEMMA TypeInvSend ==
  ASSUME TypeInv,
         \/ \E n \in Node : sendHeartbeats(n)
         \/ \E c \in appendCalls : sendAppendEntries(c)
  PROVE  TypeInv'
<1> USE DEF TypeInv
<1>1. ASSUME NEW n \in Node, sendHeartbeats(n) PROVE TypeInv'
  <2>1. ASSUME NEW p \in Peers(n)
        PROVE  [from |-> n, to |-> p, term |-> currentTerm[n],
                leaderCommit |-> commitIndex[n]] \in AppendCall
    <3>1. currentTerm[n] \in Nat /\ commitIndex[n] \in Nat /\ p \in Node
      BY Zenon DEF TypeOK, Peers
    <3> QED BY Zenon, <3>1 DEF AppendCall
  <2>2. appendCalls' \subseteq AppendCall
    BY Zenon, <1>1, <2>1 DEF sendHeartbeats, TypeOK
  <2>3. TypeOK'
    BY Zenon, <1>1, <2>2
    DEF sendHeartbeats, TypeOK, persistVars, leaderVars, loopVars, voteVars
  <2> QED BY Zenon, <1>1, <2>3 DEF sendHeartbeats, IndexInv, leaderVars
<1>2. ASSUME NEW c \in appendCalls, sendAppendEntries(c) PROVE TypeInv'
  <2> DEFINE n == c.from
             next == nextIndex[n][c.to]
             Request(readable, readOK) ==
               [from |-> n, to |-> c.to, term |-> c.term,
                leaderCommit |-> c.leaderCommit, prevLogIndex |-> next - 1,
                prevLogTerm |-> GetTerm(n, next - 1, readable),
                entries |-> IF readOK THEN SubSeq(log[n], next, Len(log[n]))
                                      ELSE << >>]
  <2>1. /\ n \in Node /\ c.to \in Node /\ c.term \in Nat
        /\ c.leaderCommit \in Nat
    BY Zenon DEF TypeOK, AppendCall
  <2>2. ASSUME state[n] = "Leader", NEW readable \in Readable(n), NEW readOK
        PROVE  Request(readable, readOK) \in AppendRequest
    <3>1. next \in Nat /\ next >= 1 /\ log[n] \in Seq(Entry)
      BY Zenon, <2>1, <2>2 DEF TypeOK, IndexInv
    <3>2. GetTerm(n, next - 1, readable) \in Nat
      BY Zenon, <2>1, <3>1, ReadableType
    <3>3. SubSeq(log[n], next, Len(log[n])) \in Seq(Entry)
      BY <3>1
    <3>4. << >> \in Seq(Entry)
      OBVIOUS
    <3>5. next - 1 \in Nat
      BY <3>1
    <3> HIDE DEF n, next
    <3> QED BY Zenon, <2>1, <3>2, <3>3, <3>4, <3>5 DEF AppendRequest
  <2>3. appendRequests' \subseteq AppendRequest /\ appendCalls' \subseteq AppendCall
    <3>1. \/ appendRequests' = appendRequests
          \/ /\ state[n] = "Leader"
             /\ \E readable \in Readable(n), readOK \in Outcomes("read") :
                  appendRequests' = appendRequests \cup {Request(readable, readOK)}
      BY Zenon, <1>2 DEF sendAppendEntries
    <3>2. appendCalls' \subseteq AppendCall
      BY Zenon, <1>2 DEF sendAppendEntries, TypeOK, Taken
    <3> HIDE DEF Request
    <3> QED BY Zenon, <3>1, <3>2, <2>2 DEF TypeOK
  <2>4. TypeOK'
    BY Zenon, <1>2, <2>3
    DEF sendAppendEntries, TypeOK, persistVars, leaderVars, loopVars, voteVars
  <2> QED BY Zenon, <1>2, <2>4 DEF sendAppendEntries, IndexInv, leaderVars
<1> QED BY Zenon, <1>1, <1>2

\* A follower stores entries, commits, or reports a conflict; a report that
\* names a term names an index of at least 1.
LEMMA TypeInvHandleAppendEntries ==
  ASSUME TypeInv, NEW m \in appendRequests, HandleAppendEntries(m)
  PROVE  TypeInv'
<1> USE DEF TypeInv
<1> DEFINE n == m.to
           prev == m.prevLogIndex
<1>1. /\ n \in Node /\ m.from \in Node /\ m.term \in Nat /\ prev \in Nat
      /\ m.leaderCommit \in Nat /\ m.entries \in Seq(Entry)
  BY Zenon DEF TypeOK, AppendRequest
<1>2. ASSUME NEW respTerm \in Nat, NEW success \in BOOLEAN, NEW conflict,
             conflict[1] \in Nat, conflict[2] \in Nat,
             conflict[2] > 0 => conflict[1] >= 1,
             ReplyAppend(m, respTerm, success, conflict)
      PROVE  /\ appendRequests' \subseteq AppendRequest
             /\ appendResponses' \subseteq AppendResponse
             /\ \A r \in appendResponses' :
                  r.conflictTerm > 0 => r.conflictIndex >= 1
  <2> DEFINE resp == [from |-> m.from, to |-> m.to, term |-> m.term,
                      prevLogIndex |-> m.prevLogIndex,
                      sent |-> Len(m.entries), respTerm |-> respTerm,
                      success |-> success, conflictIndex |-> conflict[1],
                      conflictTerm |-> conflict[2]]
  <2>1. resp \in AppendResponse
    <3>1. Len(m.entries) \in Nat
      BY <1>1
    <3> QED BY Zenon, <1>1, <1>2, <3>1 DEF AppendResponse
  <2>2. resp.conflictTerm > 0 => resp.conflictIndex >= 1
    BY Zenon, <1>2
  <2>3. appendResponses' = appendResponses \cup {resp}
        /\ appendRequests' \subseteq appendRequests
    BY Zenon, <1>2 DEF ReplyAppend, Taken
  <2> HIDE DEF resp
  <2> QED BY Zenon, <2>1, <2>2, <2>3 DEF TypeOK, IndexInv
<1> DEFINE none == <<0, 0>>
<1>3. none[1] \in Nat /\ none[2] \in Nat /\ ~(none[2] > 0)
  OBVIOUS
<1> HIDE DEF none
<1>4. CASE /\ ReplyAppend(m, currentTerm[n], FALSE, none)
           /\ UNCHANGED <<persistVars, log, commitIndex, state, leaderId,
                          stepDownCh>>
  <2>1. currentTerm[n] \in Nat /\ FALSE \in BOOLEAN
    BY Zenon, <1>1 DEF TypeOK
  <2>2. /\ appendRequests' \subseteq AppendRequest
        /\ appendResponses' \subseteq AppendResponse
        /\ \A r \in appendResponses' :
             r.conflictTerm > 0 => r.conflictIndex >= 1
    BY Zenon, <1>2, <1>3, <1>4, <2>1
  <2>3. TypeOK'
    BY Zenon, <1>4, <2>2
    DEF HandleAppendEntries, TypeOK, persistVars, leaderVars, voteVars
  <2> QED
    BY Zenon, <1>4, <2>2, <2>3 DEF HandleAppendEntries, IndexInv, leaderVars
<1>5. ASSUME NEW downOK, Follow(m, downOK),
             NEW readable \in Readable(n), AcceptEntries(m, readable)
      PROVE  TypeInv'
  <2>1. /\ currentTerm' \in [Node -> Nat]
        /\ votedFor' \in [Node -> Node \cup {None}]
        /\ disk' \in [Node -> PersistentState]
        /\ stepDownCh' \in [Node -> BOOLEAN]
        /\ state' \in [Node -> {"Follower", "Candidate", "Leader"}]
        /\ leaderId' \in [Node -> Node \cup {None}]
    <3>1. Saved(n, m.term, None, m.term > currentTerm[n] /\ downOK)
            \in PersistentState
      BY Zenon, <1>1, SavedType DEF TypeOK
    <3> QED BY Zenon, <1>1, <1>5, <3>1 DEF Follow, TypeOK
  <2>2. \A p \in Node : state'[p] = "Leader" => state[p] = "Leader"
    BY Zenon, <1>1, <1>5 DEF Follow, TypeOK
  <2>3. /\ log' \in [Node -> Seq(Entry)]
        /\ commitIndex' \in [Node -> Nat]
        /\ appendRequests' \subseteq AppendRequest
        /\ appendResponses' \subseteq AppendResponse
        /\ \A r \in appendResponses' :
             r.conflictTerm > 0 => r.conflictIndex >= 1
    <3>1. log[n] \in Seq(Entry)
      BY Zenon, <1>1 DEF TypeOK
    <3>2. CASE /\ ReplyAppend(m, m.term, FALSE, Conflict(n, prev, readable))
               /\ UNCHANGED <<log, commitIndex>>
      <4>1. /\ Conflict(n, prev, readable)[1] \in Nat
            /\ Conflict(n, prev, readable)[2] \in Nat
            /\ Conflict(n, prev, readable)[1] >= 1
        BY Zenon, <1>1, <3>1, ConflictType
      <4> QED BY Zenon, <1>1, <1>2, <3>2, <4>1 DEF TypeOK
    <3>3. ASSUME PrevMatches(n, prev, m.prevLogTerm, readable),
                 NEW o \in AppendOutcomes(n, prev, m.entries, readable),
                 log' = [log EXCEPT ![n] = o[1]],
                 commitIndex' =
                   IF o[2] THEN [commitIndex EXCEPT ![n] =
                                   NewCommitIndex(n, m.leaderCommit,
                                                  Len(o[1]))]
                           ELSE commitIndex,
                 ReplyAppend(m, m.term, o[2], none)
          PROVE  <2>3!1 /\ <2>3!2 /\ <2>3!3 /\ <2>3!4 /\ <2>3!5
      <4>1. readable \in SUBSET DOMAIN log[n]
        BY Zenon, <1>1, <3>1, ReadableType
      <4>2. prev \in 0..Len(log[n])
        <5>1. Len(log[n]) \in Nat /\ DOMAIN log[n] = 1..Len(log[n])
          BY SMTT(30), <3>1
        <5> QED BY <5>1, <3>3, <4>1 DEF PrevMatches
      <4>3. o[1] \in Seq(Entry) /\ o[2] \in BOOLEAN /\ Len(o[1]) \in Nat
        BY <1>1, <3>1, <3>3, <4>1, <4>2, AppendOutcomesType
      <4>4. NewCommitIndex(n, m.leaderCommit, Len(o[1])) \in Nat
        BY Zenon, <1>1, <4>3, MinPair DEF NewCommitIndex, TypeOK
      <4>5. log' \in [Node -> Seq(Entry)] /\ commitIndex' \in [Node -> Nat]
        BY Zenon, <1>1, <3>3, <4>3, <4>4 DEF TypeOK
      <4>6. /\ appendRequests' \subseteq AppendRequest
            /\ appendResponses' \subseteq AppendResponse
            /\ \A r \in appendResponses' :
                 r.conflictTerm > 0 => r.conflictIndex >= 1
        BY Zenon, <1>1, <1>2, <1>3, <3>3, <4>3
      <4> QED BY Zenon, <4>5, <4>6
    <3> QED BY Zenon, <1>5, <3>2, <3>3 DEF AcceptEntries, none
  <2>4. TypeOK'
    BY Zenon, <2>1, <2>3 DEF HandleAppendEntries, TypeOK, leaderVars, voteVars
  <2> QED BY Zenon, <2>2, <2>3, <2>4
          DEF HandleAppendEntries, IndexInv, leaderVars
<1> QED BY Zenon, <1>4, <1>5 DEF HandleAppendEntries, none

\* A leader moves nextIndex and matchIndex, or steps down; backing up never
\* goes below 1.
LEMMA TypeInvReceiveAppend ==
  ASSUME TypeInv, NEW m \in appendResponses, ReceiveAppend(m)
  PROVE  TypeInv'
<1> USE DEF TypeInv
<1> DEFINE n == m.from
<1>1. /\ m \in AppendResponse /\ n \in Node /\ m.to \in Node
      /\ m.respTerm \in Nat /\ m.prevLogIndex \in Nat /\ m.sent \in Nat
  BY Zenon DEF TypeOK, AppendResponse
<1>2. appendResponses' \subseteq appendResponses
  BY Zenon DEF ReceiveAppend, Taken
<1>3. CASE UNCHANGED <<persistVars, state, stepDownCh, leaderVars, commitIndex>>
  <2>1. TypeOK'
    BY Zenon, <1>2, <1>3
    DEF ReceiveAppend, TypeOK, persistVars, leaderVars, voteVars
  <2> QED BY Zenon, <1>2, <1>3, <2>1 DEF IndexInv, leaderVars
<1>4. CASE /\ \E saveOK \in Outcomes("save") : stepDown(n, m.respTerm, saveOK)
           /\ UNCHANGED <<leaderVars, commitIndex>>
  <2>1. TypeOK'
    BY Zenon, <1>1, <1>2, <1>4, StepDownType
    DEF ReceiveAppend, TypeOK, leaderVars, voteVars
  <2>2. \A p \in Node : state'[p] = "Leader" => state[p] = "Leader"
    BY Zenon, <1>1, <1>4, StepDownType
  <2> QED BY Zenon, <1>2, <1>4, <2>1, <2>2 DEF IndexInv, leaderVars
<1>5. ASSUME state[n] = "Leader", NEW readable \in Readable(n),
             ApplyAppendResponse(n, m, readable),
             UNCHANGED <<persistVars, state, stepDownCh>>
      PROVE  TypeInv'
  <2>1. log[n] \in Seq(Entry) /\ commitIndex[n] \in Nat
        /\ nextIndex[n] \in [Node -> Nat] /\ matchIndex[n] \in [Node -> Nat]
    BY Zenon, <1>1 DEF TypeOK
  <2>2. /\ nextIndex' \in [Node -> [Node -> Nat]]
        /\ matchIndex' \in [Node -> [Node -> Nat]]
        /\ commitIndex' \in [Node -> Nat]
        /\ \A p, q \in Node : state[p] = "Leader" => nextIndex'[p][q] >= 1
    <3>0. ASSUME NEW v \in Nat, v >= 1,
                 nextIndex' = [nextIndex EXCEPT ![n][m.to] = v]
          PROVE  /\ nextIndex' \in [Node -> [Node -> Nat]]
                 /\ \A p, q \in Node :
                      state[p] = "Leader" => nextIndex'[p][q] >= 1
      <4>1. nextIndex \in [Node -> [Node -> Nat]]
            /\ \A p, q \in Node : state[p] = "Leader" => nextIndex[p][q] >= 1
        BY Zenon DEF TypeOK, IndexInv
      <4>2. nextIndex' = [nextIndex EXCEPT ![n] =
                            [nextIndex[n] EXCEPT ![m.to] = v]]
        BY Zenon, <3>0
      <4> QED BY <1>1, <3>0, <4>1, <4>2
    <3>1. CASE m.success
      <4> DEFINE match == [matchIndex[n] EXCEPT ![m.to] =
                             Max({@, MatchedBy(m)})]
      <4>1. MatchedBy(m) \in Nat
        BY <1>1 DEF MatchedBy
      <4>2. match \in [Node -> Nat]
        <5>1. Max({matchIndex[n][m.to], MatchedBy(m)})
                \in {matchIndex[n][m.to], MatchedBy(m)}
          BY Zenon, <1>1, <2>1, <4>1, MaxPair
        <5>2. Max({matchIndex[n][m.to], MatchedBy(m)}) \in Nat
          BY Zenon, <5>1, <1>1, <2>1, <4>1
        <5> QED BY Zenon, <5>2, <2>1
      <4>3. CommitPoint(n, match, readable) \in Nat
        BY Zenon, <1>1, <2>1, CommitPointType
      <4>4. /\ matchIndex' = [matchIndex EXCEPT ![n] = match]
            /\ nextIndex' = [nextIndex EXCEPT ![n][m.to] = MatchedBy(m) + 1]
            /\ commitIndex' = [commitIndex EXCEPT
                                 ![n] = CommitPoint(n, match, readable)]
        BY Zenon, <1>5, <3>1 DEF ApplyAppendResponse
      <4> HIDE DEF match
      <4>5. MatchedBy(m) + 1 \in Nat /\ MatchedBy(m) + 1 >= 1
        BY <4>1
      <4>6. matchIndex' \in [Node -> [Node -> Nat]]
            /\ commitIndex' \in [Node -> Nat]
        BY Zenon, <1>1, <4>2, <4>3, <4>4 DEF TypeOK
      <4> QED BY Zenon, <3>0, <4>4, <4>5, <4>6
    <3>2. CASE ~m.success
      <4>1. /\ BackUp(n, m, readable) \in Nat
            /\ BackUp(n, m, readable) >= 1
        <5>1. nextIndex[n][m.to] \in Nat /\ nextIndex[n][m.to] >= 1
              /\ (m.conflictTerm > 0 => m.conflictIndex >= 1)
          BY Zenon, <1>1, <1>5, <2>1 DEF IndexInv
        <5> QED BY Zenon, <1>1, <2>1, <5>1, BackUpType
      <4>2. nextIndex' = [nextIndex EXCEPT ![n][m.to] = BackUp(n, m, readable)]
            /\ matchIndex' = matchIndex /\ commitIndex' = commitIndex
        BY Zenon, <1>5, <3>2 DEF ApplyAppendResponse
      <4> QED BY Zenon, <3>0, <4>1, <4>2 DEF TypeOK
    <3> QED BY Zenon, <3>1, <3>2
  <2>3. TypeOK'
    BY Zenon, <1>2, <1>5, <2>2 DEF ReceiveAppend, TypeOK, persistVars, voteVars
  <2> QED BY Zenon, <1>2, <1>5, <2>2, <2>3 DEF IndexInv
<1> QED BY Zenon, <1>3, <1>4, <1>5 DEF ReceiveAppend

\* Propose, the return of a leader loop, and a restart.
LEMMA TypeInvLocal ==
  ASSUME TypeInv, NEW n \in Node,
         \/ \E c \in Command : Propose(n, c)
         \/ leaderLoopReturns(n)
         \/ Restart(n)
  PROVE  TypeInv'
<1> USE DEF TypeInv
<1>1. ASSUME NEW c \in Command, Propose(n, c) PROVE TypeInv'
  <2>1. log[n] \in Seq(Entry) /\ currentTerm[n] \in Nat
    BY Zenon DEF TypeOK
  <2>2. Append(log[n], [term |-> currentTerm[n], command |-> c]) \in Seq(Entry)
    BY Zenon, <2>1, AppendEntryType
  <2>3. TypeOK'
    BY Zenon, <1>1, <2>2 DEF Propose, TypeOK, persistVars, leaderVars, loopVars,
                      voteVars, appendVars
  <2> QED BY Zenon, <1>1, <2>3 DEF Propose, IndexInv, leaderVars, appendVars
<1>2. CASE leaderLoopReturns(n)
  <2>1. leaderLoops' \in [Node -> Nat] /\ stepDownCh' \in [Node -> BOOLEAN]
    BY <1>2 DEF leaderLoopReturns, TypeOK
  <2>2. TypeOK'
    BY Zenon, <1>2, <2>1
    DEF leaderLoopReturns, TypeOK, persistVars, leaderVars, voteVars,
        appendVars
  <2> QED BY Zenon, <1>2, <2>2 DEF leaderLoopReturns, IndexInv, leaderVars, appendVars
<1>3. CASE Restart(n)
  <2>1. disk[n].term \in Nat /\ disk[n].vote \in Node \cup {None}
    BY Zenon DEF TypeOK, PersistentState
  <2>2. /\ currentTerm' \in [Node -> Nat]
        /\ votedFor' \in [Node -> Node \cup {None}]
        /\ commitIndex' \in [Node -> Nat]
        /\ nextIndex' \in [Node -> [Node -> Nat]]
        /\ matchIndex' \in [Node -> [Node -> Nat]]
    BY Zenon, <1>3, <2>1 DEF Restart, TypeOK
  <2>3. /\ state' \in [Node -> {"Follower", "Candidate", "Leader"}]
        /\ leaderId' \in [Node -> Node \cup {None}]
        /\ votesReceived' \in [Node -> SUBSET Node]
        /\ timerFired' \in [Node -> BOOLEAN]
        /\ leaderLoops' \in [Node -> Nat]
        /\ stepDownCh' \in [Node -> BOOLEAN]
    <3>1. /\ state' \in [Node -> {"Follower", "Candidate", "Leader"}]
          /\ leaderId' \in [Node -> Node \cup {None}]
          /\ votesReceived' \in [Node -> SUBSET Node]
      BY Zenon, <1>3 DEF Restart, TypeOK
    <3>2. /\ timerFired' \in [Node -> BOOLEAN]
          /\ leaderLoops' \in [Node -> Nat]
          /\ stepDownCh' \in [Node -> BOOLEAN]
      BY Zenon, <1>3 DEF Restart, TypeOK
    <3> QED BY Zenon, <3>1, <3>2
  <2>4. /\ voteResponses' \subseteq voteResponses
        /\ appendCalls' \subseteq appendCalls
        /\ appendResponses' \subseteq appendResponses
    BY Zenon, <1>3 DEF Restart
  <2>5. TypeOK'
    BY Zenon, <1>3, <2>2, <2>3, <2>4 DEF Restart, TypeOK
  <2>6. \A p \in Node : state'[p] = "Leader"
                          => state[p] = "Leader" /\ nextIndex'[p] = nextIndex[p]
    BY Zenon, <1>3 DEF Restart, TypeOK
  <2> QED BY Zenon, <2>4, <2>5, <2>6 DEF IndexInv
<1> QED BY Zenon, <1>1, <1>2, <1>3

\* Losing an RPC only removes messages.
LEMMA TypeInvLoseRPC ==
  ASSUME TypeInv, LoseRPC
  PROVE  TypeInv'
<1>1. /\ voteRequests' \subseteq voteRequests
      /\ voteResponses' \subseteq voteResponses
      /\ appendCalls' = appendCalls
      /\ appendRequests' \subseteq appendRequests
      /\ appendResponses' \subseteq appendResponses
  BY Zenon DEF LoseRPC, voteVars, appendVars
<1>2. TypeOK'
  BY Zenon, <1>1
  DEF LoseRPC, TypeInv, TypeOK, persistVars, leaderVars, loopVars
<1>3. IndexInv'
  BY Zenon, <1>1 DEF LoseRPC, TypeInv, IndexInv, leaderVars
<1> QED BY Zenon, <1>2, <1>3 DEF TypeInv

\* Every step preserves the inductive invariant.
LEMMA TypeInvNext ==
  ASSUME TypeInv, [Next]_vars
  PROVE  TypeInv'
<1>1. CASE UNCHANGED vars
  BY Zenon, <1>1 DEF TypeInv, TypeOK, IndexInv, vars, persistVars, leaderVars,
              loopVars, voteVars, appendVars
<1>2. CASE Next
  BY Zenon, <1>2, TypeInvElection, TypeInvCheckWon, TypeInvHandleRequestVote,
     TypeInvReceiveVote, TypeInvSend, TypeInvHandleAppendEntries,
     TypeInvReceiveAppend, TypeInvLocal, TypeInvLoseRPC DEF Next
<1> QED BY Zenon, <1>1, <1>2

\* The inductive invariant holds: the fields have their types, and neither
\* nextIndex nor the index of a rejection, which a leader goes back to, is 0.
THEOREM TypeInvCorrect == Spec => []TypeInv
<1>1. Init => TypeInv
  BY Zenon, TypeInvInit
<1>2. TypeInv /\ [Next]_vars => TypeInv'
  BY Zenon, TypeInvNext
<1> QED BY <1>1, <1>2, PTL DEF Spec

\* Every state of every node and of the network is of the type that the structs
\* and messages of the code declare: no handler computes a negative index, a
\* log with a hole or a vote for a node that does not exist.
THEOREM TypeCorrect == Spec => []TypeOK
<1>1. TypeInv => TypeOK
  BY Zenon DEF TypeInv
<1> QED BY <1>1, TypeInvCorrect, PTL

-----------------------------------------------------------------------------
(* The vote invariant, and the steps of a candidate *)

\* KeepsVote after the step, for a term t of the state before it.
StillKeeps(v, c, t) ==
  /\ currentTerm'[v] > t \/ (currentTerm'[v] = t /\ votedFor'[v] = c)
  /\ disk'[v].term > t \/ (disk'[v].term = t /\ disk'[v].vote = c)

\* v's vote in t is safe from stepDown: it is for another, or v goes on, or v
\* does not stand in t.
Binding(v, c, t) ==
  v # c \/ Running(v)' \/ ~(state[v] = "Candidate" /\ currentTerm[v] = t)

\* A step that releases no vote: what bound a voter before binds it after,
\* unless the voter is the candidate and no longer stands.
VotesKept ==
  \A v, c \in Node, t \in Nat :
    KeepsVote(v, c, t) /\ Binding(v, c, t) => StillKeeps(v, c, t)

\* A step that lets nobody stand again in a term.
NobodyReturns ==
  \A l \in Node, t \in Nat : StoodIn(l, t) => StoodIn(l, t)'

\* Every vote that is counted or under way after a step was so before it, or
\* is cast in it.
VotesTraced ==
  /\ \A d \in Node : Running(d)' => \A v \in votesReceived'[d] :
       \/ /\ Running(d) /\ currentTerm'[d] = currentTerm[d]
          /\ v \in votesReceived[d]
       \/ \E m \in voteResponses : /\ m.granted /\ m.from = d /\ m.to = v
                                   /\ m.term = currentTerm'[d]
       \/ currentTerm'[v] = currentTerm'[d] /\ votedFor'[v] = d
  /\ \A m \in voteResponses' : m.granted =>
       \/ m \in voteResponses
       \/ currentTerm'[m.to] = m.term /\ votedFor'[m.to] = m.from

VoteStep == VotesKept /\ NobodyReturns /\ VotesTraced

\* A step that casts and counts no vote.
NoVoteMoves ==
  /\ \A n \in Node : Running(n)' =>
       /\ Running(n)
       /\ votesReceived'[n] = votesReceived[n]
       /\ currentTerm'[n] = currentTerm[n]
  /\ \A n \in Node : state'[n] = "Leader" =>
       Cardinality(votesReceived'[n]) >= quorumSize
  /\ \A m \in voteResponses' : m.from # m.to /\ (m.granted => m \in voteResponses)
  /\ \A m \in voteRequests' : m.from # m.to

\* The part of TypeOK that elections are about.
LEMMA VoteTypes ==
  ASSUME TypeOK
  PROVE  /\ currentTerm \in [Node -> Nat]
         /\ votedFor \in [Node -> Node \cup {None}]
         /\ disk \in [Node -> PersistentState]
         /\ state \in [Node -> {"Follower", "Candidate", "Leader"}]
         /\ votesReceived \in [Node -> SUBSET Node]
         /\ voteRequests \subseteq VoteRequest
         /\ voteResponses \subseteq VoteResponse
BY Zenon DEF TypeOK

\* At the start nobody stands for election and no vote is under way.
LEMMA VoteInvInit == Init => VoteInv
BY SMTT(30) DEF Init, VoteInv, VotesSaved, VotesBind, VotesUnique, Running

\* A step that keeps the votes, and neither casts nor counts one, preserves the
\* invariant.
LEMMA VoteInvIdle ==
  ASSUME TypeOK, VoteInv, VotesKept, NobodyReturns, NoVoteMoves, VotesSaved'
  PROVE  VoteInv' /\ VoteStep
<1>1. VotesBind'
  <2>1. ASSUME NEW n \in Node, Running(n)', NEW v \in votesReceived'[n]
        PROVE  StillKeeps(v, n, currentTerm'[n])
    <3>1. /\ Running(n) /\ v \in votesReceived[n]
          /\ currentTerm'[n] = currentTerm[n]
      BY Zenon, <2>1 DEF NoVoteMoves
    <3>2. KeepsVote(v, n, currentTerm[n]) /\ v \in Node /\ currentTerm[n] \in Nat
      BY Zenon, <3>1, VoteTypes DEF VoteInv, VotesBind
    <3> QED BY Zenon, <2>1, <3>1, <3>2 DEF VotesKept, Binding
  <2>2. ASSUME NEW m \in voteResponses', m.granted
        PROVE  StillKeeps(m.to, m.from, m.term)
    <3>1. m \in voteResponses /\ m.from # m.to
      BY Zenon, <2>2 DEF NoVoteMoves
    <3>2. /\ KeepsVote(m.to, m.from, m.term)
          /\ m.to \in Node /\ m.from \in Node /\ m.term \in Nat
      BY Zenon, <2>2, <3>1, VoteTypes DEF VoteInv, VotesBind, VoteResponse
    <3> QED BY Zenon, <3>1, <3>2 DEF VotesKept, Binding
  <2> QED BY Zenon, <2>1, <2>2 DEF VotesBind, KeepsVote, StillKeeps
<1>2. VotesUnique'
  BY SMTT(30) DEF VoteInv, VotesUnique, NoVoteMoves
<1>3. VotesTraced
  BY Zenon DEF VotesTraced, NoVoteMoves
<1> QED BY Zenon, <1>1, <1>2, <1>3 DEF VoteInv, NoVoteMoves, VoteStep

\* A step that changes the term and vote of n only keeps the votes if n's are
\* kept.
LEMMA VotesKeptOne ==
  ASSUME NEW n \in Node,
         \A v \in Node \ {n} : /\ currentTerm'[v] = currentTerm[v]
                               /\ votedFor'[v] = votedFor[v]
                               /\ disk'[v] = disk[v],
         \A c \in Node, t \in Nat :
           KeepsVote(n, c, t) /\ Binding(n, c, t) => StillKeeps(n, c, t)
  PROVE  VotesKept
BY SMTT(30) DEF VotesKept, KeepsVote, StillKeeps

\* A node that moves to a later term, or does not stand again in its own,
\* returns to none.
LEMMA MovesOn ==
  ASSUME TypeOK, VoteInv, NEW n \in Node,
         \A v \in Node \ {n} : /\ currentTerm'[v] = currentTerm[v]
                               /\ disk'[v] = disk[v]
                               /\ state'[v] = state[v],
         currentTerm'[n] \in Nat, disk'[n].term \in Nat,
         disk'[n].term >= disk[n].term,
         \/ currentTerm'[n] > currentTerm[n]
         \/ /\ currentTerm'[n] = currentTerm[n]
            /\ state'[n] = "Candidate" => state[n] = "Candidate"
         \/ currentTerm'[n] >= disk[n].term /\ state'[n] # "Candidate"
  PROVE  NobodyReturns
<1> SUFFICES ASSUME NEW l \in Node, NEW t \in Nat, StoodIn(l, t)
             PROVE  StoodIn(l, t)'
  BY Zenon DEF NobodyReturns
<1>1. CASE l # n
  BY Zenon, <1>1 DEF StoodIn
<1>2. CASE l = n
  <2>1. currentTerm[n] \in Nat /\ disk[n].term \in Nat
    BY Zenon, VoteTypes DEF PersistentState
  <2> QED BY SMTT(30), <1>2, <2>1 DEF StoodIn
<1> QED BY Zenon, <1>1, <1>2

\* A voter that moves to a newer term, saving it or not, is not released.
LEMMA NewTermKeeps ==
  ASSUME NEW v \in Node, NEW c \in Node, NEW t \in Nat, NEW x, KeepsVote(v, c, t),
         currentTerm[v] \in Nat, currentTerm'[v] \in Nat,
         currentTerm'[v] > currentTerm[v],
         \/ disk'[v] = disk[v]
         \/ disk'[v] = [term |-> currentTerm'[v], vote |-> x]
  PROVE  StillKeeps(v, c, t)
BY SMTT(30) DEF KeepsVote, StillKeeps

LEMMA AtLeast == \A a, b \in Nat : ~(a > a) /\ (a >= b => a > b \/ a = b)
OBVIOUS

LEMMA Reflexive == \A a \in Nat : a <= a /\ a >= a
OBVIOUS

LEMMA SavedIs == \A d, t, c : d = [term |-> t, vote |-> c] => d.term = t /\ d.vote = c
OBVIOUS

\* A node that votes, and saves the vote, where it had not voted for another.
LEMMA NewVoteKeeps ==
  ASSUME NEW v \in Node, NEW c \in Node, NEW t \in Nat, NEW x \in Node,
         KeepsVote(v, c, t), currentTerm[v] \in Nat,
         currentTerm'[v] = currentTerm[v], votedFor[v] \in {None, x},
         votedFor'[v] = x, disk'[v] = [term |-> currentTerm[v], vote |-> x]
  PROVE  StillKeeps(v, c, t)
<1>1. disk'[v].term = currentTerm[v] /\ disk'[v].vote = x
  OBVIOUS
<1> QED BY Zenon, <1>1, NodeAssumption DEF KeepsVote, StillKeeps

\* What is saved when memory moves on stays behind memory, and does not go back.
LEMMA DiskBehind ==
  ASSUME NEW v \in Node, NEW x, disk[v].term \in Nat, currentTerm[v] \in Nat,
         disk[v].term <= currentTerm[v], currentTerm'[v] \in Nat,
         currentTerm'[v] >= currentTerm[v],
         \/ disk'[v] = disk[v]
         \/ disk'[v] = [term |-> currentTerm'[v], vote |-> x]
  PROVE  /\ disk'[v].term <= currentTerm'[v] /\ disk'[v].term \in Nat
         /\ disk'[v].term >= disk[v].term
BY SMTT(30)

\* One node changes what it has saved.
LEMMA VotesSavedOne ==
  ASSUME VoteInv, NEW n \in Node,
         \A v \in Node \ {n} : /\ currentTerm'[v] = currentTerm[v]
                               /\ votedFor'[v] = votedFor[v]
                               /\ disk'[v] = disk[v]
                               /\ state'[v] = state[v],
         disk'[n].term <= currentTerm'[n],
         Running(n)' => /\ votedFor'[n] = n
                        /\ disk'[n] = [term |-> currentTerm'[n], vote |-> n]
  PROVE  VotesSaved'
BY ZenonT(40) DEF VoteInv, VotesSaved, Running

\* Stepping down to a newer term, or in the term n stood in, releases no vote
\* but n's for itself.
LEMMA StepDownKeeps ==
  ASSUME TypeOK, VoteInv, NEW n \in Node, NEW newTerm \in Nat, NEW saveOK,
         stepDown(n, newTerm, saveOK),
         \/ newTerm > currentTerm[n]
         \/ newTerm = currentTerm[n] /\ state[n] = "Candidate"
  PROVE  VotesKept /\ NobodyReturns /\ VotesSaved'
<1>1. /\ currentTerm'[n] = newTerm /\ votedFor'[n] = None
      /\ disk'[n] \in {disk[n], [term |-> newTerm, vote |-> None]}
      /\ state'[n] = "Follower"
      /\ \A v \in Node \ {n} : /\ currentTerm'[v] = currentTerm[v]
                               /\ votedFor'[v] = votedFor[v]
                               /\ disk'[v] = disk[v]
                               /\ state'[v] = state[v]
  BY Zenon, VoteTypes DEF stepDown, Saved
<1>2. /\ currentTerm[n] \in Nat /\ disk[n].term \in Nat
      /\ disk[n].term <= currentTerm[n]
      /\ Running(n) => votedFor[n] = n /\ disk[n].term = currentTerm[n]
  BY SMTT(30), VoteTypes DEF VoteInv, VotesSaved, PersistentState
<1>3. VotesKept
  <2>1. ASSUME NEW c \in Node, NEW t \in Nat, KeepsVote(n, c, t),
               n # c \/ ~(state[n] = "Candidate" /\ currentTerm[n] = t)
        PROVE  StillKeeps(n, c, t)
    <3>1. CASE newTerm > currentTerm[n]
      BY Zenon, <1>1, <1>2, <2>1, <3>1, NewTermKeeps
    <3>2. CASE newTerm = currentTerm[n] /\ state[n] = "Candidate"
      BY SMTT(30), <1>1, <1>2, <2>1, <3>2 DEF KeepsVote, StillKeeps, Running
    <3> QED BY Zenon, <3>1, <3>2
  <2> QED BY Zenon, <1>1, <2>1, VotesKeptOne DEF Running, Binding
<1>4. VotesSaved'
  BY SMTT(30), <1>1, <1>2 DEF VoteInv, VotesSaved, Running
<1>5. NobodyReturns
  <2>1. disk'[n].term \in Nat /\ disk'[n].term >= disk[n].term
    BY SMTT(30), <1>1, <1>2
  <2>2. \/ currentTerm'[n] > currentTerm[n]
        \/ currentTerm'[n] >= disk[n].term /\ state'[n] # "Candidate"
    BY Zenon, <1>1, <1>2
  <2> QED BY Zenon, <1>1, <2>1, <2>2, MovesOn
<1> QED BY Zenon, <1>3, <1>4, <1>5

\* The steps that leave terms, votes and roles alone.
LEMMA VoteInvUntouched ==
  ASSUME TypeOK, VoteInv, UNCHANGED <<persistVars, state, votesReceived>>,
         voteRequests' \subseteq voteRequests,
         voteResponses' \subseteq voteResponses
  PROVE  VoteInv' /\ VoteStep
<1>1. VotesKept /\ NobodyReturns /\ VotesSaved'
  BY Zenon DEF VotesKept, KeepsVote, StillKeeps, VoteInv, VotesSaved, Running,
         persistVars, NobodyReturns, StoodIn
<1>2. NoVoteMoves
  BY Zenon DEF NoVoteMoves, VoteInv, Running, persistVars
<1> QED BY Zenon, <1>1, <1>2, VoteInvIdle

\* A candidacy begins with the vote of the candidate for itself, in a term in
\* which it has not voted, and only once that vote is saved.
LEMMA VoteInvStartElection ==
  ASSUME TypeOK, VoteInv, NEW n \in Node, startElection(n)
  PROVE  VoteInv' /\ VoteStep
<1> DEFINE term == currentTerm[n] + 1
<1>1. /\ currentTerm'[n] = term /\ votedFor'[n] = n
      /\ \A v \in Node \ {n} : /\ currentTerm'[v] = currentTerm[v]
                               /\ votedFor'[v] = votedFor[v]
                               /\ disk'[v] = disk[v]
                               /\ state'[v] = state[v]
                               /\ votesReceived'[v] = votesReceived[v]
      /\ voteResponses' = voteResponses
  <2>1. /\ currentTerm'[n] = term /\ votedFor'[n] = n
        /\ \A v \in Node \ {n} : /\ currentTerm'[v] = currentTerm[v]
                                 /\ votedFor'[v] = votedFor[v]
    BY Zenon, VoteTypes DEF startElection
  <2>2. \A v \in Node \ {n} : disk'[v] = disk[v] /\ state'[v] = state[v]
    BY Zenon, VoteTypes DEF startElection
  <2>3. \A v \in Node \ {n} : votesReceived'[v] = votesReceived[v]
    BY Zenon, VoteTypes DEF startElection
  <2> QED BY Zenon, <2>1, <2>2, <2>3 DEF startElection
<1>2. /\ currentTerm[n] \in Nat /\ disk[n].term \in Nat
      /\ disk[n].term <= currentTerm[n]
  BY Zenon, VoteTypes DEF VoteInv, VotesSaved, PersistentState
<1>3. CASE /\ state' = [state EXCEPT ![n] = "Follower"]
           /\ UNCHANGED <<disk, votesReceived, voteRequests>>
  <2>1. state'[n] = "Follower" /\ disk'[n] = disk[n]
    BY Zenon, <1>3, VoteTypes
  <2>2. VotesKept
    <3>1. ASSUME NEW c \in Node, NEW t \in Nat, KeepsVote(n, c, t)
          PROVE  StillKeeps(n, c, t)
      BY SMTT(30), <1>1, <1>2, <2>1, <3>1 DEF KeepsVote, StillKeeps
    <3> QED BY Zenon, <1>1, <3>1, VotesKeptOne
  <2>3. VotesSaved'
    BY SMTT(30), <1>1, <1>2, <2>1 DEF VoteInv, VotesSaved, Running
  <2>4. NoVoteMoves
    BY Zenon, <1>1, <1>3, <2>1 DEF NoVoteMoves, VoteInv, Running
  <2>5. NobodyReturns
    BY SMTT(30), <1>1, <1>2, <2>1, MovesOn
  <2> QED BY Zenon, <2>2, <2>3, <2>4, <2>5, VoteInvIdle
<1>4. CASE /\ disk' = [disk EXCEPT ![n] = [term |-> term, vote |-> n]]
           /\ state' = [state EXCEPT ![n] = "Candidate"]
           /\ votesReceived' = [votesReceived EXCEPT ![n] = {n}]
           /\ \E readable \in Readable(n), reached \in SUBSET Peers(n) :
                voteRequests' = voteRequests \cup
                                  VoteCalls(n, term, reached, readable)
  <2>1. /\ disk'[n] = [term |-> term, vote |-> n]
        /\ state'[n] = "Candidate" /\ votesReceived'[n] = {n}
    BY Zenon, <1>4, VoteTypes
  <2>2. VotesKept
    <3>1. ASSUME NEW c \in Node, NEW t \in Nat, KeepsVote(n, c, t)
          PROVE  StillKeeps(n, c, t)
      BY SMTT(30), <1>1, <1>2, <2>1, <3>1 DEF KeepsVote, StillKeeps
    <3> QED BY Zenon, <1>1, <3>1, VotesKeptOne
  <2>3. VotesSaved'
    BY SMTT(30), <1>1, <1>2, <2>1 DEF VoteInv, VotesSaved, Running
  <2>4. \A c \in Node : ~KeepsVote(n, c, term)
    BY SMTT(30), <1>2 DEF KeepsVote
  <2>5. VotesBind'
    <3>1. StillKeeps(n, n, term)
      BY SMTT(30), <1>1, <1>2, <2>1 DEF StillKeeps
    <3>2. ASSUME NEW p \in Node \ {n}, Running(p), NEW v \in votesReceived[p]
          PROVE  StillKeeps(v, p, currentTerm[p])
      <4>1. KeepsVote(v, p, currentTerm[p]) /\ v \in Node
            /\ currentTerm[p] \in Nat
        BY Zenon, <3>2, VoteTypes DEF VoteInv, VotesBind
      <4>2. v # p \/ Running(v)'
        BY Zenon, <1>1, <3>2 DEF Running
      <4> QED BY Zenon, <2>2, <4>1, <4>2 DEF VotesKept, Binding
    <3>3. ASSUME NEW m \in voteResponses, m.granted
          PROVE  StillKeeps(m.to, m.from, m.term)
      <4>1. /\ KeepsVote(m.to, m.from, m.term) /\ m.from # m.to
            /\ m.to \in Node /\ m.from \in Node /\ m.term \in Nat
        BY Zenon, <3>3, VoteTypes DEF VoteInv, VotesBind, VoteResponse
      <4> QED BY Zenon, <2>2, <4>1 DEF VotesKept, Binding
    <3> QED
      BY SMTT(30), <1>1, <2>1, <3>1, <3>2, <3>3
      DEF VotesBind, KeepsVote, StillKeeps, Running
  <2>6. VotesUnique'
    <3>1. \A p \in Node \ {n} : Running(p) /\ currentTerm[p] = term
                                  => n \notin votesReceived[p]
      BY Zenon, <2>4 DEF VoteInv, VotesBind
    <3>2. \A m \in voteResponses : m.granted /\ m.term = term => m.to # n
      <4> SUFFICES ASSUME NEW m \in voteResponses, m.granted, m.term = term,
                          m.to = n
                   PROVE  FALSE
        BY Zenon
      <4>1. m.from \in Node /\ KeepsVote(n, m.from, term)
        BY Zenon, VoteTypes DEF VoteInv, VotesBind, VoteResponse
      <4> QED BY Zenon, <4>1, <2>4
    <3> QED
      BY SMTT(30), <1>1, <2>1, <3>1, <3>2 DEF VoteInv, VotesUnique, Running
  <2>7. \A m \in voteRequests' \cup voteResponses' : m.from # m.to
    BY SMTT(30), <1>1, <1>4 DEF VoteInv, VoteCalls, Peers
  <2>8. \A p \in Node : state'[p] = "Leader" =>
          Cardinality(votesReceived'[p]) >= quorumSize
    BY Zenon, <1>1, <2>1 DEF VoteInv
  <2>9. NobodyReturns
    BY SMTT(30), <1>1, <1>2, <2>1, MovesOn
  <2>10. VotesTraced
    BY Zenon, <1>1, <2>1 DEF VotesTraced, Running
  <2> QED BY Zenon, <2>2, <2>3, <2>5, <2>6, <2>7, <2>8, <2>9, <2>10
          DEF VoteInv, VoteStep
<1> QED BY Zenon, <1>3, <1>4 DEF startElection

\* becomeLeader with the votes of a quorum: n leads, or steps down in its term.
LEMMA BecomeLeaderKeeps ==
  ASSUME TypeOK, VoteInv, NEW n \in Node, state[n] = "Candidate",
         becomeLeader(n)
  PROVE  /\ VotesKept /\ NobodyReturns /\ VotesSaved'
         /\ \A v \in Node : Running(v)' =>
              Running(v) /\ currentTerm'[v] = currentTerm[v]
         /\ \A v \in Node \ {n} : state'[v] = state[v]
<1>1. CASE UNCHANGED persistVars /\ state' = [state EXCEPT ![n] = "Leader"]
  <2>1. \A v \in Node : Running(v)' <=> Running(v)
    BY Zenon, <1>1, VoteTypes DEF Running
  <2>2. NobodyReturns
    <3>1. \A l \in Node : state'[l] = "Candidate" => state[l] = "Candidate"
      BY Zenon, <1>1, VoteTypes
    <3> QED BY Zenon, <1>1, <3>1 DEF NobodyReturns, StoodIn, persistVars
  <2>3. VotesKept /\ VotesSaved'
    BY Zenon, <1>1, <2>1, VoteTypes
    DEF VotesKept, KeepsVote, StillKeeps, VoteInv, VotesSaved, persistVars
  <2>4. \A v \in Node \ {n} : state'[v] = state[v]
    BY Zenon, <1>1, VoteTypes
  <2> QED BY Zenon, <1>1, <2>1, <2>2, <2>3, <2>4 DEF persistVars
<1>2. ASSUME NEW saveOK, stepDown(n, currentTerm[n], saveOK)
      PROVE  /\ VotesKept /\ NobodyReturns /\ VotesSaved'
             /\ \A v \in Node : Running(v)' =>
                  Running(v) /\ currentTerm'[v] = currentTerm[v]
             /\ \A v \in Node \ {n} : state'[v] = state[v]
  <2>1. currentTerm[n] \in Nat /\ Running(n)
    BY Zenon, VoteTypes DEF Running
  <2> QED BY Zenon, <1>2, <2>1, StepDownKeeps, VoteTypes DEF stepDown, Running
<1> QED BY Zenon, <1>1, <1>2 DEF becomeLeader

\* Becoming leader counts no further vote; a no-op that cannot be stored makes
\* the winner step down instead.
LEMMA VoteInvCheckWon ==
  ASSUME TypeOK, VoteInv, NEW n \in Node, CheckWon(n)
  PROVE  VoteInv' /\ VoteStep
<1>1. /\ VotesKept /\ NobodyReturns /\ VotesSaved'
      /\ \A v \in Node : Running(v)' =>
           Running(v) /\ currentTerm'[v] = currentTerm[v]
      /\ \A v \in Node \ {n} : state'[v] = state[v]
  BY Zenon, BecomeLeaderKeeps DEF CheckWon, Won
<1>2. NoVoteMoves
  BY Zenon, <1>1 DEF NoVoteMoves, CheckWon, Won, VoteInv, voteVars
<1> QED BY Zenon, <1>1, <1>2, VoteInvIdle

\* A counted answer is a vote of the term in which the candidate still stands:
\* the voter is bound to it and to no other candidate.
LEMMA VoteInvReceiveVote ==
  ASSUME TypeOK, VoteInv, NEW m \in voteResponses, ReceiveVote(m)
  PROVE  VoteInv' /\ VoteStep
<1> DEFINE n == m.from
           votes == votesReceived[n] \cup {m.to}
           relevant == state[n] = "Candidate" /\ currentTerm[n] = m.term
           stale == relevant /\ m.respTerm > currentTerm[n]
           counted == relevant /\ ~stale /\ m.granted
           wins == counted /\ Cardinality(votes) >= quorumSize
<1>1. /\ n \in Node /\ m.to \in Node /\ m.term \in Nat /\ m.respTerm \in Nat
      /\ currentTerm[n] \in Nat
  BY ZenonT(40), VoteTypes DEF VoteResponse
<1>2. voteResponses' \subseteq voteResponses /\ voteRequests' = voteRequests
  BY Zenon DEF ReceiveVote
<1>3. CASE ~counted
  <2>1. votesReceived' = votesReceived
    BY Zenon, <1>3 DEF ReceiveVote
  <2>2. CASE stale
    <3>1. PICK saveOK \in Outcomes("save") : stepDown(n, m.respTerm, saveOK)
      BY Zenon, <2>2, <1>3 DEF ReceiveVote
    <3>2. VotesKept /\ NobodyReturns /\ VotesSaved'
      BY Zenon, <1>1, <2>2, <3>1, StepDownKeeps
    <3>3. NoVoteMoves
      BY Zenon, <1>1, <1>2, <2>1, <3>1, VoteTypes
      DEF NoVoteMoves, stepDown, VoteInv, Running
    <3> QED BY Zenon, <3>2, <3>3, VoteInvIdle
  <2>3. CASE ~stale
    <3>1. UNCHANGED <<persistVars, state>>
      BY Zenon, <1>3, <2>3 DEF ReceiveVote
    <3> QED BY SMTT(30), <1>2, <2>1, <3>1, VoteInvUntouched
  <2> QED BY SMTT(30), <2>2, <2>3
<1>4. CASE counted
  <2>1. /\ votesReceived'[n] = votes
        /\ \A v \in Node \ {n} : votesReceived'[v] = votesReceived[v]
    BY ZenonT(40), <1>1, <1>4, VoteTypes DEF ReceiveVote
  <2>2. /\ VotesKept /\ NobodyReturns /\ VotesSaved'
        /\ \A v \in Node : Running(v)' =>
             Running(v) /\ currentTerm'[v] = currentTerm[v]
        /\ \A v \in Node \ {n} : state'[v] = state[v]
        /\ state'[n] = "Leader" => wins
    <3>1. CASE wins
      BY Zenon, <1>1, <1>4, <3>1, BecomeLeaderKeeps DEF ReceiveVote
    <3>2. CASE ~wins
      <4>1. UNCHANGED <<persistVars, state>>
        BY Zenon, <1>4, <3>2 DEF ReceiveVote
      <4> QED
        BY ZenonT(40), <1>4, <4>1
        DEF VotesKept, KeepsVote, StillKeeps, VoteInv, VotesSaved,
            NobodyReturns, StoodIn, persistVars, Running
    <3> QED BY Zenon, <3>1, <3>2
  <2>3. VotesBind'
    <3>1. ASSUME NEW p \in Node, Running(p)', NEW v \in votesReceived'[p]
          PROVE  StillKeeps(v, p, currentTerm'[p])
      <4>1. Running(p) /\ currentTerm'[p] = currentTerm[p]
            /\ currentTerm[p] \in Nat
        BY Zenon, <2>2, <3>1, VoteTypes
      <4>2. KeepsVote(v, p, currentTerm[p]) /\ v \in Node
        <5>1. CASE p = n /\ v = m.to
          BY Zenon, <1>1, <1>4, <5>1 DEF VoteInv, VotesBind
        <5>2. CASE v \in votesReceived[p]
          BY Zenon, <4>1, <5>2, VoteTypes DEF VoteInv, VotesBind
        <5> QED BY Zenon, <2>1, <3>1, <5>1, <5>2
      <4> QED BY Zenon, <2>2, <3>1, <4>1, <4>2 DEF VotesKept, Binding
    <3>2. ASSUME NEW r \in voteResponses', r.granted
          PROVE  StillKeeps(r.to, r.from, r.term)
      <4>1. /\ KeepsVote(r.to, r.from, r.term) /\ r.from # r.to
            /\ r.to \in Node /\ r.from \in Node /\ r.term \in Nat
        BY ZenonT(40), <1>2, <3>2, VoteTypes
        DEF VoteInv, VotesBind, VoteResponse
      <4> QED BY Zenon, <2>2, <4>1 DEF VotesKept, Binding
    <3> QED BY Zenon, <3>1, <3>2 DEF VotesBind, KeepsVote, StillKeeps
  <2>4. VotesUnique'
    <3>1. \A p \in Node \ {n} : Running(p) /\ currentTerm[p] = currentTerm[n]
                                  => m.to \notin votesReceived[p]
      BY Zenon, <1>4 DEF VoteInv, VotesUnique
    <3>2. \A r \in voteResponses : r.granted /\ r.term = currentTerm[n]
                                     /\ r.to = m.to => r.from = n
      BY Zenon, <1>4 DEF VoteInv, VotesUnique
    <3>3. Running(n)
      BY Zenon, <1>4 DEF Running
    <3> HIDE DEF n, counted
    <3> QED
      BY SMTT(30), <1>1, <1>2, <2>1, <2>2, <3>1, <3>2, <3>3
      DEF VoteInv, VotesUnique
  <2>5. \A p \in Node : state'[p] = "Leader" =>
          Cardinality(votesReceived'[p]) >= quorumSize
    BY Zenon, <2>1, <2>2 DEF VoteInv
  <2>6. VotesTraced
    <3>1. m.granted /\ m.to = m.to /\ m.from = n /\ m.term = currentTerm[n]
      BY Zenon, <1>4
    <3> HIDE DEF n, counted
    <3> QED BY SMTT(30), <1>1, <1>2, <2>1, <2>2, <3>1 DEF VotesTraced
  <2> QED BY Zenon, <1>2, <2>2, <2>3, <2>4, <2>5, <2>6 DEF VoteInv, VoteStep
<1> QED BY Zenon, <1>3, <1>4

-----------------------------------------------------------------------------
(* The steps that may move a voter to another term *)

\* A voter grants at most one candidate of a term, and a granted vote is saved
\* before it is sent.
LEMMA VoteInvHandleRequestVote ==
  ASSUME TypeOK, VoteInv, NEW m \in voteRequests, HandleRequestVote(m)
  PROVE  VoteInv' /\ VoteStep
<1> DEFINE n == m.to
<1>1. /\ n \in Node /\ m.from \in Node /\ m.from # n /\ m.term \in Nat
      /\ currentTerm[n] \in Nat /\ disk[n].term \in Nat
      /\ disk[n].term <= currentTerm[n]
  BY Zenon, VoteTypes
  DEF VoteRequest, PersistentState, VoteInv, VotesSaved
<1>2. votesReceived' = votesReceived
  BY Zenon DEF HandleRequestVote
<1>3. CASE /\ ReplyVote(m, currentTerm[n], FALSE)
           /\ UNCHANGED <<persistVars, state, stepDownCh>>
  <2>1. VotesKept /\ NobodyReturns /\ VotesSaved'
    BY ZenonT(40), <1>3
    DEF VotesKept, KeepsVote, StillKeeps, VoteInv, VotesSaved, Running,
        NobodyReturns, StoodIn, persistVars
  <2>2. NoVoteMoves
    BY SMTT(30), <1>1, <1>2, <1>3
    DEF NoVoteMoves, ReplyVote, VoteInv, Running, persistVars
  <2> QED BY Zenon, <2>1, <2>2, VoteInvIdle
<1>4. ASSUME m.term >= currentTerm[n], NEW granted \in BOOLEAN, NEW downOK,
             granted => canVote(VoteBefore(m), m.from),
             Vote(m, granted, downOK)
      PROVE  VoteInv' /\ VoteStep
  <2> DEFINE resp == [from |-> m.from, to |-> n, term |-> m.term,
                      respTerm |-> m.term, granted |-> granted]
  <2>1. /\ currentTerm'[n] = m.term
        /\ votedFor'[n] = IF granted THEN m.from ELSE VoteBefore(m)
        /\ \A v \in Node \ {n} : /\ currentTerm'[v] = currentTerm[v]
                                 /\ votedFor'[v] = votedFor[v]
                                 /\ disk'[v] = disk[v]
                                 /\ state'[v] = state[v]
    BY Zenon, <1>1, <1>4, VoteTypes DEF Vote
  <2>2. state'[n] = IF m.term > currentTerm[n] THEN "Follower" ELSE state[n]
    BY Zenon, <1>1, <1>4, VoteTypes DEF Vote
  <2>3. /\ granted => disk'[n] = [term |-> m.term, vote |-> m.from]
        /\ disk'[n] \in {disk[n], [term |-> m.term, vote |-> votedFor'[n]]}
        /\ ~granted /\ m.term = currentTerm[n] => disk'[n] = disk[n]
    <3> DEFINE vote == IF granted THEN m.from ELSE VoteBefore(m)
    <3>1. disk'[n] = IF granted \/ (m.term > currentTerm[n] /\ downOK)
                       THEN [term |-> m.term, vote |-> vote] ELSE disk[n]
      BY Zenon, <1>1, <1>4, VoteTypes DEF Vote, Saved
    <3>2. votedFor'[n] = vote
      BY Zenon, <2>1
    <3> QED BY SMTT(30), <1>1, <3>1, <3>2
  <2>4. /\ voteRequests' \subseteq voteRequests
        /\ voteResponses' = voteResponses \cup {resp}
    BY Zenon, <1>4 DEF Vote, ReplyVote
  <2>5. granted /\ m.term = currentTerm[n] =>
          votedFor[n] \in {None, m.from} /\ ~Running(n)
    <3>1. granted /\ m.term = currentTerm[n] => votedFor[n] \in {None, m.from}
      BY <1>1, <1>4 DEF canVote, VoteBefore
    <3>2. Running(n) => votedFor[n] = n
      BY Zenon, <1>1 DEF VoteInv, VotesSaved
    <3> QED BY Zenon, <1>1, <3>1, <3>2, NodeAssumption
  <2>6. VotesKept
    <3>1. ASSUME NEW c \in Node, NEW t \in Nat, KeepsVote(n, c, t)
          PROVE  StillKeeps(n, c, t)
      <4>1. CASE m.term > currentTerm[n]
        <5>1. \/ disk'[n] = disk[n]
              \/ disk'[n] = [term |-> currentTerm'[n], vote |-> votedFor'[n]]
          BY Zenon, <2>1, <2>3
        <5>2. /\ currentTerm'[n] \in Nat /\ currentTerm'[n] > currentTerm[n]
              /\ currentTerm[n] \in Nat /\ n \in Node
          BY Zenon, <1>1, <2>1, <4>1
        <5> HIDE DEF n
        <5> QED BY Zenon, <3>1, <5>1, <5>2, NewTermKeeps
      <4>2. CASE m.term = currentTerm[n]
        <5>1. currentTerm'[n] = currentTerm[n] /\ VoteBefore(m) = votedFor[n]
          BY SMT, <1>1, <2>1, <4>2 DEF VoteBefore
        <5>2. CASE ~granted
          <6>1. votedFor'[n] = votedFor[n] /\ disk'[n] = disk[n]
            BY Zenon, <2>1, <2>3, <4>2, <5>1, <5>2
          <6> HIDE DEF n
          <6> QED BY Zenon, <3>1, <5>1, <6>1 DEF KeepsVote, StillKeeps
        <5>3. CASE granted
          <6>1. /\ votedFor[n] \in {None, m.from} /\ votedFor'[n] = m.from
                /\ disk'[n] = [term |-> currentTerm[n], vote |-> m.from]
            BY Zenon, <2>1, <2>3, <2>5, <4>2, <5>3
          <6> HIDE DEF n
          <6> QED BY Zenon, <1>1, <3>1, <5>1, <6>1, NewVoteKeeps
        <5> QED BY Zenon, <5>2, <5>3
      <4> QED BY Zenon, <1>1, <1>4, <4>1, <4>2, AtLeast
    <3> QED BY Zenon, <1>1, <2>1, <3>1, VotesKeptOne
  <2>7. VotesSaved'
    <3>1. disk'[n].term <= currentTerm'[n]
      <4>1. disk'[n] = disk[n] \/ disk'[n] = [term |-> currentTerm'[n], vote |-> votedFor'[n]]
        BY Zenon, <2>1, <2>3
      <4>2. currentTerm'[n] \in Nat /\ currentTerm'[n] >= currentTerm[n]
        BY Zenon, <1>1, <1>4, <2>1
      <4> QED BY Zenon, <1>1, <4>1, <4>2, DiskBehind
    <3>2. Running(n)' =>
            /\ votedFor'[n] = n
            /\ disk'[n] = [term |-> currentTerm'[n], vote |-> n]
      <4>1. Running(n)' => Running(n) /\ m.term = currentTerm[n]
        BY Zenon, <1>1, <1>4, <2>1, <2>2, AtLeast DEF Running
      <4>2. Running(n) => votedFor[n] = n /\ disk[n] = [term |-> currentTerm[n], vote |-> n]
        BY Zenon, <1>1 DEF VoteInv, VotesSaved
      <4>3. m.term = currentTerm[n] => VoteBefore(m) = votedFor[n]
        BY SMT, <1>1 DEF VoteBefore
      <4> QED BY Zenon, <2>1, <2>3, <2>5, <4>1, <4>2, <4>3
    <3> QED BY Zenon, <1>1, <2>1, <3>1, <3>2, VotesSavedOne
  <2>10. NobodyReturns
    <3>1. disk'[n].term \in Nat /\ disk'[n].term >= disk[n].term
      <4>1. disk'[n] = disk[n] \/ disk'[n] = [term |-> currentTerm'[n], vote |-> votedFor'[n]]
        BY Zenon, <2>1, <2>3
      <4>2. currentTerm'[n] \in Nat /\ currentTerm'[n] >= currentTerm[n]
        BY Zenon, <1>1, <1>4, <2>1
      <4> QED BY Zenon, <1>1, <4>1, <4>2, DiskBehind
    <3>2. \/ currentTerm'[n] > currentTerm[n]
          \/ /\ currentTerm'[n] = currentTerm[n]
             /\ state'[n] = "Candidate" => state[n] = "Candidate"
      BY Zenon, <1>1, <1>4, <2>1, <2>2, AtLeast
    <3> QED BY Zenon, <1>1, <2>1, <3>1, <3>2, MovesOn
  <2>8. CASE ~granted
    <3>1. NoVoteMoves
      <4>1. Running(n)' => Running(n) /\ currentTerm'[n] = currentTerm[n]
        BY Zenon, <1>1, <1>4, <2>1, <2>2, AtLeast DEF Running
      <4>2. \A p \in Node \ {n} : (Running(p)' => Running(p))
                                  /\ currentTerm'[p] = currentTerm[p]
        BY Zenon, <2>1 DEF Running
      <4>3. \A p \in Node : Running(p)' =>
              /\ Running(p)
              /\ votesReceived'[p] = votesReceived[p]
              /\ currentTerm'[p] = currentTerm[p]
        BY Zenon, <1>2, <4>1, <4>2
      <4>4. \A p \in Node : state'[p] = "Leader" =>
              Cardinality(votesReceived'[p]) >= quorumSize
        BY ZenonT(40), <1>1, <1>2, <2>1, <2>2 DEF VoteInv
      <4>5. resp.from # resp.to /\ ~resp.granted
        BY Zenon, <1>1, <2>8
      <4>6. \A r \in voteRequests \cup voteResponses : r.from # r.to
        BY Zenon DEF VoteInv
      <4> HIDE DEF resp
      <4>7. \A r \in voteResponses' :
              r.from # r.to /\ (r.granted => r \in voteResponses)
        BY Zenon, <2>4, <4>5, <4>6
      <4>8. \A r \in voteRequests' : r.from # r.to
        BY Zenon, <2>4, <4>6
      <4> QED BY Zenon, <4>3, <4>4, <4>7, <4>8 DEF NoVoteMoves
    <3> QED BY Zenon, <2>6, <2>7, <2>10, <3>1, VoteInvIdle
  <2>9. CASE granted
    <3>1. \A p \in Node : Running(p)' =>
            Running(p) /\ currentTerm'[p] = currentTerm[p] /\ currentTerm[p] \in Nat
      <4>1. \A p \in Node : currentTerm[p] \in Nat
        BY Zenon, VoteTypes
      <4>2. Running(n)' => Running(n) /\ currentTerm'[n] = currentTerm[n]
        BY Zenon, <1>1, <1>4, <2>1, <2>2, AtLeast DEF Running
      <4>3. \A p \in Node \ {n} : (Running(p)' => Running(p))
                                  /\ currentTerm'[p] = currentTerm[p]
        BY Zenon, <2>1 DEF Running
      <4> QED BY Zenon, <4>1, <4>2, <4>3
    <3>2. StillKeeps(n, m.from, m.term)
      <4>1. currentTerm'[n] = m.term /\ votedFor'[n] = m.from
        BY Zenon, <2>1, <2>9
      <4>2. disk'[n] = [term |-> m.term, vote |-> m.from]
        BY Zenon, <2>3, <2>9
      <4>3. disk'[n].term = m.term /\ disk'[n].vote = m.from
        BY Zenon, <4>2, SavedIs
      <4> QED BY Zenon, <4>1, <4>3 DEF StillKeeps
    <3>3. ASSUME NEW p \in Node, Running(p)', NEW v \in votesReceived[p]
          PROVE  StillKeeps(v, p, currentTerm[p])
      <4>1. KeepsVote(v, p, currentTerm[p]) /\ v \in Node
        BY Zenon, <3>1, <3>3, VoteTypes DEF VoteInv, VotesBind
      <4> QED BY Zenon, <2>6, <3>1, <3>3, <4>1 DEF VotesKept, Binding
    <3>4. ASSUME NEW r \in voteResponses, r.granted
          PROVE  StillKeeps(r.to, r.from, r.term)
      <4>1. /\ KeepsVote(r.to, r.from, r.term) /\ r.from # r.to
            /\ r.to \in Node /\ r.from \in Node /\ r.term \in Nat
        BY Zenon, <3>4, VoteTypes DEF VoteInv, VotesBind, VoteResponse
      <4> QED BY Zenon, <2>6, <4>1 DEF VotesKept, Binding
    <3>5. VotesBind'
      <4>1. \A r \in voteResponses' : r.granted => StillKeeps(r.to, r.from, r.term)
        BY <2>4, <3>2, <3>4
      <4> QED
        BY ZenonT(40), <1>2, <3>1, <3>3, <4>1
        DEF VotesBind, KeepsVote, StillKeeps
    <3>6. \A c \in Node : StillKeeps(n, c, m.term) => c = m.from
      BY Zenon, <1>1, <2>1, <2>9, AtLeast DEF StillKeeps
    <3>7. VotesUnique'
      <4>1. \A p \in Node : Running(p)' /\ currentTerm'[p] = m.term
                              /\ n \in votesReceived[p] => p = m.from
        BY Zenon, <3>1, <3>3, <3>6
      <4>2. \A r \in voteResponses : r.granted /\ r.to = n /\ r.term = m.term
                                       => r.from = m.from
        BY Zenon, <3>4, <3>6, VoteTypes DEF VoteResponse
      <4>3. /\ resp.from = m.from /\ resp.to = n /\ resp.term = m.term
            /\ voteResponses' = voteResponses \cup {resp}
        BY Zenon, <2>4
      <4> HIDE DEF resp, n
      <4> QED
        BY SMTT(30), <1>2, <3>1, <4>1, <4>2, <4>3 DEF VoteInv, VotesUnique
    <3>8. \A r \in voteRequests' \cup voteResponses' : r.from # r.to
      BY SMTT(30), <1>1, <2>4 DEF VoteInv
    <3>9. \A p \in Node : state'[p] = "Leader" =>
            Cardinality(votesReceived'[p]) >= quorumSize
      BY ZenonT(40), <1>1, <1>2, <2>1, <2>2 DEF VoteInv
    <3>10. VotesTraced
      <4>1. /\ resp.from = m.from /\ resp.to = n /\ resp.term = m.term
            /\ voteResponses' = voteResponses \cup {resp}
            /\ currentTerm'[n] = m.term /\ votedFor'[n] = m.from
        BY Zenon, <2>1, <2>4, <2>9
      <4> HIDE DEF resp, n
      <4> QED BY Zenon, <1>2, <3>1, <4>1 DEF VotesTraced
    <3> QED BY Zenon, <2>6, <2>7, <2>10, <3>5, <3>7, <3>8, <3>9, <3>10
            DEF VoteInv, VoteStep
  <2> QED BY Zenon, <2>8, <2>9
<1>5. ASSUME NEW saveOK, NEW readable
      PROVE  /\ Grants(m, saveOK, readable) \in BOOLEAN
             /\ Grants(m, saveOK, readable) => canVote(VoteBefore(m), m.from)
  BY Zenon DEF Grants
<1> QED BY Zenon, <1>3, <1>4, <1>5 DEF HandleRequestVote

\* A request of a newer term clears the vote, one of the same term keeps it.
LEMMA VoteInvHandleAppendEntries ==
  ASSUME TypeOK, VoteInv, NEW m \in appendRequests, HandleAppendEntries(m)
  PROVE  VoteInv' /\ VoteStep
<1> DEFINE n == m.to
<1>1. /\ n \in Node /\ m.term \in Nat
      /\ currentTerm[n] \in Nat /\ disk[n].term \in Nat
      /\ disk[n].term <= currentTerm[n]
  BY Zenon DEF TypeOK, AppendRequest, PersistentState, VoteInv, VotesSaved
<1>2. UNCHANGED <<votesReceived, voteRequests, voteResponses>>
  BY Zenon DEF HandleAppendEntries, voteVars
<1>3. CASE UNCHANGED <<persistVars, state>>
  BY Zenon, <1>2, <1>3, VoteInvUntouched
<1>4. ASSUME m.term >= currentTerm[n], NEW downOK, Follow(m, downOK)
      PROVE  VoteInv' /\ VoteStep
  <2>0. m.term >= currentTerm[n]
    BY Zenon, <1>4
  <2>1. /\ currentTerm'[n] = m.term
        /\ votedFor'[n] = IF m.term > currentTerm[n] THEN None ELSE votedFor[n]
        /\ state'[n] = IF m.term > currentTerm[n] \/ state[n] = "Candidate"
                         THEN "Follower" ELSE state[n]
        /\ \A v \in Node \ {n} : /\ currentTerm'[v] = currentTerm[v]
                                 /\ votedFor'[v] = votedFor[v]
                                 /\ disk'[v] = disk[v]
                                 /\ state'[v] = state[v]
    BY Zenon, <1>1, <1>4, VoteTypes DEF Follow
  <2>2. /\ disk'[n] \in {disk[n], [term |-> m.term, vote |-> None]}
        /\ m.term = currentTerm[n] => disk'[n] = disk[n]
    <3>1. disk'[n] = IF m.term > currentTerm[n] /\ downOK
                       THEN [term |-> m.term, vote |-> None] ELSE disk[n]
      BY Zenon, <1>1, <1>4, VoteTypes DEF Follow, Saved
    <3> QED BY SMTT(30), <1>1, <3>1
  <2> HIDE DEF n
  <2>3. VotesKept
    <3>1. ASSUME NEW c \in Node, NEW t \in Nat, KeepsVote(n, c, t)
          PROVE  StillKeeps(n, c, t)
      <4>1. CASE m.term > currentTerm[n]
        BY Zenon, <1>1, <2>1, <2>2, <3>1, <4>1, NewTermKeeps
      <4>2. CASE m.term = currentTerm[n]
        BY Zenon, <1>1, <2>1, <2>2, <3>1, <4>2 DEF KeepsVote, StillKeeps
      <4> QED BY Zenon, <1>1, <2>0, <4>1, <4>2, AtLeast
    <3> QED BY Zenon, <1>1, <2>1, <3>1, VotesKeptOne
  <2>4. VotesSaved'
    <3>1. disk'[n].term <= currentTerm'[n]
      BY Zenon, <1>1, <2>0, <2>1, <2>2, DiskBehind
    <3>2. Running(n)' =>
            /\ votedFor'[n] = n
            /\ disk'[n] = [term |-> currentTerm'[n], vote |-> n]
      <4>1. CASE m.term > currentTerm[n]
        BY Zenon, <2>1, <4>1 DEF Running
      <4>2. CASE m.term = currentTerm[n]
        <5>1. /\ currentTerm'[n] = currentTerm[n] /\ votedFor'[n] = votedFor[n]
              /\ disk'[n] = disk[n] /\ (Running(n)' => Running(n))
          BY Zenon, <1>1, <2>1, <2>2, <4>2, AtLeast DEF Running
        <5>2. Running(n) => /\ votedFor[n] = n
                            /\ disk[n] = [term |-> currentTerm[n], vote |-> n]
          BY Zenon, <1>1 DEF VoteInv, VotesSaved
        <5> QED BY Zenon, <5>1, <5>2
      <4> QED BY Zenon, <1>1, <2>0, <4>1, <4>2, AtLeast
    <3> QED BY Zenon, <1>1, <2>1, <3>1, <3>2, VotesSavedOne
  <2>5. NoVoteMoves
    <3>1. \A p \in Node : Running(p)' =>
            Running(p) /\ currentTerm'[p] = currentTerm[p]
      <4>1. Running(n)' => Running(n) /\ currentTerm'[n] = currentTerm[n]
        BY Zenon, <1>1, <2>0, <2>1, AtLeast DEF Running
      <4> QED BY Zenon, <2>1, <4>1 DEF Running
    <3>2. \A p \in Node : state'[p] = "Leader" => state[p] = "Leader"
      BY Zenon, <1>1, <2>1
    <3> QED BY Zenon, <1>2, <3>1, <3>2 DEF NoVoteMoves, VoteInv
  <2>6. NobodyReturns
    <3>1. disk'[n].term \in Nat /\ disk'[n].term >= disk[n].term
      BY Zenon, <1>1, <2>0, <2>1, <2>2, DiskBehind
    <3>2. \/ currentTerm'[n] > currentTerm[n]
          \/ /\ currentTerm'[n] = currentTerm[n]
             /\ state'[n] = "Candidate" => state[n] = "Candidate"
      BY Zenon, <1>1, <2>0, <2>1, AtLeast
    <3> QED BY Zenon, <1>1, <2>1, <3>1, <3>2, MovesOn
  <2> QED BY Zenon, <2>3, <2>4, <2>5, <2>6, VoteInvIdle
<1> QED BY Zenon, <1>3, <1>4 DEF HandleAppendEntries

\* The only change of term here is a leader that steps down to a newer one.
LEMMA VoteInvReceiveAppend ==
  ASSUME TypeOK, VoteInv, NEW m \in appendResponses, ReceiveAppend(m)
  PROVE  VoteInv' /\ VoteStep
<1> DEFINE n == m.from
<1>1. n \in Node /\ m.respTerm \in Nat /\ currentTerm[n] \in Nat
  BY Zenon DEF TypeOK, AppendResponse
<1>2. UNCHANGED <<votesReceived, voteRequests, voteResponses>>
  BY Zenon DEF ReceiveAppend, voteVars
<1>3. CASE UNCHANGED <<persistVars, state>>
  BY Zenon, <1>2, <1>3, VoteInvUntouched
<1>4. ASSUME m.respTerm > currentTerm[n], NEW saveOK,
             stepDown(n, m.respTerm, saveOK)
      PROVE  VoteInv' /\ VoteStep
  <2>1. VotesKept /\ NobodyReturns /\ VotesSaved'
    BY Zenon, <1>1, <1>4, StepDownKeeps
  <2>2. NoVoteMoves
    BY Zenon, <1>1, <1>2, <1>4, VoteTypes
    DEF NoVoteMoves, stepDown, VoteInv, Running
  <2> QED BY <2>1, <2>2, VoteInvIdle
<1> QED BY Zenon, <1>3, <1>4 DEF ReceiveAppend

\* A restart loses what was not saved; the votes that count were saved.
LEMMA VoteInvRestart ==
  ASSUME TypeOK, VoteInv, NEW n \in Node, Restart(n)
  PROVE  VoteInv' /\ VoteStep
<1>1. /\ currentTerm'[n] = disk[n].term /\ votedFor'[n] = disk[n].vote
      /\ state'[n] = "Follower" /\ disk' = disk
      /\ \A v \in Node \ {n} : /\ currentTerm'[v] = currentTerm[v]
                               /\ votedFor'[v] = votedFor[v]
                               /\ state'[v] = state[v]
                               /\ votesReceived'[v] = votesReceived[v]
      /\ voteRequests' = voteRequests /\ voteResponses' \subseteq voteResponses
  BY Zenon, VoteTypes DEF Restart
<1>2. disk[n].term \in Nat
  BY Zenon, VoteTypes DEF PersistentState
<1>3. VotesKept
  <2>1. ASSUME NEW c \in Node, NEW t \in Nat, KeepsVote(n, c, t)
        PROVE  StillKeeps(n, c, t)
    BY Zenon, <1>1, <2>1 DEF KeepsVote, StillKeeps
  <2> QED BY Zenon, <1>1, <2>1, VotesKeptOne
<1>4. VotesSaved'
  <2>1. disk'[n].term <= currentTerm'[n]
    BY Zenon, <1>1, <1>2, Reflexive
  <2>2. ~Running(n)' /\ \A v \in Node \ {n} : disk'[v] = disk[v]
    BY Zenon, <1>1 DEF Running
  <2> QED BY Zenon, <1>1, <2>1, <2>2, VotesSavedOne
<1>5. NoVoteMoves
  BY Zenon, <1>1 DEF NoVoteMoves, VoteInv, Running
<1>6. NobodyReturns
  BY SMTT(30), <1>1, <1>2, MovesOn
<1> QED BY Zenon, <1>3, <1>4, <1>5, <1>6, VoteInvIdle

\* Every step keeps the votes that were counted or are under way.
LEMMA StepKeepsVotes ==
  ASSUME TypeOK, VoteInv, [Next]_vars
  PROVE  VoteInv' /\ VoteStep
<1>1. CASE \/ UNCHANGED vars
           \/ \E n \in Node : \/ TimerFires(n)
                              \/ sendHeartbeats(n)
                              \/ \E c \in Command : Propose(n, c)
                              \/ leaderLoopReturns(n)
           \/ \E c \in appendCalls : sendAppendEntries(c)
           \/ LoseRPC
  <2>1. UNCHANGED <<persistVars, state, votesReceived>>
    BY Zenon, <1>1
    DEF vars, TimerFires, sendHeartbeats, Propose, leaderLoopReturns,
        sendAppendEntries, LoseRPC
  <2>2. voteRequests' \subseteq voteRequests
        /\ voteResponses' \subseteq voteResponses
    BY Zenon, <1>1
    DEF vars, TimerFires, sendHeartbeats, Propose, leaderLoopReturns,
        sendAppendEntries, LoseRPC, voteVars
  <2> QED BY Zenon, <2>1, <2>2, VoteInvUntouched
<1>2. CASE \/ \E n \in Node : startElection(n) \/ CheckWon(n) \/ Restart(n)
           \/ \E m \in voteRequests : HandleRequestVote(m)
           \/ \E m \in voteResponses : ReceiveVote(m)
           \/ \E m \in appendRequests : HandleAppendEntries(m)
           \/ \E m \in appendResponses : ReceiveAppend(m)
  BY Zenon, <1>2, VoteInvStartElection, VoteInvCheckWon, VoteInvRestart,
     VoteInvHandleRequestVote, VoteInvReceiveVote,
     VoteInvHandleAppendEntries, VoteInvReceiveAppend
<1> QED BY Zenon, <1>1, <1>2 DEF Next

\* The invariant is inductive: every counted vote stays bound in every step.
THEOREM VotesCorrect == Spec => []VoteInv
<1>1. Init => VoteInv
  BY VoteInvInit
<1>2. TypeOK /\ VoteInv /\ [Next]_vars => VoteInv'
  BY Zenon, StepKeepsVotes
<1> QED BY <1>1, <1>2, TypeCorrect, PTL DEF Spec

-----------------------------------------------------------------------------
(* Terms *)

\* What a step does to terms in memory, in storage and in messages.
TermStep ==
  /\ \A n \in Node : disk'[n].term = currentTerm'[n]
  /\ TermsGrow
  /\ \A m \in (voteResponses' \cup appendResponses')
                \ (voteResponses \cup appendResponses) :
       m.respTerm <= currentTerm'[m.to]
  /\ \A m \in (voteRequests' \cup voteResponses')
                \ (voteRequests \cup voteResponses) :
       \/ m.term <= currentTerm'[m.from]
       \/ \E r \in voteRequests : r.from = m.from /\ r.term = m.term

LEMMA TermStepSaves ==
  ASSUME TypeOK, TypeOK', TermsSaved, TermStep
  PROVE  TermsSaved' /\ TermsGrow
<1>1. /\ currentTerm \in [Node -> Nat] /\ currentTerm' \in [Node -> Nat]
      /\ voteRequests \subseteq VoteRequest
      /\ voteResponses \subseteq VoteResponse
      /\ appendResponses \subseteq AppendResponse
  BY Zenon DEF TypeOK
<1>2. \A n \in Node : currentTerm[n] <= currentTerm'[n]
  BY Zenon DEF TermStep, TermsGrow
<1>3. ASSUME NEW m \in voteResponses' \cup appendResponses'
      PROVE  m.respTerm <= currentTerm'[m.to]
  <2>1. CASE m \in voteResponses \cup appendResponses
    <3>1. m.to \in Node /\ m.respTerm \in Nat
      BY Zenon, <1>1, <2>1 DEF VoteResponse, AppendResponse
    <3>2. m.respTerm <= currentTerm[m.to]
      BY Zenon, <2>1 DEF TermsSaved
    <3> QED BY SMTT(30), <1>1, <1>2, <3>1, <3>2
  <2> QED BY Zenon, <1>3, <2>1 DEF TermStep
<1>4. ASSUME NEW m \in voteRequests \cup voteResponses
      PROVE  m.term <= currentTerm'[m.from]
  <2>1. m.from \in Node /\ m.term \in Nat
    BY Zenon, <1>1 DEF VoteRequest, VoteResponse
  <2>2. m.term <= currentTerm[m.from]
    BY Zenon DEF TermsSaved
  <2> QED BY SMTT(30), <1>1, <1>2, <2>1, <2>2
<1>5. ASSUME NEW m \in voteRequests' \cup voteResponses'
      PROVE  m.term <= currentTerm'[m.from]
  BY Zenon, <1>4, <1>5 DEF TermStep
<1> QED BY Zenon, <1>3, <1>5 DEF TermStep, TermsSaved

\* A step that leaves the terms, and sends no votes and no answers.
LEMMA TermsQuiet ==
  ASSUME TypeOK, TermsSaved, UNCHANGED <<currentTerm, disk>>,
         voteRequests' \subseteq voteRequests,
         voteResponses' \subseteq voteResponses,
         appendResponses' \subseteq appendResponses
  PROVE  TermStep
<1>1. /\ \A n \in Node : disk'[n].term = currentTerm'[n]
      /\ TermsGrow
  BY DEF TermsSaved, TermsGrow, TypeOK
<1> QED BY Zenon, <1>1 DEF TermStep

\* stepDown saves the term it adopts.
LEMMA TermsStepDown ==
  ASSUME "save" \notin StorageFaults, TypeOK, TermsSaved, NEW n \in Node,
         NEW newTerm \in Nat, newTerm >= currentTerm[n],
         \E saveOK \in Outcomes("save") : stepDown(n, newTerm, saveOK),
         voteRequests' \subseteq voteRequests,
         voteResponses' \subseteq voteResponses,
         appendResponses' \subseteq appendResponses
  PROVE  TermStep
<1>1. stepDown(n, newTerm, TRUE)
  BY Zenon DEF Outcomes
<1>2. /\ currentTerm' = [currentTerm EXCEPT ![n] = newTerm]
      /\ disk' = [disk EXCEPT ![n] = [term |-> newTerm, vote |-> None]]
  BY Zenon, <1>1 DEF stepDown, Saved
<1>3. /\ \A p \in Node : disk'[p].term = currentTerm'[p]
      /\ TermsGrow
  <2>1. /\ currentTerm \in [Node -> Nat]
        /\ DOMAIN disk = Node /\ \A p \in Node : disk[p].term = currentTerm[p]
    BY Zenon DEF TermsSaved, TypeOK
  <2>2. ASSUME NEW p \in Node
        PROVE  disk'[p].term = currentTerm'[p] /\ currentTerm[p] <= currentTerm'[p]
    BY <1>2, <2>1
  <2> QED BY Zenon, <2>2 DEF TermsGrow
<1> QED BY Zenon, <1>3 DEF TermStep

\* becomeLeader keeps the term, also when it steps down.
LEMMA TermsBecomeLeader ==
  ASSUME "save" \notin StorageFaults, TypeOK, TermsSaved, NEW n \in Node,
         becomeLeader(n),
         voteRequests' \subseteq voteRequests,
         voteResponses' \subseteq voteResponses,
         appendResponses' \subseteq appendResponses
  PROVE  TermStep
<1>1. currentTerm[n] \in Nat /\ currentTerm[n] >= currentTerm[n]
  BY DEF TypeOK
<1>2. \/ UNCHANGED <<currentTerm, disk>>
      \/ \E saveOK \in Outcomes("save") : stepDown(n, currentTerm[n], saveOK)
  BY Zenon DEF becomeLeader, persistVars
<1> QED BY Zenon, <1>1, <1>2, TermsQuiet, TermsStepDown

\* startElection saves the new term before it calls anybody.
LEMMA TermsElection ==
  ASSUME "save" \notin StorageFaults, TypeOK, TermsSaved, NEW n \in Node,
         startElection(n)
  PROVE  TermStep
<1>1. /\ currentTerm' = [currentTerm EXCEPT ![n] = @ + 1]
      /\ disk' = [disk EXCEPT ![n] =
                    [term |-> currentTerm[n] + 1, vote |-> n]]
      /\ voteResponses' = voteResponses /\ appendResponses' = appendResponses
  BY Zenon DEF startElection, appendVars
<1>2. /\ \A p \in Node : disk'[p].term = currentTerm'[p]
      /\ TermsGrow
  <2>1. /\ currentTerm \in [Node -> Nat]
        /\ DOMAIN disk = Node /\ \A p \in Node : disk[p].term = currentTerm[p]
    BY Zenon DEF TermsSaved, TypeOK
  <2>2. ASSUME NEW p \in Node
        PROVE  disk'[p].term = currentTerm'[p] /\ currentTerm[p] <= currentTerm'[p]
    BY SMTT(30), <1>1, <2>1
  <2> QED BY Zenon, <2>2 DEF TermsGrow
<1>3. ASSUME NEW m \in voteRequests', m \notin voteRequests
      PROVE  m.term <= currentTerm'[m.from]
  <2>1. PICK readable \in Readable(n), reached \in SUBSET Peers(n) :
          voteRequests' = voteRequests \cup
            VoteCalls(n, currentTerm[n] + 1, reached, readable)
    BY Zenon DEF startElection
  <2>2. m.from = n /\ m.term = currentTerm[n] + 1
    <3>1. m \in VoteCalls(n, currentTerm[n] + 1, reached, readable)
      BY Zenon, <1>3, <2>1
    <3> QED BY <3>1 DEF VoteCalls
  <2> QED BY <1>1, <2>2 DEF TypeOK
<1> QED BY Zenon, <1>1, <1>2, <1>3 DEF TermStep

\* A voter saves the term that it answers in.
LEMMA TermsHandleVote ==
  ASSUME "save" \notin StorageFaults, TypeOK, TermsSaved,
         NEW m \in voteRequests, HandleRequestVote(m)
  PROVE  TermStep
<1> DEFINE n == m.to
<1>1. /\ n \in Node /\ m.from \in Node /\ m.term \in Nat
      /\ currentTerm \in [Node -> Nat]
      /\ DOMAIN disk = Node /\ \A p \in Node : disk[p].term = currentTerm[p]
  BY Zenon DEF TypeOK, VoteRequest, TermsSaved
<1>2. appendResponses' = appendResponses
  BY Zenon DEF HandleRequestVote, appendVars
<1>3. ASSUME NEW respTerm, NEW granted, ReplyVote(m, respTerm, granted),
             respTerm <= currentTerm'[n],
             \A p \in Node : disk'[p].term = currentTerm'[p], TermsGrow
      PROVE  TermStep
  <2>1. /\ voteRequests' = voteRequests \ {m}
        /\ voteResponses' = voteResponses \cup
             {[from |-> m.from, to |-> n, term |-> m.term,
               respTerm |-> respTerm, granted |-> granted]}
    BY Zenon, <1>3 DEF ReplyVote
  <2>2. ASSUME NEW r \in voteResponses', r \notin voteResponses
        PROVE  /\ r.respTerm <= currentTerm'[r.to]
               /\ r.from = m.from /\ r.term = m.term
    BY SMTT(30), <1>3, <2>1, <2>2
  <2> QED BY Zenon, <1>2, <1>3, <2>1, <2>2 DEF TermStep
<1>4. CASE UNCHANGED persistVars /\ ReplyVote(m, currentTerm[n], FALSE)
  <2>1. /\ currentTerm[n] <= currentTerm'[n]
        /\ \A p \in Node : disk'[p].term = currentTerm'[p]
        /\ TermsGrow
    BY <1>1, <1>4 DEF persistVars, TermsGrow
  <2> QED BY Zenon, <1>3, <1>4, <2>1
<1>5. ASSUME m.term >= currentTerm[n], NEW granted, Vote(m, granted, TRUE)
      PROVE  TermStep
  <2>1. /\ currentTerm' = [currentTerm EXCEPT ![n] = m.term]
        /\ \E vote : disk' = [disk EXCEPT ![n] =
             Saved(n, m.term, vote, granted \/ m.term > currentTerm[n])]
        /\ ReplyVote(m, m.term, granted)
    BY Zenon, <1>5 DEF Vote
  <2>2. PICK vote : disk' = [disk EXCEPT ![n] =
             Saved(n, m.term, vote, granted \/ m.term > currentTerm[n])]
    BY Zenon, <2>1
  <2>3. Saved(n, m.term, vote, granted \/ m.term > currentTerm[n]).term = m.term
    BY SMTT(30), <1>1, <1>5 DEF Saved
  <2> HIDE DEF n
  <2>4. ASSUME NEW p \in Node
        PROVE  disk'[p].term = currentTerm'[p] /\ currentTerm[p] <= currentTerm'[p]
    BY SMTT(30), <1>1, <1>5, <2>1, <2>2, <2>3
  <2>5. m.term <= currentTerm'[n]
    BY <1>1, <2>1
  <2> QED BY Zenon, <1>3, <2>1, <2>4, <2>5 DEF TermsGrow
<1>6. Outcomes("save") = {TRUE}
  BY Zenon DEF Outcomes
<1> QED BY Zenon, <1>4, <1>5, <1>6 DEF HandleRequestVote

\* A follower saves the term that it answers in.
LEMMA TermsHandleAppend ==
  ASSUME "save" \notin StorageFaults, TypeOK, TermsSaved,
         NEW m \in appendRequests, HandleAppendEntries(m)
  PROVE  TermStep
<1> DEFINE n == m.to
<1>1. /\ n \in Node /\ m.term \in Nat
      /\ currentTerm \in [Node -> Nat]
      /\ DOMAIN disk = Node /\ \A p \in Node : disk[p].term = currentTerm[p]
  BY Zenon DEF TypeOK, AppendRequest, TermsSaved
<1>2. UNCHANGED <<voteRequests, voteResponses>>
  BY Zenon DEF HandleAppendEntries, voteVars
<1>3. ASSUME NEW respTerm, NEW success, NEW conflict,
             ReplyAppend(m, respTerm, success, conflict),
             respTerm <= currentTerm'[n],
             \A p \in Node : disk'[p].term = currentTerm'[p], TermsGrow
      PROVE  TermStep
  <2>1. ASSUME NEW r \in appendResponses', r \notin appendResponses
        PROVE  r.respTerm <= currentTerm'[r.to]
    BY SMTT(30), <1>3, <2>1 DEF ReplyAppend
  <2> QED BY Zenon, <1>2, <1>3, <2>1 DEF TermStep
<1>4. CASE UNCHANGED persistVars /\ ReplyAppend(m, currentTerm[n], FALSE, <<0, 0>>)
  <2>1. /\ currentTerm[n] <= currentTerm'[n]
        /\ \A p \in Node : disk'[p].term = currentTerm'[p]
        /\ TermsGrow
    BY SMTT(30), <1>1, <1>4 DEF persistVars, TermsGrow
  <2> QED BY Zenon, <1>3, <1>4, <2>1
<1>5. ASSUME m.term >= currentTerm[n], Follow(m, TRUE),
             NEW success, NEW conflict,
             ReplyAppend(m, m.term, success, conflict)
      PROVE  TermStep
  <2>1. /\ currentTerm' = [currentTerm EXCEPT ![n] = m.term]
        /\ disk' = [disk EXCEPT ![n] =
                      Saved(n, m.term, None, m.term > currentTerm[n] /\ TRUE)]
    BY Zenon, <1>5 DEF Follow
  <2>2. Saved(n, m.term, None, m.term > currentTerm[n] /\ TRUE).term = m.term
    BY SMTT(30), <1>1, <1>5 DEF Saved
  <2> HIDE DEF n
  <2>3. ASSUME NEW p \in Node
        PROVE  disk'[p].term = currentTerm'[p] /\ currentTerm[p] <= currentTerm'[p]
    BY SMTT(30), <1>1, <1>5, <2>1, <2>2
  <2>4. m.term <= currentTerm'[n]
    BY <1>1, <2>1
  <2> QED BY Zenon, <1>3, <1>5, <2>3, <2>4 DEF TermsGrow
<1>6. Outcomes("save") = {TRUE}
  BY DEF Outcomes
<1>7. \/ UNCHANGED persistVars /\ ReplyAppend(m, currentTerm[n], FALSE, <<0, 0>>)
      \/ /\ m.term >= currentTerm[n] /\ Follow(m, TRUE)
         /\ \E success, conflict : ReplyAppend(m, m.term, success, conflict)
  BY Zenon, <1>6 DEF HandleAppendEntries, AcceptEntries
<1> QED BY Zenon, <1>4, <1>5, <1>7

\* While no save fails, no term goes back, in memory or in storage.
LEMMA TermsSavedStep ==
  ASSUME "save" \notin StorageFaults, TypeOK, TypeOK', TermsSaved, [Next]_vars
  PROVE  TermsSaved' /\ TermsGrow
<1> SUFFICES TermStep
  BY Zenon, TermStepSaves
<1>1. CASE \/ UNCHANGED vars
           \/ \E n \in Node : \/ TimerFires(n)
                              \/ sendHeartbeats(n)
                              \/ \E c \in Command : Propose(n, c)
                              \/ leaderLoopReturns(n)
           \/ \E c \in appendCalls : sendAppendEntries(c)
           \/ LoseRPC
  <2>1. /\ UNCHANGED persistVars
        /\ voteRequests' \subseteq voteRequests
        /\ voteResponses' \subseteq voteResponses
        /\ appendResponses' \subseteq appendResponses
    BY Zenon, <1>1
    DEF vars, TimerFires, sendHeartbeats, leaderLoopReturns, Propose,
        sendAppendEntries, LoseRPC, voteVars, appendVars
  <2> QED BY Zenon, <2>1, TermsQuiet DEF persistVars
<1>2. ASSUME NEW n \in Node, CheckWon(n) PROVE TermStep
  BY Zenon, <1>2, TermsBecomeLeader DEF CheckWon, voteVars, appendVars
<1>3. ASSUME NEW m \in voteResponses, ReceiveVote(m) PROVE TermStep
  <2>1. m.from \in Node /\ m.respTerm \in Nat /\ currentTerm[m.from] \in Nat
    BY Zenon, VoteTypes DEF VoteResponse
  <2>2. /\ voteRequests' \subseteq voteRequests
        /\ voteResponses' \subseteq voteResponses
        /\ appendResponses' \subseteq appendResponses
    BY Zenon, <1>3 DEF ReceiveVote, appendVars
  <2>3. \/ becomeLeader(m.from)
        \/ /\ m.respTerm > currentTerm[m.from]
           /\ \E saveOK \in Outcomes("save") :
                stepDown(m.from, m.respTerm, saveOK)
        \/ UNCHANGED persistVars
    BY Zenon, <1>3 DEF ReceiveVote
  <2>4. m.respTerm > currentTerm[m.from] => m.respTerm >= currentTerm[m.from]
    BY SMTT(30), <2>1
  <2> QED BY Zenon, <2>1, <2>2, <2>3, <2>4, TermsBecomeLeader, TermsStepDown,
             TermsQuiet DEF persistVars
<1>4. ASSUME NEW m \in appendResponses, ReceiveAppend(m) PROVE TermStep
  <2>1. m.from \in Node /\ m.respTerm \in Nat /\ currentTerm[m.from] \in Nat
    BY Zenon DEF TypeOK, AppendResponse
  <2>2. /\ voteRequests' \subseteq voteRequests
        /\ voteResponses' \subseteq voteResponses
        /\ appendResponses' \subseteq appendResponses
    BY Zenon, <1>4 DEF ReceiveAppend, voteVars, Taken
  <2>3. \/ /\ m.respTerm > currentTerm[m.from]
           /\ \E saveOK \in Outcomes("save") :
                stepDown(m.from, m.respTerm, saveOK)
        \/ UNCHANGED persistVars
    BY Zenon, <1>4 DEF ReceiveAppend
  <2>4. m.respTerm > currentTerm[m.from] => m.respTerm >= currentTerm[m.from]
    BY <2>1
  <2> QED BY Zenon, <2>1, <2>2, <2>3, <2>4, TermsStepDown, TermsQuiet DEF persistVars
<1>5. ASSUME NEW n \in Node, Restart(n) PROVE TermStep
  <2>1. /\ voteRequests' \subseteq voteRequests
        /\ voteResponses' \subseteq voteResponses
        /\ appendResponses' \subseteq appendResponses
        /\ disk' = disk
    BY Zenon, <1>5 DEF Restart
  <2>2. currentTerm' = currentTerm
    <3>1. currentTerm' = [currentTerm EXCEPT ![n] = currentTerm[n]]
      BY Zenon, <1>5 DEF Restart, TermsSaved
    <3> QED BY Zenon, <3>1 DEF TypeOK
  <2> QED BY Zenon, <2>1, <2>2, TermsQuiet
<1> QED
  BY Zenon, <1>1, <1>2, <1>3, <1>4, <1>5, TermsElection, TermsHandleVote,
     TermsHandleAppend DEF Next
=============================================================================
