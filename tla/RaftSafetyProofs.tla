-------------------------- MODULE RaftSafetyProofs --------------------------
(***************************************************************************)
(* Commitment, for every set of nodes and of commands, every combination   *)
(* of crashes and of failing appends and truncations, and all bounds: what *)
(* a quorum has acknowledged to a leader, every later leader has.  So what *)
(* is committed stays so, all nodes agree on it, a quorum stores it, and   *)
(* the newest leader has it.  The saves must not fail, because stepDown    *)
(* drops their errors, and the entries must be readable, as in             *)
(* RaftReignProofs.                                                        *)
(***************************************************************************)
EXTENDS RaftReignProofs

-----------------------------------------------------------------------------
(* Records of reigns and of acknowledgements *)

IsRecord(R) == \A t \in DOMAIN R : t \in Nat /\ R[t] \in Seq(Entry)

\* S follows R in a step: a leader adds entries of its own term only.
RecordStep(R, S) ==
  /\ IsRecord(R) /\ IsRecord(S) /\ Grows(R, S)
  /\ \A u \in DOMAIN R : \A i \in 1..Len(S[u]) :
       i > Len(R[u]) => S[u][i].term = u

\* What agrees with the log of a leader goes on to.
LEMMA AgreeKept ==
  ASSUME NEW R, NEW S, RecordStep(R, S), NEW t \in DOMAIN R, NEW s,
         NEW k \in Nat, Agree(s, R[t], k)
  PROVE  t \in DOMAIN S /\ Agree(s, S[t], k)
<1>1. /\ t \in DOMAIN S /\ R[t] \in Seq(Entry) /\ S[t] \in Seq(Entry)
      /\ Agree(S[t], R[t], Len(R[t])) /\ k <= Len(R[t]) /\ Len(R[t]) \in Nat
  BY DEF RecordStep, IsRecord, Grows, Agree
<1>2. Agree(R[t], S[t], k)
  BY Zenon, <1>1, AgreeLess, AgreeSym
<1> QED BY Zenon, <1>1, <1>2, AgreeTrans

\* So do the indices of a leader's own term.
LEMMA OwnKept ==
  ASSUME NEW R, NEW S, RecordStep(R, S), NEW t \in DOMAIN R
  PROVE  /\ t \in DOMAIN S
         /\ OwnIndices(R, t) \subseteq OwnIndices(S, t)
         /\ \A i \in OwnIndices(S, t) :
              i <= Len(R[t]) => i \in OwnIndices(R, t)
<1>1. /\ t \in DOMAIN S /\ R[t] \in Seq(Entry) /\ S[t] \in Seq(Entry)
      /\ Agree(S[t], R[t], Len(R[t]))
  BY Zenon DEF RecordStep, IsRecord, Grows
<1>2. /\ Len(R[t]) \in Nat /\ Len(S[t]) \in Nat /\ Len(R[t]) <= Len(S[t])
      /\ \A i \in 1..Len(R[t]) : S[t][i] = R[t][i]
  BY <1>1 DEF Agree
<1>3. ASSUME NEW i PROVE i \in OwnIndices(R, t) => i \in OwnIndices(S, t)
  BY <1>2 DEF OwnIndices
<1>4. ASSUME NEW i, i \in OwnIndices(S, t), i <= Len(R[t])
      PROVE  i \in OwnIndices(R, t)
  BY <1>2, <1>4 DEF OwnIndices
<1> QED BY Zenon, <1>1, <1>3, <1>4

\* A leader cannot come to agree with an earlier one on an entry of that one's
\* term: what it adds is of its own.
LEMMA AgreeBack ==
  ASSUME NEW R, NEW S, RecordStep(R, S), NEW t \in DOMAIN R, NEW u \in DOMAIN R,
         t # u, NEW i \in OwnIndices(R, t), Agree(S[u], S[t], i)
  PROVE  Agree(R[u], R[t], i)
<1>1. /\ R[t] \in Seq(Entry) /\ S[t] \in Seq(Entry)
      /\ R[u] \in Seq(Entry) /\ S[u] \in Seq(Entry)
      /\ Agree(S[t], R[t], Len(R[t])) /\ Agree(S[u], R[u], Len(R[u]))
  BY Zenon DEF RecordStep, IsRecord, Grows
<1>2. /\ i \in 1..Len(R[t]) /\ R[t][i].term = t
      /\ Len(R[u]) \in Nat /\ Len(R[t]) \in Nat
  BY <1>1 DEF OwnIndices
<1>3. S[t][i] = R[t][i] /\ i \in 1..Len(S[u]) /\ S[u][i] = S[t][i]
  BY <1>1, <1>2 DEF Agree
<1>4. i <= Len(R[u])
  BY <1>2, <1>3 DEF RecordStep
<1>5. Agree(R[u], S[u], i) /\ Agree(S[t], R[t], i)
  <2>1. i \in Nat /\ i <= Len(R[t])
    BY <1>2
  <2> QED BY Zenon, <1>1, <1>2, <1>4, <2>1, AgreeLess, AgreeSym
<1> QED BY Zenon, <1>5, AgreeTrans

\* What is lost stays lost.
LEMMA LostStays ==
  ASSUME NEW R, NEW S, RecordStep(R, S), NEW t \in DOMAIN R,
         NEW i \in OwnIndices(R, t), NEW b \in Nat, NEW c \in Nat, b <= c,
         Lost(R, t, i, b)
  PROVE  Lost(S, t, i, c)
<1>1. PICK u \in DOMAIN R : t < u /\ u <= b /\ ~Agree(R[u], R[t], i)
  BY Zenon DEF Lost
<1>2. u \in DOMAIN S /\ u \in Nat /\ t \in Nat
  BY Zenon DEF RecordStep, IsRecord, Grows
<1>3. u <= c /\ t # u
  BY <1>1, <1>2
<1>4. ~Agree(S[u], S[t], i)
  BY Zenon, <1>1, <1>3, AgreeBack
<1> QED BY Zenon, <1>1, <1>2, <1>3, <1>4 DEF Lost

\* What is committed stays committed.
LEMMA CommittedStays ==
  ASSUME NEW R, NEW S, RecordStep(R, S), NEW A, NEW B, A \subseteq B,
         NEW t, NEW i, CommittedAt(R, A, t, i)
  PROVE  CommittedAt(S, B, t, i)
<1>1. t \in DOMAIN R /\ i \in OwnIndices(R, t)
  BY Zenon DEF CommittedAt
<1>2. t \in DOMAIN S /\ i \in OwnIndices(S, t)
  BY Zenon, <1>1, OwnKept
<1>3. \A v : HasAcked(A, v, t, i) => HasAcked(B, v, t, i)
  BY Zenon DEF HasAcked
<1> QED BY Zenon, <1>2, <1>3 DEF CommittedAt

\* A log that keeps what is committed of another has it committed.
LEMMA SettledStays ==
  ASSUME NEW R, NEW S, RecordStep(R, S), NEW A, NEW B, A \subseteq B,
         NEW s, NEW w, NEW k \in Nat, NEW b \in Nat, NEW c \in Nat, b <= c,
         k > 0 => Agree(w, s, k), Settled(R, A, s, k, b)
  PROVE  Settled(S, B, w, k, c)
<1> SUFFICES ASSUME k > 0
             PROVE  \E t \in DOMAIN S : \E i \in OwnIndices(S, t) :
                      /\ t <= c /\ k <= i
                      /\ CommittedAt(S, B, t, i)
                      /\ Agree(w, S[t], k)
  BY Zenon DEF Settled
<1>1. PICK t \in DOMAIN R : \E i \in OwnIndices(R, t) :
             /\ t <= b /\ k <= i
             /\ CommittedAt(R, A, t, i)
             /\ Agree(s, R[t], k)
  BY Zenon DEF Settled
<1>2. PICK i \in OwnIndices(R, t) :
             /\ t <= b /\ k <= i
             /\ CommittedAt(R, A, t, i)
             /\ Agree(s, R[t], k)
  BY Zenon, <1>1
<1>3. t \in DOMAIN S /\ i \in OwnIndices(S, t) /\ CommittedAt(S, B, t, i)
  BY Zenon, <1>2, OwnKept, CommittedStays
<1>4. t <= c
  BY <1>2 DEF RecordStep, IsRecord
<1>5. Agree(w, R[t], k)
  BY Zenon, <1>2, AgreeTrans
<1>6. Agree(w, S[t], k)
  BY Zenon, <1>5, AgreeKept
<1> QED BY Zenon, <1>2, <1>3, <1>4, <1>6

-----------------------------------------------------------------------------
(* The steps, with the history *)

\* The leader n of a term, old or new, has the entry e more.
Extends(n, e) ==
  /\ DOMAIN reign' = DOMAIN reign \cup {currentTerm[n]}
  /\ reign'[currentTerm[n]] = Append(log[n], e)
  /\ \A t \in DOMAIN reign \ {currentTerm[n]} : reign'[t] = reign[t]
  /\ currentTerm[n] \in DOMAIN reign =>
       state[n] = "Leader" /\ reign[currentTerm[n]] = log[n]

HistoryStep ==
  \/ QuietStep /\ reign' = reign
  \/ \E n \in Node, e \in Entry : AppendStep(n, e) /\ Extends(n, e)
  \/ \E m \in appendRequests : \E o : AcceptStep(m, o) /\ reign' = reign

\* What the lemmas below assume of a step: the invariants of elections and of
\* logs before and after it, and what it does to the history.
SafeStep ==
  /\ MinMax /\ "read" \notin StorageFaults /\ "save" \notin StorageFaults
  /\ TypeOK /\ LogInv /\ VoteInv /\ LeaderIsElected /\ SenderElected
  /\ TypeOK' /\ LogInv' /\ VoteInv'
  /\ [Next]_vars /\ HistoryStep /\ RecordStep(reign, reign') /\ TermsGrow
  /\ acks' = acks \cup Acked'

LEMMA StepIsSafe ==
  ASSUME MinMax, "read" \notin StorageFaults, "save" \notin StorageFaults,
         TypeInv, TypeOK', VoteInv, VoteInv', ElectionSafety', LeaderIsElected,
         LeaderIsElected', ElectedStays, SenderElected, LogInv, LogInv',
         TermsGrow, Acked \subseteq acks, [NextC]_varsC
  PROVE  SafeStep
<1>1. [Next]_vars /\ TypeOK /\ ReignInv /\ ReignInv' /\ RequestInv
  BY Zenon DEF NextC, varsC, TypeInv, LogInv
<1>2. LogStep
  BY Zenon, <1>1, StepKinds
<1>3. IsRecord(reign) /\ IsRecord(reign')
  BY Zenon, <1>1 DEF ReignInv, IsRecord
<1>4. reign' = reign => RecordStep(reign, reign')
  BY <1>3 DEF RecordStep, IsRecord, Grows, Agree
<1>5. CASE UNCHANGED varsC
  <2>1. /\ reign' = reign /\ acks' = acks
        /\ UNCHANGED <<log, state, currentTerm, appendResponses>>
    BY Zenon, <1>5 DEF varsC, vars, persistVars, appendVars
  <2>2. QuietStep
    BY Zenon, <2>1 DEF QuietStep, LeadersGoOn
  <2>3. Acked' = Acked
    BY Zenon, <2>1 DEF Acked, Leaders
  <2> QED BY Zenon, <1>1, <1>4, <2>1, <2>2, <2>3 DEF SafeStep, HistoryStep
<1>6. CASE RecordReign /\ acks' = acks \cup Acked'
  <2>1. CASE QuietStep
    <3>1. reign' = reign
      BY Zenon, <1>1, <1>6, <2>1, ReignQuiet DEF QuietStep
    <3> QED BY Zenon, <1>1, <1>4, <1>6, <2>1, <3>1 DEF SafeStep, HistoryStep
  <2>2. ASSUME NEW n \in Node, NEW e \in Entry, AppendStep(n, e)
        PROVE  SafeStep
    <3> DEFINE T == currentTerm[n]
    <3>1. Extends(n, e) /\ Grows(reign, reign')
      BY Zenon, <1>1, <1>6, <2>2, ReignAppend DEF Extends
    <3>2. /\ reign'[T] = Append(log[n], e) /\ e.term = T
          /\ \A t \in DOMAIN reign \ {T} : reign'[t] = reign[t]
          /\ T \in DOMAIN reign => reign[T] = log[n]
          /\ log[n] \in Seq(Entry)
      BY Zenon, <1>1, <2>2, <3>1, ReignTypes DEF Extends, AppendStep
    <3> HIDE DEF T
    <3>3. ASSUME NEW u \in DOMAIN reign, NEW i \in 1..Len(reign'[u]),
                 i > Len(reign[u])
          PROVE  reign'[u][i].term = u
      BY SMTT(30), <1>3, <3>2, <3>3 DEF IsRecord
    <3>4. RecordStep(reign, reign')
      BY <1>3, <3>1, <3>3 DEF RecordStep
    <3> QED BY Zenon, <1>1, <1>6, <2>2, <3>1, <3>4 DEF SafeStep, HistoryStep
  <2>3. ASSUME NEW m \in appendRequests, NEW o, AcceptStep(m, o)
        PROVE  SafeStep
    <3>1. /\ m.to \in Node /\ log'[m.to] = o[1]
          /\ \A p \in Node \ {m.to} : log'[p] = log[p]
      BY Zenon, <1>1, <2>3, AcceptFollows
    <3>2. \A n \in Node : state'[n] = "Leader" => log'[n] = log[n]
      BY Zenon, <2>3, <3>1 DEF AcceptStep
    <3>3. reign' = reign
      BY Zenon, <1>1, <1>6, <2>3, <3>2, ReignQuiet DEF AcceptStep
    <3> QED BY Zenon, <1>1, <1>4, <1>6, <2>3, <3>3 DEF SafeStep, HistoryStep
  <2> QED BY Zenon, <1>2, <2>1, <2>2, <2>3 DEF LogStep
<1> QED BY Zenon, <1>5, <1>6 DEF NextC

\* Types, and the invariant on reigns, for the steps below.
LEMMA SafeTypes ==
  ASSUME SafeStep
  PROVE  /\ log \in [Node -> Seq(Entry)] /\ log' \in [Node -> Seq(Entry)]
         /\ currentTerm \in [Node -> Nat] /\ currentTerm' \in [Node -> Nat]
         /\ \A n \in Node : currentTerm[n] <= currentTerm'[n]
         /\ IsRecord(reign) /\ IsRecord(reign')
         /\ RecordStep(reign, reign') /\ DOMAIN reign \subseteq DOMAIN reign'
         /\ acks \subseteq acks'
BY Zenon DEF SafeStep, TypeOK, RecordStep, Grows, TermsGrow

\* A log keeps what it has of a leader's log, unless a later leader, whose
\* term the node has reached, has something else there.
LEMMA LogsKeep ==
  ASSUME SafeStep, NEW v \in Node, NEW t \in DOMAIN reign, NEW k \in Nat,
         Agree(log[v], reign[t], k), t <= currentTerm[v]
  PROVE  Agree(log'[v], reign[t], k) \/ Lost(reign, t, k, currentTerm'[v])
<1>1. CASE log'[v] = log[v]
  BY Zenon, <1>1
<1>2. ASSUME NEW n \in Node, NEW e \in Entry, AppendStep(n, e)
      PROVE  Agree(log'[v], reign[t], k)
  <2>1. /\ log \in [Node -> Seq(Entry)] /\ k <= Len(log[v])
        /\ log' = [log EXCEPT ![n] = Append(@, e)]
        /\ reign[t] \in Seq(Entry)
    BY Zenon, <1>2, SafeTypes DEF AppendStep, Agree, IsRecord
  <2>2. Agree(log'[v], log[v], k)
    BY <2>1 DEF Agree
  <2> QED BY Zenon, <2>2, AgreeTrans
<1>3. ASSUME NEW m \in appendRequests, NEW o, AcceptStep(m, o), v = m.to
      PROVE  Agree(log'[v], reign[t], k) \/ Lost(reign, t, k, currentTerm'[v])
  <2> DEFINE u == m.term
  <2>1. /\ u \in DOMAIN reign /\ log'[v] = o[1] /\ Follows(log[v], reign[u], o[1])
        /\ u >= currentTerm[v] /\ currentTerm'[v] = u
    <3>1. MinMax /\ TypeOK /\ ReignInv /\ RequestInv
      BY Zenon DEF SafeStep, LogInv
    <3>2. m.term >= currentTerm[m.to] /\ currentTerm'[m.to] = m.term
      BY Zenon, <1>3 DEF AcceptStep
    <3> QED BY Zenon, <1>3, <3>1, <3>2, AcceptFollows
  <2>2. u \in Nat /\ t \in Nat /\ currentTerm[v] \in Nat
    BY Zenon, <2>1, SafeTypes DEF IsRecord
  <2>3. Agree(log[v], reign[u], k) => Agree(log'[v], reign[u], k)
    BY Zenon, <2>1 DEF Follows
  <2> HIDE DEF u
  <2>4. CASE Agree(reign[u], reign[t], k)
    <3>1. Agree(log[v], reign[u], k)
      BY Zenon, <2>4, AgreeSym, AgreeTrans
    <3> QED BY Zenon, <2>3, <2>4, <3>1, AgreeTrans
  <2>5. CASE ~Agree(reign[u], reign[t], k) /\ u # t
    BY <2>1, <2>2, <2>5 DEF Lost
  <2>6. CASE u = t
    BY Zenon, <2>3, <2>6
  <2> QED BY Zenon, <2>4, <2>5, <2>6
<1>4. ASSUME NEW m \in appendRequests, NEW o, AcceptStep(m, o), v # m.to
      PROVE  log'[v] = log[v]
  BY Zenon, <1>4, AcceptFollows DEF SafeStep, LogInv
<1> QED BY Zenon, <1>1, <1>2, <1>3, <1>4 DEF SafeStep, HistoryStep, QuietStep

-----------------------------------------------------------------------------
(* Terms along the logs, and acknowledgements *)

\* The entries of a log that agrees with another have the other's terms.
LEMMA TermInvStep ==
  ASSUME SafeStep, TermInv
  PROVE  TermInv'
<1> USE SafeTypes
<1>0. /\ \A n \in Node : \A i \in 1..Len(log[n]) :
           log[n][i].term \in Nat /\ log[n][i].term <= currentTerm[n]
      /\ \A t \in DOMAIN reign : \A i \in 1..Len(reign[t]) :
           reign[t][i].term \in Nat /\ reign[t][i].term <= t
  <2>1. ASSUME NEW s \in Seq(Entry), NEW i \in 1..Len(s)
        PROVE  s[i].term \in Nat
    <3>1. s[i] \in Entry
      OBVIOUS
    <3> QED BY Zenon, <3>1 DEF Entry
  <2>2. /\ \A n \in Node : log[n] \in Seq(Entry)
        /\ \A t \in DOMAIN reign : reign[t] \in Seq(Entry)
    BY Zenon DEF IsRecord
  <2> QED BY Zenon, <2>1, <2>2 DEF TermInv
<1>1. ASSUME NEW n \in Node, log'[n] = log[n], NEW i \in 1..Len(log'[n])
      PROVE  log'[n][i].term <= currentTerm'[n]
  <2>1. currentTerm[n] \in Nat /\ currentTerm'[n] \in Nat
        /\ currentTerm[n] <= currentTerm'[n]
    BY Zenon
  <2> QED BY <1>0, <1>1, <2>1
<1>2. CASE QuietStep /\ reign' = reign
  BY Zenon, <1>0, <1>1, <1>2 DEF QuietStep, TermInv
<1>3. ASSUME NEW n \in Node, NEW e \in Entry, AppendStep(n, e), Extends(n, e)
      PROVE  TermInv'
  <2> DEFINE T == currentTerm[n]
  <2>1. /\ e.term = T /\ log' = [log EXCEPT ![n] = Append(@, e)]
        /\ currentTerm' = currentTerm
        /\ DOMAIN reign' = DOMAIN reign \cup {T}
        /\ reign'[T] = Append(log[n], e)
        /\ \A t \in DOMAIN reign \ {T} : reign'[t] = reign[t]
    BY Zenon, <1>3 DEF AppendStep, Extends
  <2>2. \A i \in 1..Len(Append(log[n], e)) : Append(log[n], e)[i].term <= T
    <3>1. log[n] \in Seq(Entry) /\ T \in Nat
      BY Zenon
    <3> HIDE DEF T
    <3>2. \A i \in 1..Len(log[n]) : log[n][i].term <= T
      BY Zenon, <1>0 DEF T
    <3> QED BY <2>1, <3>1, <3>2
  <2>3. \A p \in Node : \A i \in 1..Len(log'[p]) : log'[p][i].term <= currentTerm'[p]
    BY Zenon, <1>1, <2>1, <2>2
  <2>4. \A t \in DOMAIN reign' : \A i \in 1..Len(reign'[t]) : reign'[t][i].term <= t
    <3> HIDE DEF T
    <3> QED BY Zenon, <1>0, <2>1, <2>2
  <2> QED BY Zenon, <2>3, <2>4 DEF TermInv
<1>4. ASSUME NEW m \in appendRequests, NEW o, AcceptStep(m, o), reign' = reign
      PROVE  TermInv'
  <2> DEFINE v == m.to
             u == m.term
  <2>1. MinMax /\ TypeOK /\ ReignInv /\ RequestInv
    BY Zenon DEF SafeStep, LogInv
  <2>2. /\ u \in DOMAIN reign /\ v \in Node
        /\ log'[v] = o[1] /\ \A p \in Node \ {v} : log'[p] = log[p]
        /\ Follows(log[v], reign[u], o[1])
    BY <1>4, <2>1, AcceptFollows
  <2>3. currentTerm'[v] = u
    BY Zenon, <1>4 DEF AcceptStep
  <2> HIDE DEF u, v
  <2>4. CASE Agree(o[1], reign[u], Len(o[1]))
    <3>1. \A i \in 1..Len(log'[v]) : log'[v][i].term <= currentTerm'[v]
      <4>1. o[1] \in Seq(Entry) /\ reign[u] \in Seq(Entry)
        BY Zenon, <2>2 DEF Follows, IsRecord
      <4>2. Len(o[1]) \in Nat /\ Len(reign[u]) \in Nat
            /\ Len(o[1]) <= Len(reign[u])
            /\ \A i \in 1..Len(o[1]) : o[1][i] = reign[u][i]
        BY <2>4, <4>1 DEF Agree
      <4>3. \A i \in 1..Len(o[1]) : i \in 1..Len(reign[u])
        BY <4>2
      <4>4. \A i \in 1..Len(o[1]) : reign[u][i].term <= u
        BY Zenon, <1>0, <2>2, <4>3
      <4> QED BY Zenon, <2>2, <2>3, <4>2, <4>4
    <3> QED BY Zenon, <1>0, <1>1, <1>4, <2>2, <3>1 DEF TermInv
  <2>5. CASE o[1] = log[v]
    BY Zenon, <1>0, <1>1, <1>4, <2>2, <2>5 DEF TermInv
  <2> QED BY <2>2, <2>4, <2>5 DEF Follows
<1> QED BY Zenon, <1>2, <1>3, <1>4 DEF SafeStep, HistoryStep

\* A new answer that reports success tells that the one who gives it has the
\* leader's log through the last index that was sent.
LEMMA AnswerIsFresh ==
  ASSUME SafeStep, NEW r \in appendResponses', r \notin appendResponses,
         r.success
  PROVE  LET i == r.prevLogIndex + r.sent
         IN /\ r.to \in Node /\ r.term \in DOMAIN reign
            /\ r.term = currentTerm'[r.to]
            /\ i \in OwnIndices(reign, r.term)
            /\ Agree(log'[r.to], reign[r.term], i)
<1>1. /\ "read" \notin StorageFaults /\ LeaderIsElected /\ SenderElected
      /\ MinMax /\ TypeOK /\ ReignInv /\ RequestInv /\ [Next]_vars
  BY Zenon DEF SafeStep, LogInv
<1>2. PICK m \in appendRequests : HandleAppendEntries(m)
  BY Zenon, <1>1, MessagesFrom
<1>3. ASSUME NEW t, NEW ok, NEW c, ReplyAppend(m, t, ok, c)
      PROVE  /\ r.to = m.to /\ r.term = m.term /\ r.success = ok
             /\ r.prevLogIndex + r.sent = LastSent(m)
  <2>1. r = [from |-> m.from, to |-> m.to, term |-> m.term,
             prevLogIndex |-> m.prevLogIndex, sent |-> Len(m.entries),
             respTerm |-> t, success |-> ok,
             conflictIndex |-> c[1], conflictTerm |-> c[2]]
    BY Zenon, <1>3 DEF ReplyAppend
  <2>2. /\ r.to = m.to /\ r.term = m.term /\ r.success = ok
        /\ r.prevLogIndex = m.prevLogIndex /\ r.sent = Len(m.entries)
    BY Zenon, <2>1
  <2> QED BY Zenon, <2>2 DEF LastSent
<1>4. PICK o : AcceptStep(m, o)
  <2>1. ~RejectStep(m)
    BY Zenon, <1>3 DEF RejectStep
  <2> QED BY Zenon, <1>1, <1>2, <2>1, HandleAppendStep
<1>5. /\ r.to = m.to /\ r.term = m.term /\ o[2]
      /\ r.prevLogIndex + r.sent = LastSent(m)
  BY Zenon, <1>3, <1>4 DEF AcceptStep
<1>6. /\ m.term \in DOMAIN reign /\ m.to \in Node /\ log'[m.to] = o[1]
      /\ Agree(o[1], reign[m.term], LastSent(m))
  BY Zenon, <1>1, <1>4, <1>5, AcceptFollows
<1>7. currentTerm'[m.to] = m.term
  BY Zenon, <1>4 DEF AcceptStep
<1>8. LastSent(m) \in OwnIndices(reign, m.term)
  BY Zenon, <1>1 DEF RequestInv, Carries, OwnIndices
<1> QED BY Zenon, <1>5, <1>6, <1>7, <1>8

\* A new acknowledgement is of the node's term, and true.
FreshAck(a) ==
  /\ a.node \in Node /\ a.term = currentTerm'[a.node]
  /\ a.term \in DOMAIN reign' /\ a.index \in OwnIndices(reign', a.term)
  /\ Agree(log'[a.node], reign'[a.term], a.index)

LEMMA AcksAreFresh ==
  ASSUME SafeStep, AckInv, NEW a \in acks', a \notin acks
  PROVE  FreshAck(a)
<1>1. a \in Acked' /\ Acked \subseteq acks
  BY Zenon DEF SafeStep, AckInv
<1>2. ASSUME NEW r \in appendResponses', r.success,
             a = [node |-> r.to, term |-> r.term,
                  index |-> r.prevLogIndex + r.sent]
      PROVE  FreshAck(a)
  <2> DEFINE i == r.prevLogIndex + r.sent
  <2>1. r \notin appendResponses
    BY Zenon, <1>1, <1>2 DEF Acked
  <2>2. /\ r.to \in Node /\ r.term \in DOMAIN reign
        /\ r.term = currentTerm'[r.to]
        /\ i \in OwnIndices(reign, r.term)
        /\ Agree(log'[r.to], reign[r.term], i)
    BY Zenon, <1>2, <2>1, AnswerIsFresh
  <2> HIDE DEF i
  <2>3. i \in Nat
    BY <2>2 DEF OwnIndices
  <2>4. /\ r.term \in DOMAIN reign' /\ i \in OwnIndices(reign', r.term)
        /\ Agree(log'[r.to], reign'[r.term], i)
    BY Zenon, <2>2, <2>3, SafeTypes, OwnKept, AgreeKept
  <2>5. a.node = r.to /\ a.term = r.term /\ a.index = i
    BY Zenon, <1>2 DEF i
  <2> QED BY Zenon, <2>2, <2>4, <2>5 DEF FreshAck
<1>3. ASSUME NEW n \in Node, state'[n] = "Leader",
             a = [node |-> n, term |-> currentTerm'[n], index |-> Len(log'[n])]
      PROVE  FreshAck(a)
  <2>1. ReignInv' /\ log'[n] \in Seq(Entry)
    BY Zenon, SafeTypes DEF SafeStep, LogInv
  <2>2. /\ currentTerm'[n] \in DOMAIN reign' /\ reign'[currentTerm'[n]] = log'[n]
        /\ log'[n] # << >> /\ log'[n][Len(log'[n])].term = currentTerm'[n]
    BY Zenon, <1>3, <2>1 DEF ReignInv, Leaders
  <2>3. Len(log'[n]) \in OwnIndices(reign', currentTerm'[n])
    BY <2>1, <2>2 DEF OwnIndices
  <2>4. Agree(log'[n], reign'[currentTerm'[n]], Len(log'[n]))
    BY <2>1, <2>2 DEF Agree
  <2> QED BY Zenon, <1>3, <2>2, <2>3, <2>4 DEF FreshAck
<1> QED BY Zenon, <1>1, <1>2, <1>3 DEF Acked, Leaders

\* Who leads after a step is in the term it was in before.
LEMMA LeaderTermStays ==
  ASSUME SafeStep, NEW n \in Node, state'[n] = "Leader"
  PROVE  currentTerm'[n] = currentTerm[n]
BY Zenon DEF SafeStep, HistoryStep, QuietStep, LeadersGoOn, AppendStep, AcceptStep

\* What a leader comes to count was acknowledged.
LEMMA MatchAcked ==
  ASSUME SafeStep, AckInv, NEW n \in Node, state'[n] = "Leader", NEW p \in Node,
         matchIndex'[n][p] > 0
  PROVE  HasAcked(acks, p, currentTerm[n], matchIndex'[n][p])
<1>1. /\ "read" \notin StorageFaults /\ MinMax /\ TypeOK /\ [Next]_vars
  BY Zenon DEF SafeStep
<1>2. matchIndex \in [Node -> [Node -> Nat]] /\ appendResponses \subseteq AppendResponse
  BY Zenon, <1>1 DEF TypeOK
<1>3. ASSUME state[n] = "Leader", matchIndex'[n][p] = matchIndex[n][p]
      PROVE  HasAcked(acks, p, currentTerm[n], matchIndex'[n][p])
  BY Zenon, <1>3 DEF AckInv, Leaders
<1>4. CASE becomeLeader(n)
  <2>1. matchIndex'[n][p] = 0
    BY Zenon, <1>2, <1>4 DEF becomeLeader
  <2> QED BY SMTT(30), <2>1
<1>5. ASSUME NEW m \in appendResponses, m.from = n, state[n] = "Leader",
             currentTerm[n] = m.term, ApplyAppendResponse(n, m, DOMAIN log[n])
      PROVE  HasAcked(acks, p, currentTerm[n], matchIndex'[n][p])
  <2> DEFINE old == matchIndex[n][m.to]
             new == Max({old, MatchedBy(m)})
  <2>1. m.to \in Node /\ MatchedBy(m) \in Nat /\ old \in Nat
    BY <1>2 DEF AppendResponse, MatchedBy
  <2>2. new \in {old, MatchedBy(m)}
    <3>1. /\ {old, MatchedBy(m)} \in SUBSET Nat /\ {old, MatchedBy(m)} # {}
          /\ old + MatchedBy(m) \in Nat
          /\ \A x \in {old, MatchedBy(m)} : x <= old + MatchedBy(m)
      BY <2>1
    <3> QED BY Zenon, <1>1, <3>1 DEF MinMax
  <2>3. \/ matchIndex' = matchIndex
        \/ m.success /\ matchIndex' = [matchIndex EXCEPT
             ![n] = [matchIndex[n] EXCEPT ![m.to] = new]]
    BY Zenon, <1>5 DEF ApplyAppendResponse
  <2> HIDE DEF old, new
  <2>4. \/ matchIndex'[n][p] = matchIndex[n][p]
        \/ p = m.to /\ m.success /\ matchIndex'[n][p] = new
    BY ZenonT(30), <1>2, <2>1, <2>3
  <2>5. m.success => HasAcked(acks, m.to, m.term, MatchedBy(m))
    <3> SUFFICES ASSUME m.success PROVE HasAcked(acks, m.to, m.term, MatchedBy(m))
      BY Zenon
    <3> DEFINE a == [node |-> m.to, term |-> m.term, index |-> m.prevLogIndex + m.sent]
    <3>1. a \in acks
      BY Zenon DEF AckInv, Acked
    <3>2. a.node = m.to /\ a.term = m.term /\ a.index = MatchedBy(m)
      BY Zenon DEF MatchedBy
    <3> HIDE DEF a
    <3> QED BY <2>1, <3>1, <3>2 DEF HasAcked
  <2>6. CASE p = m.to /\ m.success /\ matchIndex'[n][p] = MatchedBy(m)
    BY Zenon, <1>5, <2>5, <2>6
  <2> QED BY Zenon, <1>3, <1>5, <2>2, <2>4, <2>6 DEF old
<1> QED BY Zenon, <1>1, <1>3, <1>4, <1>5, IndexStep

LEMMA AckInvStep ==
  ASSUME SafeStep, AckInv
  PROVE  AckInv'
<1>1. Acked' \subseteq acks' /\ acks \subseteq acks'
  BY Zenon DEF SafeStep
<1>2. ASSUME NEW a \in acks'
      PROVE  /\ a.node \in Node /\ a.term \in DOMAIN reign'
             /\ a.index \in OwnIndices(reign', a.term)
             /\ a.term <= currentTerm'[a.node]
  <2>1. CASE a \in acks
    <3>1. /\ a.node \in Node /\ a.term \in DOMAIN reign
          /\ a.index \in OwnIndices(reign, a.term)
          /\ a.term <= currentTerm[a.node]
      BY Zenon, <2>1 DEF AckInv
    <3>2. a.term \in DOMAIN reign' /\ a.index \in OwnIndices(reign', a.term)
      BY Zenon, <3>1, SafeTypes, OwnKept
    <3>3. /\ a.term \in Nat /\ currentTerm[a.node] \in Nat
          /\ currentTerm'[a.node] \in Nat
          /\ currentTerm[a.node] <= currentTerm'[a.node]
      BY Zenon, <3>1, SafeTypes DEF IsRecord
    <3> QED BY SMTT(30), <3>1, <3>2, <3>3
  <2>2. CASE a \notin acks
    <3>1. FreshAck(a)
      BY Zenon, <2>2, AcksAreFresh
    <3>2. a.node \in Node /\ currentTerm'[a.node] \in Nat
      BY Zenon, <3>1, SafeTypes DEF FreshAck
    <3> QED BY <3>1, <3>2 DEF FreshAck
  <2> QED BY Zenon, <2>1, <2>2
<1>3. ASSUME NEW n \in Leaders', NEW p \in Node, matchIndex'[n][p] > 0
      PROVE  HasAcked(acks', p, currentTerm'[n], matchIndex'[n][p])
  <2>1. n \in Node /\ state'[n] = "Leader"
    BY Zenon DEF Leaders
  <2>2. HasAcked(acks, p, currentTerm[n], matchIndex'[n][p])
    BY Zenon, <1>3, <2>1, MatchAcked
  <2>3. currentTerm'[n] = currentTerm[n]
    BY Zenon, <2>1, LeaderTermStays
  <2> QED BY Zenon, <1>1, <2>2, <2>3 DEF HasAcked
<1> QED BY Zenon, <1>1, <1>2, <1>3 DEF AckInv

\* What was acknowledged before the step was in an index of that time.
LEMMA OldAck ==
  ASSUME SafeStep, AckInv, NEW v, NEW t, NEW i \in OwnIndices(reign', t),
         HasAcked(acks, v, t, i)
  PROVE  t \in DOMAIN reign /\ i \in OwnIndices(reign, t)
         /\ v \in Node /\ t <= currentTerm[v]
<1>1. PICK a \in acks : a.node = v /\ a.term = t /\ a.index >= i
  BY Zenon DEF HasAcked
<1>2. /\ t \in DOMAIN reign /\ a.index \in OwnIndices(reign, t)
      /\ v \in Node /\ t <= currentTerm[v]
  BY Zenon, <1>1 DEF AckInv
<1>3. i \in Nat /\ a.index \in 1..Len(reign[t]) /\ Len(reign[t]) \in Nat
  BY <1>2, SafeTypes DEF OwnIndices, IsRecord
<1>4. i <= Len(reign[t])
  BY SMTT(30), <1>1, <1>3
<1> QED BY Zenon, <1>2, <1>4, SafeTypes, OwnKept

LEMMA KeepsAckedStep ==
  ASSUME SafeStep, AckInv, KeepsAcked
  PROVE  KeepsAcked'
<1> SUFFICES ASSUME NEW v \in Node, NEW t \in DOMAIN reign',
                    NEW i \in OwnIndices(reign', t), HasAcked(acks', v, t, i)
             PROVE  Agree(log'[v], reign'[t], i)
                    \/ Lost(reign', t, i, currentTerm'[v])
  BY Zenon DEF KeepsAcked
<1>0. i \in Nat /\ currentTerm[v] \in Nat /\ currentTerm'[v] \in Nat
      /\ currentTerm[v] <= currentTerm'[v]
  BY SMTT(30), SafeTypes DEF OwnIndices
<1>1. CASE HasAcked(acks, v, t, i)
  <2>1. t \in DOMAIN reign /\ i \in OwnIndices(reign, t) /\ t <= currentTerm[v]
    BY Zenon, <1>1, OldAck
  <2>2. \/ Agree(log[v], reign[t], i)
        \/ Lost(reign, t, i, currentTerm[v])
    BY Zenon, <1>1, <2>1 DEF KeepsAcked
  <2>3. \/ Agree(log'[v], reign[t], i)
        \/ Lost(reign, t, i, currentTerm[v])
        \/ Lost(reign, t, i, currentTerm'[v])
    BY Zenon, <1>0, <2>1, <2>2, LogsKeep
  <2>4. ASSUME NEW b \in Nat, b <= currentTerm'[v], Lost(reign, t, i, b)
        PROVE  Lost(reign', t, i, currentTerm'[v])
    <3>1. PICK c \in Nat : c = currentTerm'[v]
      BY Zenon, <1>0
    <3>2. b <= c
      BY Zenon, <2>4, <3>1
    <3>3. Lost(reign', t, i, c)
      BY Zenon, <2>1, <2>4, <3>2, SafeTypes, LostStays
    <3> QED BY Zenon, <3>1, <3>3
  <2>5. currentTerm'[v] <= currentTerm'[v]
    BY SMTT(30), <1>0
  <2> QED BY Zenon, <1>0, <2>1, <2>3, <2>4, <2>5, SafeTypes, AgreeKept
<1>2. ASSUME NEW a \in acks', a \notin acks, a.node = v, a.term = t, a.index >= i
      PROVE  Agree(log'[v], reign'[t], i)
  <2>1. FreshAck(a)
    BY Zenon, <1>2, AcksAreFresh
  <2>2. Agree(log'[v], reign'[t], a.index) /\ a.index \in Nat
    BY SMTT(30), <1>2, <2>1 DEF FreshAck, OwnIndices
  <2>3. log'[v] \in Seq(Entry) /\ reign'[t] \in Seq(Entry) /\ i <= a.index
    BY Zenon, <1>0, <1>2, <2>2, SafeTypes DEF IsRecord
  <2> QED BY Zenon, <1>0, <2>2, <2>3, AgreeLess
<1> QED BY Zenon, <1>1, <1>2 DEF HasAcked

-----------------------------------------------------------------------------
(* Elections *)

\* Who votes for n: the votes it has counted, and those under way.
VotesFor(v, n) ==
  \/ v \in votesReceived[n]
  \/ \E m \in voteResponses : /\ m.granted /\ m.from = n /\ m.to = v
                              /\ m.term = currentTerm[n]

\* The votes that n counts after a step are of those.
VotesCounted(n) == \A v \in votesReceived'[n] : VotesFor(v, n)

\* Who is a candidate, or the new leader, after a step has begun the election
\* with it, or goes on with it.
LEMMA CandidateStep ==
  ASSUME TypeOK, [Next]_vars, NEW n \in Node, state'[n] # "Follower",
         ~(state[n] = "Leader" /\ state'[n] = "Leader")
  PROVE  \/ startElection(n)
         \/ /\ state[n] = "Candidate" /\ currentTerm'[n] = currentTerm[n]
            /\ VotesCounted(n)
<1> DEFINE GoesOn == /\ state[n] = "Candidate" /\ currentTerm'[n] = currentTerm[n]
                     /\ VotesCounted(n)
<1>1. /\ DOMAIN state = Node /\ DOMAIN currentTerm = Node
      /\ DOMAIN votesReceived = Node
      /\ state[n] \in {"Follower", "Candidate", "Leader"}
      /\ currentTerm[n] \in Nat
  BY Zenon, NodeTypes
<1>2. ASSUME state'[n] = state[n], currentTerm'[n] = currentTerm[n],
             votesReceived'[n] = votesReceived[n]
      PROVE  GoesOn
  BY Zenon, <1>1, <1>2 DEF VotesCounted, VotesFor
<1>3. ASSUME \/ UNCHANGED vars
             \/ \E p \in Node : \/ TimerFires(p)
                                \/ sendHeartbeats(p)
                                \/ \E c \in Command : Propose(p, c)
                                \/ leaderLoopReturns(p)
             \/ \E c \in appendCalls : sendAppendEntries(c)
             \/ LoseRPC
      PROVE  GoesOn
  <2>1. UNCHANGED <<state, currentTerm, votesReceived>>
    BY Zenon, <1>3
    DEF vars, TimerFires, sendHeartbeats, leaderLoopReturns, Propose,
        sendAppendEntries, LoseRPC, persistVars
  <2> QED BY Zenon, <1>2, <2>1
<1>4. ASSUME NEW p \in Node, startElection(p), n # p PROVE GoesOn
  <2>1. /\ \E x : state' = [state EXCEPT ![p] = x]
        /\ \E x : currentTerm' = [currentTerm EXCEPT ![p] = x]
        /\ \/ votesReceived' = votesReceived
           \/ \E x : votesReceived' = [votesReceived EXCEPT ![p] = x]
    BY Zenon, <1>4 DEF startElection
  <2> QED BY Zenon, <1>1, <1>2, <1>4, <2>1
<1>5. ASSUME NEW p \in Node, NEW t, NEW saveOK, stepDown(p, t, saveOK),
             votesReceived' = votesReceived
      PROVE  GoesOn
  <2>1. /\ state' = [state EXCEPT ![p] = "Follower"]
        /\ currentTerm' = [currentTerm EXCEPT ![p] = t]
    BY Zenon, <1>5 DEF stepDown
  <2>2. n # p /\ state'[n] = state[n] /\ currentTerm'[n] = currentTerm[n]
    BY Zenon, <1>1, <2>1
  <2> QED BY Zenon, <1>2, <1>5, <2>2
<1>6. ASSUME NEW p \in Node, state[p] = "Candidate", becomeLeader(p),
             n # p => votesReceived'[n] = votesReceived[n],
             n = p => VotesCounted(n)
      PROVE  GoesOn
  <2>1. \/ /\ state' = [state EXCEPT ![p] = "Leader"]
           /\ currentTerm' = currentTerm
        \/ /\ state' = [state EXCEPT ![p] = "Follower"]
           /\ currentTerm' = [currentTerm EXCEPT ![p] = currentTerm[p]]
    BY Zenon, <1>6 DEF becomeLeader, stepDown, persistVars
  <2>2. currentTerm'[n] = currentTerm[n]
    BY Zenon, <1>1, <2>1
  <2>3. n # p => state'[n] = state[n]
    BY Zenon, <1>1, <2>1
  <2> QED BY Zenon, <1>2, <1>6, <2>2, <2>3
<1>7. ASSUME NEW p \in Node, CheckWon(p) PROVE GoesOn
  <2>1. /\ state[p] = "Candidate" /\ becomeLeader(p)
        /\ votesReceived' = votesReceived
    BY Zenon, <1>7 DEF CheckWon, Won
  <2> QED BY Zenon, <1>6, <2>1 DEF VotesCounted, VotesFor
<1>8. ASSUME NEW m \in voteRequests, HandleRequestVote(m) PROVE GoesOn
  <2>1. m.to \in Node /\ m.term \in Nat
    BY Zenon, NodeTypes DEF VoteRequest
  <2>2. /\ votesReceived' = votesReceived
        /\ \/ UNCHANGED <<state, currentTerm>>
           \/ /\ m.term >= currentTerm[m.to]
              /\ currentTerm' = [currentTerm EXCEPT ![m.to] = m.term]
              /\ state' = [state EXCEPT ![m.to] =
                   IF m.term > currentTerm[m.to] THEN "Follower" ELSE @]
    BY Zenon, <1>8 DEF HandleRequestVote, Vote, persistVars
  <2>3. state'[n] = state[n] /\ currentTerm'[n] = currentTerm[n]
    BY SMTT(30), <1>1, <2>1, <2>2
  <2> QED BY Zenon, <1>2, <2>2, <2>3
<1>9. ASSUME NEW m \in voteResponses, ReceiveVote(m) PROVE GoesOn
  <2> DEFINE p == m.from
             counted == /\ state[p] = "Candidate" /\ currentTerm[p] = m.term
                        /\ m.granted
  <2>1. p \in Node
    BY Zenon, NodeTypes DEF VoteResponse
  <2>2. \/ votesReceived' = votesReceived
        \/ /\ votesReceived' = [votesReceived EXCEPT ![p] = votesReceived[p] \cup {m.to}]
           /\ counted
    BY Zenon, <1>9 DEF ReceiveVote
  <2>3. n # p => votesReceived'[n] = votesReceived[n]
    BY Zenon, <1>1, <2>2
  <2>4. VotesCounted(n)
    <3>1. CASE votesReceived' = votesReceived
      BY Zenon, <3>1 DEF VotesCounted, VotesFor
    <3>2. CASE counted /\ votesReceived' = [votesReceived EXCEPT
                 ![p] = votesReceived[p] \cup {m.to}]
      BY Zenon, <1>1, <3>2 DEF VotesCounted, VotesFor
    <3> QED BY Zenon, <2>2, <3>1, <3>2
  <2>5. \/ counted /\ becomeLeader(p)
        \/ \E saveOK : stepDown(p, m.respTerm, saveOK)
        \/ UNCHANGED <<state, currentTerm>>
    BY Zenon, <1>9 DEF ReceiveVote, persistVars
  <2>6. CASE \E saveOK : stepDown(p, m.respTerm, saveOK)
    <3>1. /\ state' = [state EXCEPT ![p] = "Follower"]
          /\ currentTerm' = [currentTerm EXCEPT ![p] = m.respTerm]
      BY Zenon, <2>6 DEF stepDown
    <3>2. n # p /\ state'[n] = state[n] /\ currentTerm'[n] = currentTerm[n]
      BY Zenon, <1>1, <3>1
    <3> QED BY Zenon, <1>2, <2>3, <3>2
  <2>7. CASE UNCHANGED <<state, currentTerm>>
    BY Zenon, <1>1, <2>4, <2>7
  <2> QED BY Zenon, <1>6, <2>1, <2>3, <2>4, <2>5, <2>6, <2>7
<1>10. ASSUME NEW m \in appendRequests, HandleAppendEntries(m) PROVE GoesOn
  <2>1. /\ votesReceived' = votesReceived
        /\ \/ UNCHANGED <<state, currentTerm>>
           \/ /\ \E x : currentTerm' = [currentTerm EXCEPT ![m.to] = x]
              /\ state' = [state EXCEPT ![m.to] =
                   IF m.term > currentTerm[m.to] \/ @ = "Candidate"
                     THEN "Follower" ELSE @]
    BY Zenon, <1>10 DEF HandleAppendEntries, Follow, persistVars
  <2>2. state'[n] = state[n] /\ currentTerm'[n] = currentTerm[n]
    BY SMTT(30), <1>1, <2>1
  <2> QED BY Zenon, <1>2, <2>1, <2>2
<1>11. ASSUME NEW m \in appendResponses, ReceiveAppend(m) PROVE GoesOn
  <2>1. m.from \in Node
    BY Zenon DEF TypeOK, AppendResponse
  <2>2. /\ votesReceived' = votesReceived
        /\ \/ UNCHANGED <<state, currentTerm>>
           \/ \E saveOK : stepDown(m.from, m.respTerm, saveOK)
    BY Zenon, <1>11 DEF ReceiveAppend, persistVars
  <2> QED BY Zenon, <1>2, <1>5, <2>1, <2>2
<1>12. ASSUME NEW p \in Node, Restart(p) PROVE GoesOn
  <2>1. /\ state' = [state EXCEPT ![p] = "Follower"]
        /\ currentTerm' = [currentTerm EXCEPT ![p] = disk[p].term]
        /\ votesReceived' = [votesReceived EXCEPT ![p] = {}]
    BY Zenon, <1>12 DEF Restart
  <2> QED BY Zenon, <1>1, <1>2, <2>1
<1> HIDE DEF GoesOn
<1>13. startElection(n) \/ GoesOn
  BY Zenon, <1>3, <1>4, <1>7, <1>8, <1>9, <1>10, <1>11, <1>12 DEF Next
<1> QED BY Zenon, <1>13 DEF GoesOn

\* A candidate does not write its log.
LEMMA CandidateLogStays ==
  ASSUME SafeStep, NEW n \in Node, state'[n] = "Candidate"
  PROVE  log'[n] = log[n]
<1>1. CASE QuietStep
  BY Zenon, <1>1 DEF QuietStep
<1>2. ASSUME NEW p \in Node, NEW e \in Entry, AppendStep(p, e)
      PROVE  log'[n] = log[n]
  BY Zenon, <1>2, SafeTypes DEF AppendStep
<1>3. ASSUME NEW m \in appendRequests, NEW o, AcceptStep(m, o)
      PROVE  log'[n] = log[n]
  <2>1. m.to # n
    BY Zenon, <1>3 DEF AcceptStep
  <2> QED BY Zenon, <1>3, <2>1, AcceptFollows DEF SafeStep, LogInv
<1> QED BY Zenon, <1>1, <1>2, <1>3 DEF SafeStep, HistoryStep

\* Where requests and answers for votes come from.
LEMMA VotesFrom ==
  ASSUME [Next]_vars
  PROVE  /\ \/ voteRequests' \subseteq voteRequests
            \/ \E n \in Node : startElection(n)
         /\ \/ voteResponses' \subseteq voteResponses
            \/ \E m \in voteRequests : HandleRequestVote(m)
<1>1. CASE \/ UNCHANGED vars
           \/ \E n \in Node : \/ TimerFires(n)
                              \/ CheckWon(n)
                              \/ sendHeartbeats(n)
                              \/ \E c \in Command : Propose(n, c)
                              \/ leaderLoopReturns(n)
                              \/ Restart(n)
           \/ \E m \in voteResponses : ReceiveVote(m)
           \/ \E c \in appendCalls : sendAppendEntries(c)
           \/ \E m \in appendRequests : HandleAppendEntries(m)
           \/ \E m \in appendResponses : ReceiveAppend(m)
           \/ LoseRPC
  BY Zenon, <1>1
  DEF vars, TimerFires, CheckWon, sendHeartbeats, Propose, leaderLoopReturns,
      Restart, ReceiveVote, sendAppendEntries, HandleAppendEntries,
      ReceiveAppend, LoseRPC, voteVars
<1>2. ASSUME NEW n \in Node, startElection(n)
      PROVE  voteResponses' \subseteq voteResponses
  BY Zenon, <1>2 DEF startElection
<1>3. ASSUME NEW m \in voteRequests, HandleRequestVote(m)
      PROVE  voteRequests' \subseteq voteRequests
  BY Zenon, <1>3 DEF HandleRequestVote, Vote, ReplyVote
<1> QED BY Zenon, <1>1, <1>2, <1>3 DEF Next

\* What isLogUpToDate is for: a candidate whose log is as up-to-date as a
\* voter's has all that the voter has of a leader's log through an entry of
\* that leader, or it has met a later leader that lacks it.
LEMMA UpToDateHas ==
  ASSUME TypeOK, ReignInv, TermInv, NEW n \in Node, NEW v \in Node,
         isLogUpToDate(v, Len(log[n]), LastTerm(n, DOMAIN log[n]),
                       DOMAIN log[v]),
         NEW t \in DOMAIN reign, NEW i \in OwnIndices(reign, t),
         Agree(log[v], reign[t], i)
  PROVE  Agree(log[n], reign[t], i) \/ Lost(reign, t, i, currentTerm[n])
<1> DEFINE ct == LastTerm(n, DOMAIN log[n])
           lt == LastTerm(v, DOMAIN log[v])
           L == Len(log[n])
<1>1. /\ log[n] \in Seq(Entry) /\ log[v] \in Seq(Entry)
      /\ reign[t] \in Seq(Entry) /\ t \in Nat /\ t > 0
  BY SMTT(30), ReignTypes DEF ReignInv
<1>2. /\ L \in Nat /\ Len(log[v]) \in Nat /\ i \in 1..Len(reign[t])
      /\ reign[t][i].term = t /\ i <= Len(log[v]) /\ log[v][i].term = t
      /\ DOMAIN log[n] = 1..L /\ DOMAIN log[v] = 1..Len(log[v])
  BY SMTT(30), <1>1 DEF OwnIndices, Agree
<1>3. IF ct # lt THEN ct > lt ELSE L >= Len(log[v])
  BY Zenon DEF isLogUpToDate
<1>4. /\ lt = log[v][Len(log[v])].term
      /\ ct = IF L > 0 THEN log[n][L].term ELSE 0
  BY <1>2 DEF LastTerm, GetTerm
<1>5. /\ lt \in DOMAIN reign /\ Agree(log[v], reign[lt], Len(log[v]))
      /\ L > 0 => ct \in DOMAIN reign /\ Agree(log[n], reign[ct], L)
  <2> HIDE DEF ct, lt
  <2>1. Rooted(log[v], reign) /\ Rooted(log[n], reign)
    BY Zenon DEF ReignInv
  <2>2. Len(log[v]) \in 1..Len(log[v]) /\ (L > 0 => L \in 1..L)
    BY SMTT(30), <1>2
  <2> QED BY Zenon, <1>4, <2>1, <2>2 DEF Rooted
<1> HIDE DEF ct, lt
<1>6. lt \in Nat /\ reign[lt] \in Seq(Entry) /\ t <= lt
  <2>1. lt \in Nat /\ reign[lt] \in Seq(Entry)
    BY Zenon, <1>5, ReignTypes
  <2>2. i \in 1..Len(reign[lt]) /\ reign[lt][i] = log[v][i]
    BY SMTT(30), <1>2, <1>5, <2>1 DEF Agree
  <2>3. reign[lt][i].term <= lt
    BY Zenon, <1>5, <2>2 DEF TermInv
  <2> QED BY Zenon, <1>2, <2>1, <2>2, <2>3
<1>7. L > 0
  BY SMTT(30), <1>1, <1>2, <1>3, <1>4, <1>6
<1>8. /\ ct \in DOMAIN reign /\ Agree(log[n], reign[ct], L)
      /\ ct \in Nat /\ reign[ct] \in Seq(Entry)
  BY Zenon, <1>5, <1>7, ReignTypes
<1>9. i <= L => Agree(log[n], reign[ct], i)
  BY SMTT(30), <1>1, <1>2, <1>8, AgreeLess
<1>10. CASE ct = lt
  <2>1. i <= L /\ Agree(log[v], reign[lt], i)
    <3>1. i \in Nat /\ i <= L
      BY SMTT(30), <1>2, <1>3, <1>10
    <3> QED BY Zenon, <1>1, <1>2, <1>5, <1>6, <3>1, AgreeLess
  <2> QED BY Zenon, <1>9, <1>10, <2>1, AgreeSym, AgreeTrans
<1>11. CASE ct > lt
  <2>1. t < ct
    BY SMTT(30), <1>1, <1>6, <1>8, <1>11
  <2>2. ct <= currentTerm[n]
    BY SMTT(30), <1>2, <1>4, <1>7 DEF TermInv
  <2>3. CASE ~Agree(reign[ct], reign[t], i)
    BY Zenon, <1>8, <2>1, <2>2, <2>3 DEF Lost
  <2>4. CASE Agree(reign[ct], reign[t], i) /\ i <= L
    BY Zenon, <1>9, <2>4, AgreeTrans
  <2>5. CASE Agree(reign[ct], reign[t], i) /\ i > L
    <3>1. L \in 1..Len(reign[t]) /\ reign[t][L] = log[n][L]
      <4>1. L \in 1..L /\ L \in 1..i /\ L \in 1..Len(reign[t])
        BY SMTT(30), <1>1, <1>2, <1>7, <2>5
      <4> QED BY Zenon, <1>8, <2>5, <4>1 DEF Agree
    <3>2. reign[t][L].term <= t
      BY Zenon, <3>1 DEF TermInv
    <3> QED BY SMTT(30), <1>1, <1>4, <1>7, <1>8, <2>1, <3>1, <3>2
  <2> QED BY SMTT(30), <1>2, <2>3, <2>4, <2>5
<1> QED BY Zenon, <1>3, <1>10, <1>11

\* A candidate goes on to have what its voters acknowledged: they have reached
\* its term, in which nobody acknowledges anything older any more.
LEMMA CandidateGoesOn ==
  ASSUME SafeStep, AckInv, NEW n \in Node, NEW v \in Node,
         currentTerm'[n] = currentTerm[n], log'[n] = log[n],
         currentTerm'[v] >= currentTerm[n], CandidateHas(n, v)
  PROVE  CandidateHas(n, v)'
<1> SUFFICES ASSUME NEW t \in DOMAIN reign', NEW i \in OwnIndices(reign', t),
                    t < currentTerm[n], HasAcked(acks', v, t, i)
             PROVE  Agree(log[n], reign'[t], i)
                    \/ Lost(reign', t, i, currentTerm[n])
  BY Zenon DEF CandidateHas
<1>1. i \in Nat /\ t \in Nat /\ currentTerm'[v] \in Nat
  BY SafeTypes DEF OwnIndices, IsRecord
<1>2. PICK b \in Nat : b = currentTerm[n]
  BY Zenon, SafeTypes
<1>3. HasAcked(acks, v, t, i)
  <2>1. PICK a \in acks' : a.node = v /\ a.term = t /\ a.index >= i
    BY Zenon DEF HasAcked
  <2>2. a \in acks
    BY SMTT(30), <1>1, <1>2, <2>1, AcksAreFresh DEF FreshAck
  <2> QED BY Zenon, <2>1, <2>2 DEF HasAcked
<1>4. t \in DOMAIN reign /\ i \in OwnIndices(reign, t)
  BY Zenon, <1>3, OldAck
<1>5. Agree(log[n], reign[t], i) \/ Lost(reign, t, i, b)
  BY Zenon, <1>2, <1>3, <1>4 DEF CandidateHas
<1>6. Lost(reign, t, i, b) => Lost(reign', t, i, b)
  BY Zenon, <1>2, <1>4, SafeTypes, LostStays
<1> QED BY Zenon, <1>1, <1>2, <1>4, <1>5, <1>6, SafeTypes, AgreeKept

\* A candidate has what the one who votes for it acknowledged.
LEMMA GrantedHas ==
  ASSUME SafeStep, TermInv, AckInv, KeepsAcked, VotersInv,
         NEW r \in voteRequests, HandleRequestVote(r),
         NEW m \in voteResponses', m \notin voteResponses, m.granted,
         Stands(m.from, m.term)'
  PROVE  CandidateHas(m.from, m.to)'
<1> DEFINE n == r.from
           v == r.to
           g == \E readable \in Readable(v) :
                  isLogUpToDate(v, r.lastLogIndex, r.lastLogTerm, readable)
<1>0. /\ "read" \notin StorageFaults /\ TypeOK /\ ReignInv
  BY Zenon DEF SafeStep, LogInv
<1>1. /\ n \in Node /\ v \in Node /\ n # v /\ r.term \in Nat
      /\ DOMAIN state = Node /\ currentTerm \in [Node -> Nat]
  <2>1. r \in VoteRequest
    BY Zenon, <1>0 DEF TypeOK
  <2>2. n # v
    BY Zenon DEF SafeStep, VoteInv
  <2> QED BY Zenon, <1>0, <2>1, <2>2, NodeTypes DEF VoteRequest
<1>2. ASSUME NEW t, NEW granted, ReplyVote(r, t, granted)
      PROVE  m.from = n /\ m.to = v /\ m.term = r.term /\ m.granted = granted
  <2>1. m = [from |-> n, to |-> v, term |-> r.term,
             respTerm |-> t, granted |-> granted]
    BY Zenon, <1>2 DEF ReplyVote
  <2> QED BY Zenon, <2>1
<1>3. /\ log' = log /\ r.term >= currentTerm[v]
      /\ \E x : state' = [state EXCEPT ![v] = x]
      /\ currentTerm' = [currentTerm EXCEPT ![v] = r.term]
      /\ m.from = n /\ m.to = v /\ m.term = r.term /\ g
  BY Zenon, <1>2 DEF HandleRequestVote, Vote, Grants
<1>4. isLogUpToDate(v, r.lastLogIndex, r.lastLogTerm, DOMAIN log[v])
  BY Zenon, <1>0, <1>3 DEF Readable
<1> HIDE DEF n, v, g
<1>5. /\ state'[n] = state[n] /\ currentTerm'[n] = currentTerm[n]
      /\ currentTerm'[v] = r.term
  BY Zenon, <1>1, <1>3
<1>6. Stands(n, r.term)
  BY Zenon, <1>3, <1>5 DEF Stands
<1>7. isLogUpToDate(v, Len(log[n]), LastTerm(n, DOMAIN log[n]), DOMAIN log[v])
  BY Zenon, <1>4, <1>6 DEF VotersInv, n
<1>8. CandidateHas(n, v)
  <2> SUFFICES ASSUME NEW t \in DOMAIN reign, NEW i \in OwnIndices(reign, t),
                      HasAcked(acks, v, t, i)
               PROVE  Agree(log[n], reign[t], i)
                      \/ Lost(reign, t, i, currentTerm[n])
    BY Zenon DEF CandidateHas
  <2>1. Agree(log[v], reign[t], i) \/ Lost(reign, t, i, currentTerm[v])
    BY Zenon, <1>1 DEF KeepsAcked
  <2>2. CASE Agree(log[v], reign[t], i)
    BY Zenon, <1>0, <1>1, <1>7, <2>2, UpToDateHas
  <2>3. CASE Lost(reign, t, i, currentTerm[v])
    <3>1. PICK u \in DOMAIN reign : /\ t < u /\ u <= currentTerm[v]
                                    /\ ~Agree(reign[u], reign[t], i)
      BY Zenon, <2>3 DEF Lost
    <3>2. u <= currentTerm[n]
      <4>1. u \in Nat
        BY Zenon, SafeTypes DEF IsRecord
      <4>2. currentTerm[v] <= currentTerm[n] /\ currentTerm[v] \in Nat
            /\ currentTerm[n] \in Nat
        BY Zenon, <1>1, <1>3, <1>6 DEF Stands
      <4> QED BY SMTT(30), <3>1, <4>1, <4>2
    <3> QED BY Zenon, <3>1, <3>2 DEF Lost
  <2> QED BY Zenon, <2>1, <2>2, <2>3
<1>9. currentTerm'[v] >= currentTerm[n]
  BY SMTT(30), <1>1, <1>5, <1>6 DEF Stands
<1> QED BY Zenon, <1>1, <1>3, <1>5, <1>8, <1>9, CandidateGoesOn

\* Those who voted for a candidate have reached its term.
LEMMA VotersReached ==
  ASSUME TypeOK, VoteInv
  PROVE  /\ \A n \in Node : \A v \in votesReceived[n] :
              Running(n) => v \in Node /\ currentTerm[v] >= currentTerm[n]
         /\ \A m \in voteResponses :
              m.granted => m.to \in Node /\ currentTerm[m.to] >= m.term
<1>1. /\ currentTerm \in [Node -> Nat] /\ votesReceived \in [Node -> SUBSET Node]
      /\ voteResponses \subseteq VoteResponse /\ VotesBind
  BY Zenon, NodeTypes DEF VoteInv
<1>2. ASSUME NEW v \in Node, NEW c, NEW t \in Nat, KeepsVote(v, c, t)
      PROVE  currentTerm[v] >= t
  BY SMTT(30), <1>1, <1>2 DEF KeepsVote
<1>3. ASSUME NEW n \in Node, NEW v \in votesReceived[n], Running(n)
      PROVE  v \in Node /\ currentTerm[v] >= currentTerm[n]
  BY Zenon, <1>1, <1>2, <1>3 DEF VotesBind
<1>4. ASSUME NEW m \in voteResponses, m.granted
      PROVE  m.to \in Node /\ currentTerm[m.to] >= m.term
  BY Zenon, <1>1, <1>2, <1>4 DEF VotesBind, VoteResponse
<1> QED BY Zenon, <1>3, <1>4

\* The election of n has those who vote for it.
LEMMA VoterIsMet ==
  ASSUME TypeOK, VoteInv, VotersInv, NEW n \in Node, state[n] = "Candidate",
         NEW v, VotesFor(v, n)
  PROVE  CandidateHas(n, v) /\ v \in Node /\ currentTerm[v] >= currentTerm[n]
<1>1. Running(n) /\ Stands(n, currentTerm[n])
  BY Zenon DEF Running, Stands
<1>2. v \in Node /\ currentTerm[v] >= currentTerm[n]
  BY Zenon, <1>1, VotersReached DEF VotesFor
<1>3. CandidateHas(n, v)
  BY Zenon, <1>1 DEF VotersInv, VotesFor
<1> QED BY Zenon, <1>2, <1>3

\* A candidate that goes on has what those who vote for it acknowledged.
LEMMA GoesOnHas ==
  ASSUME SafeStep, AckInv, VotersInv, NEW n \in Node, state[n] = "Candidate",
         currentTerm'[n] = currentTerm[n], log'[n] = log[n],
         NEW v, VotesFor(v, n)
  PROVE  CandidateHas(n, v)'
<1>1. TypeOK /\ VoteInv
  BY Zenon DEF SafeStep
<1>2. CandidateHas(n, v) /\ v \in Node /\ currentTerm[v] >= currentTerm[n]
  BY Zenon, <1>1, VoterIsMet
<1>3. currentTerm'[v] >= currentTerm[n]
  <2>1. /\ currentTerm[v] \in Nat /\ currentTerm'[v] \in Nat
        /\ currentTerm[n] \in Nat /\ currentTerm[v] <= currentTerm'[v]
    BY Zenon, <1>2, SafeTypes
  <2> QED BY SMTT(30), <1>2, <2>1
<1> QED BY Zenon, <1>2, <1>3, CandidateGoesOn

LEMMA VotersInvStep ==
  ASSUME SafeStep, TermsSaved, TermInv, AckInv, KeepsAcked, KeepsAcked', VotersInv
  PROVE  VotersInv'
<1>0. /\ "read" \notin StorageFaults /\ TypeOK /\ [Next]_vars
      /\ voteRequests \subseteq VoteRequest /\ voteResponses \subseteq VoteResponse
      /\ voteRequests' \subseteq VoteRequest /\ voteResponses' \subseteq VoteResponse
  BY Zenon DEF SafeStep, TypeOK
<1>1. ASSUME NEW n \in Node, state'[n] = "Candidate", ~startElection(n)
      PROVE  /\ state[n] = "Candidate" /\ currentTerm'[n] = currentTerm[n]
             /\ log'[n] = log[n] /\ VotesCounted(n)
  BY Zenon, <1>0, <1>1, CandidateStep, CandidateLogStays
<1>2. ASSUME NEW n \in Node, NEW v \in votesReceived'[n], state'[n] = "Candidate"
      PROVE  CandidateHas(n, v)'
  <2>1. CASE startElection(n)
    <3>1. v = n
      <4>1. \/ state' = [state EXCEPT ![n] = "Follower"]
            \/ votesReceived' = [votesReceived EXCEPT ![n] = {n}]
        BY Zenon, <2>1 DEF startElection
      <4> QED BY Zenon, <1>0, <1>2, <4>1, NodeTypes
    <3> QED BY Zenon, <3>1 DEF CandidateHas, KeepsAcked
  <2>2. CASE ~startElection(n)
    BY Zenon, <1>1, <1>2, <2>2, GoesOnHas DEF VotesCounted
  <2> QED BY Zenon, <2>1, <2>2
<1>3. ASSUME NEW m \in voteRequests \cup voteResponses, Stands(m.from, m.term)'
      PROVE  /\ m.from \in Node /\ state[m.from] = "Candidate"
             /\ currentTerm'[m.from] = currentTerm[m.from]
             /\ m.term = currentTerm[m.from] /\ log'[m.from] = log[m.from]
  <2>1. m.from \in Node /\ m.term \in Nat /\ currentTerm[m.from] \in Nat
    BY Zenon, <1>0, NodeTypes DEF VoteRequest, VoteResponse
  <2>2. state'[m.from] = "Candidate" /\ m.term = currentTerm'[m.from]
    BY Zenon, <1>3 DEF Stands
  <2>3. m.term <= currentTerm[m.from]
    BY Zenon DEF TermsSaved
  <2>4. ~startElection(m.from)
    <3> SUFFICES ASSUME startElection(m.from) PROVE FALSE
      BY Zenon
    <3>1. currentTerm'[m.from] = currentTerm[m.from] + 1
      BY Zenon, <1>0, <2>1, NodeTypes DEF startElection
    <3> QED BY SMTT(30), <2>1, <2>2, <2>3, <3>1
  <2> QED BY Zenon, <1>1, <2>1, <2>2, <2>4
<1>4. ASSUME NEW m \in voteResponses', m.granted, Stands(m.from, m.term)'
      PROVE  CandidateHas(m.from, m.to)'
  <2>1. CASE m \in voteResponses
    BY Zenon, <1>3, <1>4, <2>1, GoesOnHas DEF VotesFor
  <2>2. CASE m \notin voteResponses
    BY Zenon, <1>0, <1>4, <2>2, VotesFrom, GrantedHas
  <2> QED BY Zenon, <2>1, <2>2
<1>5. ASSUME NEW m \in voteRequests', Stands(m.from, m.term)'
      PROVE  /\ m.lastLogIndex = Len(log'[m.from])
             /\ m.lastLogTerm = LastTerm(m.from, DOMAIN log[m.from])'
  <2>1. CASE m \in voteRequests
    <3>1. /\ Stands(m.from, m.term) /\ log'[m.from] = log[m.from]
      BY Zenon, <1>3, <1>5, <2>1 DEF Stands
    <3>2. /\ m.lastLogIndex = Len(log[m.from])
          /\ m.lastLogTerm = LastTerm(m.from, DOMAIN log[m.from])
      BY Zenon, <2>1, <3>1 DEF VotersInv
    <3> QED BY SMTT(30), <3>1, <3>2 DEF LastTerm, GetTerm
  <2>2. CASE m \notin voteRequests
    <3>1. PICK n \in Node : startElection(n)
      BY Zenon, <1>0, <2>2, VotesFrom
    <3>2. PICK reached : m \in VoteCalls(n, currentTerm[n] + 1, reached, DOMAIN log[n])
      BY Zenon, <1>0, <2>2, <3>1 DEF startElection, Readable
    <3>3. /\ m.from = n /\ m.lastLogIndex = Len(log[n])
          /\ m.lastLogTerm = LastTerm(n, DOMAIN log[n])
      BY SMTT(30), <3>2 DEF VoteCalls
    <3>4. log' = log
      BY Zenon, <3>1 DEF startElection
    <3> QED BY Zenon, <3>3, <3>4 DEF LastTerm, GetTerm
  <2> QED BY Zenon, <2>1, <2>2
<1> QED BY Zenon, <1>2, <1>4, <1>5 DEF VotersInv, Stands

-----------------------------------------------------------------------------
(* Leaders of different terms *)

\* A quorum has reached a term after t without an acknowledgement of the log of
\* the leader of t through i, and so will never give one.
Barred(t, i) ==
  \E Q \in SUBSET Node :
    /\ Cardinality(Q) >= quorumSize
    /\ \A v \in Q : currentTerm[v] > t /\ ~HasAcked(acks, v, t, i)

LEMMA BarredStays ==
  ASSUME SafeStep, AckInv, NEW t \in Nat, NEW i, Barred(t, i)
  PROVE  Barred(t, i)'
<1>1. PICK Q \in SUBSET Node :
        /\ Cardinality(Q) >= quorumSize
        /\ \A v \in Q : currentTerm[v] > t /\ ~HasAcked(acks, v, t, i)
  BY Zenon DEF Barred
<1>2. ASSUME NEW v \in Q
      PROVE  currentTerm'[v] > t /\ ~HasAcked(acks', v, t, i)
  <2>1. currentTerm'[v] > t
    <3>1. /\ currentTerm[v] \in Nat /\ currentTerm'[v] \in Nat
          /\ currentTerm[v] <= currentTerm'[v] /\ currentTerm[v] > t
      BY Zenon, <1>1, SafeTypes
    <3> QED BY SMTT(30), <3>1
  <2>2. \A a \in acks' : a.node = v /\ a.term = t => a \in acks
    <3>1. currentTerm'[v] \in Nat
      BY Zenon, SafeTypes
    <3>2. currentTerm'[v] # t
      BY <2>1, <3>1
    <3> QED BY Zenon, <3>2, AcksAreFresh DEF FreshAck
  <2> QED BY Zenon, <1>1, <2>1, <2>2 DEF HasAcked
<1> QED BY Zenon, <1>1, <1>2 DEF Barred

\* The voters of a leader have reached its term.
LEMMA LeaderWasElected ==
  ASSUME TypeOK, ReignInv, NEW u \in DOMAIN reign
  PROVE  \E Q \in SUBSET Node : /\ Cardinality(Q) >= quorumSize
                                /\ \A v \in Q : currentTerm[v] >= u
<1>1. PICK l \in Node : Elected(l, u)
  BY Zenon DEF ReignInv
<1>2. PICK Q \in SUBSET Node : /\ Cardinality(Q) >= quorumSize
                               /\ \A v \in Q : VoteIsWith(v, l, u)
  BY Zenon, <1>1 DEF Elected
<1>3. ASSUME NEW v \in Q PROVE currentTerm[v] >= u
  <2>1. KeepsVote(v, l, u)
    BY Zenon, <1>2 DEF VoteIsWith
  <2>2. currentTerm[v] \in Nat /\ u \in Nat
    BY Zenon, ReignTypes
  <2> QED BY SMTT(30), <2>1, <2>2 DEF KeepsVote
<1> QED BY Zenon, <1>2, <1>3

\* A new leader has what a quorum acknowledged to an earlier one, as its voters
\* did, or their quorum is barred from it.
LEMMA NewLeaderHas ==
  ASSUME SafeStep, AckInv, VotersInv, LaterLeaderHas,
         NEW n \in Node, NEW e \in Entry, AppendStep(n, e), Extends(n, e),
         currentTerm[n] \notin DOMAIN reign,
         NEW t \in DOMAIN reign, NEW i \in OwnIndices(reign, t),
         t < currentTerm[n]
  PROVE  Agree(log[n], reign[t], i) \/ Barred(t, i)
<1>0. /\ TypeOK /\ [Next]_vars /\ VoteInv /\ VoteInv' /\ ReignInv
  BY Zenon DEF SafeStep, LogInv
<1>1. state'[n] = "Leader" /\ state[n] # "Leader"
  BY Zenon, <1>0 DEF AppendStep, ReignInv, Leaders
<1>2. state[n] = "Candidate" /\ VotesCounted(n)
  <2>1. ~startElection(n)
    <3>1. ASSUME startElection(n)
          PROVE  \/ state' = [state EXCEPT ![n] = "Follower"]
                 \/ state' = [state EXCEPT ![n] = "Candidate"]
      BY Zenon, <3>1 DEF startElection
    <3> QED BY Zenon, <1>0, <1>1, <3>1, NodeTypes
  <2> QED BY Zenon, <1>0, <1>1, <2>1, CandidateStep
<1> DEFINE Q == votesReceived'[n]
<1>3. Cardinality(Q) >= quorumSize
  BY Zenon, <1>0, <1>1 DEF VoteInv
<1>4. \A v \in Q : CandidateHas(n, v) /\ v \in Node /\ currentTerm[v] >= currentTerm[n]
  BY Zenon, <1>0, <1>2, VoterIsMet DEF VotesCounted
<1> HIDE DEF Q
<1>5. CASE \A v \in Q : ~HasAcked(acks, v, t, i)
  <2>1. \A v \in Q : currentTerm[v] > t
    <3>1. t \in Nat /\ currentTerm \in [Node -> Nat]
      BY Zenon, SafeTypes DEF IsRecord
    <3> QED BY SMTT(30), <1>4, <3>1
  <2> QED BY Zenon, <1>3, <1>4, <1>5, <2>1 DEF Barred
<1>6. CASE \E v \in Q : HasAcked(acks, v, t, i)
  <2>1. Agree(log[n], reign[t], i) \/ Lost(reign, t, i, currentTerm[n])
    BY Zenon, <1>4, <1>6 DEF CandidateHas
  <2>2. CASE Lost(reign, t, i, currentTerm[n])
    <3>1. PICK u \in DOMAIN reign : t < u /\ ~Agree(reign[u], reign[t], i)
      BY Zenon, <2>2 DEF Lost
    <3> QED BY Zenon, <3>1 DEF LaterLeaderHas, Barred
  <2> QED BY Zenon, <2>1, <2>2
<1> QED BY Zenon, <1>5, <1>6

LEMMA LaterLeaderHasStep ==
  ASSUME SafeStep, AckInv, VotersInv, LaterLeaderHas
  PROVE  LaterLeaderHas'
<1> SUFFICES ASSUME NEW t \in DOMAIN reign', NEW u \in DOMAIN reign',
                    NEW i \in OwnIndices(reign', t), t < u
             PROVE  Agree(reign'[u], reign'[t], i) \/ Barred(t, i)'
  BY Zenon DEF LaterLeaderHas, Barred
<1>0. t \in Nat /\ u \in Nat /\ i \in Nat
  BY SMTT(30), SafeTypes DEF IsRecord, OwnIndices
<1>1. CASE u \in DOMAIN reign /\ t \in DOMAIN reign /\ i \in OwnIndices(reign, t)
  <2>1. Agree(reign[u], reign[t], i) \/ Barred(t, i)
    BY Zenon, <1>1 DEF LaterLeaderHas, Barred
  <2>2. CASE Agree(reign[u], reign[t], i)
    <3>1. Agree(reign[u], reign'[t], i)
      BY Zenon, <1>0, <1>1, <2>2, SafeTypes, AgreeKept
    <3>2. Agree(reign'[t], reign'[u], i)
      BY Zenon, <1>0, <1>1, <3>1, SafeTypes, AgreeKept, AgreeSym
    <3> QED BY Zenon, <3>2, AgreeSym
  <2> QED BY Zenon, <1>0, <2>1, <2>2, BarredStays
<1>2. CASE u \in DOMAIN reign /\ ~(t \in DOMAIN reign /\ i \in OwnIndices(reign, t))
  <2>1. PICK Q \in SUBSET Node : /\ Cardinality(Q) >= quorumSize
                                 /\ \A v \in Q : currentTerm[v] >= u
    BY Zenon, <1>2, LeaderWasElected DEF SafeStep, LogInv
  <2>2. ASSUME NEW v \in Q PROVE currentTerm[v] > t /\ ~HasAcked(acks, v, t, i)
    <3>1. currentTerm[v] \in Nat /\ currentTerm[v] >= u
      BY Zenon, <2>1, SafeTypes
    <3> QED BY SMTT(30), <1>0, <1>2, <3>1, OldAck
  <2>3. Barred(t, i)
    BY Zenon, <2>1, <2>2 DEF Barred
  <2> QED BY Zenon, <1>0, <2>3, BarredStays
<1>3. CASE u \notin DOMAIN reign
  <2>1. PICK n \in Node, e \in Entry : AppendStep(n, e) /\ Extends(n, e)
    BY Zenon, <1>3 DEF SafeStep, HistoryStep
  <2>2. /\ u = currentTerm[n] /\ reign'[u] = Append(log[n], e)
        /\ t \in DOMAIN reign /\ reign'[t] = reign[t]
    BY SMTT(30), <1>0, <1>3, <2>1 DEF Extends
  <2>3. i \in OwnIndices(reign, t)
    BY Zenon, <2>2 DEF OwnIndices
  <2>4. Agree(log[n], reign[t], i) \/ Barred(t, i)
    BY Zenon, <1>3, <2>1, <2>2, <2>3, NewLeaderHas
  <2>5. CASE Agree(log[n], reign[t], i)
    <3>1. log[n] \in Seq(Entry) /\ i <= Len(log[n])
      BY Zenon, <2>5, SafeTypes DEF Agree
    <3>2. Agree(reign'[u], log[n], i)
      BY <1>0, <2>2, <3>1 DEF Agree
    <3> QED BY Zenon, <2>2, <2>5, <3>2, AgreeTrans
  <2> QED BY Zenon, <1>0, <2>4, <2>5, BarredStays
<1> QED BY Zenon, <1>1, <1>2, <1>3

-----------------------------------------------------------------------------
(* Commitment *)

\* Two quorums have a member in common, all nodes are a quorum, and a leader
\* counts itself (from FiniteSetTheorems).
Quorums ==
  /\ Cardinality(Node) >= quorumSize
  /\ \A P, Q \in SUBSET Node :
       Cardinality(P) >= quorumSize /\ Cardinality(Q) >= quorumSize =>
         \E v \in P : v \in Q
  /\ \A n \in Node : \A S \in SUBSET Peers(n) :
       Cardinality(S) + 1 >= quorumSize => Cardinality(S \cup {n}) >= quorumSize

\* All leaders from the one on that committed it have what is committed.
LEMMA CommittedIsHad ==
  ASSUME Quorums, IsRecord(reign), LaterLeaderHas, NEW t, NEW i,
         CommittedAt(reign, acks, t, i), NEW u \in DOMAIN reign, t <= u
  PROVE  Agree(reign[u], reign[t], i)
<1>1. /\ t \in DOMAIN reign /\ i \in OwnIndices(reign, t) /\ t \in Nat /\ u \in Nat
      /\ reign[t] \in Seq(Entry)
  BY Zenon DEF CommittedAt, IsRecord
<1>2. CASE t = u
  BY <1>1, <1>2 DEF Agree, OwnIndices
<1>3. CASE t < u
  <2>1. PICK P \in SUBSET Node : /\ Cardinality(P) >= quorumSize
                                 /\ \A v \in P : HasAcked(acks, v, t, i)
    BY Zenon DEF CommittedAt
  <2>2. ~Barred(t, i)
    BY Zenon, <2>1 DEF Barred, Quorums
  <2> QED BY Zenon, <1>1, <1>3, <2>2 DEF LaterLeaderHas, Barred
<1> QED BY <1>1, <1>2, <1>3

\* What a leader committed and a node has, it keeps.
LEMMA SettledKept ==
  ASSUME SafeStep, Quorums, LaterLeaderHas, NEW n \in Node, NEW k \in Nat,
         Settled(reign, acks, log[n], k, currentTerm[n])
  PROVE  Settled(reign', acks', log'[n], k, currentTerm'[n])
<1>0. /\ currentTerm[n] \in Nat /\ currentTerm'[n] \in Nat
      /\ currentTerm[n] <= currentTerm'[n] /\ IsRecord(reign)
  BY Zenon, SafeTypes
<1>1. k > 0 => \E t \in DOMAIN reign : \E i \in OwnIndices(reign, t) :
                 /\ t <= currentTerm[n] /\ k <= i
                 /\ CommittedAt(reign, acks, t, i)
                 /\ Agree(log[n], reign[t], k)
  BY Zenon DEF Settled
<1>2. ASSUME NEW t \in DOMAIN reign, NEW i \in OwnIndices(reign, t),
             t <= currentTerm[n], k <= i, CommittedAt(reign, acks, t, i),
             Agree(log[n], reign[t], k)
      PROVE  Agree(log'[n], reign[t], k)
  <2>1. Agree(log'[n], reign[t], k) \/ Lost(reign, t, k, currentTerm'[n])
    BY Zenon, <1>2, LogsKeep
  <2>2. ASSUME NEW u \in DOMAIN reign, t < u PROVE Agree(reign[u], reign[t], k)
    <3>1. u \in Nat /\ t \in Nat /\ i \in Nat
          /\ reign[u] \in Seq(Entry) /\ reign[t] \in Seq(Entry)
      BY <1>0 DEF IsRecord, OwnIndices
    <3>2. Agree(reign[u], reign[t], i)
      BY <1>0, <1>2, <2>2, <3>1, CommittedIsHad
    <3> QED BY Zenon, <1>2, <3>1, <3>2, AgreeLess
  <2> QED BY Zenon, <2>1, <2>2 DEF Lost
<1>3. Settled(reign, acks, log'[n], k, currentTerm[n])
  BY Zenon, <1>1, <1>2 DEF Settled
<1>4. k > 0 => Agree(log'[n], log'[n], k)
  <2>1. k > 0 => \E t : Agree(log'[n], reign[t], k)
    BY Zenon, <1>1, <1>2
  <2> QED BY Zenon, <2>1, AgreeSym, AgreeTrans
<1> QED BY Zenon, <1>0, <1>3, <1>4, SafeTypes, SettledStays

\* So does the record of a reign.
LEMMA SettledReign ==
  ASSUME SafeStep, NEW u \in DOMAIN reign, NEW k \in Nat,
         Settled(reign, acks, reign[u], k, u)
  PROVE  u \in DOMAIN reign' /\ Settled(reign', acks', reign'[u], k, u)
<1>1. u \in Nat /\ u <= u
  BY SafeTypes DEF IsRecord
<1>2. u \in DOMAIN reign' /\ (k > 0 => Agree(reign'[u], reign[u], k))
  <2>1. k > 0 => \E t : Agree(reign[u], reign[t], k)
    BY Zenon DEF Settled
  <2>2. k > 0 => Agree(reign[u], reign[u], k)
    BY Zenon, <2>1, AgreeSym, AgreeTrans
  <2> QED BY Zenon, <2>2, SafeTypes, AgreeKept, AgreeSym
<1> QED BY Zenon, <1>1, <1>2, SafeTypes, SettledStays

\* How the commit index of q moves: it is lost in a crash, Rule 5 follows the
\* leader, or the leader commits.
CommitMoves(q) ==
  \/ commitIndex'[q] \in {0, commitIndex[q]}
  \/ \E m \in appendRequests : \E o :
       /\ AcceptStep(m, o) /\ o[2] /\ q = m.to
       /\ commitIndex'[q] = NewCommitIndex(q, m.leaderCommit, Len(o[1]))
  \/ \E m \in appendResponses :
       /\ state[q] = "Leader" /\ state'[q] = "Leader" /\ log' = log
       /\ m.to \in Node /\ MatchedBy(m) \in Nat
       /\ \E match \in [Node -> Nat] :
            /\ matchIndex' = [matchIndex EXCEPT ![q] = match]
            /\ commitIndex'[q] = CommitPoint(q, match, DOMAIN log[q])

LEMMA CommitStep ==
  ASSUME MinMax, "read" \notin StorageFaults, TypeOK, TypeOK', LeaderIsElected,
         SenderElected, [Next]_vars
  PROVE  \E q \in Node : /\ CommitMoves(q)
                         /\ \A p \in Node \ {q} : commitIndex'[p] = commitIndex[p]
<1> DEFINE Goal == \E q \in Node : /\ CommitMoves(q)
                     /\ \A p \in Node \ {q} : commitIndex'[p] = commitIndex[p]
<1>0. commitIndex \in [Node -> Nat] /\ matchIndex \in [Node -> [Node -> Nat]]
      /\ matchIndex' \in [Node -> [Node -> Nat]]
      /\ appendRequests \subseteq AppendRequest
      /\ appendResponses \subseteq AppendResponse
  BY Zenon DEF TypeOK
<1>1. ASSUME commitIndex' = commitIndex PROVE Goal
  <2>1. PICK q : q \in Node
    BY Zenon, NodeAssumption
  <2> QED BY Zenon, <1>1, <2>1 DEF CommitMoves
<1>2. ASSUME NEW n \in Node, NEW x, commitIndex' = [commitIndex EXCEPT ![n] = x],
             commitIndex'[n] = x => CommitMoves(n)
      PROVE  Goal
  BY Zenon, <1>0, <1>2
<1>3. ASSUME \/ UNCHANGED vars
             \/ \E n \in Node : \/ TimerFires(n) \/ startElection(n)
                                \/ CheckWon(n) \/ sendHeartbeats(n)
                                \/ \E c \in Command : Propose(n, c)
                                \/ leaderLoopReturns(n)
             \/ \E m \in voteRequests : HandleRequestVote(m)
             \/ \E m \in voteResponses : ReceiveVote(m)
             \/ \E c \in appendCalls : sendAppendEntries(c)
             \/ LoseRPC
      PROVE  Goal
  <2>1. commitIndex' = commitIndex
    BY Zenon, <1>3
    DEF vars, TimerFires, startElection, CheckWon, sendHeartbeats, Propose,
        leaderLoopReturns, HandleRequestVote, ReceiveVote, sendAppendEntries,
        LoseRPC
  <2> QED BY Zenon, <1>1, <2>1
<1>4. ASSUME NEW n \in Node, Restart(n) PROVE Goal
  BY Zenon, <1>2, <1>4 DEF Restart, CommitMoves
<1>5. ASSUME NEW m \in appendRequests, HandleAppendEntries(m) PROVE Goal
  <2>1. m.to \in Node
    BY Zenon, <1>0 DEF AppendRequest
  <2>2. CASE RejectStep(m)
    BY Zenon, <1>1, <2>2 DEF RejectStep
  <2>3. ASSUME NEW o, AcceptStep(m, o) PROVE Goal
    <3>1. \/ commitIndex' = commitIndex
          \/ o[2] /\ commitIndex' = [commitIndex EXCEPT ![m.to] =
                        NewCommitIndex(m.to, m.leaderCommit, Len(o[1]))]
      BY Zenon, <2>3 DEF AcceptStep
    <3> QED BY Zenon, <1>1, <1>2, <2>1, <2>3, <3>1 DEF CommitMoves
  <2> QED BY Zenon, <1>5, <2>2, <2>3, HandleAppendStep
<1>6. ASSUME NEW m \in appendResponses, ReceiveAppend(m) PROVE Goal
  <2> DEFINE n == m.from
             match == [matchIndex[n] EXCEPT ![m.to] = Max({@, MatchedBy(m)})]
  <2>1. n \in Node /\ m.to \in Node /\ MatchedBy(m) \in Nat
    BY <1>0 DEF AppendResponse, MatchedBy
  <2>2. Readable(n) = {DOMAIN log[n]}
    BY Zenon DEF Readable
  <2>3. \/ commitIndex' = commitIndex
        \/ /\ state[n] = "Leader" /\ state' = state /\ log' = log
           /\ matchIndex' = [matchIndex EXCEPT ![n] = match]
           /\ commitIndex' = [commitIndex EXCEPT
                                ![n] = CommitPoint(n, match, DOMAIN log[n])]
    BY Zenon, <1>6, <2>2 DEF ReceiveAppend, ApplyAppendResponse
  <2> HIDE DEF n, match
  <2>4. matchIndex' = [matchIndex EXCEPT ![n] = match] => match \in [Node -> Nat]
    <3>1. matchIndex' = [matchIndex EXCEPT ![n] = match] => matchIndex'[n] = match
      BY Zenon, <1>0, <2>1
    <3> QED BY <1>0, <2>1, <3>1
  <2>5. CASE /\ state[n] = "Leader" /\ state' = state /\ log' = log
             /\ matchIndex' = [matchIndex EXCEPT ![n] = match]
             /\ commitIndex' = [commitIndex EXCEPT
                                  ![n] = CommitPoint(n, match, DOMAIN log[n])]
    BY Zenon, <1>2, <2>1, <2>4, <2>5 DEF CommitMoves
  <2> QED BY Zenon, <1>1, <2>3, <2>5
<1> HIDE DEF Goal
<1>7. Goal
  BY Zenon, <1>3, <1>4, <1>5, <1>6 DEF Next
<1> QED BY Zenon, <1>7 DEF Goal

\* checkCommit commits what a quorum has acknowledged, an entry of the term.
LEMMA LeaderCommits ==
  ASSUME SafeStep, AckInv, Quorums, NEW q \in Node, state[q] = "Leader",
         state'[q] = "Leader", NEW match \in [Node -> Nat],
         matchIndex' = [matchIndex EXCEPT ![q] = match],
         NEW k, k = CommitPoint(q, match, DOMAIN log[q]), k # commitIndex[q]
  PROVE  /\ k \in Nat /\ k >= commitIndex[q]
         /\ Settled(reign, acks, log[q], k, currentTerm[q])
<1> DEFINE T == currentTerm[q]
           Has(i) == {p \in Peers(q) : match[p] >= i}
           C == {i \in commitIndex[q] + 1 .. Len(log[q]) :
                   /\ GetTerm(q, i, DOMAIN log[q]) = T
                   /\ Cardinality(Has(i)) + 1 >= quorumSize}
           D == {commitIndex[q]} \cup C
<1>0. /\ MinMax /\ TypeOK /\ ReignInv /\ matchIndex \in [Node -> [Node -> Nat]]
      /\ commitIndex[q] \in Nat /\ log[q] \in Seq(Entry) /\ T \in Nat
  BY Zenon DEF SafeStep, LogInv, TypeOK
<1>1. k \in C
  <2>1. k = Max(D)
    BY Zenon DEF CommitPoint
  <2>2. /\ D \in SUBSET Nat /\ D # {} /\ commitIndex[q] + Len(log[q]) \in Nat
        /\ \A x \in D : x <= commitIndex[q] + Len(log[q])
    BY SMTT(30), <1>0
  <2> HIDE DEF D
  <2>3. Max(D) \in D
    BY Zenon, <1>0, <2>2 DEF MinMax
  <2> QED BY Zenon, <2>1, <2>3 DEF D
<1>2. /\ k \in 1..Len(log[q]) /\ log[q][k].term = T /\ k >= commitIndex[q]
      /\ Cardinality(Has(k)) + 1 >= quorumSize
  <2>1. /\ k \in commitIndex[q] + 1 .. Len(log[q])
        /\ GetTerm(q, k, DOMAIN log[q]) = T
        /\ Cardinality(Has(k)) + 1 >= quorumSize
    BY Zenon, <1>1
  <2>2. k \in 1..Len(log[q]) /\ DOMAIN log[q] = 1..Len(log[q])
        /\ k >= commitIndex[q]
    BY <1>0, <2>1
  <2> QED BY Zenon, <2>1, <2>2 DEF GetTerm
<1>3. T \in DOMAIN reign /\ reign[T] = log[q]
  BY Zenon, <1>0 DEF ReignInv, Leaders
<1>4. ASSUME NEW p \in Has(k) PROVE HasAcked(acks, p, T, k)
  <2>1. p \in Node /\ match[p] >= k /\ matchIndex'[q][p] = match[p]
        /\ match[p] \in Nat /\ k \in Nat /\ k > 0
    BY <1>0, <1>2 DEF Peers
  <2>2. HasAcked(acks, p, T, match[p])
    <3>1. matchIndex'[q][p] > 0
      BY <2>1
    <3> QED BY Zenon, <2>1, <3>1, MatchAcked
  <2>3. PICK a \in acks : a.node = p /\ a.term = T /\ a.index >= match[p]
    BY Zenon, <2>2 DEF HasAcked
  <2>4. a.index \in Nat
    BY DEF AckInv, OwnIndices
  <2>5. a.index >= k
    BY SMTT(30), <2>1, <2>3, <2>4
  <2> QED BY Zenon, <2>3, <2>5 DEF HasAcked
<1>5. HasAcked(acks, q, T, k)
  <2> DEFINE a == [node |-> q, term |-> T, index |-> Len(log[q])]
  <2>1. a \in acks
    BY Zenon DEF AckInv, Acked, Leaders
  <2>2. a.node = q /\ a.term = T /\ a.index >= k
    BY <1>0, <1>2
  <2> QED BY Zenon, <2>1, <2>2 DEF HasAcked
<1>6. \E Q \in SUBSET Node : /\ Cardinality(Q) >= quorumSize
                             /\ \A v \in Q : HasAcked(acks, v, T, k)
  <2>1. Has(k) \in SUBSET Peers(q)
    BY Zenon
  <2> DEFINE Q == Has(k) \cup {q}
  <2>2. Q \in SUBSET Node
    BY Zenon DEF Peers
  <2>3. \A v \in Q : HasAcked(acks, v, T, k)
    BY Zenon, <1>4, <1>5
  <2> HIDE DEF Has
  <2>4. Cardinality(Q) >= quorumSize
    BY Zenon, <1>2, <2>1 DEF Quorums
  <2> QED BY Zenon, <2>2, <2>3, <2>4
<1> HIDE DEF T, Has, C
<1>7. k \in OwnIndices(reign, T)
  BY Zenon, <1>2, <1>3 DEF OwnIndices
<1>8. CommittedAt(reign, acks, T, k)
  BY Zenon, <1>3, <1>6, <1>7 DEF CommittedAt
<1>9. Agree(log[q], reign[T], k)
  BY <1>0, <1>2, <1>3 DEF Agree
<1>10. k \in Nat /\ T <= T /\ k <= k
  BY <1>0, <1>2
<1>11. Settled(reign, acks, log[q], k, T)
  BY Zenon, <1>3, <1>7, <1>8, <1>9, <1>10 DEF Settled
<1> QED BY Zenon, <1>2, <1>10, <1>11 DEF T

\* Rule 5 follows a leader in what its request covers.
LEMMA FollowerCommits ==
  ASSUME SafeStep, CommitInv, NEW m \in appendRequests, NEW o, AcceptStep(m, o),
         o[2], NEW k, k = NewCommitIndex(m.to, m.leaderCommit, Len(o[1])),
         k # commitIndex[m.to]
  PROVE  /\ k \in Nat /\ k >= commitIndex[m.to]
         /\ Settled(reign', acks', log'[m.to], k, currentTerm'[m.to])
<1> DEFINE q == m.to
           u == m.term
<1>0. /\ MinMax /\ TypeOK /\ ReignInv /\ RequestInv
  BY Zenon DEF SafeStep, LogInv
<1>1. /\ u \in DOMAIN reign /\ q \in Node /\ log'[q] = o[1] /\ o[1] \in Seq(Entry)
      /\ Agree(o[1], reign[u], LastSent(m))
  BY Zenon, <1>0, AcceptFollows DEF Follows
<1>2. currentTerm'[q] = u
  BY Zenon DEF AcceptStep
<1>3. /\ m.leaderCommit <= LastSent(m) /\ m.leaderCommit \in Nat
      /\ LastSent(m) \in Nat /\ LastSent(m) <= Len(o[1]) /\ Len(o[1]) \in Nat
      /\ u \in Nat /\ reign[u] \in Seq(Entry)
  <2>1. m \in AppendRequest
    BY Zenon, <1>0 DEF TypeOK
  <2>2. m.leaderCommit \in Nat /\ LastSent(m) \in Nat
    BY <2>1 DEF AppendRequest, LastSent
  <2>3. LastSent(m) <= Len(o[1])
    BY Zenon, <1>1 DEF Agree
  <2>4. m.leaderCommit <= LastSent(m)
    BY Zenon DEF CommitInv
  <2>5. u \in Nat /\ reign[u] \in Seq(Entry)
    BY Zenon, <1>1, SafeTypes DEF IsRecord
  <2> QED BY SMTT(30), <1>1, <2>2, <2>3, <2>4, <2>5
<1>4. k = m.leaderCommit /\ k >= commitIndex[q]
  <2>0. commitIndex[q] \in Nat
    BY Zenon, <1>0, <1>1 DEF TypeOK
  <2>1. k = Min({m.leaderCommit, Len(o[1])}) /\ m.leaderCommit > commitIndex[q]
    BY Zenon DEF NewCommitIndex
  <2>2. {m.leaderCommit, Len(o[1])} \in SUBSET Nat
    BY Zenon, <1>3
  <2>3. /\ Min({m.leaderCommit, Len(o[1])}) \in {m.leaderCommit, Len(o[1])}
        /\ \A y \in {m.leaderCommit, Len(o[1])} :
             Min({m.leaderCommit, Len(o[1])}) <= y
    BY Zenon, <1>0, <2>2 DEF MinMax
  <2> QED BY SMTT(30), <1>3, <2>0, <2>1, <2>3
<1>5. Settled(reign, acks, reign[u], k, u)
  BY Zenon, <1>4 DEF CommitInv
<1> HIDE DEF q, u
<1>6. Agree(log'[q], reign[u], k)
  BY Zenon, <1>1, <1>3, <1>4, AgreeLess
<1>7. k \in Nat /\ u <= u
  BY SMTT(30), <1>3, <1>4
<1>8. Settled(reign', acks', log'[q], k, u)
  BY SMTT(30), <1>3, <1>5, <1>6, <1>7, SafeTypes, SettledStays
<1> QED BY Zenon, <1>2, <1>4, <1>7, <1>8 DEF q

\* What the nodes take to be committed is.
LEMMA NodesCommit ==
  ASSUME SafeStep, Quorums, AckInv, LaterLeaderHas, CommitInv, NEW n \in Node
  PROVE  Settled(reign', acks', log'[n], commitIndex'[n], currentTerm'[n])
<1>1. /\ MinMax /\ "read" \notin StorageFaults /\ TypeOK /\ TypeOK' /\ ReignInv
      /\ LeaderIsElected /\ SenderElected /\ [Next]_vars
  BY Zenon DEF SafeStep, LogInv
<1>2. PICK k \in Nat : k = commitIndex[n]
  BY Zenon, <1>1 DEF TypeOK
<1>3. Settled(reign', acks', log'[n], k, currentTerm'[n])
  BY Zenon, <1>2, SettledKept DEF CommitInv
<1>4. CASE commitIndex'[n] = commitIndex[n]
  BY Zenon, <1>2, <1>3, <1>4
<1>5. CASE commitIndex'[n] # commitIndex[n]
  <2>1. CommitMoves(n)
    BY Zenon, <1>1, <1>5, CommitStep
  <2>2. CASE commitIndex'[n] = 0
    BY SMTT(30), <2>2 DEF Settled
  <2>3. ASSUME NEW m \in appendRequests, NEW o, AcceptStep(m, o), o[2], n = m.to,
               commitIndex'[n] = NewCommitIndex(n, m.leaderCommit, Len(o[1]))
        PROVE  Settled(reign', acks', log'[n], commitIndex'[n], currentTerm'[n])
    BY Zenon, <1>5, <2>3, FollowerCommits
  <2>4. ASSUME state[n] = "Leader", state'[n] = "Leader",
               NEW match \in [Node -> Nat],
               matchIndex' = [matchIndex EXCEPT ![n] = match],
               commitIndex'[n] = CommitPoint(n, match, DOMAIN log[n])
        PROVE  Settled(reign', acks', log'[n], commitIndex'[n], currentTerm'[n])
    <3>1. PICK j : j = commitIndex'[n]
      BY Zenon
    <3>2. j \in Nat /\ Settled(reign, acks, log[n], j, currentTerm[n])
      BY Zenon, <1>5, <2>4, <3>1, LeaderCommits
    <3>3. Settled(reign', acks', log'[n], j, currentTerm'[n])
      BY Zenon, <3>2, SettledKept
    <3> QED BY Zenon, <3>1, <3>3
  <2> QED BY Zenon, <1>5, <2>1, <2>2, <2>3, <2>4 DEF CommitMoves
<1> QED BY Zenon, <1>4, <1>5

\* The calls of sendAppendEntries come from the heartbeats.
LEMMA CallsFrom ==
  ASSUME [Next]_vars
  PROVE  \/ appendCalls' \subseteq appendCalls
         \/ \E n \in Node : sendHeartbeats(n)
<1>1. CASE \/ UNCHANGED vars
           \/ \E n \in Node : \/ TimerFires(n) \/ startElection(n)
                              \/ CheckWon(n)
                              \/ \E c \in Command : Propose(n, c)
                              \/ leaderLoopReturns(n) \/ Restart(n)
           \/ \E m \in voteRequests : HandleRequestVote(m)
           \/ \E m \in voteResponses : ReceiveVote(m)
  BY Zenon, <1>1
  DEF vars, TimerFires, startElection, CheckWon, Propose, leaderLoopReturns,
      Restart, HandleRequestVote, ReceiveVote, appendVars
<1>2. CASE \/ \E c \in appendCalls : sendAppendEntries(c)
           \/ \E m \in appendRequests : HandleAppendEntries(m)
           \/ \E m \in appendResponses : ReceiveAppend(m)
           \/ LoseRPC
  BY Zenon, <1>2
  DEF sendAppendEntries, HandleAppendEntries, ReceiveAppend, LoseRPC, Taken,
      appendVars
<1> QED BY Zenon, <1>1, <1>2 DEF Next

\* What is committed of a log is in it.
LEMMA SettledLength ==
  ASSUME NEW R, NEW A, NEW s \in Seq(Entry), NEW k \in Nat, NEW b,
         Settled(R, A, s, k, b)
  PROVE  k <= Len(s)
<1>1. k > 0 => \E t : Agree(s, R[t], k)
  BY Zenon DEF Settled
<1> QED BY <1>1 DEF Agree

\* What a request tells to be committed is in its leader's log.
RequestSettled(m) ==
  m.term \in DOMAIN reign
  /\ Settled(reign, acks, reign[m.term], m.leaderCommit, m.term)

LEMMA RequestsCommit ==
  ASSUME SafeStep, CommitInv, NEW m \in appendCalls' \cup appendRequests'
  PROVE  RequestSettled(m)'
<1>1. /\ "read" \notin StorageFaults /\ TypeOK /\ ReignInv /\ NextInv
      /\ [Next]_vars /\ TypeOK'
  BY Zenon DEF SafeStep, LogInv
<1>2. ASSUME NEW c, c \in AppendCall \/ c \in AppendRequest, RequestSettled(c)
      PROVE  RequestSettled(c)'
  <2>1. c.leaderCommit \in Nat
    BY Zenon, <1>2 DEF AppendCall, AppendRequest
  <2> QED BY Zenon, <1>2, <2>1, SettledReign DEF RequestSettled
<1>3. appendCalls \subseteq AppendCall /\ appendRequests \subseteq AppendRequest
      /\ appendCalls' \subseteq AppendCall /\ appendRequests' \subseteq AppendRequest
  BY Zenon, <1>1 DEF TypeOK
<1>4. \A c \in appendCalls \cup appendRequests : RequestSettled(c)
  BY Zenon DEF CommitInv, RequestSettled
<1>5. CASE m \in appendCalls \cup appendRequests
  BY Zenon, <1>2, <1>3, <1>4, <1>5
<1>6. CASE m \in appendCalls' /\ m \notin appendCalls
  <2>1. PICK n \in Node : sendHeartbeats(n)
    BY Zenon, <1>1, <1>6, CallsFrom
  <2>2. PICK p : m = [from |-> n, to |-> p, term |-> currentTerm[n],
                      leaderCommit |-> commitIndex[n]]
    BY Zenon, <1>6, <2>1 DEF sendHeartbeats
  <2>3. m.term = currentTerm[n] /\ m.leaderCommit = commitIndex[n]
        /\ state[n] = "Leader"
    BY Zenon, <2>1, <2>2 DEF sendHeartbeats
  <2>4. m.term \in DOMAIN reign /\ reign[m.term] = log[n]
    BY Zenon, <1>1, <2>3 DEF ReignInv, Leaders
  <2>5. RequestSettled(m)
    BY Zenon, <2>3, <2>4 DEF CommitInv, RequestSettled
  <2> QED BY Zenon, <1>2, <1>3, <1>6, <2>5
<1>7. CASE m \in appendRequests' /\ m \notin appendRequests
  <2>1. PICK c \in appendCalls : sendAppendEntries(c)
    BY Zenon, <1>1, <1>7, MessagesFrom
  <2>2. m.term = c.term /\ m.leaderCommit = c.leaderCommit
    BY Zenon, <1>1, <1>7, <2>1, SentCarries
  <2>3. RequestSettled(m)
    BY Zenon, <1>4, <2>2 DEF RequestSettled
  <2> QED BY Zenon, <1>2, <1>3, <1>7, <2>3
<1> QED BY Zenon, <1>5, <1>6, <1>7

LEMMA RequestsCover ==
  ASSUME SafeStep, CommitInv, NEW m \in appendRequests'
  PROVE  m.leaderCommit <= LastSent(m)
<1>1. /\ "read" \notin StorageFaults /\ TypeOK /\ ReignInv /\ NextInv
      /\ [Next]_vars
  BY Zenon DEF SafeStep, LogInv
<1>2. CASE m \in appendRequests
  BY Zenon, <1>2 DEF CommitInv
<1>3. CASE m \notin appendRequests
  <2>1. PICK c \in appendCalls : sendAppendEntries(c)
    BY Zenon, <1>1, <1>3, MessagesFrom
  <2>2. /\ m.term = c.term /\ m.leaderCommit = c.leaderCommit
        /\ LastSent(m) = Len(reign[m.term])
    BY Zenon, <1>1, <1>3, <2>1, SentCarries
  <2>3. /\ m.term \in DOMAIN reign
        /\ Settled(reign, acks, reign[m.term], m.leaderCommit, m.term)
    BY Zenon, <2>2 DEF CommitInv
  <2>4. m.leaderCommit \in Nat /\ reign[m.term] \in Seq(Entry)
    BY Zenon, <1>1, <2>2, <2>3, SafeTypes DEF TypeOK, AppendCall, IsRecord
  <2> QED BY Zenon, <2>2, <2>3, <2>4, SettledLength
<1> QED BY Zenon, <1>2, <1>3

\* What n knows to be committed, when its commit index is in its log.
LEMMA CommittedIs ==
  ASSUME MinMax, NEW s \in Seq(Entry), NEW k \in Nat, k <= Len(s)
  PROVE  LET w == SubSeq(s, 1, Min({k, Len(s)}))
         IN w \in Seq(Entry) /\ Len(w) = k /\ Agree(w, s, k)
<1>1. Len(s) \in Nat /\ {k, Len(s)} \in SUBSET Nat
  OBVIOUS
<1>2. /\ Min({k, Len(s)}) \in {k, Len(s)}
      /\ \A y \in {k, Len(s)} : Min({k, Len(s)}) <= y
  BY Zenon, <1>1 DEF MinMax
<1>3. Min({k, Len(s)}) = k
  BY <1>1, <1>2
<1>4. ASSUME NEW j \in Nat, j = k
      PROVE  SubSeq(s, 1, j) \in Seq(Entry) /\ Len(SubSeq(s, 1, j)) = k
             /\ Agree(SubSeq(s, 1, j), s, k)
  BY SMTT(30), <1>1, <1>4 DEF Agree
<1> QED BY Zenon, <1>3, <1>4

\* A log of which more is committed by the leaders that committed it.
LEMMA SettledPrefix ==
  ASSUME NEW R, IsRecord(R), NEW A, NEW s, NEW w, NEW k \in Nat, NEW b \in Nat,
         k > 0 => Agree(w, s, k), Settled(R, A, s, k, b)
  PROVE  Settled(R, A, w, k, b)
<1>1. RecordStep(R, R)
  BY DEF RecordStep, IsRecord, Grows, Agree
<1>2. b <= b
  OBVIOUS
<1> QED BY Zenon, <1>1, <1>2, SettledStays

\* The history records what the step commits, if it is more.
ChosenStep == RecordChosen \/ UNCHANGED <<chosen, commitIndex>>

LEMMA ChosenKept ==
  ASSUME SafeStep, CommitInv
  PROVE  \E n \in Node :
           Settled(reign', acks', chosen, Len(chosen), currentTerm'[n])
<1>1. PICK n \in Node : Settled(reign, acks, chosen, Len(chosen), currentTerm[n])
  BY Zenon DEF CommitInv
<1>2. /\ Len(chosen) \in Nat /\ Agree(chosen, chosen, Len(chosen))
      /\ currentTerm[n] \in Nat /\ currentTerm'[n] \in Nat
      /\ currentTerm[n] <= currentTerm'[n]
  BY SafeTypes DEF CommitInv, Agree
<1>3. PICK k \in Nat : k = Len(chosen)
  BY Zenon, <1>2
<1>4. Settled(reign', acks', chosen, k, currentTerm'[n])
  BY Zenon, <1>1, <1>2, <1>3, SafeTypes, SettledStays
<1> QED BY Zenon, <1>3, <1>4

\* What n knows to be committed after a step is settled.
LEMMA NodeKnows ==
  ASSUME SafeStep, Quorums, AckInv, LaterLeaderHas, CommitInv, NEW n \in Node
  PROVE  /\ Committed(n)' \in Seq(Entry) /\ Len(Committed(n)') = commitIndex'[n]
         /\ commitIndex'[n] \in Nat
         /\ Settled(reign', acks', Committed(n)', commitIndex'[n], currentTerm'[n])
<1>1. Settled(reign', acks', log'[n], commitIndex'[n], currentTerm'[n])
  BY Zenon, NodesCommit
<1>2. log'[n] \in Seq(Entry) /\ commitIndex'[n] \in Nat /\ MinMax
      /\ currentTerm'[n] \in Nat /\ IsRecord(reign')
  BY Zenon, SafeTypes DEF SafeStep, TypeOK
<1>3. commitIndex'[n] <= Len(log'[n])
  BY Zenon, <1>1, <1>2, SettledLength
<1>4. /\ Committed(n)' \in Seq(Entry) /\ Len(Committed(n)') = commitIndex'[n]
      /\ Agree(Committed(n)', log'[n], commitIndex'[n])
  BY Zenon, <1>2, <1>3, CommittedIs DEF Committed
<1>5. Settled(reign', acks', Committed(n)', commitIndex'[n], currentTerm'[n])
  BY Zenon, <1>1, <1>2, <1>4, SettledPrefix
<1> QED BY Zenon, <1>2, <1>4, <1>5

LEMMA ChosenIsSettled ==
  ASSUME SafeStep, Quorums, AckInv, LaterLeaderHas, CommitInv, ChosenStep
  PROVE  /\ chosen' \in Seq(Entry)
         /\ \A n \in Node : commitIndex'[n] <= Len(chosen')
         /\ \E n \in Node :
              Settled(reign', acks', chosen', Len(chosen'), currentTerm'[n])
<1>1. chosen \in Seq(Entry) /\ \A n \in Node : commitIndex[n] <= Len(chosen)
  BY Zenon DEF CommitInv
<1>2. CASE chosen' = chosen /\ \A n \in Node : commitIndex'[n] <= Len(chosen)
  BY Zenon, <1>1, <1>2, ChosenKept
<1>3. ASSUME NEW n \in Node, commitIndex'[n] > Len(chosen),
             chosen' = Committed(n)'
      PROVE  /\ chosen' \in Seq(Entry)
             /\ \A p \in Node : commitIndex'[p] <= Len(chosen')
             /\ Settled(reign', acks', chosen', Len(chosen'), currentTerm'[n])
  <2>1. /\ chosen' \in Seq(Entry) /\ Len(chosen') = commitIndex'[n]
        /\ Settled(reign', acks', chosen', Len(chosen'), currentTerm'[n])
    BY Zenon, <1>3, NodeKnows
  <2>2. PICK q \in Node : \A p \in Node \ {q} : commitIndex'[p] = commitIndex[p]
    BY Zenon, CommitStep DEF SafeStep
  <2>3. ASSUME NEW p \in Node PROVE commitIndex'[p] <= Len(chosen')
    <3>1. /\ commitIndex[p] \in Nat /\ commitIndex[n] \in Nat
          /\ commitIndex'[n] \in Nat /\ Len(chosen) \in Nat
          /\ commitIndex[p] <= Len(chosen) /\ commitIndex[n] <= Len(chosen)
      BY SMTT(30), <1>1 DEF SafeStep, TypeOK
    <3>2. q = n
      BY SMTT(30), <1>3, <2>2, <3>1
    <3> QED BY SMTT(30), <1>3, <2>1, <2>2, <3>1, <3>2
  <2> QED BY Zenon, <2>1, <2>3
<1> QED BY Zenon, <1>1, <1>2, <1>3 DEF ChosenStep, RecordChosen

LEMMA CommitInvStep ==
  ASSUME SafeStep, Quorums, AckInv, LaterLeaderHas, CommitInv, ChosenStep
  PROVE  CommitInv'
<1>1. \A n \in Node :
        Settled(reign', acks', log'[n], commitIndex'[n], currentTerm'[n])
  BY Zenon, NodesCommit
<1>2. \A m \in appendCalls' \cup appendRequests' :
        /\ m.term \in DOMAIN reign'
        /\ Settled(reign', acks', reign'[m.term], m.leaderCommit, m.term)
  BY Zenon, RequestsCommit DEF RequestSettled
<1>3. \A m \in appendRequests' : m.leaderCommit <= LastSent(m)
  BY Zenon, RequestsCover
<1> QED BY Zenon, <1>1, <1>2, <1>3, ChosenIsSettled DEF CommitInv, LastSent

\* Every step preserves the invariant on commitment.
LEMMA SafetyInvStep ==
  ASSUME SafeStep, Quorums, TermsSaved', SafetyInv, ChosenStep
  PROVE  SafetyInv'
<1>1. /\ TermsSaved /\ TermInv /\ AckInv /\ KeepsAcked /\ VotersInv
      /\ LaterLeaderHas /\ CommitInv
  BY Zenon DEF SafetyInv
<1>2. TermInv' /\ AckInv' /\ KeepsAcked'
  BY Zenon, <1>1, TermInvStep, AckInvStep, KeepsAckedStep
<1>3. VotersInv'
  BY Zenon, <1>1, <1>2, VotersInvStep
<1>4. LaterLeaderHas' /\ CommitInv'
  BY Zenon, <1>1, LaterLeaderHasStep, CommitInvStep
<1> QED BY Zenon, <1>2, <1>3, <1>4 DEF SafetyInv

-----------------------------------------------------------------------------
(* What the invariant on commitment says *)

\* Later leaders have what earlier ones committed.
Had(R, A) ==
  \A t, u \in DOMAIN R : \A i \in OwnIndices(R, t) :
    CommittedAt(R, A, t, i) /\ t <= u => Agree(R[u], R[t], i)

LEMMA LeadersHaveCommitted ==
  Quorums /\ TypeOK /\ LogInv /\ SafetyInv => Had(reign, acks) /\ IsRecord(reign)
<1> SUFFICES ASSUME Quorums, TypeOK, LogInv, SafetyInv
             PROVE  Had(reign, acks) /\ IsRecord(reign)
  BY Zenon
<1>1. IsRecord(reign)
  BY Zenon, ReignTypes DEF IsRecord, LogInv
<1> QED BY Zenon, <1>1, CommittedIsHad DEF Had, SafetyInv

\* Two logs agree on what is committed of both.
LEMMA SettledAgree ==
  ASSUME NEW R, NEW A, IsRecord(R), Had(R, A),
         NEW s \in Seq(Entry), NEW w \in Seq(Entry), NEW k \in Nat, NEW j \in Nat,
         0 < k, k <= j, NEW b, NEW c, Settled(R, A, s, k, b), Settled(R, A, w, j, c)
  PROVE  Agree(s, w, k)
<1>1. PICK t, i :
        /\ t \in DOMAIN R /\ i \in OwnIndices(R, t)
        /\ k <= i /\ CommittedAt(R, A, t, i) /\ Agree(s, R[t], k)
  BY Zenon DEF Settled
<1>2. PICK u, l :
        /\ u \in DOMAIN R /\ l \in OwnIndices(R, u)
        /\ j <= l /\ CommittedAt(R, A, u, l) /\ Agree(w, R[u], j)
  <2>1. j > 0
    BY SMTT(30)
  <2> QED BY Zenon, <2>1 DEF Settled
<1>3. /\ R[t] \in Seq(Entry) /\ R[u] \in Seq(Entry) /\ t \in Nat /\ u \in Nat
      /\ i \in Nat /\ l \in Nat /\ k <= l
  BY SMTT(30), <1>1, <1>2 DEF IsRecord, OwnIndices
<1>4. Agree(w, R[u], k)
  BY Zenon, <1>2, <1>3, AgreeLess
<1>5. Agree(R[u], R[t], k)
  <2>1. CASE t <= u
    <3>1. Agree(R[u], R[t], i)
      BY Zenon, <1>1, <1>2, <2>1 DEF Had
    <3> QED BY Zenon, <1>1, <1>3, <3>1, AgreeLess
  <2>2. CASE u <= t
    <3>1. Agree(R[t], R[u], l)
      BY Zenon, <1>1, <1>2, <2>2 DEF Had
    <3> QED BY Zenon, <1>3, <3>1, AgreeLess, AgreeSym
  <2> QED BY SMTT(30), <1>3, <2>1, <2>2
<1> QED BY Zenon, <1>1, <1>4, <1>5, AgreeSym, AgreeTrans

\* What a leader counts as replicated is: no later leader has sent anything to
\* a follower that is in the leader's term.
LEMMA SafetyMatches == TypeOK /\ LogInv /\ SafetyInv => MatchIndexSound
<1> SUFFICES ASSUME TypeOK, LogInv, SafetyInv, NEW n \in Node, NEW p \in Node,
                    state[n] = "Leader", currentTerm[p] = currentTerm[n],
                    NEW i \in 1..matchIndex[n][p]
             PROVE  /\ i \in DOMAIN log[n] /\ i \in DOMAIN log[p]
                    /\ log[p][i] = log[n][i]
  BY Zenon DEF MatchIndexSound
<1> DEFINE T == currentTerm[n]
<1>1. /\ ReignInv /\ AckInv /\ KeepsAcked /\ matchIndex[n][p] \in Nat /\ T \in Nat
      /\ log[n] \in Seq(Entry) /\ log[p] \in Seq(Entry)
  BY Zenon DEF LogInv, SafetyInv, TypeOK
<1>2. T \in DOMAIN reign /\ reign[T] = log[n]
  BY Zenon, <1>1 DEF ReignInv, Leaders
<1>3. HasAcked(acks, p, T, matchIndex[n][p])
  <2>1. matchIndex[n][p] > 0
    BY SMTT(30), <1>1
  <2> QED BY Zenon, <1>1, <2>1 DEF AckInv, Leaders
<1>4. PICK a \in acks : a.node = p /\ a.term = T /\ a.index >= matchIndex[n][p]
  BY Zenon, <1>3 DEF HasAcked
<1>5. a.index \in OwnIndices(reign, T) /\ a.index \in Nat
  BY SMTT(30), <1>1, <1>4 DEF AckInv, OwnIndices
<1>6. Agree(log[p], reign[T], a.index) \/ Lost(reign, T, a.index, T)
  <2>1. HasAcked(acks, p, T, a.index)
    BY SMTT(30), <1>4, <1>5 DEF HasAcked
  <2> QED BY Zenon, <1>1, <1>2, <1>5, <2>1 DEF KeepsAcked
<1>7. ~Lost(reign, T, a.index, T)
  <2>1. \A u \in DOMAIN reign : u \in Nat
    BY Zenon, <1>1 DEF ReignInv
  <2> QED BY SMTT(30), <1>1, <2>1 DEF Lost
<1> HIDE DEF T
<1> QED BY SMTT(30), <1>1, <1>2, <1>4, <1>5, <1>6, <1>7 DEF Agree

LEMMA SafetyStateMachines ==
  ASSUME MinMax, Quorums
  PROVE  TypeOK /\ LogInv /\ SafetyInv => StateMachineSafety
<1> SUFFICES ASSUME TypeOK, LogInv, SafetyInv, NEW n1 \in Node, NEW n2 \in Node,
                    NEW i \in 1..Min({commitIndex[n1], commitIndex[n2]})
             PROVE  /\ i \in DOMAIN log[n1] /\ i \in DOMAIN log[n2]
                    /\ log[n1][i] = log[n2][i]
  BY Zenon DEF StateMachineSafety
<1>1. /\ commitIndex[n1] \in Nat /\ commitIndex[n2] \in Nat
      /\ log[n1] \in Seq(Entry) /\ log[n2] \in Seq(Entry)
  BY Zenon DEF TypeOK
<1>2. i \in Nat /\ 0 < i /\ i <= commitIndex[n1] /\ i <= commitIndex[n2]
  <2> DEFINE S == {commitIndex[n1], commitIndex[n2]}
  <2>1. S \in SUBSET Nat /\ S # {}
    BY Zenon, <1>1
  <2>2. Min(S) \in S /\ \A y \in S : Min(S) <= y
    BY Zenon, <2>1 DEF MinMax
  <2> QED BY SMTT(30), <1>1, <2>2
<1>3. Had(reign, acks) /\ IsRecord(reign)
  BY Zenon, LeadersHaveCommitted
<1>4. /\ Settled(reign, acks, log[n1], commitIndex[n1], currentTerm[n1])
      /\ Settled(reign, acks, log[n2], commitIndex[n2], currentTerm[n2])
  BY Zenon DEF SafetyInv, CommitInv
<1>5. CASE commitIndex[n1] <= commitIndex[n2]
  <2>1. 0 < commitIndex[n1]
    BY SMTT(30), <1>1, <1>2
  <2>2. Agree(log[n1], log[n2], commitIndex[n1])
    BY Zenon, <1>1, <1>3, <1>4, <1>5, <2>1, SettledAgree
  <2> QED BY SMTT(30), <1>1, <1>2, <2>2 DEF Agree
<1>6. CASE commitIndex[n2] <= commitIndex[n1]
  <2>1. 0 < commitIndex[n2]
    BY SMTT(30), <1>1, <1>2
  <2>2. Agree(log[n2], log[n1], commitIndex[n2])
    BY Zenon, <1>1, <1>3, <1>4, <1>6, <2>1, SettledAgree
  <2> QED BY SMTT(30), <1>1, <1>2, <2>2 DEF Agree
<1> QED BY SMTT(30), <1>1, <1>5, <1>6

\* A leader of the newest term has all that is committed.
LEMMA NewestLeaderHas ==
  ASSUME Quorums, TypeOK, LogInv, SafetyInv, NEW n \in Node,
         state[n] = "Leader", \A p \in Node : currentTerm[p] <= currentTerm[n]
  PROVE  chosen \in Seq(Entry) /\ Agree(chosen, log[n], Len(chosen))
<1>1. PICK p \in Node : Settled(reign, acks, chosen, Len(chosen), currentTerm[p])
  BY Zenon DEF SafetyInv, CommitInv
<1>2. /\ chosen \in Seq(Entry) /\ log[n] \in Seq(Entry) /\ Len(chosen) \in Nat
      /\ currentTerm[n] \in Nat /\ currentTerm[p] \in Nat
  BY SMTT(30) DEF SafetyInv, CommitInv, TypeOK
<1>3. CASE Len(chosen) = 0
  BY SMTT(30), <1>2, <1>3 DEF Agree
<1>4. CASE Len(chosen) > 0
  <2>1. PICK t, i :
          /\ t \in DOMAIN reign /\ i \in OwnIndices(reign, t)
          /\ t <= currentTerm[p] /\ Len(chosen) <= i
          /\ CommittedAt(reign, acks, t, i) /\ Agree(chosen, reign[t], Len(chosen))
    BY Zenon, <1>1, <1>4 DEF Settled
  <2>2. currentTerm[n] \in DOMAIN reign /\ reign[currentTerm[n]] = log[n]
    BY Zenon DEF LogInv, ReignInv, Leaders
  <2>3. Had(reign, acks) /\ IsRecord(reign)
    BY Zenon, LeadersHaveCommitted
  <2>4. t <= currentTerm[n]
    <3>1. t \in Nat /\ currentTerm[p] <= currentTerm[n]
      BY Zenon, <2>1, <2>3 DEF IsRecord
    <3> QED BY SMTT(30), <1>2, <2>1, <3>1
  <2>5. Agree(log[n], reign[t], i)
    BY Zenon, <2>1, <2>2, <2>3, <2>4 DEF Had
  <2>6. i \in Nat /\ reign[t] \in Seq(Entry)
    BY SMTT(30), <2>1, <2>3 DEF IsRecord, OwnIndices
  <2>7. Agree(log[n], reign[t], Len(chosen))
    BY Zenon, <1>2, <2>1, <2>5, <2>6, AgreeLess
  <2> QED BY Zenon, <1>2, <2>1, <2>7, AgreeSym, AgreeTrans
<1> QED BY SMTT(30), <1>2, <1>3, <1>4

\* What is committed is in the logs of a quorum.
LEMMA QuorumStores ==
  ASSUME Quorums, TypeOK, LogInv, SafetyInv, NEW s \in Seq(Entry), NEW b,
         Settled(reign, acks, s, Len(s), b)
  PROVE  \E Q \in SUBSET Node : /\ Cardinality(Q) >= quorumSize
                                /\ \A v \in Q : Agree(s, log[v], Len(s))
<1>1. Len(s) \in Nat /\ \A v \in Node : log[v] \in Seq(Entry)
  BY DEF TypeOK
<1>2. CASE Len(s) = 0
  <2>1. \A v \in Node : Agree(s, log[v], Len(s))
    BY SMTT(30), <1>1, <1>2 DEF Agree
  <2> QED BY Zenon, <2>1 DEF Quorums
<1>3. CASE Len(s) > 0
  <2>1. PICK t, i :
          /\ t \in DOMAIN reign /\ i \in OwnIndices(reign, t) /\ Len(s) <= i
          /\ CommittedAt(reign, acks, t, i) /\ Agree(s, reign[t], Len(s))
    BY Zenon, <1>3 DEF Settled
  <2>2. PICK Q \in SUBSET Node : /\ Cardinality(Q) >= quorumSize
                                 /\ \A v \in Q : HasAcked(acks, v, t, i)
    BY Zenon, <2>1 DEF CommittedAt
  <2>3. Had(reign, acks) /\ IsRecord(reign)
    BY Zenon, LeadersHaveCommitted
  <2>4. ASSUME NEW v \in Q PROVE Agree(s, log[v], Len(s))
    <3>1. Agree(log[v], reign[t], i) \/ Lost(reign, t, i, currentTerm[v])
      BY Zenon, <2>1, <2>2 DEF SafetyInv, KeepsAcked
    <3>2. ~Lost(reign, t, i, currentTerm[v])
      <4>1. ASSUME NEW u \in DOMAIN reign, t < u PROVE Agree(reign[u], reign[t], i)
        <5>1. t <= u
          BY SMTT(30), <2>1, <2>3, <4>1 DEF IsRecord
        <5> QED BY Zenon, <2>1, <2>3, <5>1 DEF Had
      <4> QED BY Zenon, <4>1 DEF Lost
    <3>3. i \in Nat /\ reign[t] \in Seq(Entry)
      BY SMTT(30), <2>1, <2>3 DEF IsRecord, OwnIndices
    <3>4. Agree(log[v], reign[t], Len(s))
      BY Zenon, <1>1, <2>1, <3>1, <3>2, <3>3, AgreeLess
    <3> QED BY Zenon, <2>1, <3>4, AgreeSym, AgreeTrans
  <2> QED BY Zenon, <2>2, <2>4
<1> QED BY SMTT(30), <1>1, <1>2, <1>3

-----------------------------------------------------------------------------
(* The replicated log *)

\* A commit index goes forward, or is lost in a crash.
LEMMA CommitsForward ==
  ASSUME SafeStep, Quorums, AckInv, CommitInv, NEW n \in Node
  PROVE  commitIndex'[n] = 0 \/ commitIndex'[n] >= commitIndex[n]
<1>1. /\ MinMax /\ "read" \notin StorageFaults /\ TypeOK /\ TypeOK'
      /\ LeaderIsElected /\ SenderElected /\ [Next]_vars
  BY Zenon DEF SafeStep
<1>2. commitIndex[n] \in Nat
  BY Zenon, <1>1 DEF TypeOK
<1>3. SUFFICES ASSUME CommitMoves(n), commitIndex'[n] \notin {0, commitIndex[n]}
               PROVE  commitIndex'[n] >= commitIndex[n]
  BY SMTT(30), <1>1, <1>2, CommitStep
<1>4. CASE \E m \in appendRequests : \E o :
             /\ AcceptStep(m, o) /\ o[2] /\ n = m.to
             /\ commitIndex'[n] = NewCommitIndex(n, m.leaderCommit, Len(o[1]))
  BY Zenon, <1>3, <1>4, FollowerCommits
<1>5. CASE /\ state[n] = "Leader" /\ state'[n] = "Leader"
           /\ \E match \in [Node -> Nat] :
                /\ matchIndex' = [matchIndex EXCEPT ![n] = match]
                /\ commitIndex'[n] = CommitPoint(n, match, DOMAIN log[n])
  BY Zenon, <1>3, <1>5, LeaderCommits
<1> QED BY Zenon, <1>3, <1>4, <1>5 DEF CommitMoves

\* Logs of the same length that agree to their end are the same.
LEMMA AgreeEqual ==
  ASSUME NEW s \in Seq(Entry), NEW w \in Seq(Entry), Len(s) = Len(w),
         Agree(s, w, Len(s))
  PROVE  s = w
BY SMTT(30) DEF Agree

\* The node q learns more of what is committed, and nothing else changes of
\* what is known.
Learns(q) ==
  /\ Agree(chosen, chosen', Len(chosen))
  /\ chosen' = chosen \/ chosen' = Committed(q)'
  /\ Agree(Committed(q), Committed(q)', Len(Committed(q)))
  /\ Agree(Committed(q)', chosen', Len(Committed(q)'))

\* Of every step, at most one node is concerned: it learns more of what is
\* committed, or forgets it all in a crash.
LEMMA StepLearns ==
  ASSUME SafeStep, Quorums, SafetyInv, SafetyInv', ChosenStep
  PROVE  \E q \in Node :
           /\ Learns(q) \/ (chosen' = chosen /\ Committed(q)' = << >>)
           /\ \A p \in Node \ {q} : Committed(p)' = Committed(p)
<1>0. /\ MinMax /\ "read" \notin StorageFaults /\ TypeOK /\ TypeOK' /\ LogInv'
      /\ LeaderIsElected /\ SenderElected /\ [Next]_vars
      /\ commitIndex \in [Node -> Nat] /\ commitIndex' \in [Node -> Nat]
  BY Zenon DEF SafeStep, TypeOK
<1> AckInv /\ CommitInv /\ LaterLeaderHas
  BY Zenon DEF SafetyInv
<1>1. Had(reign', acks') /\ IsRecord(reign')
  <2>1. Quorums'
    BY Zenon DEF Quorums, Peers, quorumSize
  <2>2. (Had(reign, acks) /\ IsRecord(reign))'
    BY <1>0, <2>1, LeadersHaveCommitted, PTL
  <2> QED BY Zenon, <2>2 DEF Had, IsRecord, CommittedAt
<1>2. \A p \in Node :
        /\ Committed(p)' \in Seq(Entry) /\ Len(Committed(p)') = commitIndex'[p]
        /\ Settled(reign', acks', Committed(p)', commitIndex'[p], currentTerm'[p])
  BY Zenon, NodeKnows DEF SafetyInv
<1>3. ASSUME NEW p \in Node
      PROVE  /\ Committed(p) \in Seq(Entry) /\ Len(Committed(p)) = commitIndex[p]
             /\ Settled(reign', acks', Committed(p), commitIndex[p], currentTerm'[p])
  <2>1. /\ log[p] \in Seq(Entry) /\ commitIndex[p] \in Nat /\ IsRecord(reign)
        /\ currentTerm[p] \in Nat /\ currentTerm'[p] \in Nat
        /\ currentTerm[p] <= currentTerm'[p]
    BY Zenon, <1>0, SafeTypes
  <2>2. commitIndex[p] <= Len(log[p])
    BY Zenon, <2>1, SettledLength DEF CommitInv
  <2>3. /\ Committed(p) \in Seq(Entry) /\ Len(Committed(p)) = commitIndex[p]
        /\ Agree(Committed(p), log[p], commitIndex[p])
    BY Zenon, <1>0, <2>1, <2>2, CommittedIs DEF Committed
  <2>4. Settled(reign', acks', Committed(p), commitIndex[p], currentTerm'[p])
    BY Zenon, <2>1, <2>3, SafeTypes, SettledStays DEF CommitInv
  <2> QED BY Zenon, <2>3, <2>4
<1>4. ASSUME NEW p \in Node, commitIndex'[p] >= commitIndex[p]
      PROVE  Agree(Committed(p), Committed(p)', Len(Committed(p)))
  <2>1. CASE commitIndex[p] = 0
    BY SMTT(30), <1>2, <1>3, <2>1 DEF Agree
  <2>2. CASE 0 < commitIndex[p]
    BY Zenon, <1>0, <1>1, <1>2, <1>3, <1>4, <2>2, SettledAgree
  <2> QED BY SMTT(30), <1>0, <2>1, <2>2
<1>5. ASSUME NEW p \in Node, commitIndex'[p] = commitIndex[p]
      PROVE  Committed(p)' = Committed(p)
  <2>1. Agree(Committed(p), Committed(p)', Len(Committed(p)))
    BY SMTT(30), <1>0, <1>4, <1>5
  <2> QED BY Zenon, <1>2, <1>3, <1>5, <2>1, AgreeEqual
<1>6. /\ chosen \in Seq(Entry) /\ chosen' \in Seq(Entry)
      /\ \A p \in Node : commitIndex[p] <= Len(chosen)
      /\ \A p \in Node : commitIndex'[p] <= Len(chosen')
  BY Zenon DEF SafetyInv, CommitInv
<1>7. PICK b : Settled(reign', acks', chosen, Len(chosen), b)
  BY Zenon, ChosenKept
<1>8. PICK c : Settled(reign', acks', chosen', Len(chosen'), c)
  BY Zenon DEF SafetyInv, CommitInv
<1>9. PICK q \in Node : \A p \in Node \ {q} : commitIndex'[p] = commitIndex[p]
  BY Zenon, <1>0, CommitStep
<1>10. \A p \in Node \ {q} : Committed(p)' = Committed(p)
  BY Zenon, <1>5, <1>9
<1>11. \/ chosen' = chosen
       \/ chosen' = Committed(q)' /\ commitIndex'[q] > Len(chosen)
  <2>1. ASSUME NEW n \in Node, commitIndex'[n] > Len(chosen) PROVE n = q
    BY SMTT(30), <1>0, <1>6, <1>9, <2>1
  <2> QED BY Zenon, <2>1 DEF ChosenStep, RecordChosen
<1>12. CASE commitIndex'[q] >= commitIndex[q]
  <2>1. Agree(Committed(q), Committed(q)', Len(Committed(q)))
    BY Zenon, <1>4, <1>12
  <2>2. Agree(chosen, chosen', Len(chosen))
    <3>1. CASE chosen' = chosen
      BY SMTT(30), <1>6, <3>1 DEF Agree
    <3>2. CASE chosen' = Committed(q)' /\ commitIndex'[q] > Len(chosen)
      <4>1. CASE Len(chosen) = 0
        BY SMTT(30), <1>6, <4>1 DEF Agree
      <4>2. CASE 0 < Len(chosen)
        <5>1. Len(chosen) \in Nat /\ Len(chosen') \in Nat /\ Len(chosen) <= Len(chosen')
          BY SMTT(30), <1>0, <1>2, <1>6, <3>2
        <5> QED BY Zenon, <1>1, <1>6, <1>7, <1>8, <4>2, <5>1, SettledAgree
      <4> QED BY SMTT(30), <1>6, <4>1, <4>2
    <3> QED BY Zenon, <1>11, <3>1, <3>2
  <2>3. Agree(Committed(q)', chosen', Len(Committed(q)'))
    <3>1. CASE commitIndex'[q] = 0
      BY SMTT(30), <1>2, <1>6, <3>1 DEF Agree
    <3>2. CASE 0 < commitIndex'[q]
      <4>1. Len(chosen') \in Nat /\ commitIndex'[q] <= Len(chosen')
        BY <1>6
      <4> QED BY Zenon, <1>0, <1>1, <1>2, <1>6, <1>8, <3>2, <4>1, SettledAgree
    <3> QED BY SMTT(30), <1>0, <3>1, <3>2
  <2> QED BY Zenon, <1>10, <1>11, <2>1, <2>2, <2>3 DEF Learns
<1>13. CASE commitIndex'[q] = 0
  <2>1. Committed(q)' = << >>
    BY SMTT(30), <1>2, <1>13
  <2>2. chosen' = chosen
    BY SMTT(30), <1>6, <1>11, <1>13
  <2> QED BY Zenon, <1>10, <2>1, <2>2
<1>14. commitIndex'[q] = 0 \/ commitIndex'[q] >= commitIndex[q]
  BY Zenon, CommitsForward
<1> QED BY Zenon, <1>12, <1>13, <1>14
=============================================================================
