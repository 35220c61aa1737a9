--------------------------- MODULE RaftReignProofs ---------------------------
(***************************************************************************)
(* Logs, for every set of nodes and of commands, every combination of      *)
(* crashes and of faults of the writes to storage, and all bounds: a log   *)
(* is always a piece of the logs of the leaders whose entries it holds.    *)
(* Log matching, and the range of the indices that leaders keep, follow.   *)
(* The entries must be readable: a read that fails makes a follower write  *)
(* over entries that it has.                                               *)
(***************************************************************************)
EXTENDS RaftHistory, TLAPS

-----------------------------------------------------------------------------
(* What the lemmas below take from RaftElectionProofs, as hypotheses: the    *)
(* theorems of RaftProofs put them together.                                 *)

\* Min and Max are the least and the greatest element (MinNat, MaxNat).
MinMax ==
  /\ \A S \in SUBSET Nat :
       S # {} => Min(S) \in S /\ \A y \in S : Min(S) <= y
  /\ \A S \in SUBSET Nat, b \in Nat :
       S # {} /\ (\A x \in S : x <= b) =>
         Max(S) \in S /\ \A y \in S : y <= Max(S)

\* Who was elected in a term stays so (ElectedStable).
ElectedStays ==
  \A l \in Node, t \in Nat : Elected(l, t) => Elected(l, t)'

\* The types of the variables that the steps of elections write.
LEMMA NodeTypes ==
  ASSUME TypeOK
  PROVE  /\ currentTerm \in [Node -> Nat]
         /\ votedFor \in [Node -> Node \cup {None}]
         /\ disk \in [Node -> PersistentState]
         /\ state \in [Node -> {"Follower", "Candidate", "Leader"}]
         /\ votesReceived \in [Node -> SUBSET Node]
         /\ voteRequests \subseteq VoteRequest
         /\ voteResponses \subseteq VoteResponse
BY Zenon DEF TypeOK

-----------------------------------------------------------------------------
(* Logs and records of reigns *)

\* S records what R does, and more.
Grows(R, S) ==
  /\ DOMAIN R \subseteq DOMAIN S
  /\ \A t \in DOMAIN R : Agree(S[t], R[t], Len(R[t]))

\* Agreement is inherited by shorter prefixes, symmetric and transitive.
LEMMA AgreeLess ==
  ASSUME NEW s \in Seq(Entry), NEW u \in Seq(Entry), NEW k \in Nat,
         NEW j \in Nat, j <= k, Agree(s, u, k)
  PROVE  Agree(s, u, j)
BY DEF Agree

LEMMA AgreeSym ==
  ASSUME NEW s, NEW u, NEW k, Agree(s, u, k)
  PROVE  Agree(u, s, k)
BY Zenon DEF Agree

LEMMA AgreeTrans ==
  ASSUME NEW s, NEW u, NEW w, NEW k, Agree(s, u, k), Agree(u, w, k)
  PROVE  Agree(s, w, k)
BY Zenon DEF Agree

\* A log whose entries come from the leaders on record stays so.
LEMMA RootedGrows ==
  ASSUME NEW R, NEW S, Grows(R, S), NEW s \in Seq(Entry), Rooted(s, R),
         \A t \in DOMAIN R : R[t] \in Seq(Entry),
         \A t \in DOMAIN S : S[t] \in Seq(Entry)
  PROVE  Rooted(s, S)
<1> SUFFICES ASSUME NEW i \in 1..Len(s)
             PROVE  s[i].term \in DOMAIN S /\ Agree(s, S[s[i].term], i)
  BY Zenon DEF Rooted
<1> DEFINE t == s[i].term
<1>1. t \in DOMAIN R /\ t \in DOMAIN S /\ Agree(s, R[t], i)
      /\ Agree(S[t], R[t], Len(R[t]))
  BY Zenon DEF Rooted, Grows
<1>2. R[t] \in Seq(Entry) /\ S[t] \in Seq(Entry) /\ i \in Nat
  BY <1>1
<1> HIDE DEF t
<1>3. Len(R[t]) \in Nat /\ i <= Len(R[t])
  BY <1>1, <1>2 DEF Agree
<1>4. Agree(S[t], R[t], i)
  BY Zenon, <1>1, <1>2, <1>3, AgreeLess
<1> QED BY <1>1, <1>4, AgreeSym, AgreeTrans DEF t

\* Log matching: of two such logs, an entry of the same term at the same index
\* makes them identical through the index.
LEMMA RootedMatch ==
  ASSUME NEW R, NEW s, NEW u, Rooted(s, R), Rooted(u, R),
         NEW i \in 1..Len(s), i \in 1..Len(u), s[i].term = u[i].term
  PROVE  Agree(s, u, i)
<1>1. Agree(s, R[s[i].term], i) /\ Agree(u, R[s[i].term], i)
  BY Zenon DEF Rooted
<1> QED BY <1>1, AgreeSym, AgreeTrans

\* What agrees with such a log to its own end is one.
LEMMA RootedPrefix ==
  ASSUME NEW R, NEW s \in Seq(Entry), NEW u \in Seq(Entry), Rooted(u, R),
         Agree(s, u, Len(s))
  PROVE  Rooted(s, R)
<1> SUFFICES ASSUME NEW i \in 1..Len(s)
             PROVE  s[i].term \in DOMAIN R /\ Agree(s, R[s[i].term], i)
  BY Zenon DEF Rooted
<1>1. Len(s) \in Nat /\ i \in Nat /\ i <= Len(s) /\ i \in 1..Len(u)
      /\ s[i] = u[i]
  BY DEF Agree
<1>2. u[i].term \in DOMAIN R /\ Agree(u, R[u[i].term], i)
  BY Zenon, <1>1 DEF Rooted
<1>3. Agree(s, u, i)
  BY Zenon, <1>1, AgreeLess
<1> QED BY Zenon, <1>1, <1>2, <1>3, AgreeTrans

\* The entry that a leader appends comes from its own reign.
LEMMA RootedAppend ==
  ASSUME NEW R, NEW s \in Seq(Entry), NEW e \in Entry, Rooted(s, R),
         e.term \in DOMAIN R, R[e.term] = Append(s, e)
  PROVE  Rooted(Append(s, e), R)
<1> DEFINE w == Append(s, e)
<1>1. w \in Seq(Entry) /\ Len(w) = Len(s) + 1 /\ w[Len(s) + 1] = e
      /\ Len(s) \in Nat /\ \A i \in 1..Len(s) : w[i] = s[i]
  OBVIOUS
<1> SUFFICES ASSUME NEW i \in 1..Len(w)
             PROVE  w[i].term \in DOMAIN R /\ Agree(w, R[w[i].term], i)
  BY Zenon DEF Rooted
<1> HIDE DEF w
<1>2. CASE i = Len(s) + 1
  <2>1. R[w[i].term] = w /\ w[i].term \in DOMAIN R
    BY Zenon, <1>1, <1>2 DEF w
  <2> QED BY <1>1, <1>2, <2>1 DEF Agree
<1>3. CASE i \in 1..Len(s)
  <2>1. w[i] = s[i] /\ i \in Nat
    BY <1>1, <1>3
  <2>2. Agree(w, s, i)
    BY <1>1, <1>3 DEF Agree
  <2> QED BY Zenon, <1>3, <2>1, <2>2, AgreeTrans DEF Rooted
<1> QED BY <1>1, <1>2, <1>3

-----------------------------------------------------------------------------
(* What a follower's log may become *)

\* The entries are the piece of the log u after prev.
Piece(u, prev, entries) ==
  /\ prev + Len(entries) <= Len(u)
  /\ \A j \in 1..Len(entries) : entries[j] = u[prev + j]

\* Log matching between the logs s and u.
Matches(s, u) ==
  \A i \in 1..Len(s) :
    i <= Len(u) /\ s[i].term = u[i].term => Agree(s, u, i)

\* first is the position of the first of the entries that s contradicts.
IsFirst(s, prev, entries, first) ==
  /\ first \in 1..Len(entries) + 1
  /\ \A j \in 1..Len(entries) :
       j < first /\ prev + j <= Len(s) => s[prev + j].term = entries[j].term
  /\ first <= Len(entries) => /\ prev + first <= Len(s)
                              /\ s[prev + first].term # entries[first].term

\* new is the log s with the entries after prev written, up to the position k,
\* from first on or beyond the end of s.
IsSpliced(s, prev, entries, first, k, new) ==
  \A i \in 1..Len(new) :
    new[i] = IF prev < i /\ i <= prev + k /\ (i >= prev + first \/ i > Len(s))
               THEN entries[i - prev] ELSE s[i]

\* new ends at the position k, after a truncation at first, or where s does
\* unless it is longer.
IsCut(s, prev, entries, first, k, new) ==
  \/ Len(new) = prev + k /\ k >= first - 1 /\ first <= Len(entries)
  \/ k < first /\ Len(new) = IF Len(s) >= prev + k THEN Len(s) ELSE prev + k

\* FirstConflict finds the first conflict, when all entries can be read.
LEMMA FirstConflictIs ==
  ASSUME MinMax, NEW n \in Node, log[n] \in Seq(Entry), NEW prev \in Nat,
         NEW entries \in Seq(Entry)
  PROVE  IsFirst(log[n], prev, entries,
                 FirstConflict(n, prev, entries, DOMAIN log[n]))
<1> DEFINE s == log[n]
           first == FirstConflict(n, prev, entries, DOMAIN log[n])
           C == {j \in DOMAIN entries : /\ prev + j \in DOMAIN s
                                        /\ s[prev + j].term # entries[j].term}
           D == C \cup {Len(entries) + 1}
<1>1. /\ Len(s) \in Nat /\ DOMAIN s = 1..Len(s)
      /\ Len(entries) \in Nat /\ DOMAIN entries = 1..Len(entries)
  OBVIOUS
<1>2. \A j : j \in C <=> /\ j \in 1..Len(entries) /\ prev + j <= Len(s)
                         /\ s[prev + j].term # entries[j].term
  BY <1>1
<1>3. first = Min(D)
  BY Zenon DEF FirstConflict
<1> HIDE DEF C, first, s
<1>4. D \in SUBSET Nat /\ D # {}
  BY <1>1, <1>2
<1>5. Min(D) \in D /\ \A y \in D : Min(D) <= y
  <2> HIDE DEF D
  <2> QED BY Zenon, <1>4 DEF MinMax
<1>6. first \in D /\ \A y \in D : first <= y
  BY Zenon, <1>3, <1>5
<1>7. first \in 1..Len(entries) + 1 /\ (first <= Len(entries) => first \in C)
  BY <1>1, <1>2, <1>6
<1>8. \A j \in 1..Len(entries) : j < first => j \notin C
  BY <1>1, <1>6, <1>7
<1> QED BY Zenon, <1>1, <1>2, <1>7, <1>8 DEF IsFirst, s, first

\* The log that AppendOutcomes computes for the position k.
StoredFrom(n, prev, entries, first, k, cut) ==
  Stored(n, prev, entries,
         {j \in DOMAIN entries : j >= first \/ prev + j \notin DOMAIN log[n]},
         k, cut)

\* Stored writes what is missing.
LEMMA StoredIs ==
  ASSUME MinMax, NEW n \in Node, log[n] \in Seq(Entry), NEW prev \in 0..Len(log[n]),
         NEW entries \in Seq(Entry), NEW first \in 1..Len(entries) + 1,
         NEW k \in 0..Len(entries), NEW cut \in BOOLEAN
  PROVE  LET new == StoredFrom(n, prev, entries, first, k, cut)
         IN /\ new \in Seq(Entry)
            /\ cut => Len(new) = prev + k
            /\ ~cut => Len(new) = IF Len(log[n]) >= prev + k THEN Len(log[n])
                                                             ELSE prev + k
            /\ IsSpliced(log[n], prev, entries, first, k, new)
<1> DEFINE s == log[n]
           missing == {j \in DOMAIN entries :
                         j >= first \/ prev + j \notin DOMAIN s}
           end == IF cut THEN prev + k ELSE Max({Len(s), prev + k})
           new == Stored(n, prev, entries, missing, k, cut)
<1>1. /\ Len(s) \in Nat /\ DOMAIN s = 1..Len(s)
      /\ Len(entries) \in Nat /\ DOMAIN entries = 1..Len(entries)
      /\ prev + k \in Nat
  OBVIOUS
<1>2. \A j : j \in missing <=> /\ j \in 1..Len(entries)
                               /\ j >= first \/ prev + j > Len(s)
  BY SMTT(30), <1>1
<1>3. /\ Max({Len(s), prev + k}) \in {Len(s), prev + k}
      /\ Max({Len(s), prev + k}) >= Len(s)
      /\ Max({Len(s), prev + k}) >= prev + k
  <2> HIDE DEF s
  <2>1. /\ {Len(s), prev + k} \in SUBSET Nat /\ {Len(s), prev + k} # {}
        /\ Len(s) + prev + k \in Nat
        /\ \A x \in {Len(s), prev + k} : x <= Len(s) + prev + k
    BY <1>1
  <2>2. /\ Max({Len(s), prev + k}) \in {Len(s), prev + k}
        /\ \A y \in {Len(s), prev + k} : y <= Max({Len(s), prev + k})
    BY Zenon, <2>1 DEF MinMax
  <2> QED BY Zenon, <1>1, <2>2
<1>0. end \in Nat
  BY Zenon, <1>1, <1>3
<1>4. /\ cut => end = prev + k
      /\ ~cut => end = IF Len(s) >= prev + k THEN Len(s) ELSE prev + k
  BY SMTT(30), <1>1, <1>3
<1>5. new \in Seq(Entry)
  <2>1. /\ missing \in SUBSET DOMAIN entries
        /\ \A j \in DOMAIN entries : prev + j > Len(log[n]) => j \in missing
    BY Zenon, <1>1, <1>2
  <2>2. end <= Len(s) \/ end <= prev + k
    BY Zenon, <1>1, <1>3
  <2>3. ASSUME NEW i \in 1..end
        PROVE  (IF i - prev \in missing /\ i - prev <= k
                  THEN entries[i - prev] ELSE s[i]) \in Entry
    <3> HIDE DEF missing, end
    <3>1. CASE i - prev \in missing /\ i - prev <= k
      BY <1>1, <2>1, <3>1
    <3>2. CASE ~(i - prev \in missing /\ i - prev <= k)
      <4>1. i <= Len(s)
        BY SMTT(30), <1>0, <1>1, <2>1, <2>2, <3>2
      <4> QED BY <1>0, <1>1, <3>2, <4>1
    <3> QED BY Zenon, <3>1, <3>2
  <2>4. new \in [1..end -> Entry]
    <3> HIDE DEF missing, end, s
    <3>1. new = [i \in 1..end |-> IF i - prev \in missing /\ i - prev <= k
                                    THEN entries[i - prev] ELSE s[i]]
      BY Zenon DEF Stored, end, s
    <3> HIDE DEF new
    <3> QED BY Zenon, <2>3, <3>1
  <2> HIDE DEF missing, end, new
  <2> QED BY <1>0, <2>4
<1>6. new = [i \in 1..end |->
              IF i - prev \in missing /\ i - prev <= k
                THEN entries[i - prev] ELSE s[i]]
  BY Zenon DEF Stored
<1> HIDE DEF end, s, missing, new
<1>7. DOMAIN new = 1..end /\ Len(new) = end
  BY <1>0, <1>5, <1>6
<1>8. \A i \in 1..end : new[i] = IF i - prev \in missing /\ i - prev <= k
                                   THEN entries[i - prev] ELSE s[i]
  BY Zenon, <1>6
<1>9. \A i \in 1..end :
        i - prev \in missing /\ i - prev <= k <=>
        prev < i /\ i <= prev + k /\ (i >= prev + first \/ i > Len(s))
  <2> TAKE i \in 1..end
  <2> DEFINE j == i - prev
  <2>1. /\ i \in Nat /\ j \in Int /\ prev + j = i /\ prev \in Nat
        /\ k \in Nat /\ k <= Len(entries) /\ first \in Nat
    <3>1. i \in Nat
      BY <1>0
    <3>2. prev \in Nat /\ k \in Nat /\ k <= Len(entries) /\ first \in Nat
      BY <1>1
    <3> QED BY <3>1, <3>2
  <2>2. j \in missing <=> /\ j \in 1..Len(entries)
                          /\ j >= first \/ i > Len(s)
    BY Zenon, <1>2, <2>1
  <2> QED BY <1>1, <2>1, <2>2
<1>10. IsSpliced(s, prev, entries, first, k, new)
  BY Zenon, <1>7, <1>8, <1>9 DEF IsSpliced
<1> QED BY Zenon, <1>4, <1>5, <1>7, <1>10 DEF s, missing, new, StoredFrom

\* The log that Rules 3 and 4 leave, completely or up to the position k, when
\* the request is a piece of the log u of its leader: the old log, or one that
\* agrees with u to its end; and what agreed with u still does.
LEMMA SplicedAgrees ==
  ASSUME NEW s \in Seq(Entry), NEW u \in Seq(Entry), NEW prev \in Nat,
         NEW entries \in Seq(Entry), NEW first \in Nat, NEW k \in Nat,
         NEW new \in Seq(Entry),
         Piece(u, prev, entries), Matches(s, u), Agree(s, u, prev),
         IsFirst(s, prev, entries, first),
         IsSpliced(s, prev, entries, first, k, new), k <= Len(entries),
         IsCut(s, prev, entries, first, k, new)
  PROVE  /\ new = s \/ Agree(new, u, Len(new))
         /\ \A i \in Nat : Agree(s, u, i) => Agree(new, u, i)
         /\ Agree(new, u, prev + k)
<1>0. /\ Len(s) \in Nat /\ Len(entries) \in Nat /\ Len(u) \in Nat
      /\ Len(new) \in Nat
  OBVIOUS
<1>1. /\ Len(s) \in Nat /\ Len(entries) \in Nat /\ Len(u) \in Nat
      /\ Len(new) \in Nat /\ first \in 1..Len(entries) + 1
      /\ prev <= Len(s) /\ prev + k <= Len(u) /\ prev + k <= Len(new)
  <2>1. first \in 1..Len(entries) + 1 /\ prev <= Len(s)
    BY Zenon DEF Agree, IsFirst
  <2>2. prev + k <= Len(u)
    BY <1>0 DEF Piece
  <2>3. prev + k <= Len(new)
    BY <1>0 DEF IsCut
  <2> QED BY Zenon, <1>0, <2>1, <2>2, <2>3
<1>2. ASSUME NEW i \in 1..Len(s), i < prev + first, i <= prev + k
      PROVE  s[i] = u[i]
  <2>1. CASE i <= prev
    BY <1>1, <2>1 DEF Agree
  <2>2. CASE i > prev
    <3>1. i - prev \in 1..Len(entries) /\ i - prev < first
          /\ prev + (i - prev) = i /\ i <= Len(u)
      BY <1>1, <1>2, <2>2
    <3>2. s[i].term = entries[i - prev].term /\ entries[i - prev] = u[i]
      BY SMTT(30), <3>1 DEF IsFirst, Piece
    <3>3. Agree(s, u, i)
      BY Zenon, <3>1, <3>2 DEF Matches
    <3> QED BY <3>3 DEF Agree
  <2> QED BY <1>1, <2>1, <2>2
<1>3. ASSUME NEW i \in 1..prev + k PROVE new[i] = u[i]
  <2>1. CASE prev < i /\ (i >= prev + first \/ i > Len(s))
    <3>0. i \in 1..Len(new) /\ i <= prev + k
      BY <1>1
    <3>1. new[i] = entries[i - prev]
      BY Zenon, <2>1, <3>0 DEF IsSpliced
    <3>2. i - prev \in 1..Len(entries) /\ prev + (i - prev) = i
      BY <1>1, <2>1
    <3> QED BY Zenon, <3>1, <3>2 DEF Piece
  <2>2. CASE ~(prev < i /\ (i >= prev + first \/ i > Len(s)))
    <3>0. i \in 1..Len(new)
      BY <1>1
    <3>1. new[i] = s[i]
      BY Zenon, <2>2, <3>0 DEF IsSpliced
    <3>2. i \in 1..Len(s) /\ i < prev + first /\ i <= prev + k
      BY <1>1, <2>2
    <3> QED BY Zenon, <1>2, <3>1, <3>2
  <2> QED BY <2>1, <2>2
<1>4. Agree(new, u, prev + k)
  BY Zenon, <1>1, <1>3 DEF Agree
<1>5. CASE Len(new) = prev + k
  <2>1. ASSUME NEW i \in Nat, Agree(s, u, i) PROVE i <= prev + k
    <3>1. i <= Len(s) /\ i <= Len(u)
      BY Zenon, <2>1 DEF Agree
    <3>2. CASE k >= first - 1 /\ first <= Len(entries)
      <4>1. i < prev + first
        <5> SUFFICES ASSUME prev + first <= i PROVE FALSE
          BY <1>1
        <5>1. s[prev + first].term # entries[first].term
              /\ entries[first] = u[prev + first]
          BY <1>1, <3>2 DEF IsFirst, Piece
        <5>2. prev + first \in 1..i
          BY <1>1
        <5>3. s[prev + first] = u[prev + first]
          BY Zenon, <2>1, <5>2 DEF Agree
        <5> QED BY Zenon, <5>1, <5>3
      <4> QED BY <1>1, <3>2, <4>1
    <3>3. CASE Len(new) = IF Len(s) >= prev + k THEN Len(s) ELSE prev + k
      BY <1>1, <1>5, <3>1, <3>3
    <3> QED BY Zenon, <3>2, <3>3 DEF IsCut
  <2>2. ASSUME NEW i \in Nat, Agree(s, u, i) PROVE Agree(new, u, i)
    BY <1>1, <1>4, <2>1, <2>2, AgreeLess
  <2> QED BY Zenon, <1>4, <1>5, <2>2
<1>6. CASE Len(new) # prev + k
  <2>1. Len(new) = Len(s) /\ prev + k < Len(s) /\ k < first
    BY <1>1, <1>6 DEF IsCut
  <2>2. \A i \in 1..Len(s) : new[i] = s[i]
    BY <1>1, <2>1 DEF IsSpliced
  <2>3. new = s
    BY SMTT(30), <2>1, <2>2
  <2> QED BY Zenon, <1>4, <2>3
<1> QED BY Zenon, <1>5, <1>6

\* A follower's log after AppendEntries, whatever the outcome: an acknowledged
\* request is in it, and a failed one has destroyed nothing that the leader has.
Follows(s, u, new) ==
  /\ new \in Seq(Entry)
  /\ new = s \/ Agree(new, u, Len(new))
  /\ \A i \in Nat : Agree(s, u, i) => Agree(new, u, i)

LEMMA OutcomeFollows ==
  ASSUME MinMax, NEW n \in Node, log[n] \in Seq(Entry), NEW u \in Seq(Entry),
         NEW prev \in Nat, NEW entries \in Seq(Entry),
         Piece(u, prev, entries), Matches(log[n], u), Agree(log[n], u, prev),
         NEW o \in AppendOutcomes(n, prev, entries, DOMAIN log[n])
  PROVE  /\ Follows(log[n], u, o[1]) /\ o[2] \in BOOLEAN
         /\ o[2] => Agree(o[1], u, prev + Len(entries))
<1> DEFINE first == FirstConflict(n, prev, entries, DOMAIN log[n])
           missing == {j \in DOMAIN entries :
                         j >= first \/ prev + j \notin DOMAIN log[n]}
           After(k, cut) == StoredFrom(n, prev, entries, first, k, cut)
<1>1. /\ Len(entries) \in Nat /\ DOMAIN entries = 1..Len(entries)
      /\ Len(log[n]) \in Nat /\ prev \in 0..Len(log[n])
  BY DEF Agree
<1>2. IsFirst(log[n], prev, entries, first)
  BY FirstConflictIs
<1>3. first \in Nat /\ first \in 1..Len(entries) + 1
  BY <1>1, <1>2 DEF IsFirst
<1>4. \A j \in missing : j \in 1..Len(entries)
  BY Zenon, <1>1
<1>5. ASSUME NEW k \in 0..Len(entries), NEW cut \in BOOLEAN,
             cut => k >= first - 1 /\ first <= Len(entries),
             ~cut => k < first
      PROVE  /\ Follows(log[n], u, After(k, cut))
             /\ Agree(After(k, cut), u, prev + k)
  <2>1. /\ After(k, cut) \in Seq(Entry)
        /\ cut => Len(After(k, cut)) = prev + k
        /\ ~cut => Len(After(k, cut)) =
                     IF Len(log[n]) >= prev + k THEN Len(log[n]) ELSE prev + k
        /\ IsSpliced(log[n], prev, entries, first, k, After(k, cut))
    <3> HIDE DEF first
    <3> QED BY Zenon, <1>1, <1>3, <1>5, StoredIs
  <2> HIDE DEF first, After
  <2>2. IsCut(log[n], prev, entries, first, k, After(k, cut))
    BY Zenon, <1>5, <2>1 DEF IsCut
  <2>3. k \in Nat /\ k <= Len(entries)
    BY <1>1
  <2> QED BY Zenon, <1>2, <1>3, <2>1, <2>2, <2>3, SplicedAgrees DEF Follows
<1>6. CASE o = <<After(Len(entries), first <= Len(entries)), TRUE>>
  <2>1. /\ Len(entries) \in 0..Len(entries)
        /\ first <= Len(entries) => Len(entries) >= first - 1
        /\ ~(first <= Len(entries)) => Len(entries) < first
        /\ (first <= Len(entries)) \in BOOLEAN
    <3> HIDE DEF first
    <3> QED BY <1>1, <1>3
  <2>2. o[1] = After(Len(entries), first <= Len(entries)) /\ o[2] = TRUE
    BY Zenon, <1>6
  <2> HIDE DEF first, After
  <2> QED BY Zenon, <1>5, <2>1, <2>2
<1>7. ASSUME NEW k \in missing, o = <<After(k - 1, first <= k), FALSE>>
      PROVE  Follows(log[n], u, o[1]) /\ o[2] = FALSE
  <2>1. k \in 1..Len(entries)
    BY Zenon, <1>4
  <2>2. o[1] = After(k - 1, first <= k) /\ o[2] = FALSE
    BY Zenon, <1>7
  <2> HIDE DEF first, After, missing
  <2>3. /\ k - 1 \in 0..Len(entries)
        /\ first <= k => k - 1 >= first - 1 /\ first <= Len(entries)
        /\ ~(first <= k) => k - 1 < first
        /\ (first <= k) \in BOOLEAN
    BY <1>1, <1>3, <2>1
  <2> QED BY Zenon, <1>5, <2>2, <2>3
<1>8. CASE o = <<After(first - 1, FALSE), FALSE>>
  <2>1. o[1] = After(first - 1, FALSE) /\ o[2] = FALSE
    BY Zenon, <1>8
  <2> HIDE DEF first, After
  <2>2. first - 1 \in 0..Len(entries) /\ first - 1 < first
    BY <1>1, <1>3
  <2> QED BY Zenon, <1>5, <2>1, <2>2
<1>9. \/ o = <<After(Len(entries), first <= Len(entries)), TRUE>>
      \/ \E k \in missing : o = <<After(k - 1, first <= k), FALSE>>
      \/ o = <<After(first - 1, FALSE), FALSE>>
  BY Zenon DEF AppendOutcomes, StoredFrom
<1> HIDE DEF first, After, missing
<1> QED BY Zenon, <1>6, <1>7, <1>8, <1>9

-----------------------------------------------------------------------------
(* What a step does to the logs and to the leaders *)

\* Who leads after the step has led the same term before it.
LeadersGoOn ==
  \A p \in Node : state'[p] = "Leader" =>
    state[p] = "Leader" /\ currentTerm'[p] = currentTerm[p]

\* A step that writes no log.
QuietStep == log' = log /\ LeadersGoOn

\* A leader, old or new, appends an entry of its term: becomeLeader, Propose.
AppendStep(n, e) ==
  /\ Running(n) /\ state'[n] = "Leader"
  /\ e.term = currentTerm[n]
  /\ log' = [log EXCEPT ![n] = Append(@, e)]
  /\ currentTerm' = currentTerm
  /\ \A p \in Node \ {n} : state'[p] = state[p]

\* A follower stores the entries of m, or fails to.
AcceptStep(m, o) ==
  /\ o \in AppendOutcomes(m.to, m.prevLogIndex, m.entries, DOMAIN log[m.to])
  /\ PrevMatches(m.to, m.prevLogIndex, m.prevLogTerm, DOMAIN log[m.to])
  /\ m.term >= currentTerm[m.to] /\ currentTerm'[m.to] = m.term
  /\ log' = [log EXCEPT ![m.to] = o[1]]
  /\ state'[m.to] = "Follower" /\ LeadersGoOn
  /\ commitIndex' =
       IF o[2] THEN [commitIndex EXCEPT ![m.to] =
                       NewCommitIndex(m.to, m.leaderCommit, Len(o[1]))]
               ELSE commitIndex
  /\ ReplyAppend(m, m.term, o[2], <<0, 0>>)

\* It rejects m.
RejectStep(m) ==
  /\ QuietStep /\ commitIndex' = commitIndex
  /\ \E respTerm, conflict : ReplyAppend(m, respTerm, FALSE, conflict)

\* Nobody stands for election, or leads, in another term without an election.
RunsOn ==
  \A p \in Node : Running(p)' =>
    \/ Running(p) /\ currentTerm'[p] = currentTerm[p]
    \/ currentTerm'[p] = currentTerm[p] + 1

LogStep ==
  \/ QuietStep
  \/ \E n \in Node, e \in Entry : AppendStep(n, e)
  \/ \E m \in appendRequests : \E o : AcceptStep(m, o)

\* A node that steps down leads no more.
LEMMA StepDownQuiet ==
  ASSUME TypeOK, NEW n \in Node, NEW newTerm, NEW saveOK,
         stepDown(n, newTerm, saveOK), log' = log
  PROVE  LogStep /\ RunsOn
<1>1. /\ state'[n] = "Follower"
      /\ \A p \in Node \ {n} : /\ state'[p] = state[p]
                               /\ currentTerm'[p] = currentTerm[p]
  BY Zenon, NodeTypes DEF stepDown
<1> QED BY Zenon, <1>1 DEF LogStep, QuietStep, LeadersGoOn, RunsOn, Running

\* becomeLeader appends the no-op, or steps down.
LEMMA BecomeLeaderStep ==
  ASSUME TypeOK, NEW n \in Node, state[n] = "Candidate", becomeLeader(n)
  PROVE  LogStep /\ RunsOn
<1> DEFINE e == [term |-> currentTerm[n], command |-> NoOp]
<1>1. CASE /\ log' = [log EXCEPT ![n] = Append(@, e)]
           /\ state' = [state EXCEPT ![n] = "Leader"]
           /\ UNCHANGED persistVars
  <2>1. e \in Entry /\ e.term = currentTerm[n]
    BY Zenon, NodeTypes DEF Entry
  <2>2. /\ state'[n] = "Leader" /\ currentTerm' = currentTerm
        /\ \A p \in Node \ {n} : state'[p] = state[p]
    BY Zenon, <1>1, NodeTypes DEF persistVars
  <2>3. AppendStep(n, e)
    BY Zenon, <1>1, <2>1, <2>2 DEF AppendStep, Running
  <2>4. RunsOn
    BY Zenon, <2>2 DEF RunsOn, Running
  <2> QED BY Zenon, <2>1, <2>3, <2>4 DEF LogStep
<1>2. ASSUME NEW saveOK, stepDown(n, currentTerm[n], saveOK), log' = log
      PROVE  LogStep /\ RunsOn
  BY Zenon, <1>2, StepDownQuiet
<1> QED BY Zenon, <1>1, <1>2 DEF becomeLeader

\* AppendEntries does not reach a leader of its term, and a leader of an older
\* one follows.
LEMMA HandleAppendStep ==
  ASSUME "read" \notin StorageFaults, TypeOK, LeaderIsElected, SenderElected,
         NEW m \in appendRequests, HandleAppendEntries(m)
  PROVE  (RejectStep(m) \/ \E o : AcceptStep(m, o)) /\ RunsOn
<1> DEFINE n == m.to
<1>1. /\ n \in Node /\ m.from \in Node /\ m.term \in Nat
      /\ currentTerm[n] \in Nat
  BY Zenon DEF TypeOK, AppendRequest
<1>2. ASSUME UNCHANGED <<persistVars, log, commitIndex, state>>,
             ReplyAppend(m, currentTerm[n], FALSE, <<0, 0>>)
      PROVE  RejectStep(m) /\ RunsOn
  <2>1. QuietStep /\ RunsOn
    BY Zenon, <1>2 DEF QuietStep, LeadersGoOn, RunsOn, Running, persistVars
  <2> QED BY Zenon, <1>2, <2>1 DEF RejectStep
<1>3. ASSUME m.term >= currentTerm[n], NEW downOK, Follow(m, downOK),
             AcceptEntries(m, DOMAIN log[n])
      PROVE  (RejectStep(m) \/ \E o : AcceptStep(m, o)) /\ RunsOn
  <2>1. /\ currentTerm'[n] = m.term
        /\ state'[n] = IF m.term > currentTerm[n] \/ state[n] = "Candidate"
                         THEN "Follower" ELSE state[n]
        /\ \A p \in Node \ {n} : /\ currentTerm'[p] = currentTerm[p]
                                 /\ state'[p] = state[p]
    BY Zenon, <1>1, <1>3, NodeTypes DEF Follow
  <2>2. state'[n] = "Follower"
    <3>1. state'[n] # "Leader"
      <4> SUFFICES ASSUME state'[n] = "Leader" PROVE FALSE
        BY Zenon
      <4>1. state[n] = "Leader" /\ m.term = currentTerm[n]
        BY <1>1, <1>3, <2>1
      <4>2. Elected(m.from, currentTerm[n]) /\ m.from # n
        BY Zenon, <4>1 DEF SenderElected
      <4> QED BY Zenon, <1>1, <4>1, <4>2 DEF LeaderIsElected
    <3> QED BY Zenon, <1>1, <2>1, <3>1, NodeTypes
  <2>3. LeadersGoOn
    BY Zenon, <1>1, <2>1, <2>2 DEF LeadersGoOn
  <2>4. RunsOn
    BY Zenon, <2>1, <2>2 DEF RunsOn, Running
  <2>5. ASSUME UNCHANGED <<log, commitIndex>>,
               NEW x, ReplyAppend(m, m.term, FALSE, x)
        PROVE  RejectStep(m)
    BY Zenon, <2>3, <2>5 DEF RejectStep, QuietStep
  <2>6. ASSUME NEW o \in AppendOutcomes(n, m.prevLogIndex, m.entries,
                                        DOMAIN log[n]),
               PrevMatches(n, m.prevLogIndex, m.prevLogTerm, DOMAIN log[n]),
               log' = [log EXCEPT ![n] = o[1]],
               commitIndex' =
                 IF o[2] THEN [commitIndex EXCEPT ![n] =
                                 NewCommitIndex(n, m.leaderCommit, Len(o[1]))]
                         ELSE commitIndex,
               ReplyAppend(m, m.term, o[2], <<0, 0>>)
        PROVE  AcceptStep(m, o)
    BY Zenon, <1>3, <2>1, <2>2, <2>3, <2>6 DEF AcceptStep
  <2>7. RejectStep(m) \/ \E o : AcceptStep(m, o)
    BY Zenon, <1>3, <2>5, <2>6 DEF AcceptEntries
  <2> QED BY Zenon, <2>4, <2>7
<1>4. Readable(n) = {DOMAIN log[n]}
  BY Zenon DEF Readable
<1> QED BY Zenon, <1>2, <1>3, <1>4 DEF HandleAppendEntries

\* Every step is one of the three kinds.
LEMMA StepKinds ==
  ASSUME "read" \notin StorageFaults, TypeOK, LeaderIsElected, SenderElected,
         [Next]_vars
  PROVE  LogStep /\ RunsOn
<1>1. CASE \/ UNCHANGED vars
           \/ \E n \in Node : \/ TimerFires(n)
                              \/ sendHeartbeats(n)
                              \/ leaderLoopReturns(n)
           \/ \E c \in appendCalls : sendAppendEntries(c)
           \/ LoseRPC
  <2>1. UNCHANGED <<persistVars, state, log>>
    BY Zenon, <1>1
    DEF vars, TimerFires, sendHeartbeats, leaderLoopReturns,
        sendAppendEntries, LoseRPC
  <2> QED
    BY Zenon, <2>1 DEF LogStep, QuietStep, LeadersGoOn, RunsOn, Running, persistVars
<1>2. ASSUME NEW n \in Node, startElection(n)
      PROVE  LogStep /\ RunsOn
  <2>1. /\ log' = log /\ state'[n] # "Leader"
        /\ currentTerm'[n] = currentTerm[n] + 1
        /\ \A p \in Node \ {n} : /\ currentTerm'[p] = currentTerm[p]
                                 /\ state'[p] = state[p]
    BY Zenon, <1>2, NodeTypes DEF startElection
  <2> QED BY Zenon, <2>1 DEF LogStep, QuietStep, LeadersGoOn, RunsOn, Running
<1>3. ASSUME NEW n \in Node, NEW c \in Command, Propose(n, c)
      PROVE  LogStep /\ RunsOn
  <2> DEFINE e == [term |-> currentTerm[n], command |-> c]
  <2>1. e \in Entry /\ e.term = currentTerm[n]
    BY Zenon, NodeTypes DEF Entry
  <2>2. /\ state[n] = "Leader" /\ state' = state /\ currentTerm' = currentTerm
        /\ log' = [log EXCEPT ![n] = Append(@, e)]
    BY Zenon, <1>3 DEF Propose, persistVars
  <2>3. AppendStep(n, e)
    BY Zenon, <2>1, <2>2 DEF AppendStep, Running
  <2>4. RunsOn
    BY Zenon, <2>2 DEF RunsOn, Running
  <2> QED BY Zenon, <2>1, <2>3, <2>4 DEF LogStep
<1>4. ASSUME NEW n \in Node, CheckWon(n)
      PROVE  LogStep /\ RunsOn
  BY Zenon, <1>4, BecomeLeaderStep DEF CheckWon, Won
<1>5. ASSUME NEW m \in voteResponses, ReceiveVote(m)
      PROVE  LogStep /\ RunsOn
  <2>1. m.from \in Node
    BY Zenon, NodeTypes DEF VoteResponse
  <2>2. \/ becomeLeader(m.from) /\ state[m.from] = "Candidate"
        \/ log' = log /\ \E saveOK : stepDown(m.from, m.respTerm, saveOK)
        \/ UNCHANGED <<persistVars, log, state>>
    BY Zenon, <1>5 DEF ReceiveVote
  <2>3. CASE UNCHANGED <<persistVars, log, state>>
    BY Zenon, <2>3 DEF LogStep, QuietStep, LeadersGoOn, RunsOn, Running, persistVars
  <2> QED BY Zenon, <2>1, <2>2, <2>3, BecomeLeaderStep, StepDownQuiet
<1>6. ASSUME NEW m \in voteRequests, HandleRequestVote(m)
      PROVE  LogStep /\ RunsOn
  <2> DEFINE n == m.to
  <2>1. n \in Node /\ m.term \in Nat /\ currentTerm[n] \in Nat
    BY ZenonT(30), NodeTypes DEF VoteRequest
  <2>2. CASE UNCHANGED <<persistVars, log, state>>
    BY <2>2 DEF LogStep, QuietStep, LeadersGoOn, RunsOn, Running, persistVars
  <2>3. ASSUME m.term >= currentTerm[n], NEW granted, NEW downOK,
               Vote(m, granted, downOK), log' = log
        PROVE  LogStep /\ RunsOn
    <3>1. /\ currentTerm'[n] = m.term
          /\ state'[n] = IF m.term > currentTerm[n] THEN "Follower"
                                                    ELSE state[n]
          /\ \A p \in Node \ {n} : /\ currentTerm'[p] = currentTerm[p]
                                   /\ state'[p] = state[p]
      BY Zenon, <2>1, <2>3, NodeTypes DEF Vote
    <3>2. currentTerm'[n] = currentTerm[n] \/ state'[n] = "Follower"
      BY <2>1, <2>3, <3>1
    <3> HIDE DEF n
    <3> QED BY Zenon, <2>3, <3>1, <3>2
            DEF LogStep, QuietStep, LeadersGoOn, RunsOn, Running
  <2> QED BY Zenon, <1>6, <2>2, <2>3 DEF HandleRequestVote
<1>7. ASSUME NEW m \in appendRequests, HandleAppendEntries(m)
      PROVE  LogStep /\ RunsOn
  BY Zenon, <1>7, HandleAppendStep DEF LogStep, RejectStep
<1>8. ASSUME NEW m \in appendResponses, ReceiveAppend(m)
      PROVE  LogStep /\ RunsOn
  <2>1. m.from \in Node
    BY Zenon DEF TypeOK, AppendResponse
  <2>2. \/ log' = log /\ \E saveOK : stepDown(m.from, m.respTerm, saveOK)
        \/ UNCHANGED <<persistVars, log, state>>
    BY Zenon, <1>8 DEF ReceiveAppend
  <2>3. CASE UNCHANGED <<persistVars, log, state>>
    BY <2>3 DEF LogStep, QuietStep, LeadersGoOn, RunsOn, Running, persistVars
  <2> QED BY Zenon, <2>1, <2>2, <2>3, StepDownQuiet
<1>9. ASSUME NEW n \in Node, Restart(n)
      PROVE  LogStep /\ RunsOn
  <2>1. /\ log' = log /\ state'[n] = "Follower"
        /\ \A p \in Node \ {n} : /\ currentTerm'[p] = currentTerm[p]
                                 /\ state'[p] = state[p]
    BY Zenon, <1>9, NodeTypes DEF Restart
  <2> QED BY Zenon, <2>1 DEF LogStep, QuietStep, LeadersGoOn, RunsOn, Running
<1> QED BY Zenon, <1>1, <1>2, <1>3, <1>4, <1>5, <1>6, <1>7, <1>8, <1>9
        DEF Next

-----------------------------------------------------------------------------
(* The record of reigns *)

\* The types of the history and of the logs.
LEMMA ReignTypes ==
  ASSUME TypeOK, ReignInv
  PROVE  /\ log \in [Node -> Seq(Entry)]
         /\ currentTerm \in [Node -> Nat]
         /\ \A t \in DOMAIN reign : t \in Nat /\ reign[t] \in Seq(Entry)
BY Zenon DEF TypeOK, ReignInv

\* While the leaders go on with the logs they have, nothing is recorded.
LEMMA ReignQuiet ==
  ASSUME TypeOK, ReignInv, RecordReign, LeadersGoOn,
         \A n \in Node : state'[n] = "Leader" => log'[n] = log[n]
  PROVE  reign' = reign
<1> DEFINE Led(t) == \E n \in Leaders' : currentTerm'[n] = t
           Log(t) == log'[CHOOSE n \in Leaders' : currentTerm'[n] = t]
<1>1. \A n \in Leaders' : /\ currentTerm'[n] \in DOMAIN reign
                          /\ reign[currentTerm'[n]] = log'[n]
  BY Zenon DEF ReignInv, LeadersGoOn, Leaders
<1>2. DOMAIN reign \cup {currentTerm'[n] : n \in Leaders'} = DOMAIN reign
  BY Zenon, <1>1
<1>3. reign' = [t \in DOMAIN reign |-> IF Led(t) THEN Log(t) ELSE reign[t]]
  BY Zenon, <1>2 DEF RecordReign
<1>4. ASSUME NEW t \in DOMAIN reign, Led(t) PROVE Log(t) = reign[t]
  BY Zenon, <1>1, <1>4
<1>5. reign = [t \in DOMAIN reign |-> reign[t]]
  BY Zenon DEF ReignInv
<1> HIDE DEF Led, Log
<1>6. [t \in DOMAIN reign |-> IF Led(t) THEN Log(t) ELSE reign[t]]
        = [t \in DOMAIN reign |-> reign[t]]
  BY Zenon, <1>4
<1> QED BY Zenon, <1>3, <1>5, <1>6

\* When a leader appends, its term's record becomes its log, and grows.
LEMMA ReignAppend ==
  ASSUME TypeOK, TypeOK', ElectionSafety', LeaderIsElected', ElectedStays,
         ReignInv, RecordReign,
         NEW n \in Node, NEW e \in Entry, AppendStep(n, e)
  PROVE  /\ DOMAIN reign' = DOMAIN reign \cup {currentTerm[n]}
         /\ reign'[currentTerm[n]] = Append(log[n], e)
         /\ \A t \in DOMAIN reign \ {currentTerm[n]} : reign'[t] = reign[t]
         /\ currentTerm[n] \in DOMAIN reign =>
              state[n] = "Leader" /\ reign[currentTerm[n]] = log[n]
         /\ Grows(reign, reign')
<1> DEFINE T == currentTerm[n]
           Led(t) == \E p \in Leaders' : currentTerm'[p] = t
           Log(t) == log'[CHOOSE p \in Leaders' : currentTerm'[p] = t]
<1>1. /\ n \in Leaders' /\ currentTerm' = currentTerm
      /\ log'[n] = Append(log[n], e)
      /\ \A p \in Node \ {n} : log'[p] = log[p] /\ state'[p] = state[p]
  BY Zenon DEF AppendStep, Leaders, TypeOK
<1>2. \A p \in Leaders' : currentTerm[p] = T => p = n
  BY Zenon, <1>1 DEF ElectionSafety, Leaders
<1>3. \A p \in Leaders' \ {n} : /\ currentTerm[p] \in DOMAIN reign
                                /\ reign[currentTerm[p]] = log'[p]
  BY Zenon, <1>1 DEF ReignInv, Leaders
<1>4. DOMAIN reign' = DOMAIN reign \cup {T}
  <2>1. DOMAIN reign \cup {currentTerm'[p] : p \in Leaders'}
          = DOMAIN reign \cup {T}
    BY Zenon, <1>1, <1>3
  <2> QED BY Zenon, <2>1 DEF RecordReign
<1>5. \A t \in DOMAIN reign' :
        reign'[t] = IF Led(t) THEN Log(t) ELSE reign[t]
  BY Zenon DEF RecordReign
<1>6. Led(T) /\ Log(T) = Append(log[n], e)
  <2>1. Led(T)
    BY Zenon, <1>1
  <2>2. \A p \in Leaders' : currentTerm'[p] = T => p = n
    BY Zenon, <1>1, <1>2
  <2>3. (CHOOSE p \in Leaders' : currentTerm'[p] = T) = n
    BY Zenon, <2>1, <2>2
  <2> QED BY Zenon, <1>1, <2>1, <2>3
<1>7. ASSUME NEW t \in DOMAIN reign \ {T}, Led(t) PROVE Log(t) = reign[t]
  <2> DEFINE q == CHOOSE p \in Leaders' : currentTerm'[p] = t
  <2>1. q \in Leaders' /\ currentTerm'[q] = t
    BY Zenon, <1>7
  <2>2. q # n /\ currentTerm[q] = t
    BY Zenon, <1>1, <2>1
  <2> HIDE DEF q
  <2>3. reign[t] = log'[q]
    BY Zenon, <1>3, <2>1, <2>2
  <2> QED BY Zenon, <2>3 DEF q
<1>8. T \in DOMAIN reign => state[n] = "Leader" /\ reign[T] = log[n]
  <2>1. CASE state[n] = "Leader"
    BY Zenon, <2>1 DEF ReignInv, Leaders
  <2>2. CASE state[n] = "Candidate"
    <3> SUFFICES ASSUME T \in DOMAIN reign PROVE FALSE
      BY Zenon
    <3>1. PICK t \in Nat : t = T
      BY Zenon, NodeTypes
    <3>2. PICK l \in Node : Elected(l, t)
      BY Zenon, <3>1 DEF ReignInv
    <3>3. Elected(l, t)'
      BY Zenon, <3>2 DEF ElectedStays
    <3>4. currentTerm'[n] = t /\ state'[n] = "Leader"
      BY Zenon, <1>1, <3>1 DEF Leaders
    <3>5. n = l
      BY Zenon, <3>3, <3>4 DEF LeaderIsElected
    <3> QED BY <2>2, <3>1, <3>2, <3>5 DEF Elected, StoodIn
  <2> QED BY Zenon, <2>1, <2>2, NodeTypes DEF AppendStep, Running
<1> HIDE DEF Led, Log
<1>9. reign'[T] = Append(log[n], e)
  BY Zenon, <1>4, <1>5, <1>6
<1>10. \A t \in DOMAIN reign \ {T} : reign'[t] = reign[t]
  BY Zenon, <1>4, <1>5, <1>7
<1> HIDE DEF T
<1>11. Grows(reign, reign')
  <2> SUFFICES ASSUME NEW t \in DOMAIN reign
               PROVE  Agree(reign'[t], reign[t], Len(reign[t]))
    BY Zenon, <1>4 DEF Grows
  <2>1. reign[t] \in Seq(Entry) /\ log[n] \in Seq(Entry)
    BY Zenon, ReignTypes
  <2>2. CASE t # T
    BY <1>10, <2>1, <2>2 DEF Agree
  <2>3. CASE t = T
    <3>1. reign'[t] = Append(reign[t], e)
      BY Zenon, <1>8, <1>9, <2>3
    <3> QED BY <2>1, <3>1 DEF Agree
  <2> QED BY Zenon, <2>2, <2>3
<1> QED BY Zenon, <1>4, <1>8, <1>9, <1>10, <1>11 DEF T

\* The logs on record match, and so does every node's.
LEMMA ReignMatches ==
  ASSUME TypeOK, ReignInv, NEW n \in Node, NEW t \in DOMAIN reign
  PROVE  Matches(log[n], reign[t])
<1>1. Rooted(log[n], reign) /\ Rooted(reign[t], reign)
  BY Zenon DEF ReignInv
<1>2. log[n] \in Seq(Entry) /\ reign[t] \in Seq(Entry)
  BY Zenon, ReignTypes
<1> SUFFICES ASSUME NEW i \in 1..Len(log[n]), i <= Len(reign[t]),
                    log[n][i].term = reign[t][i].term
             PROVE  Agree(log[n], reign[t], i)
  BY Zenon DEF Matches
<1>3. i \in 1..Len(reign[t])
  BY SMTT(30), <1>2
<1> QED BY Zenon, <1>1, <1>3, RootedMatch

\* A follower that stores entries follows the log of the leader who sent them.
LEMMA AcceptFollows ==
  ASSUME MinMax, TypeOK, ReignInv, RequestInv, NEW m \in appendRequests, NEW o,
         AcceptStep(m, o)
  PROVE  /\ m.term \in DOMAIN reign /\ m.to \in Node
         /\ log'[m.to] = o[1] /\ \A p \in Node \ {m.to} : log'[p] = log[p]
         /\ Follows(log[m.to], reign[m.term], o[1])
         /\ o[2] \in BOOLEAN
         /\ o[2] => Agree(o[1], reign[m.term], LastSent(m))
<1> DEFINE n == m.to
           u == reign[m.term]
           prev == m.prevLogIndex
<1>1. /\ n \in Node /\ prev \in Nat /\ m.entries \in Seq(Entry)
      /\ log \in [Node -> Seq(Entry)]
  BY Zenon DEF TypeOK, AppendRequest
<1>2. m.term \in DOMAIN reign /\ Piece(u, prev, m.entries)
  BY SMTT(30), <1>1, ReignTypes DEF RequestInv, Carries, LastSent, Piece
<1>3. u \in Seq(Entry) /\ log[n] \in Seq(Entry)
  BY Zenon, <1>1, <1>2, ReignTypes
<1>4. Matches(log[n], u)
  BY Zenon, <1>1, <1>2, ReignMatches
<1>5. Agree(log[n], u, prev)
  <2>1. CASE prev = 0
    BY <1>3, <2>1 DEF Agree
  <2>2. CASE prev # 0
    <3>1. prev \in DOMAIN log[n] /\ log[n][prev].term = m.prevLogTerm
      BY Zenon, <2>2 DEF AcceptStep, PrevMatches
    <3>2. m.prevLogTerm = u[prev].term
      BY <1>1, <2>2 DEF RequestInv, Carries
    <3>3. prev \in 1..Len(log[n]) /\ prev <= Len(u)
      BY SMTT(30), <1>1, <1>2, <1>3, <3>1 DEF Piece
    <3> QED BY Zenon, <1>4, <3>1, <3>2, <3>3 DEF Matches
  <2> QED BY Zenon, <2>1, <2>2
<1>6. o \in AppendOutcomes(n, prev, m.entries, DOMAIN log[n])
      /\ log' = [log EXCEPT ![n] = o[1]]
  BY Zenon DEF AcceptStep
<1> HIDE DEF n, u, prev
<1>7. /\ Follows(log[n], u, o[1]) /\ o[2] \in BOOLEAN
      /\ o[2] => Agree(o[1], u, prev + Len(m.entries))
  BY Zenon, <1>1, <1>2, <1>3, <1>4, <1>5, <1>6, OutcomeFollows
<1> QED BY Zenon, <1>1, <1>2, <1>6, <1>7 DEF n, u, prev, LastSent

\* Nobody stands for election, or leads, in the term 0.
LEMMA RunsOnPositive ==
  ASSUME TypeOK, ReignInv, RunsOn
  PROVE  \A n \in Node : Running(n)' => currentTerm'[n] > 0
BY ReignTypes DEF ReignInv, RunsOn

\* A step that writes no leader's log preserves the invariant on reigns, if
\* what a follower writes has its root in them.
LEMMA ReignInvFollow ==
  ASSUME TypeOK, TypeOK', ReignInv, ElectedStays, RunsOn, LeadersGoOn,
         reign' = reign,
         \A n \in Node : state'[n] = "Leader" => log'[n] = log[n],
         \A n \in Node : Rooted(log'[n], reign)
  PROVE  ReignInv'
<1>2. \A n \in Leaders' : currentTerm'[n] \in DOMAIN reign
                          /\ reign[currentTerm'[n]] = log'[n]
  BY Zenon DEF ReignInv, LeadersGoOn, Leaders
<1>3. \A t \in DOMAIN reign : \E l \in Node : Elected(l, t)'
  <2> TAKE t \in DOMAIN reign
  <2>1. PICK l \in Node : Elected(l, t)
    BY Zenon DEF ReignInv
  <2>2. PICK k \in Nat : k = t
    BY Zenon, ReignTypes
  <2> QED BY Zenon, <2>1, <2>2 DEF ElectedStays
<1>4. \A n \in Node : Running(n)' => currentTerm'[n] > 0
  BY Zenon, RunsOnPositive
<1> QED
  BY Zenon, <1>2, <1>3, <1>4 DEF ReignInv

\* An appended entry preserves the invariant on reigns: the record of the
\* leader's term is the leader's log, no other leader has the term, and what
\* had its root in the reigns keeps it.
LEMMA ReignInvAppend ==
  ASSUME TypeOK, TypeOK', ElectionSafety', LeaderIsElected', ElectedStays,
         ReignInv, RunsOn, RecordReign, NEW n \in Node, NEW e \in Entry, AppendStep(n, e)
  PROVE  ReignInv' /\ Grows(reign, reign')
<1> DEFINE T == currentTerm[n]
           w == Append(log[n], e)
<1>1. /\ DOMAIN reign' = DOMAIN reign \cup {T} /\ reign'[T] = w
      /\ \A t \in DOMAIN reign \ {T} : reign'[t] = reign[t]
      /\ Grows(reign, reign')
  BY Zenon, ReignAppend
<1>2. /\ n \in Leaders' /\ currentTerm' = currentTerm /\ e.term = T
      /\ log'[n] = w
      /\ \A p \in Node \ {n} : log'[p] = log[p] /\ state'[p] = state[p]
  BY Zenon DEF AppendStep, Leaders, TypeOK
<1>3. log[n] \in Seq(Entry) /\ w \in Seq(Entry) /\ T \in Nat \ {0}
  BY ReignTypes DEF AppendStep, ReignInv
<1>4. DOMAIN reign' \subseteq Nat \ {0}
  BY Zenon, <1>1, <1>3 DEF ReignInv
<1>5. \A t \in DOMAIN reign' : reign'[t] \in Seq(Entry)
  BY Zenon, <1>1, <1>3, ReignTypes
<1>6. reign' \in [DOMAIN reign' -> Seq(Entry)]
  <2>1. reign' = [t \in DOMAIN reign' |-> reign'[t]]
    BY Zenon DEF RecordReign
  <2> QED BY Zenon, <1>5, <2>1
<1>7. \A p \in Node : Running(p)' => currentTerm'[p] > 0
  BY Zenon, RunsOnPositive
<1>8. \A p \in Leaders' : currentTerm'[p] \in DOMAIN reign'
                          /\ reign'[currentTerm'[p]] = log'[p]
  <2> TAKE p \in Leaders'
  <2>1. CASE p = n
    BY Zenon, <1>1, <1>2, <2>1
  <2>2. CASE p # n
    <3>2. currentTerm[p] # T
      BY Zenon, <1>2, <2>2 DEF ElectionSafety, Leaders
    <3>3. currentTerm[p] \in DOMAIN reign /\ reign[currentTerm[p]] = log[p]
      BY Zenon, <1>2, <2>2 DEF ReignInv, Leaders
    <3> QED BY Zenon, <1>1, <1>2, <2>2, <3>2, <3>3 DEF Leaders
  <2> QED BY Zenon, <2>1, <2>2
<1>9. ASSUME NEW s \in Seq(Entry), Rooted(s, reign) PROVE Rooted(s, reign')
  BY Zenon, <1>1, <1>5, <1>9, ReignTypes, RootedGrows
<1>10. Rooted(w, reign')
  <2>1. Rooted(log[n], reign')
    BY Zenon, <1>3, <1>9 DEF ReignInv
  <2> QED BY Zenon, <1>1, <1>2, <1>3, <2>1, RootedAppend
<1>11. \A p \in Node : Rooted(log'[p], reign')
  <2> TAKE p \in Node
  <2>1. CASE p = n
    BY ZenonT(30), <1>2, <1>10, <2>1
  <2>2. CASE p # n
    <3>1. log[p] \in Seq(Entry) /\ Rooted(log[p], reign)
      BY Zenon, ReignTypes DEF ReignInv
    <3> QED BY Zenon, <1>2, <1>9, <2>2, <3>1
  <2> QED BY Zenon, <2>1, <2>2
<1>12. \A t \in DOMAIN reign' :
         /\ reign'[t] # << >> /\ reign'[t][Len(reign'[t])].term = t
         /\ Rooted(reign'[t], reign')
  <2> TAKE t \in DOMAIN reign'
  <2>1. CASE t = T
    <3>1. w # << >> /\ w[Len(w)] = e
      BY <1>3
    <3> QED BY Zenon, <1>1, <1>2, <1>10, <2>1, <3>1
  <2>2. CASE t # T
    <3>1. t \in DOMAIN reign /\ reign'[t] = reign[t]
      BY Zenon, <1>1, <2>2
    <3>2. reign[t] \in Seq(Entry) /\ Rooted(reign[t], reign)
      BY Zenon, <3>1, ReignTypes DEF ReignInv
    <3>3. Rooted(reign[t], reign')
      BY Zenon, <1>9, <3>2
    <3> QED BY Zenon, <3>1, <3>3 DEF ReignInv
  <2> QED BY Zenon, <2>1, <2>2
<1>13. \A t \in DOMAIN reign' : \E l \in Node : Elected(l, t)'
  <2> TAKE t \in DOMAIN reign'
  <2>1. CASE t = T
    <3>1. Elected(n, T)'
      BY Zenon, <1>2 DEF LeaderIsElected, Leaders
    <3>2. currentTerm'[n] = t
      BY Zenon, <1>2, <2>1
    <3> QED BY Zenon, <3>1, <3>2 DEF T
  <2>2. CASE t # T
    <3>1. PICK l \in Node : Elected(l, t)
      BY Zenon, <1>1, <2>2 DEF ReignInv
    <3>2. PICK k \in Nat : k = t
      BY Zenon, <1>4
    <3> QED BY Zenon, <3>1, <3>2 DEF ElectedStays
  <2> QED BY Zenon, <2>1, <2>2
<1> HIDE DEF T, w
<1>14. ReignInv'
  BY Zenon, <1>4, <1>6, <1>7, <1>8, <1>11, <1>12, <1>13 DEF ReignInv
<1> QED BY Zenon, <1>1, <1>14

\* Every step preserves the invariant on reigns, and a reign only grows.
LEMMA ReignInvStep ==
  ASSUME MinMax, TypeOK, TypeOK', ElectionSafety', LeaderIsElected',
         ElectedStays, ReignInv, RequestInv, LogStep, RunsOn, RecordReign
  PROVE  ReignInv' /\ Grows(reign, reign')
<1>1. reign' = reign => Grows(reign, reign')
  BY ReignTypes DEF Grows, Agree
<1>2. CASE QuietStep
  <2>1. \A n \in Node : Rooted(log'[n], reign)
    BY Zenon, <1>2 DEF QuietStep, ReignInv
  <2>2. reign' = reign
    BY Zenon, <1>2, ReignQuiet DEF QuietStep
  <2> QED BY Zenon, <1>1, <1>2, <2>1, <2>2, ReignInvFollow DEF QuietStep
<1>3. ASSUME NEW n \in Node, NEW e \in Entry, AppendStep(n, e)
      PROVE  ReignInv' /\ Grows(reign, reign')
  BY Zenon, <1>3, ReignInvAppend
<1>4. ASSUME NEW m \in appendRequests, NEW o, AcceptStep(m, o)
      PROVE  ReignInv' /\ Grows(reign, reign')
  <2>1. /\ m.term \in DOMAIN reign /\ m.to \in Node
        /\ log'[m.to] = o[1] /\ \A p \in Node \ {m.to} : log'[p] = log[p]
        /\ Follows(log[m.to], reign[m.term], o[1])
    BY ZenonT(30), <1>4, AcceptFollows
  <2>2. \A n \in Node : state'[n] = "Leader" => log'[n] = log[n]
    BY Zenon, <1>4, <2>1 DEF AcceptStep
  <2>3. \A n \in Node : Rooted(log[n], reign)
    BY Zenon DEF ReignInv
  <2>4. Rooted(o[1], reign)
    <3>1. CASE o[1] = log[m.to]
      BY Zenon, <2>1, <2>3, <3>1
    <3>2. CASE Agree(o[1], reign[m.term], Len(o[1]))
      <4>1. o[1] \in Seq(Entry) /\ reign[m.term] \in Seq(Entry)
        BY Zenon, <2>1, ReignTypes DEF Follows
      <4>2. Rooted(reign[m.term], reign)
        BY Zenon, <2>1 DEF ReignInv
      <4> QED BY ZenonT(30), <3>2, <4>1, <4>2, RootedPrefix
    <3> QED BY Zenon, <2>1, <3>1, <3>2 DEF Follows
  <2>5. \A n \in Node : Rooted(log'[n], reign)
    BY Zenon, <2>1, <2>3, <2>4
  <2>6. LeadersGoOn
    BY Zenon, <1>4 DEF AcceptStep
  <2>7. reign' = reign
    BY Zenon, <2>2, <2>6, ReignQuiet
  <2> QED BY Zenon, <1>1, <2>2, <2>5, <2>6, <2>7, ReignInvFollow
<1> QED BY Zenon, <1>2, <1>3, <1>4 DEF LogStep

\* What a request carries stays a piece of its leader's log while reigns grow.
LEMMA CarriesGrows ==
  ASSUME NEW R, NEW S, Grows(R, S), NEW m \in AppendRequest, Carries(R, m),
         \A t \in DOMAIN R : R[t] \in Seq(Entry),
         \A t \in DOMAIN S : S[t] \in Seq(Entry)
  PROVE  Carries(S, m)
<1> DEFINE u == R[m.term]
           w == S[m.term]
<1>1. m.term \in DOMAIN R /\ m.term \in DOMAIN S /\ Agree(w, u, Len(u))
  BY Zenon DEF Carries, Grows
<1>2. u \in Seq(Entry) /\ w \in Seq(Entry)
  BY Zenon, <1>1
<1>3. m.prevLogIndex \in Nat /\ Len(m.entries) \in Nat
  BY DEF AppendRequest
<1>4. /\ LastSent(m) \in 1..Len(u) /\ u[LastSent(m)].term = m.term
      /\ \A j \in 1..Len(m.entries) : m.entries[j] = u[m.prevLogIndex + j]
      /\ m.prevLogIndex > 0 => m.prevLogTerm = u[m.prevLogIndex].term
  BY Zenon DEF Carries
<1> HIDE DEF u, w
<1>5. Len(u) <= Len(w) /\ \A i \in 1..Len(u) : w[i] = u[i]
  BY Zenon, <1>1, <1>2 DEF Agree
<1>6. /\ LastSent(m) \in 1..Len(w) /\ w[LastSent(m)].term = m.term
      /\ \A j \in 1..Len(m.entries) : m.entries[j] = w[m.prevLogIndex + j]
      /\ m.prevLogIndex > 0 => m.prevLogTerm = w[m.prevLogIndex].term
  <2>1. LastSent(m) = m.prevLogIndex + Len(m.entries)
    BY Zenon DEF LastSent
  <2>2. LastSent(m) \in 1..Len(w) /\ w[LastSent(m)] = u[LastSent(m)]
    BY SMTT(30), <1>2, <1>4, <1>5
  <2>3. ASSUME NEW j \in 1..Len(m.entries)
        PROVE  m.entries[j] = w[m.prevLogIndex + j]
    <3>1. m.prevLogIndex + j \in 1..Len(u)
      BY SMTT(30), <1>2, <1>3, <1>4, <2>1
    <3> QED BY Zenon, <1>4, <1>5, <3>1
  <2>4. ASSUME m.prevLogIndex > 0
        PROVE  m.prevLogTerm = w[m.prevLogIndex].term
    <3>1. m.prevLogIndex \in 1..Len(u)
      BY SMTT(30), <1>2, <1>3, <1>4, <2>1, <2>4
    <3> QED BY Zenon, <1>4, <1>5, <2>4, <3>1
  <2> QED BY Zenon, <1>4, <2>2, <2>3, <2>4
<1> QED BY Zenon, <1>1, <1>6 DEF Carries, w

\* So does what an answer is about.
LEMMA AnswersGrows ==
  ASSUME NEW R, NEW S, Grows(R, S), NEW m \in AppendResponse, AnswersTo(R, m),
         \A t \in DOMAIN R : R[t] \in Seq(Entry),
         \A t \in DOMAIN S : S[t] \in Seq(Entry)
  PROVE  AnswersTo(S, m)
<1> DEFINE u == R[m.term]
           w == S[m.term]
           prev == m.prevLogIndex
<1>1. m.term \in DOMAIN R /\ m.term \in DOMAIN S /\ Agree(w, u, Len(u))
  BY Zenon DEF AnswersTo, Grows
<1>2. u \in Seq(Entry) /\ w \in Seq(Entry)
  BY <1>1
<1>3. prev \in Nat /\ m.sent \in Nat
  BY Zenon DEF AppendResponse
<1>4. /\ prev + m.sent \in 1..Len(u) /\ u[prev + m.sent].term = m.term
      /\ m.conflictIndex <= prev
  BY Zenon DEF AnswersTo
<1>5. ASSUME m.conflictTerm > 0
      PROVE  /\ m.conflictTerm \in DOMAIN S
             /\ prev \in 1..Len(S[m.conflictTerm])
             /\ S[m.conflictTerm][prev].term = m.conflictTerm
             /\ w[prev].term # m.conflictTerm
  <2> DEFINE c == R[m.conflictTerm]
             d == S[m.conflictTerm]
  <2>1. /\ m.conflictTerm \in DOMAIN R /\ prev \in 1..Len(c)
        /\ c[prev].term = m.conflictTerm /\ u[prev].term # m.conflictTerm
    BY Zenon, <1>5 DEF AnswersTo
  <2>2. m.conflictTerm \in DOMAIN S /\ Agree(d, c, Len(c))
    BY Zenon, <2>1 DEF Grows
  <2>3. c \in Seq(Entry) /\ d \in Seq(Entry)
    BY Zenon, <2>1, <2>2
  <2> HIDE DEF c, d, u, w, prev
  <2>4. prev \in 1..Len(d) /\ d[prev] = c[prev]
    BY <2>1, <2>2, <2>3 DEF Agree
  <2>5. prev \in 1..Len(u)
    BY SMTT(30), <1>2, <1>3, <1>4, <2>1, <2>3
  <2>6. w[prev] = u[prev]
    BY Zenon, <1>1, <1>2, <2>5 DEF Agree
  <2> QED BY Zenon, <2>1, <2>2, <2>4, <2>6 DEF d
<1> HIDE DEF u, w, prev
<1>6. prev + m.sent \in 1..Len(w) /\ w[prev + m.sent].term = m.term
  BY SMTT(30), <1>1, <1>2, <1>4 DEF Agree
<1> QED BY Zenon, <1>1, <1>4, <1>5, <1>6 DEF AnswersTo, w, prev

\* While "read" does not fail, a leader sends all of its log from nextIndex on.
LEMMA SentCarries ==
  ASSUME "read" \notin StorageFaults, TypeOK, ReignInv, NextInv,
         NEW c \in appendCalls, sendAppendEntries(c),
         NEW m \in appendRequests', m \notin appendRequests
  PROVE  /\ Carries(reign, m) /\ LastSent(m) = Len(reign[m.term])
         /\ m.term = c.term /\ m.leaderCommit = c.leaderCommit
<1> DEFINE n == c.from
           next == nextIndex[n][c.to]
           prev == next - 1
           r == [from |-> n, to |-> c.to, term |-> c.term,
                 leaderCommit |-> c.leaderCommit, prevLogIndex |-> prev,
                 prevLogTerm |-> GetTerm(n, prev, DOMAIN log[n]),
                 entries |-> SubSeq(log[n], next, Len(log[n]))]
<1>1. n \in Node /\ c.to \in Node /\ log[n] \in Seq(Entry)
  BY Zenon DEF TypeOK, AppendCall
<1>2. Readable(n) = {DOMAIN log[n]} /\ Outcomes("read") = {TRUE}
  BY Zenon DEF Readable, Outcomes
<1>3. state[n] = "Leader" /\ currentTerm[n] = c.term /\ m = r
  <2>1. state[n] = "Leader" /\ currentTerm[n] = c.term
    BY Zenon DEF sendAppendEntries
  <2>2. PICK readable \in Readable(n), readOK \in Outcomes("read") :
          appendRequests' = appendRequests \cup
            {[from |-> n, to |-> c.to, term |-> c.term,
              leaderCommit |-> c.leaderCommit, prevLogIndex |-> prev,
              prevLogTerm |-> GetTerm(n, prev, readable),
              entries |-> IF readOK THEN SubSeq(log[n], next, Len(log[n]))
                                    ELSE << >>]}
    BY Zenon, <2>1 DEF sendAppendEntries
  <2>3. readable = DOMAIN log[n] /\ readOK = TRUE
    BY Zenon, <1>2
  <2> QED BY Zenon, <2>1, <2>2, <2>3
<1>4. next \in 1..Len(log[n]) + 1
  BY Zenon, <1>1, <1>3 DEF NextInv, Leaders
<1>5. c.term \in DOMAIN reign /\ reign[c.term] = log[n]
  BY Zenon, <1>1, <1>3 DEF ReignInv, Leaders
<1>6. log[n] # << >> /\ log[n][Len(log[n])].term = c.term
  BY Zenon, <1>5 DEF ReignInv
<1>7. /\ m.term = c.term /\ m.leaderCommit = c.leaderCommit
      /\ m.prevLogIndex = prev
      /\ m.prevLogTerm = GetTerm(n, prev, DOMAIN log[n])
      /\ m.entries = SubSeq(log[n], next, Len(log[n]))
  BY Zenon, <1>3
<1> HIDE DEF n, next, r
<1>8. Len(m.entries) = Len(log[n]) - prev
      /\ \A j \in 1..Len(m.entries) : m.entries[j] = log[n][prev + j]
  BY SMTT(30), <1>1, <1>4, <1>7
<1>9. LastSent(m) = Len(log[n]) /\ Len(log[n]) \in 1..Len(log[n])
  BY SMTT(30), <1>1, <1>4, <1>6, <1>7, <1>8 DEF LastSent
<1>10. prev > 0 => m.prevLogTerm = log[n][prev].term
  BY <1>1, <1>4, <1>7 DEF GetTerm
<1> QED BY Zenon, <1>5, <1>6, <1>7, <1>8, <1>9, <1>10 DEF Carries

\* Where the RPCs in flight come from: sendAppendEntries makes the requests,
\* HandleAppendEntries the answers.
LEMMA MessagesFrom ==
  ASSUME [Next]_vars
  PROVE  /\ \/ appendRequests' \subseteq appendRequests
            \/ \E c \in appendCalls : sendAppendEntries(c)
         /\ \/ appendResponses' \subseteq appendResponses
            \/ \E m \in appendRequests : HandleAppendEntries(m)
<1>1. CASE \/ \E n \in Node : \/ TimerFires(n) \/ startElection(n)
                              \/ CheckWon(n) \/ sendHeartbeats(n)
                              \/ \E c \in Command : Propose(n, c)
                              \/ leaderLoopReturns(n) \/ Restart(n)
           \/ \E m \in voteRequests : HandleRequestVote(m)
           \/ \E m \in voteResponses : ReceiveVote(m)
           \/ UNCHANGED vars
  <2>1. appendRequests' = appendRequests
    BY Zenon, <1>1
    DEF TimerFires, startElection, CheckWon, sendHeartbeats, Propose,
        leaderLoopReturns, Restart, HandleRequestVote, ReceiveVote, appendVars,
        vars
  <2>2. appendResponses' \subseteq appendResponses
    BY Zenon, <1>1
    DEF TimerFires, startElection, CheckWon, sendHeartbeats, Propose,
        leaderLoopReturns, Restart, HandleRequestVote, ReceiveVote, appendVars,
        vars
  <2> QED BY Zenon, <2>1, <2>2
<1>2. CASE \E c \in appendCalls : sendAppendEntries(c)
  BY Zenon, <1>2 DEF sendAppendEntries
<1>3. ASSUME NEW m \in appendRequests, HandleAppendEntries(m)
      PROVE  appendRequests' \subseteq appendRequests
  BY Zenon, <1>3
  DEF HandleAppendEntries, AcceptEntries, ReplyAppend, Taken
<1>4. CASE \/ \E m \in appendResponses : ReceiveAppend(m)
           \/ LoseRPC
  BY Zenon, <1>4 DEF ReceiveAppend, LoseRPC, Taken, appendVars
<1> QED BY Zenon, <1>1, <1>2, <1>3, <1>4 DEF Next

\* Every AppendEntries in flight carries a piece of its leader's log.
LEMMA RequestInvStep ==
  ASSUME "read" \notin StorageFaults, TypeOK, TypeOK', ReignInv, ReignInv',
         RequestInv, NextInv, Grows(reign, reign'), [Next]_vars
  PROVE  RequestInv'
<1> SUFFICES ASSUME NEW m \in appendRequests' PROVE Carries(reign', m)
  BY Zenon DEF RequestInv
<1>1. m \in AppendRequest
  BY Zenon DEF TypeOK
<1>2. Carries(reign, m)
  <2>1. CASE m \in appendRequests
    BY Zenon, <2>1 DEF RequestInv
  <2>2. CASE m \notin appendRequests
    <3>1. PICK c \in appendCalls : sendAppendEntries(c)
      BY Zenon, <2>2, MessagesFrom
    <3> QED BY Zenon, <2>2, <3>1, SentCarries
  <2> QED BY Zenon, <2>1, <2>2
<1>3. /\ \A t \in DOMAIN reign : reign[t] \in Seq(Entry)
      /\ \A t \in DOMAIN reign' : reign'[t] \in Seq(Entry)
  BY Zenon DEF ReignInv
<1> QED BY Zenon, <1>1, <1>2, <1>3, CarriesGrows

\* A rejection by Rule 2 names an index up to prevLogIndex, and with a term the
\* leader of which had another entry there.
LEMMA ConflictAnswers ==
  ASSUME MinMax, TypeOK, ReignInv, RequestInv, NEW m \in appendRequests,
         ~PrevMatches(m.to, m.prevLogIndex, m.prevLogTerm, DOMAIN log[m.to])
  PROVE  LET prev == m.prevLogIndex
             x == Conflict(m.to, prev, DOMAIN log[m.to])
         IN /\ x[1] <= prev
            /\ x[2] > 0 => /\ x[2] \in DOMAIN reign
                           /\ prev \in 1..Len(reign[x[2]])
                           /\ reign[x[2]][prev].term = x[2]
                           /\ reign[m.term][prev].term # x[2]
<1> DEFINE n == m.to
           prev == m.prevLogIndex
           x == Conflict(n, prev, DOMAIN log[n])
<1>1. n \in Node /\ prev \in Nat /\ log[n] \in Seq(Entry)
  BY Zenon DEF TypeOK, AppendRequest
<1>2. prev # 0 /\ ~(prev \in DOMAIN log[n] /\ log[n][prev].term = m.prevLogTerm)
  BY Zenon DEF PrevMatches
<1>3. m.prevLogTerm = reign[m.term][prev].term
  BY SMTT(30), <1>1, <1>2 DEF RequestInv, Carries
<1>4. CASE prev \notin DOMAIN log[n]
  <2>1. x = <<Len(log[n]) + 1, 0>>
    BY Zenon, <1>4 DEF Conflict
  <2>2. prev > Len(log[n])
    BY <1>1, <1>2, <1>4
  <2> HIDE DEF n, prev, x
  <2>3. x[1] <= prev /\ ~(x[2] > 0)
    BY SMTT(30), <1>1, <2>1, <2>2
  <2> QED BY Zenon, <2>3 DEF n, prev, x
<1>5. CASE prev \in DOMAIN log[n]
  <2> DEFINE T == log[n][prev].term
             S == {i \in DOMAIN log[n] : log[n][i].term = T}
  <2>1. x[1] = Min(S) /\ x[2] = T
    BY Zenon, <1>5 DEF Conflict, findFirstIndexOfTerm
  <2>2. prev \in S /\ S \subseteq Nat
    BY <1>1, <1>5
  <2>3. \A i \in S : Min(S) <= i
    BY Zenon, <2>2 DEF MinMax
  <2>4. T \in DOMAIN reign /\ Agree(log[n], reign[T], prev)
    BY SMTT(30), <1>1, <1>5 DEF ReignInv, Rooted
  <2>5. prev \in 1..Len(reign[T]) /\ reign[T][prev].term = T
    <3>1. prev \in 1..prev /\ reign[T] \in Seq(Entry)
      BY SMTT(30), <1>1, <1>2, <2>4, ReignTypes
    <3>2. reign[T][prev] = log[n][prev]
      BY Zenon, <2>4, <3>1 DEF Agree
    <3> QED BY SMTT(30), <2>4, <3>1, <3>2 DEF Agree
  <2>6. reign[m.term][prev].term # T
    BY Zenon, <1>2, <1>3, <1>5
  <2> HIDE DEF n, prev, x, T, S
  <2>7. x[1] <= prev
    BY ZenonT(30), <2>1, <2>2, <2>3
  <2> QED BY Zenon, <2>1, <2>4, <2>5, <2>6, <2>7 DEF n, prev, x
<1> QED BY Zenon, <1>4, <1>5

\* An answer is about the request it answers.
LEMMA HandledAnswers ==
  ASSUME MinMax, "read" \notin StorageFaults, TypeOK, ReignInv, RequestInv,
         NEW m \in appendRequests, HandleAppendEntries(m),
         NEW r \in appendResponses', r \notin appendResponses
  PROVE  AnswersTo(reign, r)
<1> DEFINE none == <<0, 0>>
           Reply(respTerm, success, conflict) ==
             [from |-> m.from, to |-> m.to, term |-> m.term,
              prevLogIndex |-> m.prevLogIndex, sent |-> Len(m.entries),
              respTerm |-> respTerm, success |-> success,
              conflictIndex |-> conflict[1], conflictTerm |-> conflict[2]]
           prev == m.prevLogIndex
           x == Conflict(m.to, prev, DOMAIN log[m.to])
<1>1. \/ \E respTerm, success : r = Reply(respTerm, success, none)
      \/ /\ ~PrevMatches(m.to, prev, m.prevLogTerm, DOMAIN log[m.to])
         /\ r = Reply(m.term, FALSE, x)
  <2>1. ASSUME NEW respTerm, NEW success, NEW conflict,
               ReplyAppend(m, respTerm, success, conflict)
        PROVE  r = Reply(respTerm, success, conflict)
    BY Zenon, <2>1 DEF ReplyAppend
  <2> HIDE DEF Reply, none
  <2>2. \/ ReplyAppend(m, currentTerm[m.to], FALSE, none)
        \/ \E readable \in Readable(m.to) : AcceptEntries(m, readable)
    BY Zenon DEF HandleAppendEntries, none
  <2>3. Readable(m.to) = {DOMAIN log[m.to]}
    BY Zenon DEF Readable
  <2>4. CASE AcceptEntries(m, DOMAIN log[m.to])
    <3>1. \/ /\ ~PrevMatches(m.to, prev, m.prevLogTerm, DOMAIN log[m.to])
             /\ ReplyAppend(m, m.term, FALSE, x)
          \/ \E o : ReplyAppend(m, m.term, o[2], none)
      BY Zenon, <2>4 DEF AcceptEntries, none
    <3> QED BY Zenon, <2>1, <3>1
  <2> QED BY Zenon, <2>1, <2>2, <2>3, <2>4
<1>2. /\ r.term = m.term /\ r.prevLogIndex = prev
      /\ r.sent = Len(m.entries)
  <2>1. ASSUME NEW a, NEW b, NEW c, r = Reply(a, b, c)
        PROVE  /\ r.term = m.term /\ r.prevLogIndex = prev
               /\ r.sent = Len(m.entries)
    BY Zenon, <2>1
  <2> HIDE DEF Reply
  <2> QED BY Zenon, <1>1, <2>1
<1>3. /\ m.term \in DOMAIN reign
      /\ prev + Len(m.entries) \in 1..Len(reign[m.term])
      /\ reign[m.term][prev + Len(m.entries)].term = m.term
  BY Zenon DEF RequestInv, Carries, LastSent
<1>4. prev \in Nat
  BY Zenon DEF TypeOK, AppendRequest
<1>5. CASE r.conflictIndex = 0 /\ r.conflictTerm = 0
  <2> HIDE DEF prev
  <2> QED BY SMTT(30), <1>2, <1>3, <1>4, <1>5 DEF AnswersTo
<1>6. CASE /\ ~PrevMatches(m.to, prev, m.prevLogTerm, DOMAIN log[m.to])
           /\ r.conflictIndex = x[1] /\ r.conflictTerm = x[2]
  <2>1. /\ x[1] <= prev
        /\ x[2] > 0 => /\ x[2] \in DOMAIN reign
                       /\ prev \in 1..Len(reign[x[2]])
                       /\ reign[x[2]][prev].term = x[2]
                       /\ reign[m.term][prev].term # x[2]
    BY Zenon, <1>6, ConflictAnswers
  <2> HIDE DEF prev, x
  <2> QED BY Zenon, <1>2, <1>3, <1>6, <2>1 DEF AnswersTo
<1>7. \/ r.conflictIndex = 0 /\ r.conflictTerm = 0
      \/ /\ ~PrevMatches(m.to, prev, m.prevLogTerm, DOMAIN log[m.to])
         /\ r.conflictIndex = x[1] /\ r.conflictTerm = x[2]
  <2>1. ASSUME NEW a, NEW b, NEW c, r = Reply(a, b, c)
        PROVE  r.conflictIndex = c[1] /\ r.conflictTerm = c[2]
    BY <2>1
  <2>2. none[1] = 0 /\ none[2] = 0
    OBVIOUS
  <2> HIDE DEF Reply, none, x
  <2> QED BY Zenon, <1>1, <2>1, <2>2
<1> QED BY Zenon, <1>5, <1>6, <1>7

\* Every answer in flight is about a piece of its leader's log.
LEMMA ResponseInvStep ==
  ASSUME MinMax, "read" \notin StorageFaults, TypeOK, TypeOK', ReignInv, ReignInv',
         RequestInv, ResponseInv, Grows(reign, reign'), [Next]_vars
  PROVE  ResponseInv'
<1> SUFFICES ASSUME NEW r \in appendResponses' PROVE AnswersTo(reign', r)
  BY Zenon DEF ResponseInv
<1>1. r \in AppendResponse
  BY Zenon DEF TypeOK
<1>2. AnswersTo(reign, r)
  <2>1. CASE r \in appendResponses
    BY Zenon, <2>1 DEF ResponseInv
  <2>2. CASE r \notin appendResponses
    <3>1. PICK m \in appendRequests : HandleAppendEntries(m)
      BY Zenon, <2>2, MessagesFrom
    <3> QED BY Zenon, <2>2, <3>1, HandledAnswers
  <2> QED BY <2>1, <2>2
<1>3. /\ \A t \in DOMAIN reign : reign[t] \in Seq(Entry)
      /\ \A t \in DOMAIN reign' : reign'[t] \in Seq(Entry)
  BY Zenon DEF ReignInv
<1> QED BY <1>1, <1>2, <1>3, AnswersGrows

\* Wherever a rejection sends the leader, it stays in its log.
LEMMA BackUpInLog ==
  ASSUME MinMax, TypeInv, ReignInv, ResponseInv, NextInv, NEW m \in appendResponses,
         state[m.from] = "Leader", currentTerm[m.from] = m.term
  PROVE  BackUp(m.from, m, DOMAIN log[m.from]) \in 1..Len(log[m.from]) + 1
<1> DEFINE n == m.from
           S == {i \in DOMAIN log[n] : log[n][i].term = m.conflictTerm}
           next == nextIndex[n][m.to]
<1>1. /\ n \in Node /\ m.to \in Node /\ log[n] \in Seq(Entry)
      /\ m.conflictTerm \in Nat /\ m.conflictIndex \in Nat
      /\ m.prevLogIndex \in Nat /\ m.sent \in Nat
  BY Zenon DEF TypeInv, TypeOK, AppendResponse
<1>2. reign[m.term] = log[n]
  BY Zenon, <1>1 DEF ReignInv, Leaders
<1>3. m.conflictIndex <= Len(log[n])
  BY SMTT(30), <1>1, <1>2 DEF ResponseInv, AnswersTo
<1>4. next \in 1..Len(log[n]) + 1
  BY Zenon, <1>1 DEF NextInv, Leaders
<1>5. m.conflictTerm > 0 => m.conflictIndex >= 1
  BY Zenon DEF TypeInv, IndexInv
<1>6. S # {} => Max(S) \in 1..Len(log[n])
  <2>1. S \in SUBSET Nat /\ \A i \in S : i <= Len(log[n])
    BY <1>1
  <2>2. S # {} => Max(S) \in S
    <3> HIDE DEF S
    <3>1. Len(log[n]) \in Nat
      BY SMTT(30), <1>1
    <3> QED BY Zenon, <2>1, <3>1 DEF MinMax
  <2> QED BY SMTT(30), <1>1, <2>2
<1> HIDE DEF S, next
<1>7. CASE m.conflictTerm > 0 /\ S # {}
  <2>1. BackUp(n, m, DOMAIN log[n]) = Max(S) + 1
    BY <1>7 DEF BackUp, S
  <2> QED BY <1>1, <1>6, <1>7, <2>1
<1>8. CASE m.conflictIndex > 0 /\ ~(m.conflictTerm > 0 /\ S # {})
  <2>1. BackUp(n, m, DOMAIN log[n]) = m.conflictIndex
    BY <1>1, <1>8 DEF BackUp, S
  <2> QED BY <1>1, <1>3, <1>8, <2>1
<1>9. CASE m.conflictTerm = 0 /\ m.conflictIndex = 0
  <2>1. BackUp(n, m, DOMAIN log[n]) = IF next > 1 THEN next - 1 ELSE next
    BY SMTT(30), <1>1, <1>9 DEF BackUp, next
  <2> QED BY <1>1, <1>4, <2>1
<1> QED BY SMTT(30), <1>1, <1>5, <1>7, <1>8, <1>9

\* What a leader knows of its peers: nothing when it begins, and then what
\* their answers tell.
LEMMA IndexStep ==
  ASSUME "read" \notin StorageFaults, TypeOK, [Next]_vars,
         NEW n \in Node, state'[n] = "Leader"
  PROVE  \/ /\ state[n] = "Leader" /\ nextIndex'[n] = nextIndex[n]
            /\ matchIndex'[n] = matchIndex[n]
         \/ state[n] = "Candidate" /\ becomeLeader(n)
         \/ \E m \in appendResponses :
              /\ ReceiveAppend(m)
              /\ m.from = n /\ state[n] = "Leader" /\ currentTerm[n] = m.term
              /\ ApplyAppendResponse(n, m, DOMAIN log[n])
<1> DEFINE Stays(p) == /\ state[p] = "Leader" /\ nextIndex'[p] = nextIndex[p]
                       /\ matchIndex'[p] = matchIndex[p]
<1>3. ASSUME NEW p \in Node, becomeLeader(p), state[p] = "Candidate"
      PROVE  Stays(n) \/ p = n
  <2>1. \/ state' = [state EXCEPT ![p] = "Leader"]
        \/ state' = [state EXCEPT ![p] = "Follower"]
    BY Zenon, <1>3 DEF becomeLeader, stepDown
  <2>2. /\ nextIndex' = [nextIndex EXCEPT ![p] = [q \in Node |-> Len(log[p]) + 1]]
        /\ matchIndex' = [matchIndex EXCEPT ![p] = [q \in Node |-> 0]]
    BY Zenon, <1>3 DEF becomeLeader
  <2>3. p # n => Stays(n)
    BY Zenon, <2>1, <2>2, NodeTypes DEF TypeOK
  <2> QED BY Zenon, <2>3
<1>4. ASSUME NEW p \in Node, NEW newTerm, NEW saveOK,
             stepDown(p, newTerm, saveOK), UNCHANGED leaderVars
      PROVE  Stays(n)
  BY Zenon, <1>4, NodeTypes DEF stepDown, leaderVars
<1>5. ASSUME NEW p \in Node, startElection(p) PROVE Stays(n)
  <2>1. \/ state' = [state EXCEPT ![p] = "Candidate"]
        \/ state' = [state EXCEPT ![p] = "Follower"]
    BY Zenon, <1>5 DEF startElection
  <2> QED BY Zenon, <1>5, <2>1, NodeTypes DEF startElection, leaderVars
<1>6. ASSUME NEW p \in Node, CheckWon(p)
      PROVE  Stays(n) \/ (becomeLeader(n) /\ state[n] = "Candidate")
  BY Zenon, <1>3, <1>6 DEF CheckWon, Won
<1>7. ASSUME NEW m \in voteResponses, ReceiveVote(m)
      PROVE  Stays(n) \/ (becomeLeader(n) /\ state[n] = "Candidate")
  <2>1. m.from \in Node
    BY Zenon, NodeTypes DEF VoteResponse
  <2>2. \/ becomeLeader(m.from) /\ state[m.from] = "Candidate"
        \/ /\ UNCHANGED leaderVars
           /\ \E saveOK : stepDown(m.from, m.respTerm, saveOK)
        \/ UNCHANGED <<leaderVars, state>>
    BY Zenon, <1>7 DEF ReceiveVote
  <2>3. UNCHANGED <<leaderVars, state>> => Stays(n)
    BY Zenon DEF leaderVars
  <2> QED BY Zenon, <1>3, <1>4, <2>1, <2>2, <2>3
<1>8. ASSUME NEW m \in voteRequests, HandleRequestVote(m) PROVE Stays(n)
  <2>1. m.to \in Node /\ nextIndex' = nextIndex /\ matchIndex' = matchIndex
    BY Zenon, <1>8, NodeTypes DEF HandleRequestVote, leaderVars, VoteRequest
  <2>2. \/ state' = state
        \/ \E x : state' = [state EXCEPT ![m.to] = IF x THEN "Follower" ELSE @]
    BY Zenon, <1>8 DEF HandleRequestVote, Vote
  <2> QED BY ZenonT(30), <2>1, <2>2, NodeTypes
<1>9. ASSUME NEW m \in appendRequests, HandleAppendEntries(m) PROVE Stays(n)
  <2>1. m.to \in Node /\ nextIndex' = nextIndex /\ matchIndex' = matchIndex
    BY Zenon, <1>9 DEF HandleAppendEntries, leaderVars, AppendRequest, TypeOK
  <2>2. \/ state' = state
        \/ \E x : state' = [state EXCEPT ![m.to] =
                              IF x \/ @ = "Candidate" THEN "Follower" ELSE @]
    BY Zenon, <1>9 DEF HandleAppendEntries, Follow
  <2> QED BY ZenonT(30), <2>1, <2>2, NodeTypes
<1>10. ASSUME NEW p \in Node, Restart(p) PROVE Stays(n)
  BY Zenon, <1>10, NodeTypes DEF Restart, TypeOK
<1>11. ASSUME NEW m \in appendResponses, ReceiveAppend(m)
       PROVE  \/ Stays(n)
              \/ /\ m.from = n /\ state[n] = "Leader"
                 /\ currentTerm[n] = m.term
                 /\ ApplyAppendResponse(n, m, DOMAIN log[n])
  <2>1. m.from \in Node
    BY Zenon DEF TypeOK, AppendResponse
  <2>2. Readable(m.from) = {DOMAIN log[m.from]}
    BY Zenon DEF Readable
  <2>3. \/ UNCHANGED <<leaderVars, state>>
        \/ /\ UNCHANGED leaderVars
           /\ \E saveOK : stepDown(m.from, m.respTerm, saveOK)
        \/ /\ state[m.from] = "Leader" /\ currentTerm[m.from] = m.term
           /\ ApplyAppendResponse(m.from, m, DOMAIN log[m.from])
           /\ UNCHANGED state
    BY Zenon, <1>11, <2>2 DEF ReceiveAppend
  <2>4. UNCHANGED <<leaderVars, state>> => Stays(n)
    BY Zenon DEF leaderVars
  <2>5. ASSUME ApplyAppendResponse(m.from, m, DOMAIN log[m.from]),
               UNCHANGED state, m.from # n
        PROVE  Stays(n)
    BY Zenon, <2>5 DEF ApplyAppendResponse, TypeOK
  <2> QED BY Zenon, <1>4, <2>1, <2>3, <2>4, <2>5
<1> HIDE DEF Stays
<1>12. \/ Stays(n)
       \/ state[n] = "Candidate" /\ becomeLeader(n)
       \/ \E m \in appendResponses :
            /\ ReceiveAppend(m)
            /\ m.from = n /\ state[n] = "Leader" /\ currentTerm[n] = m.term
            /\ ApplyAppendResponse(n, m, DOMAIN log[n])
  <2>1. CASE UNCHANGED <<state, nextIndex, matchIndex>>
    BY ZenonT(30), <2>1 DEF Stays
  <2>2. CASE \/ UNCHANGED vars
             \/ \E p \in Node : \/ TimerFires(p)
                                \/ sendHeartbeats(p)
                                \/ \E c \in Command : Propose(p, c)
                                \/ leaderLoopReturns(p)
             \/ \E c \in appendCalls : sendAppendEntries(c)
             \/ LoseRPC
    <3>1. UNCHANGED <<state, nextIndex, matchIndex>>
      BY Zenon, <2>2
      DEF vars, leaderVars, TimerFires, sendHeartbeats, leaderLoopReturns,
          Propose, sendAppendEntries, LoseRPC
    <3> QED BY Zenon, <2>1, <3>1
  <2> QED BY Zenon, <1>5, <1>6, <1>7, <1>8, <1>9, <1>10, <1>11, <2>2 DEF Next
<1> QED BY Zenon, <1>12 DEF Stays

\* A leader's log does not get shorter.
LEMMA LeaderLogGrows ==
  ASSUME TypeOK, TypeOK', LogStep, NEW n \in Node, state'[n] = "Leader"
  PROVE  Len(log'[n]) >= Len(log[n])
<1>1. log[n] \in Seq(Entry)
  BY Zenon DEF TypeOK
<1>2. CASE QuietStep
  BY <1>1, <1>2 DEF QuietStep
<1>3. ASSUME NEW p \in Node, NEW e \in Entry, AppendStep(p, e)
      PROVE  Len(log'[n]) >= Len(log[n])
  <2>1. log'[n] = log[n] \/ log'[n] = Append(log[n], e)
    BY Zenon, <1>3 DEF AppendStep, TypeOK
  <2> QED BY SMTT(30), <1>1, <2>1
<1>4. ASSUME NEW m \in appendRequests, NEW o, AcceptStep(m, o)
      PROVE  Len(log'[n]) >= Len(log[n])
  <2>1. log'[n] = log[n]
    BY Zenon, <1>4 DEF AcceptStep, TypeOK
  <2> QED BY SMTT(30), <1>1, <2>1
<1> QED BY ZenonT(30), <1>2, <1>3, <1>4 DEF LogStep

\* The indices of a leader stay in its log.
LEMMA NextInvStep ==
  ASSUME MinMax, "read" \notin StorageFaults, TypeInv, TypeOK', ReignInv, ResponseInv,
         NextInv, LogStep, [Next]_vars
  PROVE  NextInv'
<1> USE DEF TypeInv
<1> SUFFICES ASSUME NEW n \in Leaders', NEW p \in Node
             PROVE  nextIndex'[n][p] \in 1..Len(log'[n]) + 1
  BY Zenon DEF NextInv
<1>1. n \in Node /\ state'[n] = "Leader"
  BY Zenon DEF Leaders
<1>2. Len(log'[n]) >= Len(log[n]) /\ Len(log[n]) \in Nat /\ Len(log'[n]) \in Nat
  <2>1. log[n] \in Seq(Entry) /\ log'[n] \in Seq(Entry)
    BY Zenon, <1>1 DEF TypeOK
  <2> QED BY <1>1, <2>1, LeaderLogGrows
<1>3. SUFFICES nextIndex'[n][p] \in 1..Len(log[n]) + 1
  BY SMTT(30), <1>2
<1>4. CASE state[n] = "Leader" /\ nextIndex'[n] = nextIndex[n]
  BY Zenon, <1>1, <1>4 DEF NextInv, Leaders
<1>5. CASE becomeLeader(n)
  <2>1. nextIndex'[n][p] = Len(log[n]) + 1
    BY Zenon, <1>1, <1>5 DEF becomeLeader, TypeOK
  <2> QED BY SMTT(30), <1>2, <2>1
<1>6. ASSUME NEW m \in appendResponses, m.from = n, state[n] = "Leader",
             currentTerm[n] = m.term, ApplyAppendResponse(n, m, DOMAIN log[n])
      PROVE  nextIndex'[n][p] \in 1..Len(log[n]) + 1
  <2>1. nextIndex[n][p] \in 1..Len(log[n]) + 1
    BY Zenon, <1>1, <1>6 DEF NextInv, Leaders
  <2>2. MatchedBy(m) + 1 \in 1..Len(log[n]) + 1
    <3>1. reign[m.term] = log[n]
      BY Zenon, <1>1, <1>6 DEF ReignInv, Leaders
    <3>2. m.prevLogIndex + m.sent \in 1..Len(log[n])
      BY ZenonT(30), <3>1 DEF ResponseInv, AnswersTo
    <3> QED BY SMTT(30), <1>2, <3>2 DEF MatchedBy
  <2>3. BackUp(n, m, DOMAIN log[n]) \in 1..Len(log[n]) + 1
    BY Zenon, <1>6, BackUpInLog
  <2>4. \/ nextIndex' = [nextIndex EXCEPT ![n][m.to] = MatchedBy(m) + 1]
        \/ nextIndex' = [nextIndex EXCEPT ![n][m.to] =
                           BackUp(n, m, DOMAIN log[n])]
    BY Zenon, <1>6 DEF ApplyAppendResponse
  <2>5. nextIndex'[n][p] \in {nextIndex[n][p], MatchedBy(m) + 1,
                              BackUp(n, m, DOMAIN log[n])}
    <3>1. ASSUME NEW v, nextIndex' = [nextIndex EXCEPT ![n][m.to] = v]
          PROVE  nextIndex'[n][p] \in {nextIndex[n][p], v}
      BY <1>1, <3>1 DEF TypeOK
    <3> QED BY Zenon, <2>4, <3>1
  <2> QED BY Zenon, <2>1, <2>2, <2>3, <2>5
<1> QED BY Zenon, <1>1, <1>4, <1>5, <1>6, IndexStep

\* Every step preserves the invariant on logs.
LEMMA LogInvStep ==
  ASSUME MinMax, "read" \notin StorageFaults, TypeInv, TypeOK',
         ElectionSafety', LeaderIsElected, LeaderIsElected', ElectedStays,
         SenderElected, LogInv, [NextC]_varsC
  PROVE  LogInv' /\ Grows(reign, reign')
<1>1. /\ [Next]_vars /\ TypeOK
      /\ ReignInv /\ RequestInv /\ ResponseInv /\ NextInv
  BY Zenon DEF NextC, varsC, TypeInv, LogInv
<1>2. LogStep /\ RunsOn
  BY Zenon, <1>1, StepKinds
<1>3. ReignInv' /\ Grows(reign, reign')
  <2>1. CASE RecordReign
    BY Zenon, <1>1, <1>2, <2>1, ReignInvStep
  <2>2. CASE UNCHANGED varsC
    <3>1. reign' = reign /\ UNCHANGED <<state, currentTerm, log>>
      BY Zenon, <2>2 DEF varsC, vars, persistVars
    <3>2. LeadersGoOn /\ \A n \in Node : Rooted(log'[n], reign)
      BY Zenon, <1>1, <3>1 DEF LeadersGoOn, ReignInv
    <3>3. ReignInv'
      BY Zenon, <1>1, <1>2, <3>1, <3>2, ReignInvFollow
    <3>4. Grows(reign, reign')
      BY <1>1, <3>1 DEF ReignInv, Grows, Agree
    <3> QED BY Zenon, <3>3, <3>4
  <2> QED BY Zenon, <2>1, <2>2 DEF NextC
<1>4. RequestInv'
  BY Zenon, <1>1, <1>3, RequestInvStep
<1>5. ResponseInv'
  BY Zenon, <1>1, <1>3, ResponseInvStep
<1>6. NextInv'
  BY Zenon, <1>1, <1>2, NextInvStep
<1> QED BY Zenon, <1>3, <1>4, <1>5, <1>6 DEF LogInv

-----------------------------------------------------------------------------
(* What the invariant on logs says *)

\* Logs with an entry of the same term at an index agree up to it.
LEMMA LogInvMatches == TypeInv /\ LogInv => LogMatching
<1> SUFFICES ASSUME TypeInv, LogInv, NEW n1 \in Node, NEW n2 \in Node,
                    NEW i \in DOMAIN log[n1] \cap DOMAIN log[n2],
                    log[n1][i].term = log[n2][i].term
             PROVE  \A j \in 1..i : log[n1][j] = log[n2][j]
  BY Zenon DEF LogMatching
<1>1. log[n1] \in Seq(Entry) /\ log[n2] \in Seq(Entry)
  BY Zenon DEF TypeInv, TypeOK
<1>2. Rooted(log[n1], reign) /\ Rooted(log[n2], reign)
  BY Zenon DEF LogInv, ReignInv
<1>3. i \in 1..Len(log[n1]) /\ i \in 1..Len(log[n2])
  BY SMTT(30), <1>1
<1>4. Agree(log[n1], log[n2], i)
  BY ZenonT(30), <1>2, <1>3, RootedMatch
<1> QED BY Zenon, <1>4 DEF Agree

\* A rejection makes the leader try earlier: an entry of the conflict's term at
\* prevLogIndex or beyond would make the two logs agree there.
LEMMA LogInvBacksUp ==
  ASSUME MinMax
  PROVE  TypeInv /\ LogInv => RejectionBacksUp
<1> SUFFICES ASSUME TypeInv, LogInv, NEW m \in appendResponses,
                    state[m.from] = "Leader",
                    currentTerm[m.from] = m.term, m.conflictIndex > 0
             PROVE  BackUp(m.from, m, DOMAIN log[m.from]) \in 1..m.prevLogIndex
  BY Zenon DEF RejectionBacksUp
<1> DEFINE n == m.from
           prev == m.prevLogIndex
           T == m.conflictTerm
           S == {i \in DOMAIN log[n] : log[n][i].term = T}
<1>1. /\ n \in Node /\ log[n] \in Seq(Entry) /\ prev \in Nat /\ T \in Nat
      /\ m.conflictIndex \in Nat
  BY Zenon DEF TypeInv, TypeOK, AppendResponse
<1>2. m.term \in DOMAIN reign /\ reign[m.term] = log[n]
  BY Zenon, <1>1 DEF LogInv, ReignInv, Leaders
<1>3. m.conflictIndex <= prev
  BY Zenon DEF LogInv, ResponseInv, AnswersTo
<1>4. ASSUME T > 0, NEW i \in S PROVE i < prev
  <2>1. /\ T \in DOMAIN reign /\ prev \in 1..Len(reign[T])
        /\ reign[T][prev].term = T /\ log[n][prev].term # T
    BY Zenon, <1>2, <1>4 DEF LogInv, ResponseInv, AnswersTo
  <2>2. i \in 1..Len(log[n]) /\ log[n][i].term = T
    BY SMTT(30), <1>1
  <2>3. Agree(log[n], reign[T], i)
    BY Zenon, <1>1, <2>2 DEF LogInv, ReignInv, Rooted
  <2> HIDE DEF S, T, prev, n
  <2>4. ~(prev \in 1..i)
    BY Zenon, <2>1, <2>3 DEF Agree
  <2> QED BY SMTT(30), <1>1, <2>1, <2>2, <2>4
<1>5. CASE T > 0 /\ S # {}
  <2>1. BackUp(n, m, DOMAIN log[n]) = Max(S) + 1
    BY <1>5 DEF BackUp
  <2>2. S \in SUBSET Nat
    BY SMTT(30), <1>1
  <2>3. \A i \in S : i <= prev
    BY <1>1, <1>4, <1>5, <2>2
  <2> HIDE DEF S, T, prev
  <2>4. Max(S) \in S
    BY Zenon, <1>1, <1>5, <2>2, <2>3 DEF MinMax
  <2>5. Max(S) \in Nat /\ Max(S) < prev
    BY Zenon, <1>4, <1>5, <2>2, <2>4
  <2>6. Max(S) + 1 \in 1..prev
    BY SMTT(30), <1>1, <2>5
  <2> QED BY Zenon, <2>1, <2>6 DEF n, prev
<1>6. CASE ~(T > 0 /\ S # {})
  <2>1. BackUp(n, m, DOMAIN log[n]) = m.conflictIndex
    BY <1>1, <1>6 DEF BackUp
  <2> QED BY <1>1, <1>3, <2>1
<1> QED BY Zenon, <1>5, <1>6

=============================================================================
