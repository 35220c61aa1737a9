--------------------------- MODULE KVServerProofs ---------------------------
(***************************************************************************)
(* The key-value servers, for any numbers of nodes, keys and requests and  *)
(* all bounds: the bookkeeping of pending operations, what the stores      *)
(* hold, and what local reads return.  Where a theorem does not say        *)
(* otherwise, every use of storage may fail.                               *)
(***************************************************************************)
EXTENDS KVServer, WellFoundedInduction, TLAPS

\* Where commands are on their way from a client to the store, they are commands:
\* their IDs are not 0, which is how pendingOps says that nobody is registered.
EntryInv ==
  /\ proposed \subseteq Command /\ chosen \in Seq(Entry)
  /\ commitIndex \in [Node -> Nat] /\ \A n \in Node : commitIndex[n] <= Len(chosen)
  /\ lastApplied \in [Node -> Nat]
  /\ toApply \in [Node -> Seq(Entry)] /\ applyCh \in [Node -> Seq(Entry)]
  /\ notifying \in [Node -> [id : Nat \ {0}, result : {"ok", "error"}] \cup {NoOp}]

\* The same of a request that is about to propose.
CommandInv ==
  /\ nextRequestID \in [Node -> Nat]
  /\ DOMAIN pc = Request /\ DOMAIN cmd = Request
  /\ \A r \in Writer : pc[r] = "propose" => cmd[r] \in Command

\* A request that has not begun is not registered and has an empty channel, and
\* whoever is registered waits.
PendingInv ==
  /\ pendingOps \in [Node -> [Writer -> Nat]]
  /\ DOMAIN resultCh = Writer /\ DOMAIN at = Request /\ DOMAIN stopPhase = Node
  /\ \A r \in Writer : pc[r] = "idle" =>
       resultCh[r] = Empty /\ \A n \in Node : pendingOps[n][r] = 0
  /\ RegisteredIsWaiting

-----------------------------------------------------------------------------
(* Sequences, minima and maxima.  A step that names no prover is Zenon's. *)

USE Zenon

LEMMA LenIs ==
  ASSUME NEW S, NEW s \in Seq(S)
  PROVE  Len(s) \in Nat
BY SMT

LEMMA SubSeqType ==
  ASSUME NEW S, NEW s \in Seq(S), NEW m \in Nat, NEW n \in Nat,
         \A i \in m..n : s[i] \in S
  PROVE  SubSeq(s, m, n) \in Seq(S)
BY SMT

LEMMA SubSeqIs ==
  ASSUME NEW S, NEW s \in Seq(S), NEW a \in Nat, NEW j \in Nat, a <= j, j <= Len(s)
  PROVE  /\ Len(SubSeq(s, a + 1, j)) = j - a
         /\ \A i \in DOMAIN SubSeq(s, a + 1, j) :
              i \in 1..j - a /\ SubSeq(s, a + 1, j)[i] = s[a + i]
BY SMT

LEMMA LessThanOnNat == OpToRel(<, Nat) = {p \in Nat \X Nat : p[1] < p[2]}
BY DEF OpToRel

\* The Min of FiniteSetsExt is the least element of a nonempty set of naturals.
LEMMA MinNat ==
  ASSUME NEW S \in SUBSET Nat, S # {}
  PROVE  Min(S) \in S /\ \A y \in S : Min(S) <= y
<1> DEFINE R == {p \in Nat \X Nat : p[1] < p[2]}
<1>1. IsWellFoundedOn(R, Nat)
  BY NatLessThanWellFounded, LessThanOnNat
<1>2. \E x \in S : \A y \in S : <<y, x>> \notin R
  <2> HIDE DEF R
  <2> QED BY <1>1, WFMin
<1>3. \E x \in S : \A y \in S : x <= y
  <2>1. PICK x \in S : \A y \in S : <<y, x>> \notin R
    BY <1>2
  <2>2. ASSUME NEW y \in S PROVE x <= y
    <3>1. x \in Nat /\ y \in Nat /\ <<y, x>> \notin R
      BY <2>1
    <3>2. ~ (y < x)
      BY <3>1
    <3> QED BY SMT, <3>1, <3>2
  <2> QED BY <2>2
<1> QED BY <1>3 DEF Min

\* Its Max is the greatest element of a nonempty bounded one.
LEMMA MaxNat ==
  ASSUME NEW S \in SUBSET Nat, S # {}, NEW b \in Nat, \A x \in S : x <= b
  PROVE  Max(S) \in S /\ \A y \in S : y <= Max(S)
<1> DEFINE D == {b - x : x \in S}
<1>1. D \in SUBSET Nat /\ D # {}
  <2>1. \A x \in S : x \in Nat /\ b - x \in Nat
    BY SMT
  <2> QED BY <2>1
<1>2. Min(D) \in D /\ \A y \in D : Min(D) <= y
  <2> HIDE DEF D
  <2> QED BY <1>1, MinNat
<1>3. PICK x \in S : Min(D) = b - x
  BY <1>2
<1>4. \A y \in S : y <= x
  <2> TAKE y \in S
  <2>1. b - y \in D
    OBVIOUS
  <2>2. b - x <= b - y
    BY <1>2, <1>3, <2>1
  <2> QED BY SMT, <2>2
<1> QED BY <1>4 DEF Max

LEMMA MaxPair ==
  ASSUME NEW a \in Nat, NEW b \in Nat
  PROVE  Max({a, b}) \in {a, b} /\ Max({a, b}) >= a /\ Max({a, b}) >= b
<1>1. {a, b} \in SUBSET Nat /\ {a, b} # {} /\ (\A x \in {a, b} : x <= a + b) /\ a + b \in Nat
  BY SMT
<1>2. Max({a, b}) \in {a, b} /\ \A y \in {a, b} : y <= Max({a, b})
  BY <1>1, MaxNat
<1>3. Max({a, b}) \in Nat /\ a <= Max({a, b}) /\ b <= Max({a, b})
  BY <1>2
<1> QED BY SMT, <1>2, <1>3

-----------------------------------------------------------------------------
(* The replay of a log *)

\* The entry e writes key.
Writes(e, key) == e # NoOp /\ e.key = key

\* One of the first k entries writes key.
Written(key, k) == \E i \in 1..k : Writes(chosen[i], key)

\* What a key is replayed to that was never written, and what it is replayed to
\* by its last write.
LEMMA ReplayIs ==
  ASSUME NEW key \in Key, NEW k \in Nat
  PROVE  /\ ~Written(key, k) => Replay(k)[key] = Absent
         /\ \A i \in 1..k :
              Writes(chosen[i], key) /\ (\A j \in 1..k : j > i => ~Writes(chosen[j], key)) =>
                Replay(k)[key] = IF chosen[i].op = "Delete" THEN Absent ELSE chosen[i].by
         /\ Written(key, k) => \E i \in 1..k : Writes(chosen[i], key)
                                 /\ \A j \in 1..k : j > i => ~Writes(chosen[j], key)
<1> DEFINE W == {i \in 1..k : chosen[i] # NoOp /\ chosen[i].key = key}
<1>1. Replay(k)[key] = IF W = {} \/ chosen[Max(W)].op = "Delete" THEN Absent
                       ELSE chosen[Max(W)].by
  BY DEF Replay
<1>2. \A i \in 1..k : i \in W <=> Writes(chosen[i], key)
  BY DEF Writes
<1>3. W \in SUBSET Nat /\ W \subseteq 1..k /\ \A x \in W : x <= k
  BY SMT
<1> HIDE DEF W
<1>4. ~Written(key, k) => W = {}
  BY <1>2, <1>3 DEF Written
<1>5. W # {} => Max(W) \in W /\ \A y \in W : y <= Max(W)
  BY <1>3, MaxNat
<1>6. ASSUME NEW i \in 1..k, Writes(chosen[i], key),
             \A j \in 1..k : j > i => ~Writes(chosen[j], key)
      PROVE  W # {} /\ Max(W) = i
  <2>1. i \in W
    BY <1>2, <1>6
  <2>2. Max(W) \in W /\ i <= Max(W)
    BY <1>5, <2>1
  <2>3. Max(W) \in 1..k /\ ~(Max(W) > i)
    BY <1>2, <1>3, <1>6, <2>2
  <2> QED BY SMT, <2>1, <2>2, <2>3
<1>7. W # {} => Max(W) \in 1..k /\ Writes(chosen[Max(W)], key)
                /\ \A j \in 1..k : j > Max(W) => ~Writes(chosen[j], key)
  <2> SUFFICES ASSUME W # {}, NEW j \in 1..k, j > Max(W), Writes(chosen[j], key)
               PROVE  FALSE
    BY <1>2, <1>3, <1>5
  <2>1. j \in W /\ Max(W) \in 1..k
    BY <1>2, <1>3, <1>5
  <2>2. j <= Max(W)
    BY <1>5, <2>1
  <2> QED BY SMT, <2>1, <2>2
<1>8. Written(key, k) => W # {}
  BY <1>2 DEF Written
<1> QED BY <1>1, <1>4, <1>6, <1>7, <1>8

\* Replaying one entry more is applying it (applyCommand).
LEMMA ReplayNext ==
  ASSUME NEW k \in Nat, NEW key \in Key
  PROVE  /\ Writes(chosen[k + 1], key) =>
              Replay(k + 1)[key] = IF chosen[k + 1].op = "Delete" THEN Absent ELSE chosen[k + 1].by
         /\ ~Writes(chosen[k + 1], key) => Replay(k + 1)[key] = Replay(k)[key]
         /\ Written(key, k + 1) <=> Written(key, k) \/ Writes(chosen[k + 1], key)
         /\ Replay(0)[key] = Absent
<1>1. \A i : i \in 1..k + 1 <=> i \in 1..k \/ i = k + 1
  BY SMT
<1>2. \A i \in 1..k : ~(i > k + 1) /\ ~(i > i) /\ k + 1 > i
  BY SMT
<1>3. k + 1 \in Nat /\ ~(k + 1 > k + 1) /\ 1..0 = {} /\ 0 \in Nat
  BY SMT
<1>4. Writes(chosen[k + 1], key) =>
        Replay(k + 1)[key] = IF chosen[k + 1].op = "Delete" THEN Absent ELSE chosen[k + 1].by
  <2>1. k + 1 \in 1..k + 1 /\ \A j \in 1..k + 1 : ~(j > k + 1)
    BY SMT
  <2> QED BY <1>3, <2>1, ReplayIs
<1>5. Written(key, k + 1) <=> Written(key, k) \/ Writes(chosen[k + 1], key)
  BY <1>1 DEF Written
<1>6. ASSUME ~Writes(chosen[k + 1], key) PROVE Replay(k + 1)[key] = Replay(k)[key]
  <2>1. CASE ~Written(key, k)
    BY <1>3, <1>5, <1>6, <2>1, ReplayIs
  <2>2. CASE Written(key, k)
    <3>1. PICK i \in 1..k : /\ Writes(chosen[i], key)
                            /\ \A j \in 1..k : j > i => ~Writes(chosen[j], key)
      BY <2>2, ReplayIs
    <3>2. i \in 1..k + 1 /\ \A j \in 1..k + 1 : j > i => ~Writes(chosen[j], key)
      BY <1>1, <1>6, <3>1
    <3>3. Replay(k)[key] = IF chosen[i].op = "Delete" THEN Absent ELSE chosen[i].by
      BY <3>1, ReplayIs
    <3>4. Replay(k + 1)[key] = IF chosen[i].op = "Delete" THEN Absent ELSE chosen[i].by
      BY ZenonT(40), <1>3, <3>1, <3>2, ReplayIs
    <3> QED BY SMT, <3>3, <3>4
  <2> QED BY SMT, <2>1, <2>2
<1>7. Replay(0)[key] = Absent
  BY <1>3, ReplayIs DEF Written
<1> QED BY <1>4, <1>5, <1>6, <1>7

LEMMA ReplayNow ==
  \A key \in Key, k \in Nat :
    /\ ~Written(key, k) => Replay(k)[key] = Absent
    /\ \A i \in 1..k :
         Writes(chosen[i], key) /\ (\A j \in 1..k : j > i => ~Writes(chosen[j], key)) =>
           Replay(k)[key] = IF chosen[i].op = "Delete" THEN Absent ELSE chosen[i].by
BY ReplayIs

LEMMA ReplayThen ==
  (\A key \in Key, k \in Nat :
    /\ ~Written(key, k) => Replay(k)[key] = Absent
    /\ \A i \in 1..k :
         Writes(chosen[i], key) /\ (\A j \in 1..k : j > i => ~Writes(chosen[j], key)) =>
           Replay(k)[key] = IF chosen[i].op = "Delete" THEN Absent ELSE chosen[i].by)'
BY ReplayNow, PTL

\* The replay of a beginning of the log stays what it is.
LEMMA ReplayStable ==
  ASSUME NEW k \in Nat, NEW key \in Key, \A i \in 1..k : chosen'[i] = chosen[i]
  PROVE  /\ Replay(k)'[key] = Replay(k)[key]
         /\ Written(key, k)' <=> Written(key, k)
<1>1. \A i \in 1..k : Writes(chosen'[i], key) <=> Writes(chosen[i], key)
  OBVIOUS
<1>2. Written(key, k)' <=> Written(key, k)
  BY <1>1 DEF Written, Writes
<1>3. CASE ~Written(key, k)
  <2>1. Replay(k)[key] = Absent
    BY <1>3, ReplayNow
  <2>2. Replay(k)'[key] = Absent
    BY <1>2, <1>3, ReplayThen
  <2> QED BY <1>2, <2>1, <2>2
<1>4. CASE Written(key, k)
  <2>1. PICK i \in 1..k : /\ Writes(chosen[i], key)
                          /\ \A j \in 1..k : j > i => ~Writes(chosen[j], key)
    BY <1>4, ReplayIs
  <2>2. Replay(k)[key] = IF chosen[i].op = "Delete" THEN Absent ELSE chosen[i].by
    BY <2>1, ReplayNow
  <2>3. /\ Writes(chosen'[i], key) /\ chosen'[i] = chosen[i]
        /\ \A j \in 1..k : j > i => ~Writes(chosen'[j], key)
    BY <1>1, <2>1
  <2>4. Replay(k)'[key] = IF chosen'[i].op = "Delete" THEN Absent ELSE chosen'[i].by
    BY <2>3, ReplayThen DEF Writes
  <2>5. Replay(k)'[key] = Replay(k)[key]
    BY SMT, <2>2, <2>3, <2>4
  <2> QED BY <1>2, <2>5
<1> QED BY <1>3, <1>4

-----------------------------------------------------------------------------
\* Consensus chooses proposed commands, and nodes learn what is chosen.
LEMMA EntryConsensus ==
  ASSUME EntryInv, Consensus
  PROVE  EntryInv'
<1>1. CASE \E n \in Node : Lead(n) \/ StepDown(n)
  BY SMT, <1>1 DEF Lead, StepDown, EntryInv, pipeVars, serverVars
<1>2. ASSUME NEW n \in Node, NEW e \in proposed \cup {NoOp}, Choose(n, e)
      PROVE  EntryInv'
  <2>1. /\ chosen' = Append(chosen, e)
        /\ commitIndex' = [commitIndex EXCEPT ![n] = Len(chosen) + 1]
        /\ UNCHANGED <<proposed, lastApplied, toApply, applyCh, notifying>>
    BY <1>2 DEF Choose, pipeVars, serverVars
  <2>2. e \in Entry
    BY SMT DEF EntryInv, Entry
  <2>3. chosen' \in Seq(Entry) /\ Len(chosen') = Len(chosen) + 1 /\ Len(chosen) \in Nat
    BY SMT, <2>1, <2>2 DEF EntryInv
  <2> QED BY SMT, <2>1, <2>3 DEF EntryInv
<1>3. CASE \E n \in Node : \E i \in DOMAIN chosen : Learn(n, i)
  BY SMT, <1>3 DEF Learn, EntryInv, pipeVars, serverVars
<1> QED BY SMT, <1>1, <1>2, <1>3 DEF Consensus

\* The pipeline hands on what is chosen.
LEMMA EntryPipeline ==
  ASSUME EntryInv, NEW n \in Node, Pipeline(n)
  PROVE  EntryInv'
<1>1. ASSUME NEW k \in 1..commitIndex[n], NEW failed \in BOOLEAN, Collect(n, k, failed)
      PROVE  EntryInv'
  <2>1. /\ lastApplied' = [lastApplied EXCEPT ![n] = k]
        /\ UNCHANGED <<proposed, chosen, commitIndex, applyCh, notifying>>
    BY <1>1 DEF Collect, consensusVars, serverVars
  <2>2. PICK j \in {k - 1, k} :
          toApply' = [toApply EXCEPT ![n] = SubSeq(chosen, lastApplied[n] + 1, j)]
    BY <1>1 DEF Collect
  <2>3. SubSeq(chosen, lastApplied[n] + 1, j) \in Seq(Entry)
    <3>1. \A i \in lastApplied[n] + 1..j : chosen[i] \in Entry
      BY SMT, <2>2 DEF EntryInv
    <3> QED BY SMT, <3>1, SubSeqType DEF EntryInv
  <2> QED BY SMT, <2>1, <2>2, <2>3 DEF EntryInv
<1>2. CASE SendApply(n)
  <2>1. /\ toApply[n] # << >>
        /\ applyCh' = [applyCh EXCEPT ![n] = Append(@, Head(toApply[n]))]
        /\ toApply' = [toApply EXCEPT ![n] = Tail(@)]
        /\ UNCHANGED <<proposed, chosen, commitIndex, lastApplied, notifying>>
    BY <1>2 DEF SendApply, consensusVars, serverVars
  <2>2. Head(toApply[n]) \in Entry /\ Tail(toApply[n]) \in Seq(Entry)
    BY SMT, <2>1 DEF EntryInv
  <2> QED BY SMT, <2>1, <2>2 DEF EntryInv
<1>3. ASSUME NEW result \in {"ok", "error"}, ApplyCommand(n, result)
      PROVE  EntryInv'
  <2>1. /\ applyCh[n] # << >> /\ applyCh' = [applyCh EXCEPT ![n] = Tail(@)]
        /\ notifying' = [notifying EXCEPT
             ![n] = IF Head(applyCh[n]) = NoOp THEN NoOp
                    ELSE [id |-> Head(applyCh[n]).id, result |-> result]]
        /\ UNCHANGED <<proposed, chosen, commitIndex, lastApplied, toApply>>
    BY <1>3 DEF ApplyCommand, consensusVars
  <2>2. Head(applyCh[n]) \in Entry /\ Tail(applyCh[n]) \in Seq(Entry)
    BY SMT, <2>1 DEF EntryInv
  <2>3. Head(applyCh[n]) # NoOp => Head(applyCh[n]).id \in Nat \ {0}
    BY SMT, <2>2 DEF Entry, Command
  <2> QED BY SMT, <2>1, <2>2, <2>3 DEF EntryInv
<1>4. CASE Notify(n)
  BY SMT, <1>4 DEF Notify, EntryInv, consensusVars, pipeVars
<1> QED BY SMT, <1>1, <1>2, <1>3, <1>4 DEF Pipeline

\* No other step touches an entry, but for a proposal and a crash.
LEMMA EntryStep ==
  ASSUME EntryInv, CommandInv, [Next]_vars
  PROVE  EntryInv'
<1>1. CASE Consensus
  BY SMT, <1>1, EntryConsensus
<1>2. CASE \E n \in Node : Pipeline(n)
  BY SMT, <1>2, EntryPipeline
<1>3. CASE Write
  <2>1. UNCHANGED <<chosen, commitIndex, lastApplied, toApply, applyCh, notifying>>
    BY ZenonT(40), <1>3 DEF Write, Register, ProposeAccepted, ProposeRefused, Receive, Closed,
         GiveUp, consensusVars, pipeVars, serverVars
  <2>2. \A r \in Writer : ProposeAccepted(r) => cmd[r] \in Command
    BY SMT DEF ProposeAccepted, CommandInv
  <2>3. \/ UNCHANGED proposed
        \/ \E r \in Writer : proposed' = proposed \cup {cmd[r]} /\ cmd[r] \in Command
    BY <1>3, <2>2 DEF Write, Register, ProposeAccepted, ProposeRefused, Receive, Closed,
         GiveUp, consensusVars
  <2> QED BY SMT, <2>1, <2>3 DEF EntryInv
<1>4. CASE Read \/ Stop \/ UNCHANGED vars
  <2>1. UNCHANGED <<proposed, chosen, commitIndex, lastApplied, toApply, applyCh, notifying>>
    BY <1>4 DEF Read, GetAsLeader, GetIndex, GetValue, GetGiveUp, GetLocal, Stop,
         CancelPending, CloseStopCh, LoopReturns, vars, consensusVars, pipeVars, serverVars
  <2> QED BY SMT, <2>1 DEF EntryInv
<1>5. ASSUME NEW n \in Node, Crash(n) PROVE EntryInv'
  <2>1. /\ UNCHANGED <<proposed, chosen>>
        /\ commitIndex' = [commitIndex EXCEPT ![n] = 0]
        /\ lastApplied' = [lastApplied EXCEPT ![n] = 0]
        /\ toApply' = [toApply EXCEPT ![n] = << >>]
        /\ applyCh' = [applyCh EXCEPT ![n] = << >>]
        /\ notifying' = [notifying EXCEPT ![n] = NoOp]
    BY <1>5 DEF Crash
  <2>2. << >> \in Seq(Entry) /\ Len(chosen) \in Nat
    BY SMT DEF EntryInv
  <2> QED BY SMT, <2>1, <2>2 DEF EntryInv
<1> QED BY SMT, <1>1, <1>2, <1>3, <1>4, <1>5 DEF Next

-----------------------------------------------------------------------------
\* Only Register gives a request a command of Put or Delete, with a fresh ID.
LEMMA CommandStep ==
  ASSUME CommandInv, [Next]_vars
  PROVE  CommandInv'
<1>1. CASE \/ Consensus \/ Stop \/ UNCHANGED vars \/ \E n \in Node : Pipeline(n)
  <2>1. UNCHANGED <<nextRequestID, pc, cmd>>
    BY <1>1 DEF Consensus, Lead, StepDown, Choose, Learn, Stop, CancelPending,
         CloseStopCh, LoopReturns, Pipeline, Collect, SendApply, ApplyCommand, Notify, vars,
         serverVars, requestVars
  <2> QED BY SMT, <2>1 DEF CommandInv
<1>2. ASSUME NEW r \in Writer, NEW n \in Node, NEW op \in Op, NEW key \in Key,
             Register(r, n, op, key)
      PROVE  CommandInv'
  <2>1. nextRequestID[n] + 1 \in Nat \ {0} /\ op \in {"Put", "Delete"}
    BY SMT, RequestAssumption DEF CommandInv
  <2>2. [op |-> op, key |-> key, id |-> nextRequestID[n] + 1, by |-> r] \in Command
    BY SMT, <2>1 DEF Command
  <2>3. /\ nextRequestID' = [nextRequestID EXCEPT ![n] = nextRequestID[n] + 1]
        /\ cmd' = [cmd EXCEPT ![r] =
                     [op |-> op, key |-> key, id |-> nextRequestID[n] + 1, by |-> r]]
        /\ pc' = [pc EXCEPT ![r] = "propose"]
    BY <1>2 DEF Register
  <2> QED BY SMT, <2>1, <2>2, <2>3 DEF CommandInv, Request
<1>3. ASSUME NEW r \in Writer,
             \/ ProposeAccepted(r) \/ ProposeRefused(r)
             \/ Receive(r) \/ Closed(r) \/ GiveUp(r)
      PROVE  CommandInv'
  <2>1. /\ UNCHANGED <<nextRequestID, cmd>>
        /\ \E to \in {"wait", "done"} : pc' = [pc EXCEPT ![r] = to]
    BY SMT, <1>3 DEF ProposeAccepted, ProposeRefused, Receive, Closed, GiveUp, Return, serverVars
  <2> QED BY SMT, <2>1 DEF CommandInv, Request
<1>4. CASE Read
  <2>1. PICK r \in Reader :
          /\ UNCHANGED nextRequestID
          /\ \E to \in {"index", "get", "done"} : pc' = [pc EXCEPT ![r] = to]
          /\ DOMAIN cmd' = Request /\ \A w \in Request \ {r} : cmd'[w] = cmd[w]
    <3>1. ASSUME NEW r \in Reader, NEW n \in Node, NEW key \in Key,
                 GetAsLeader(r, n, key) \/ GetLocal(r, n, key)
          PROVE  /\ UNCHANGED nextRequestID
                 /\ \E to \in {"index", "get", "done"} : pc' = [pc EXCEPT ![r] = to]
                 /\ DOMAIN cmd' = Request /\ \A w \in Request \ {r} : cmd'[w] = cmd[w]
      BY SMT, <3>1 DEF GetAsLeader, GetLocal, Return, serverVars, CommandInv
    <3>2. ASSUME NEW r \in Reader, GetIndex(r) \/ GetValue(r) \/ GetGiveUp(r)
          PROVE  /\ UNCHANGED <<nextRequestID, cmd>>
                 /\ \E to \in {"index", "get", "done"} : pc' = [pc EXCEPT ![r] = to]
      BY <3>2 DEF GetIndex, GetValue, GetGiveUp, Return, serverVars
    <3>3. LocalReader \subseteq Reader /\ DOMAIN cmd = Request
      BY RequestAssumption DEF CommandInv
    <3>4. CASE \E r \in Reader : GetIndex(r) \/ GetValue(r) \/ GetGiveUp(r)
      BY <3>2, <3>3, <3>4
    <3>5. CASE \E r \in Reader : \E n \in Node, key \in Key :
                 GetAsLeader(r, n, key) \/ GetLocal(r, n, key)
      BY <3>1, <3>5
    <3> QED BY <1>4, <3>3, <3>4, <3>5 DEF Read
  <2>2. r \notin Writer
    BY RequestAssumption
  <2> QED BY SMT, <2>1, <2>2 DEF CommandInv, Request
<1>5. ASSUME NEW n \in Node, Crash(n) PROVE CommandInv'
  BY SMT, <1>5 DEF Crash, CommandInv, Request
<1> QED BY SMT, <1>1, <1>2, <1>3, <1>4, <1>5 DEF Next, Write

-----------------------------------------------------------------------------
\* A result goes to a registered request only, which is no longer registered then.
LEMMA PendingNotify ==
  ASSUME EntryInv, PendingInv, NEW n \in Node, Notify(n)
  PROVE  PendingInv'
<1>1. UNCHANGED <<pc, at, stopPhase>>
  BY DEF Notify
<1>2. notifying[n].id # 0
  BY SMT DEF Notify, EntryInv
<1>3. CASE Registered(n, notifying[n].id) = {}
  <2>1. UNCHANGED <<pendingOps, resultCh>>
    BY SMT, <1>3 DEF Notify
  <2> QED BY SMT, <1>1, <2>1 DEF PendingInv, RegisteredIsWaiting
<1>4. CASE Registered(n, notifying[n].id) # {}
  <2>1. PICK r \in Registered(n, notifying[n].id) :
          /\ pendingOps' = Unregister(n, r)
          /\ resultCh' = Send(resultCh, r, notifying[n].result)
    BY SMT, <1>4 DEF Notify
  <2>2. r \in Writer /\ pendingOps[n][r] # 0
    BY SMT, <1>2 DEF Registered
  <2>3. at[r] = n /\ pc[r] # "idle"
    BY SMT, <2>2 DEF PendingInv, RegisteredIsWaiting
  <2>4. pendingOps' \in [Node -> [Writer -> Nat]] /\ DOMAIN resultCh' = Writer
    BY SMT, <2>1, <2>2 DEF Unregister, Send, PendingInv
  <2>5. \A m \in Node, w \in Writer : pendingOps'[m][w] # 0 =>
           pendingOps[m][w] # 0 /\ w # r
    BY SMT, <2>1, <2>2, <2>3 DEF Unregister, PendingInv, RegisteredIsWaiting
  <2>6. \A w \in Writer \ {r} : resultCh'[w] = resultCh[w]
    BY SMT, <2>1 DEF Send, PendingInv
  <2> QED BY SMT, <1>1, <2>3, <2>4, <2>5, <2>6 DEF PendingInv, RegisteredIsWaiting
<1> QED BY SMT, <1>3, <1>4

\* A request is registered before it proposes, and takes its registration back
\* when it does not wait any more, unless Stop does.
LEMMA PendingWrite ==
  ASSUME CommandInv, PendingInv, Write
  PROVE  PendingInv'
<1>1. ASSUME NEW r \in Writer, NEW n \in Node, NEW op \in Op, NEW key \in Key,
             Register(r, n, op, key)
      PROVE  PendingInv'
  <2>1. /\ pc[r] = "idle" /\ pc' = [pc EXCEPT ![r] = "propose"]
        /\ at' = [at EXCEPT ![r] = n] /\ UNCHANGED <<resultCh, stopPhase>>
        /\ pendingOps' = [pendingOps EXCEPT ![n][r] = nextRequestID[n] + 1]
    BY <1>1 DEF Register
  <2>2. pendingOps' \in [Node -> [Writer -> Nat]] /\ DOMAIN at' = Request
    BY SMT, <2>1 DEF PendingInv, CommandInv
  <2>3. \A m \in Node, w \in Writer : pendingOps'[m][w] # 0 =>
          (m = n /\ w = r) \/ (w # r /\ pendingOps[m][w] # 0)
    BY SMT, <2>1 DEF PendingInv
  <2>4. \A w \in Writer \ {r}, m \in Node : pendingOps'[m][w] = pendingOps[m][w]
    BY SMT, <2>1 DEF PendingInv
  <2>5. at'[r] = n /\ pc'[r] = "propose"
        /\ \A w \in Writer \ {r} : at'[w] = at[w] /\ pc'[w] = pc[w]
    BY SMT, <2>1 DEF PendingInv, CommandInv, Request
  <2> QED BY SMT, <2>1, <2>2, <2>3, <2>4, <2>5 DEF PendingInv, RegisteredIsWaiting
<1>2. ASSUME NEW r \in Writer, ProposeAccepted(r) PROVE PendingInv'
  <2>1. /\ pc[r] = "propose" /\ pc' = [pc EXCEPT ![r] = "wait"]
        /\ UNCHANGED <<pendingOps, resultCh, at, stopPhase>>
    BY <1>2 DEF ProposeAccepted, serverVars
  <2> QED BY SMT, <2>1 DEF PendingInv, CommandInv, RegisteredIsWaiting, Request
<1>3. ASSUME NEW r \in Writer, ProposeRefused(r) \/ GiveUp(r) PROVE PendingInv'
  <2>1. /\ pc' = [pc EXCEPT ![r] = "done"] /\ pendingOps' = Unregister(at[r], r)
        /\ UNCHANGED <<resultCh, at, stopPhase>>
    BY <1>3 DEF ProposeRefused, GiveUp, Return
  <2>2. /\ pendingOps' \in [Node -> [Writer -> Nat]]
        /\ \A m \in Node, w \in Writer :
             pendingOps'[m][w] = IF m = at[r] /\ w = r THEN 0 ELSE pendingOps[m][w]
    BY <2>1 DEF Unregister, PendingInv
  <2>3. \A m \in Node : pendingOps'[m][r] = 0
    BY SMT, <2>2 DEF PendingInv, RegisteredIsWaiting
  <2>4. pc'[r] = "done" /\ \A w \in Writer \ {r} : pc'[w] = pc[w]
    BY SMT, <2>1 DEF CommandInv, Request
  <2> QED BY SMT, <2>1, <2>2, <2>3, <2>4 DEF PendingInv, RegisteredIsWaiting
<1>4. ASSUME NEW r \in Writer, Receive(r) PROVE PendingInv'
  <2>1. /\ resultCh[r] # Empty /\ pc' = [pc EXCEPT ![r] = "done"]
        /\ resultCh' = [resultCh EXCEPT ![r] = Empty]
        /\ UNCHANGED <<pendingOps, at, stopPhase>>
    BY <1>4 DEF Receive, Return, serverVars
  <2>2. \A m \in Node : pendingOps[m][r] = 0
    BY SMT, <2>1 DEF PendingInv, RegisteredIsWaiting
  <2> QED BY SMT, <2>1, <2>2 DEF PendingInv, CommandInv, RegisteredIsWaiting, Request
<1>5. ASSUME NEW r \in Writer, Closed(r) PROVE PendingInv'
  <2>1. /\ stopPhase[at[r]] \in {"closed", "stopped"} /\ pc' = [pc EXCEPT ![r] = "done"]
        /\ UNCHANGED <<pendingOps, resultCh, at, stopPhase>>
    BY <1>5 DEF Closed, Return, serverVars
  <2> QED BY SMT, <2>1 DEF PendingInv, CommandInv, RegisteredIsWaiting, Request
<1> QED BY SMT, <1>1, <1>2, <1>3, <1>4, <1>5 DEF Write

\* A Get leaves the requests of Put and Delete alone.
LEMMA PendingRead ==
  ASSUME CommandInv, PendingInv, Read
  PROVE  PendingInv'
<1>1. /\ UNCHANGED <<pendingOps, resultCh, stopPhase>> /\ DOMAIN at' = Request
      /\ \A w \in Writer : pc'[w] = pc[w] /\ at'[w] = at[w]
  <2>1. ASSUME NEW r \in Reader, NEW n \in Node, NEW key \in Key,
               GetAsLeader(r, n, key) \/ GetLocal(r, n, key)
        PROVE  /\ UNCHANGED <<pendingOps, resultCh, stopPhase>> /\ DOMAIN at' = Request
               /\ \A w \in Request \ {r} : pc'[w] = pc[w] /\ at'[w] = at[w]
    BY SMT, <2>1 DEF GetAsLeader, GetLocal, Return, serverVars, PendingInv, CommandInv
  <2>2. ASSUME NEW r \in Reader, GetIndex(r) \/ GetValue(r) \/ GetGiveUp(r)
        PROVE  /\ UNCHANGED <<pendingOps, resultCh, stopPhase, at>>
               /\ \A w \in Request \ {r} : pc'[w] = pc[w]
    BY <2>2 DEF GetIndex, GetValue, GetGiveUp, Return, serverVars, CommandInv
  <2>3. ASSUME NEW r \in Reader, NEW w \in Writer PROVE w \in Request \ {r}
    BY RequestAssumption DEF Request
  <2>4. LocalReader \subseteq Reader /\ DOMAIN at = Request
    BY RequestAssumption DEF PendingInv
  <2>5. CASE \E r \in Reader : GetIndex(r) \/ GetValue(r) \/ GetGiveUp(r)
    BY <2>2, <2>3, <2>4, <2>5
  <2>6. CASE \E r \in Reader : \E n \in Node, key \in Key :
               GetAsLeader(r, n, key) \/ GetLocal(r, n, key)
    BY <2>1, <2>3, <2>6
  <2> QED BY <2>4, <2>5, <2>6 DEF Read
<1> QED BY SMT, <1>1 DEF PendingInv, RegisteredIsWaiting

\* Stop answers and unregisters at once whoever is registered then.
LEMMA PendingStop ==
  ASSUME PendingInv, Stop
  PROVE  PendingInv'
<1>1. ASSUME NEW n \in Node, CancelPending(n) PROVE PendingInv'
  <2>1. /\ resultCh' = [r \in Writer |-> IF pendingOps[n][r] # 0
                                        THEN Send(resultCh, r, "closed")[r] ELSE resultCh[r]]
        /\ pendingOps' = [pendingOps EXCEPT ![n] = [r \in Writer |-> 0]]
        /\ stopPhase' = [stopPhase EXCEPT ![n] = "cancelled"] /\ UNCHANGED <<pc, at>>
    BY <1>1 DEF CancelPending
  <2>2. /\ pendingOps' \in [Node -> [Writer -> Nat]]
        /\ \A m \in Node, w \in Writer :
             pendingOps'[m][w] = IF m = n THEN 0 ELSE pendingOps[m][w]
    BY SMT, <2>1 DEF PendingInv
  <2>3. /\ DOMAIN resultCh' = Writer
        /\ \A w \in Writer : pendingOps[n][w] = 0 => resultCh'[w] = resultCh[w]
    BY SMT, <2>1
  <2>4. \A m \in Node \ {n}, w \in Writer : pendingOps[m][w] # 0 => pendingOps[n][w] = 0
    BY SMT DEF PendingInv, RegisteredIsWaiting
  <2>5. DOMAIN stopPhase' = Node /\ \A m \in Node \ {n} : stopPhase'[m] = stopPhase[m]
    BY SMT, <2>1 DEF PendingInv
  <2> QED BY SMT, <2>1, <2>2, <2>3, <2>4, <2>5 DEF PendingInv, RegisteredIsWaiting
<1>2. ASSUME NEW n \in Node, CloseStopCh(n) \/ LoopReturns(n) PROVE PendingInv'
  <2>1. /\ \E p \in {"closed", "stopped"} : stopPhase' = [stopPhase EXCEPT ![n] = p]
        /\ UNCHANGED <<pendingOps, resultCh, pc, at>>
    BY SMT, <1>2 DEF CloseStopCh, LoopReturns, requestVars
  <2> QED BY SMT, <2>1 DEF PendingInv, RegisteredIsWaiting
<1> QED BY SMT, <1>1, <1>2 DEF Stop

\* A crash takes the requests of the node with it.
LEMMA PendingCrash ==
  ASSUME CommandInv, PendingInv, NEW n \in Node, Crash(n)
  PROVE  PendingInv'
<1>1. /\ pendingOps' = [pendingOps EXCEPT ![n] = [r \in Writer |-> 0]]
      /\ stopPhase' = [stopPhase EXCEPT ![n] = "no"] /\ UNCHANGED at
  BY DEF Crash
<1>2. \A w \in Writer : pc'[w] \in {pc[w], "done"} /\ resultCh'[w] \in {resultCh[w], Empty}
  BY SMT DEF Crash, Request
<1>3. \A w \in Writer : at[w] # n => pc'[w] = pc[w]
  BY SMT DEF Crash, Request
<1>4. /\ pendingOps' \in [Node -> [Writer -> Nat]]
      /\ \A m \in Node, w \in Writer :
           pendingOps'[m][w] = IF m = n THEN 0 ELSE pendingOps[m][w]
  BY SMT, <1>1 DEF PendingInv
<1>5. DOMAIN stopPhase' = Node /\ \A m \in Node \ {n} : stopPhase'[m] = stopPhase[m]
  BY SMT, <1>1 DEF PendingInv
<1>6. DOMAIN resultCh' = Writer
  BY SMT DEF Crash
<1> QED BY SMTT(30), <1>1, <1>2, <1>3, <1>4, <1>5, <1>6 DEF PendingInv, RegisteredIsWaiting

-----------------------------------------------------------------------------
\* Every step keeps the invariant.
LEMMA PendingStep ==
  ASSUME EntryInv, CommandInv, PendingInv, [Next]_vars
  PROVE  PendingInv'
<1>1. CASE Consensus \/ UNCHANGED vars
  <2>1. UNCHANGED <<pendingOps, resultCh, at, pc, stopPhase>>
    BY <1>1 DEF Consensus, Lead, StepDown, Choose, Learn, vars, serverVars, requestVars
  <2> QED BY SMT, <2>1 DEF PendingInv, RegisteredIsWaiting
<1>2. ASSUME NEW n \in Node, Pipeline(n) PROVE PendingInv'
  <2>1. CASE Notify(n)
    BY SMT, <2>1, PendingNotify
  <2>2. CASE ~Notify(n)
    <3>1. UNCHANGED <<pendingOps, resultCh, at, pc, stopPhase>>
      BY <1>2, <2>2 DEF Pipeline, Collect, SendApply, ApplyCommand, serverVars, requestVars
    <3> QED BY SMT, <3>1 DEF PendingInv, RegisteredIsWaiting
  <2> QED BY SMT, <2>1, <2>2
<1> QED BY SMT, <1>1, <1>2, PendingWrite, PendingRead, PendingStop, PendingCrash DEF Next

\* Whoever is registered waits, with room in its channel for the result: no result
\* is dropped by a send that does not block, and no registration outlives its
\* request, in all orders of answers, timeouts, refusals, Stop and crashes
\* (kv_server.go, propose, handleApplyMsg, Stop).
THEOREM PendingCorrect == Spec => []RegisteredIsWaiting
<1> DEFINE IInv == EntryInv /\ CommandInv /\ PendingInv
<1>1. Init => IInv
  <2> SUFFICES ASSUME Init PROVE IInv
    BY SMT
  <2>1. EntryInv
    BY SMT DEF Init, EntryInv
  <2>2. CommandInv
    BY SMT DEF Init, CommandInv, Request
  <2>3. PendingInv
    BY SMT DEF Init, PendingInv, RegisteredIsWaiting
  <2> QED BY SMT, <2>1, <2>2, <2>3
<1>2. IInv /\ [Next]_vars => IInv'
  BY SMT, EntryStep, CommandStep, PendingStep
<1>3. IInv => RegisteredIsWaiting
  BY SMT DEF PendingInv
<1> HIDE DEF IInv
<1> QED BY <1>1, <1>2, <1>3, PTL DEF Spec

-----------------------------------------------------------------------------
(* The apply pipeline *)

\* The entry e, which n counts as its k-th, is chosen there, or earlier when reads
\* may fail: applyLoop counts an entry that it could not read.
CountedAt(e, k) ==
  \E q \in 1..k : /\ q <= Len(chosen) /\ chosen[q] = e
                  /\ "read" \notin StorageFaults => q = k

\* What is on its way to n's store is what n counts.
PipeAt(n) ==
  /\ Len(toApply[n]) + Len(applyCh[n]) <= lastApplied[n] /\ lastApplied[n] <= commitIndex[n]
  /\ \A i \in DOMAIN applyCh[n] : CountedAt(applyCh[n][i], Applied(n) + i)
  /\ \A i \in DOMAIN toApply[n] : CountedAt(toApply[n][i], Applied(n) + Len(applyCh[n]) + i)

PipeInv == \A n \in Node : PipeAt(n)

LEMMA TailIs ==
  ASSUME NEW S, NEW s \in Seq(S), s # << >>
  PROVE  /\ Tail(s) \in Seq(S) /\ Len(s) \in Nat \ {0} /\ Len(Tail(s)) = Len(s) - 1
         /\ Head(s) = s[1] /\ 1 \in DOMAIN s /\ Head(s) \in S
         /\ \A i \in DOMAIN Tail(s) : i \in Nat /\ i + 1 \in DOMAIN s /\ Tail(s)[i] = s[i + 1]
BY SMT

LEMMA AppendIs ==
  ASSUME NEW S, NEW s \in Seq(S), NEW e \in S
  PROVE  /\ Append(s, e) \in Seq(S) /\ Len(s) \in Nat /\ Len(Append(s, e)) = Len(s) + 1
         /\ DOMAIN s = 1..Len(s)
         /\ \A i \in 1..Len(s) : Append(s, e)[i] = s[i]
         /\ \A i \in DOMAIN Append(s, e) : i \in DOMAIN s \/ (i = Len(s) + 1 /\ Append(s, e)[i] = e)
BY SMT

LEMMA Differences ==
  \A a, b, c \in Nat : b + c <= a =>
    a - b - c \in Nat /\ a - b - c <= a /\ (a - b - c) + c + b = a
BY SMT

LEMMA Difference == \A a, b \in Nat : b <= a => a - b \in Nat
BY SMT

LEMMA OneLess ==
  \A l, b, c \in Nat : c # 0 /\ b + c <= l =>
    l - b - (c - 1) = (l - b - c) + 1 /\ b + (c - 1) <= l
BY SMT

LEMMA OneMore == \A a, i \in Nat : a + (i + 1) = (a + 1) + i
BY SMT

LEMMA OneOver == \A a, c, i \in Nat : c # 0 => a + c + i = (a + 1) + (c - 1) + i
BY SMT

LEMMA Shifts ==
  \A a, b, i \in Nat : a + (b + 1) + i = a + b + (i + 1) /\ a + b + 1 = a + (b + 1)
BY SMT

\* What is chosen stays so.
LEMMA CountedStays ==
  ASSUME EntryInv, NEW e, NEW k \in Nat, CountedAt(e, k),
         Len(chosen') \in Nat, Len(chosen') >= Len(chosen),
         \A i \in 1..Len(chosen) : chosen'[i] = chosen[i]
  PROVE  CountedAt(e, k)'
<1>1. Len(chosen) \in Nat
  BY LenIs DEF EntryInv
<1>2. PICK q \in 1..k : /\ q <= Len(chosen) /\ chosen[q] = e
                        /\ "read" \notin StorageFaults => q = k
  BY DEF CountedAt
<1>3. q \in 1..Len(chosen) /\ q <= Len(chosen')
  BY SMT, <1>1, <1>2
<1> QED BY <1>2, <1>3 DEF CountedAt

\* Applied counts from 0 on.
LEMMA AppliedIs ==
  ASSUME EntryInv, NEW n \in Node, PipeAt(n)
  PROVE  /\ Len(toApply[n]) \in Nat /\ Len(applyCh[n]) \in Nat /\ lastApplied[n] \in Nat
         /\ Applied(n) \in Nat /\ Applied(n) <= lastApplied[n]
         /\ Applied(n) + Len(applyCh[n]) + Len(toApply[n]) = lastApplied[n]
         /\ commitIndex[n] \in Nat /\ Len(chosen) \in Nat /\ commitIndex[n] <= Len(chosen)
         /\ lastApplied[n] <= commitIndex[n]
         /\ \A i \in DOMAIN applyCh[n] : i \in Nat
         /\ \A i \in DOMAIN toApply[n] : i \in Nat
<1>1. /\ toApply[n] \in Seq(Entry) /\ applyCh[n] \in Seq(Entry) /\ lastApplied[n] \in Nat
      /\ commitIndex[n] \in Nat /\ commitIndex[n] <= Len(chosen) /\ chosen \in Seq(Entry)
  BY DEF EntryInv
<1>2. /\ Len(toApply[n]) \in Nat /\ Len(applyCh[n]) \in Nat /\ Len(chosen) \in Nat
      /\ (\A i \in DOMAIN applyCh[n] : i \in Nat) /\ \A i \in DOMAIN toApply[n] : i \in Nat
  BY SMT, <1>1
<1>3. Len(toApply[n]) + Len(applyCh[n]) <= lastApplied[n] /\ lastApplied[n] <= commitIndex[n]
  BY DEF PipeAt
<1>4. Applied(n) = lastApplied[n] - Len(toApply[n]) - Len(applyCh[n])
  BY DEF Applied
<1>5. LET a == lastApplied[n] - Len(toApply[n]) - Len(applyCh[n]) IN
      a \in Nat /\ a <= lastApplied[n] /\ a + Len(applyCh[n]) + Len(toApply[n]) = lastApplied[n]
  BY <1>1, <1>2, <1>3, Differences
<1> QED BY <1>1, <1>2, <1>3, <1>4, <1>5

\* A node that does not move keeps its pipeline, whatever is chosen.
LEMMA PipeKeeps ==
  ASSUME EntryInv, NEW n \in Node, PipeAt(n),
         lastApplied'[n] = lastApplied[n], toApply'[n] = toApply[n], applyCh'[n] = applyCh[n],
         commitIndex'[n] \in Nat, commitIndex'[n] >= commitIndex[n],
         Len(chosen') \in Nat, Len(chosen') >= Len(chosen),
         \A i \in 1..Len(chosen) : chosen'[i] = chosen[i]
  PROVE  PipeAt(n)'
<1>1. /\ Len(applyCh[n]) \in Nat /\ lastApplied[n] \in Nat /\ Applied(n) \in Nat
      /\ commitIndex[n] \in Nat /\ lastApplied[n] <= commitIndex[n]
      /\ (\A i \in DOMAIN applyCh[n] : i \in Nat) /\ \A i \in DOMAIN toApply[n] : i \in Nat
  BY AppliedIs
<1>2. lastApplied[n] <= commitIndex'[n]
  BY SMT, <1>1
<1>3. Applied(n)' = Applied(n)
  BY DEF Applied
<1>4. /\ \A i \in DOMAIN applyCh[n] : Applied(n) + i \in Nat
      /\ \A i \in DOMAIN toApply[n] : Applied(n) + Len(applyCh[n]) + i \in Nat
  BY SMTT(30), <1>1
<1>5. \A i \in DOMAIN applyCh[n] : CountedAt(applyCh[n][i], Applied(n) + i)'
  <2> SUFFICES ASSUME NEW i \in DOMAIN applyCh[n]
               PROVE  CountedAt(applyCh[n][i], Applied(n) + i)'
    BY SMT
  <2>1. CountedAt(applyCh[n][i], Applied(n) + i)
    BY DEF PipeAt
  <2> DEFINE e == applyCh[n][i]   k == Applied(n) + i
  <2>2. e = e' /\ k = k'
    BY <1>3
  <2> QED BY <1>3, <1>4, <2>1, CountedStays
<1> QED BY <1>2, <1>3, <1>4, <1>5, CountedStays DEF PipeAt

\* A committed batch enters the pipeline; when entry k cannot be read, k is counted
\* and not sent.
LEMMA CollectIs ==
  ASSUME EntryInv, PipeInv, NEW n \in Node, NEW k \in 1..commitIndex[n], NEW failed,
         Collect(n, k, failed)
  PROVE  /\ \E j \in Nat : /\ lastApplied[n] <= j /\ j <= k
                           /\ "read" \notin StorageFaults => j = k
                           /\ toApply' = [toApply EXCEPT ![n] = SubSeq(chosen, lastApplied[n] + 1, j)]
         /\ toApply[n] = << >> /\ lastApplied' = [lastApplied EXCEPT ![n] = k]
         /\ applyCh' = applyCh /\ chosen' = chosen /\ commitIndex' = commitIndex
         /\ store' = store /\ highest' = highest /\ crashes' = crashes
         /\ notifying' = notifying
<1>1. /\ toApply[n] = << >> /\ lastApplied[n] < commitIndex[n]
      /\ IF failed THEN "read" \in StorageFaults /\ k \in lastApplied[n] + 1..commitIndex[n]
                   ELSE k = commitIndex[n]
      /\ lastApplied' = [lastApplied EXCEPT ![n] = k]
      /\ toApply' = [toApply EXCEPT
           ![n] = SubSeq(chosen, lastApplied[n] + 1, IF failed THEN k - 1 ELSE k)]
      /\ applyCh' = applyCh /\ chosen' = chosen /\ commitIndex' = commitIndex
      /\ store' = store /\ highest' = highest /\ crashes' = crashes
      /\ notifying' = notifying
  BY DEF Collect, consensusVars, serverVars, historyVars
<1>2. lastApplied[n] \in Nat /\ commitIndex[n] \in Nat /\ k \in Nat
  BY SMT DEF EntryInv
<1>3. CASE failed
  <2>1. k - 1 \in Nat /\ lastApplied[n] <= k - 1 /\ k - 1 <= k
    BY SMT, <1>1, <1>2, <1>3
  <2> QED BY <1>1, <1>3, <2>1
<1>4. CASE ~failed
  <2>1. lastApplied[n] <= k /\ k <= k
    BY SMT, <1>1, <1>2, <1>4
  <2> QED BY <1>1, <1>2, <1>4, <2>1
<1> QED BY <1>3, <1>4

LEMMA PipeCollect ==
  ASSUME EntryInv, PipeInv, NEW n \in Node, NEW k \in 1..commitIndex[n], NEW failed,
         Collect(n, k, failed)
  PROVE  PipeAt(n)' /\ ("read" \notin StorageFaults => Applied(n)' = Applied(n))
<1>1. /\ toApply[n] = << >> /\ lastApplied' = [lastApplied EXCEPT ![n] = k]
      /\ applyCh' = applyCh /\ chosen' = chosen /\ commitIndex' = commitIndex
  BY CollectIs
<1>2. PICK j \in Nat : /\ lastApplied[n] <= j /\ j <= k
                       /\ "read" \notin StorageFaults => j = k
                       /\ toApply' = [toApply EXCEPT ![n] = SubSeq(chosen, lastApplied[n] + 1, j)]
  BY CollectIs
<1>3. /\ Len(applyCh[n]) \in Nat /\ lastApplied[n] \in Nat /\ commitIndex[n] \in Nat
      /\ Len(chosen) \in Nat /\ commitIndex[n] <= Len(chosen) /\ Applied(n) \in Nat
      /\ (\A i \in DOMAIN applyCh[n] : i \in Nat) /\ chosen \in Seq(Entry)
      /\ Applied(n) + Len(applyCh[n]) + Len(toApply[n]) = lastApplied[n]
  BY AppliedIs DEF PipeInv, EntryInv
<1>4. lastApplied'[n] = k /\ toApply'[n] = SubSeq(chosen, lastApplied[n] + 1, j)
  BY <1>1, <1>2 DEF EntryInv
<1> DEFINE a == lastApplied[n]   c == Len(applyCh[n])   s == SubSeq(chosen, a + 1, j)
<1>5. /\ Len(s) = j - a /\ \A i \in DOMAIN s : i \in 1..j - a /\ s[i] = chosen[a + i]
  <2>1. j <= Len(chosen)
    BY SMTT(30), <1>2, <1>3
  <2>2. j - a \in Nat /\ a \in Nat /\ j \in Nat
    BY <1>2, <1>3, Difference
  <2>3. a <= j /\ chosen \in Seq(Entry)
    BY <1>2, <1>3
  <2> HIDE DEF a
  <2>4. /\ Len(SubSeq(chosen, a + 1, j)) = j - a
        /\ \A i \in DOMAIN SubSeq(chosen, a + 1, j) :
             /\ i \in 1..j - a
             /\ SubSeq(chosen, a + 1, j)[i] = chosen[a + i]
    BY <2>1, <2>2, <2>3, SubSeqIs
  <2> QED BY <2>4
<1>6. Len(toApply[n]) = 0
  BY SMT, <1>1
<1>7. a \in Nat /\ c \in Nat /\ Applied(n) = a - c /\ c <= a /\ k \in Nat /\ k <= commitIndex[n] /\ a <= j
  BY SMT, <1>2, <1>3, <1>6
<1>8. Applied(n)' = k - (j - a) - c
  BY <1>1, <1>4, <1>5 DEF Applied
<1> HIDE DEF a, c, s
<1>9. /\ (j - a) + c <= k /\ k <= commitIndex[n]
      /\ Applied(n) <= k - (j - a) - c /\ (j = k => k - (j - a) - c = Applied(n))
      /\ k - (j - a) - c \in Nat
  BY SMT, <1>2, <1>7
<1>10. ASSUME NEW i \in DOMAIN applyCh[n]
       PROVE  \E q \in 1..(k - (j - a) - c) + i :
                /\ q <= Len(chosen) /\ chosen[q] = applyCh[n][i]
                /\ "read" \notin StorageFaults => q = (k - (j - a) - c) + i
  <2>1. PICK q \in 1..Applied(n) + i :
               /\ q <= Len(chosen) /\ chosen[q] = applyCh[n][i]
               /\ "read" \notin StorageFaults => q = Applied(n) + i
    BY DEF PipeInv, PipeAt, CountedAt
  <2>2. q \in 1..(k - (j - a) - c) + i /\ (j = k => Applied(n) + i = (k - (j - a) - c) + i)
    BY SMT, <1>3, <1>9, <2>1
  <2> QED BY <1>2, <2>1, <2>2
<1>11. ASSUME NEW i \in DOMAIN s
       PROVE  \E q \in 1..(k - (j - a) - c) + c + i :
                /\ q <= Len(chosen) /\ chosen[q] = s[i]
                /\ "read" \notin StorageFaults => q = (k - (j - a) - c) + c + i
  <2>1. i \in 1..j - a /\ s[i] = chosen[a + i]
    BY <1>5
  <2>2. /\ a + i \in 1..(k - (j - a) - c) + c + i /\ a + i <= Len(chosen)
        /\ j = k => a + i = (k - (j - a) - c) + c + i
    BY SMTT(30), <1>2, <1>3, <1>7, <1>9, <2>1
  <2> QED BY <1>2, <2>1, <2>2
<1>12. toApply'[n] = s /\ applyCh'[n] = applyCh[n] /\ Len(applyCh[n]) = c
  BY <1>1, <1>4 DEF s, a, c
<1>13. Len(toApply'[n]) + Len(applyCh'[n]) <= lastApplied'[n] /\ lastApplied'[n] <= commitIndex'[n]
  BY <1>1, <1>4, <1>5, <1>9, <1>12
<1>14. \A i \in DOMAIN applyCh'[n] : CountedAt(applyCh[n][i], Applied(n) + i)'
  BY <1>1, <1>8, <1>10, <1>12 DEF CountedAt
<1>15. \A i \in DOMAIN toApply'[n] :
         CountedAt(toApply[n][i], Applied(n) + Len(applyCh[n]) + i)'
  BY <1>1, <1>8, <1>11, <1>12 DEF CountedAt
<1>16. PipeAt(n)'
  BY <1>13, <1>14, <1>15 DEF PipeAt
<1> QED BY <1>2, <1>8, <1>9, <1>16

\* An entry moves from the batch to the channel.
LEMMA PipeSend ==
  ASSUME EntryInv, PipeInv, NEW n \in Node, SendApply(n)
  PROVE  PipeAt(n)' /\ Applied(n)' = Applied(n)
<1>1. /\ toApply[n] # << >> /\ applyCh' = [applyCh EXCEPT ![n] = Append(applyCh[n], Head(toApply[n]))]
      /\ toApply' = [toApply EXCEPT ![n] = Tail(toApply[n])]
      /\ chosen' = chosen /\ commitIndex' = commitIndex /\ lastApplied' = lastApplied
  BY DEF SendApply, consensusVars, EntryInv
<1>2. /\ toApply[n] \in Seq(Entry) /\ applyCh[n] \in Seq(Entry)
      /\ toApply'[n] = Tail(toApply[n]) /\ applyCh'[n] = Append(applyCh[n], Head(toApply[n]))
  BY <1>1 DEF EntryInv
<1> DEFINE s == toApply[n]   t == applyCh[n]   e == Head(toApply[n])
<1>3. /\ Len(s) \in Nat /\ Len(t) \in Nat /\ lastApplied[n] \in Nat /\ Applied(n) \in Nat
      /\ Applied(n) + Len(t) + Len(s) = lastApplied[n] /\ lastApplied[n] <= commitIndex[n]
      /\ Applied(n) = lastApplied[n] - Len(s) - Len(t) /\ Len(s) + Len(t) <= lastApplied[n]
  BY AppliedIs DEF PipeInv, PipeAt, Applied
<1>4. /\ Len(s) # 0 /\ Len(Tail(s)) = Len(s) - 1 /\ e = s[1] /\ 1 \in DOMAIN s /\ e \in Entry
      /\ \A i \in DOMAIN Tail(s) : i \in Nat /\ i + 1 \in DOMAIN s /\ Tail(s)[i] = s[i + 1]
  BY ZenonT(40), <1>1, <1>2, TailIs
<1>5. /\ Len(Append(t, e)) = Len(t) + 1 /\ DOMAIN t = 1..Len(t)
      /\ \A i \in 1..Len(t) : Append(t, e)[i] = t[i]
      /\ \A i \in DOMAIN Append(t, e) : i \in DOMAIN t \/ (i = Len(t) + 1 /\ Append(t, e)[i] = e)
  BY SMT, <1>2, <1>4, AppendIs
<1>6. /\ \A i \in DOMAIN t : CountedAt(t[i], Applied(n) + i)
      /\ \A i \in DOMAIN s : CountedAt(s[i], Applied(n) + Len(t) + i)
  BY DEF PipeInv, PipeAt
<1>7. /\ Applied(n)' = lastApplied[n] - Len(Tail(s)) - Len(Append(t, e))
      /\ Len(Tail(s)) + Len(Append(t, e)) = Len(s) + Len(t)
      /\ lastApplied[n] - Len(Tail(s)) - Len(Append(t, e)) = Applied(n)
  <2>1. Applied(n)' = lastApplied[n] - Len(Tail(s)) - Len(Append(t, e))
    BY <1>1, <1>2 DEF Applied
  <2> HIDE DEF s, t, e
  <2>2. /\ Len(Tail(s)) + Len(Append(t, e)) = Len(s) + Len(t)
        /\ lastApplied[n] - Len(Tail(s)) - Len(Append(t, e)) = Applied(n)
    BY SMT, <1>3, <1>4, <1>5
  <2> QED BY <2>1, <2>2
<1>8. \A i \in DOMAIN Tail(s) :
        CountedAt(Tail(s)[i], Applied(n) + (Len(t) + 1) + i)
  <2> HIDE DEF s, t, e
  <2> TAKE i \in DOMAIN Tail(s)
  <2>1. Applied(n) + (Len(t) + 1) + i = Applied(n) + Len(t) + (i + 1)
    BY <1>3, <1>4, Shifts
  <2> QED BY <1>4, <1>6, <2>1
<1>9. \A i \in DOMAIN Append(t, e) : CountedAt(Append(t, e)[i], Applied(n) + i)
  <2> HIDE DEF s, t, e
  <2> TAKE i \in DOMAIN Append(t, e)
  <2>1. Applied(n) + Len(t) + 1 = Applied(n) + (Len(t) + 1)
    BY <1>3, Shifts
  <2> QED BY <1>4, <1>5, <1>6, <2>1
<1>10. Len(toApply'[n]) + Len(applyCh'[n]) <= lastApplied'[n] /\ lastApplied'[n] <= commitIndex'[n]
  BY <1>1, <1>2, <1>3, <1>7
<1>11. \A i \in DOMAIN applyCh'[n] : CountedAt(applyCh[n][i], Applied(n) + i)'
  BY <1>1, <1>2, <1>7, <1>9 DEF CountedAt
<1>12. \A i \in DOMAIN toApply'[n] :
         CountedAt(toApply[n][i], Applied(n) + Len(applyCh[n]) + i)'
  BY ZenonT(40), <1>1, <1>2, <1>5, <1>7, <1>8 DEF CountedAt
<1>13. PipeAt(n)'
  BY <1>10, <1>11, <1>12 DEF PipeAt
<1> QED BY <1>7, <1>13

\* handleApplyMsg, as an effect on the pipeline and the store.
LEMMA ApplyIs ==
  ASSUME EntryInv, NEW n \in Node, NEW result, ApplyCommand(n, result)
  PROVE  /\ applyCh[n] # << >> /\ Head(applyCh[n]) \in Entry
         /\ applyCh' = [applyCh EXCEPT ![n] = Tail(applyCh[n])]
         /\ store' = [store EXCEPT ![n] = IF result = "ok" THEN applyCommand(store[n], Head(applyCh[n]))
                                                         ELSE store[n]]
         /\ highest' = [highest EXCEPT ![n] = Max({highest[n], Applied(n) + 1})]
         /\ notifying' = [notifying EXCEPT ![n] = IF Head(applyCh[n]) = NoOp THEN NoOp
                            ELSE [id |-> Head(applyCh[n]).id, result |-> result]]
         /\ toApply' = toApply /\ lastApplied' = lastApplied /\ commitIndex' = commitIndex
         /\ chosen' = chosen /\ crashes' = crashes
<1>1. applyCh[n] # << >> /\ applyCh[n] \in Seq(Entry)
  BY DEF ApplyCommand, EntryInv
<1>2. Head(applyCh[n]) \in Entry
  BY SMT, <1>1
<1> QED BY <1>1, <1>2 DEF ApplyCommand, consensusVars

\* An entry leaves the channel for the store.
LEMMA PipeApply ==
  ASSUME EntryInv, PipeInv, NEW n \in Node, NEW result, ApplyCommand(n, result)
  PROVE  /\ PipeAt(n)' /\ Applied(n)' = Applied(n) + 1 /\ Applied(n) \in Nat
         /\ CountedAt(Head(applyCh[n]), Applied(n) + 1)
<1>1. /\ applyCh[n] # << >> /\ applyCh' = [applyCh EXCEPT ![n] = Tail(applyCh[n])]
      /\ chosen' = chosen /\ commitIndex' = commitIndex /\ lastApplied' = lastApplied
      /\ toApply' = toApply
  BY ApplyIs
<1>2. applyCh[n] \in Seq(Entry) /\ applyCh'[n] = Tail(applyCh[n])
  BY <1>1 DEF EntryInv
<1> DEFINE s == toApply[n]   t == applyCh[n]
<1>3. /\ Len(s) \in Nat /\ Len(t) \in Nat /\ lastApplied[n] \in Nat /\ Applied(n) \in Nat
      /\ Applied(n) + Len(t) + Len(s) = lastApplied[n] /\ lastApplied[n] <= commitIndex[n]
      /\ Applied(n) = lastApplied[n] - Len(s) - Len(t) /\ Len(s) + Len(t) <= lastApplied[n]
      /\ \A i \in DOMAIN s : i \in Nat
  BY AppliedIs DEF PipeInv, PipeAt, Applied
<1>4. /\ Len(t) # 0 /\ Len(Tail(t)) = Len(t) - 1 /\ Head(t) = t[1] /\ 1 \in DOMAIN t
      /\ \A i \in DOMAIN Tail(t) : i \in Nat /\ i + 1 \in DOMAIN t /\ Tail(t)[i] = t[i + 1]
  BY <1>1, <1>2, TailIs
<1>5. /\ \A i \in DOMAIN t : CountedAt(t[i], Applied(n) + i)
      /\ \A i \in DOMAIN s : CountedAt(s[i], Applied(n) + Len(t) + i)
  BY DEF PipeInv, PipeAt
<1>6. Applied(n)' = lastApplied[n] - Len(s) - Len(Tail(t))
  BY <1>1, <1>2 DEF Applied
<1> HIDE DEF s, t
<1>7. /\ lastApplied[n] - Len(s) - Len(Tail(t)) = Applied(n) + 1
      /\ Len(s) + Len(Tail(t)) <= lastApplied[n]
      /\ \A i \in Nat : /\ Applied(n) + (i + 1) = (Applied(n) + 1) + i
                        /\ Applied(n) + Len(t) + i = (Applied(n) + 1) + Len(Tail(t)) + i
  <2>1. Len(Tail(t)) = Len(t) - 1
    BY <1>4
  <2>2. /\ lastApplied[n] - Len(s) - (Len(t) - 1) = (lastApplied[n] - Len(s) - Len(t)) + 1
        /\ Len(s) + (Len(t) - 1) <= lastApplied[n]
    BY <1>3, <1>4, OneLess
  <2>3. \A i \in Nat : /\ Applied(n) + (i + 1) = (Applied(n) + 1) + i
                       /\ Applied(n) + Len(t) + i = (Applied(n) + 1) + (Len(t) - 1) + i
    <3> TAKE i \in Nat
    <3>1. Applied(n) \in Nat /\ Len(t) \in Nat /\ Len(t) # 0
      BY <1>3, <1>4
    <3>2. Applied(n) + (i + 1) = (Applied(n) + 1) + i
      BY <3>1, OneMore
    <3>3. Applied(n) + Len(t) + i = (Applied(n) + 1) + (Len(t) - 1) + i
      BY <3>1, OneOver
    <3> QED BY <3>2, <3>3
  <2> QED BY <1>3, <2>1, <2>2, <2>3
<1>8. \A i \in DOMAIN Tail(t) : CountedAt(Tail(t)[i], (Applied(n) + 1) + i)
  BY <1>4, <1>5, <1>7
<1>9. \A i \in DOMAIN s : CountedAt(s[i], (Applied(n) + 1) + Len(Tail(t)) + i)
  BY <1>3, <1>5, <1>7
<1>10. Len(toApply'[n]) + Len(applyCh'[n]) <= lastApplied'[n] /\ lastApplied'[n] <= commitIndex'[n]
  BY <1>1, <1>2, <1>3, <1>7 DEF s, t
<1>11. \A i \in DOMAIN applyCh'[n] : CountedAt(applyCh[n][i], Applied(n) + i)'
  <2>1. /\ applyCh'[n] = Tail(t) /\ Applied(n)' = Applied(n) + 1 /\ chosen' = chosen
    BY <1>1, <1>2, <1>6, <1>7 DEF t
  <2> SUFFICES ASSUME NEW i \in DOMAIN applyCh'[n]
               PROVE  CountedAt(applyCh[n][i], Applied(n) + i)'
    OBVIOUS
  <2>2. CountedAt(Tail(t)[i], (Applied(n) + 1) + i)
    BY <1>8, <2>1
  <2> QED BY <2>1, <2>2 DEF CountedAt
<1>12. \A i \in DOMAIN toApply'[n] :
         CountedAt(toApply[n][i], Applied(n) + Len(applyCh[n]) + i)'
  <2>1. /\ toApply'[n] = s /\ Applied(n)' = Applied(n) + 1
        /\ applyCh'[n] = Tail(t) /\ chosen' = chosen
    BY <1>1, <1>2, <1>6, <1>7 DEF s, t
  <2> SUFFICES ASSUME NEW i \in DOMAIN toApply'[n]
               PROVE  CountedAt(toApply[n][i], Applied(n) + Len(applyCh[n]) + i)'
    OBVIOUS
  <2>2. CountedAt(s[i], (Applied(n) + 1) + Len(Tail(t)) + i)
    BY <1>9, <2>1
  <2> QED BY <2>1, <2>2 DEF CountedAt
<1>13. PipeAt(n)'
  BY <1>10, <1>11, <1>12 DEF PipeAt
<1> QED BY <1>3, <1>4, <1>5, <1>6, <1>7, <1>13 DEF t

\* What a step does to the log and the pipelines.
LEMMA PipeKinds ==
  ASSUME [Next]_vars
  PROVE  \/ /\ chosen' = chosen /\ commitIndex' = commitIndex /\ lastApplied' = lastApplied
            /\ toApply' = toApply /\ applyCh' = applyCh
            /\ store' = store /\ highest' = highest /\ crashes' = crashes
         \/ \E n \in Node, e \in proposed \cup {NoOp} : Choose(n, e)
         \/ \E n \in Node : \E i \in DOMAIN chosen : Learn(n, i)
         \/ \E n \in Node : \E k \in 1..commitIndex[n], failed \in BOOLEAN : Collect(n, k, failed)
         \/ \E n \in Node : SendApply(n)
         \/ \E n \in Node, result \in {"ok", "error"} : ApplyCommand(n, result)
         \/ \E n \in Node : Crash(n)
<1>1. CASE Consensus \/ UNCHANGED vars
  BY <1>1 DEF Consensus, Lead, StepDown, vars, consensusVars, pipeVars, serverVars,
         historyVars
<1>2. CASE \E n \in Node : Pipeline(n)
  BY <1>2 DEF Pipeline, Notify, consensusVars, pipeVars, serverVars,
         historyVars
<1>3. CASE Write
  <2>1. PICK r \in Writer :
          \/ \E n \in Node, op \in Op, key \in Key : Register(r, n, op, key)
          \/ ProposeAccepted(r) \/ ProposeRefused(r) \/ Receive(r) \/ Closed(r) \/ GiveUp(r)
    BY <1>3 DEF Write
  <2>2. /\ chosen' = chosen /\ commitIndex' = commitIndex /\ lastApplied' = lastApplied
        /\ toApply' = toApply /\ applyCh' = applyCh
        /\ store' = store /\ highest' = highest /\ crashes' = crashes
    BY <2>1 DEF Register, ProposeAccepted, ProposeRefused, Receive, Closed, GiveUp,
         consensusVars, pipeVars, serverVars,
         historyVars
  <2> QED BY <2>2
<1>4. CASE Read
  <2>1. PICK r \in Reader :
          \/ \E n \in Node, key \in Key : GetAsLeader(r, n, key) \/ GetLocal(r, n, key)
          \/ GetIndex(r) \/ GetValue(r) \/ GetGiveUp(r)
    BY <1>4, RequestAssumption DEF Read
  <2>2. /\ chosen' = chosen /\ commitIndex' = commitIndex /\ lastApplied' = lastApplied
        /\ toApply' = toApply /\ applyCh' = applyCh
        /\ store' = store /\ highest' = highest /\ crashes' = crashes
    BY <2>1 DEF GetAsLeader, GetIndex, GetValue, GetGiveUp, GetLocal, consensusVars,
         pipeVars, serverVars, historyVars
  <2> QED BY <2>2
<1>5. CASE Stop
  BY <1>5 DEF Stop, CancelPending, CloseStopCh, LoopReturns, consensusVars, pipeVars, serverVars,
         historyVars
<1> QED BY <1>1, <1>2, <1>3, <1>4, <1>5 DEF Next

\* The log only grows.
LEMMA ChosenGrows ==
  ASSUME EntryInv, [Next]_vars
  PROVE  /\ Len(chosen) \in Nat /\ Len(chosen') \in Nat /\ Len(chosen') >= Len(chosen)
         /\ \A i \in 1..Len(chosen) : chosen'[i] = chosen[i]
<1>1. chosen \in Seq(Entry) /\ Len(chosen) \in Nat /\ Len(chosen) >= Len(chosen)
  BY SMT DEF EntryInv
<1>2. CASE chosen' = chosen
  BY <1>1, <1>2
<1>3. ASSUME NEW n \in Node, NEW e \in proposed \cup {NoOp}, Choose(n, e)
      PROVE  /\ Len(chosen') = Len(chosen) + 1
             /\ \A i \in 1..Len(chosen) : chosen'[i] = chosen[i]
  <2>1. chosen' = Append(chosen, e)
    BY <1>3 DEF Choose
  <2>2. e \in Entry
    BY DEF EntryInv, Entry
  <2> QED BY SMT, <1>1, <2>1, <2>2, AppendIs
<1>4. chosen' = chosen \/ \E n \in Node, e \in proposed \cup {NoOp} : Choose(n, e)
  <2>1. ASSUME NEW n \in Node,
               \/ \E i \in DOMAIN chosen : Learn(n, i)
               \/ \E k \in 1..commitIndex[n], failed \in BOOLEAN : Collect(n, k, failed)
               \/ SendApply(n) \/ (\E result \in {"ok", "error"} : ApplyCommand(n, result))
               \/ Crash(n)
        PROVE  chosen' = chosen
    BY <2>1 DEF Learn, Collect, SendApply, ApplyCommand, Crash, consensusVars
  <2> QED BY <2>1, PipeKinds
<1>5. ASSUME Len(chosen') = Len(chosen) + 1
      PROVE  Len(chosen') \in Nat /\ Len(chosen') >= Len(chosen)
  BY SMT, <1>1, <1>5
<1> QED BY <1>1, <1>2, <1>3, <1>4, <1>5

\* Every step keeps the pipelines.
LEMMA PipeStep ==
  ASSUME EntryInv, EntryInv', PipeInv, [Next]_vars
  PROVE  PipeInv'
<1>1. /\ Len(chosen) \in Nat /\ Len(chosen') \in Nat /\ Len(chosen') >= Len(chosen)
      /\ \A i \in 1..Len(chosen) : chosen'[i] = chosen[i]
  BY ChosenGrows
<1>2. \A n \in Node : PipeAt(n) /\ commitIndex[n] \in Nat /\ commitIndex'[n] \in Nat
  BY DEF EntryInv, PipeInv
<1>3. \A a \in Nat : a >= a
  BY SMT
<1>4. ASSUME NEW n \in Node, lastApplied'[n] = lastApplied[n], toApply'[n] = toApply[n],
             applyCh'[n] = applyCh[n], commitIndex'[n] >= commitIndex[n]
      PROVE  PipeAt(n)'
  BY <1>1, <1>2, <1>4, PipeKeeps
<1>5. CASE /\ chosen' = chosen /\ commitIndex' = commitIndex /\ lastApplied' = lastApplied
           /\ toApply' = toApply /\ applyCh' = applyCh
  BY <1>2, <1>3, <1>4, <1>5 DEF PipeInv
<1>6. ASSUME NEW n \in Node, NEW i \in Nat, i >= commitIndex[n],
             commitIndex' = [commitIndex EXCEPT ![n] = i],
             lastApplied' = lastApplied, toApply' = toApply, applyCh' = applyCh
      PROVE  PipeInv'
  <2>1. \A m \in Node : commitIndex'[m] = IF m = n THEN i ELSE commitIndex[m]
    BY <1>6 DEF EntryInv
  <2> QED BY <1>2, <1>3, <1>4, <1>6, <2>1 DEF PipeInv
<1>7. ASSUME NEW n \in Node, NEW e \in proposed \cup {NoOp}, Choose(n, e) PROVE PipeInv'
  <2>1. /\ commitIndex' = [commitIndex EXCEPT ![n] = Len(chosen) + 1]
        /\ lastApplied' = lastApplied /\ toApply' = toApply /\ applyCh' = applyCh
    BY <1>7 DEF Choose, pipeVars
  <2>2. Len(chosen) + 1 \in Nat /\ Len(chosen) + 1 >= commitIndex[n]
    BY SMT DEF EntryInv
  <2> QED BY <1>6, <2>1, <2>2
<1>8. ASSUME NEW n \in Node, NEW i \in DOMAIN chosen, Learn(n, i) PROVE PipeInv'
  <2>1. /\ commitIndex' = [commitIndex EXCEPT ![n] = i] /\ i > commitIndex[n]
        /\ lastApplied' = lastApplied /\ toApply' = toApply /\ applyCh' = applyCh
    BY <1>8 DEF Learn, pipeVars
  <2>2. i \in Nat /\ i >= commitIndex[n]
    BY SMT, <2>1 DEF EntryInv
  <2> QED BY <1>6, <2>1, <2>2
<1>9. ASSUME NEW n \in Node, PipeAt(n)', commitIndex' = commitIndex,
             \A m \in Node \ {n} : /\ lastApplied'[m] = lastApplied[m] /\ toApply'[m] = toApply[m]
                                   /\ applyCh'[m] = applyCh[m]
      PROVE  PipeInv'
  BY <1>2, <1>3, <1>4, <1>9 DEF PipeInv
<1>10. ASSUME NEW n \in Node, NEW k \in 1..commitIndex[n], NEW failed, Collect(n, k, failed)
       PROVE  PipeInv'
  <2>1. /\ commitIndex' = commitIndex
        /\ \A m \in Node \ {n} : /\ lastApplied'[m] = lastApplied[m] /\ toApply'[m] = toApply[m]
                                 /\ applyCh'[m] = applyCh[m]
    BY <1>10 DEF Collect, consensusVars, EntryInv
  <2> QED BY <1>9, <1>10, <2>1, PipeCollect
<1>11. ASSUME NEW n \in Node, SendApply(n) PROVE PipeInv'
  <2>1. /\ commitIndex' = commitIndex
        /\ \A m \in Node \ {n} : /\ lastApplied'[m] = lastApplied[m] /\ toApply'[m] = toApply[m]
                                 /\ applyCh'[m] = applyCh[m]
    BY <1>11 DEF SendApply, consensusVars, EntryInv
  <2> QED BY <1>9, <1>11, <2>1, PipeSend
<1>12. ASSUME NEW n \in Node, NEW result, ApplyCommand(n, result) PROVE PipeInv'
  <2>1. /\ commitIndex' = commitIndex
        /\ \A m \in Node \ {n} : /\ lastApplied'[m] = lastApplied[m] /\ toApply'[m] = toApply[m]
                                 /\ applyCh'[m] = applyCh[m]
    BY <1>12 DEF ApplyCommand, consensusVars, EntryInv
  <2> QED BY <1>9, <1>12, <2>1, PipeApply
<1>13. ASSUME NEW n \in Node, Crash(n) PROVE PipeInv'
  <2>1. /\ \A m \in Node \ {n} : /\ lastApplied'[m] = lastApplied[m] /\ toApply'[m] = toApply[m]
                                 /\ applyCh'[m] = applyCh[m] /\ commitIndex'[m] = commitIndex[m]
        /\ lastApplied'[n] = 0 /\ toApply'[n] = << >> /\ applyCh'[n] = << >>
        /\ commitIndex'[n] = 0
    BY <1>13 DEF Crash, EntryInv
  <2>2. Len(<< >>) = 0 /\ DOMAIN << >> = {} /\ 0 + 0 <= 0 /\ 0 <= 0
    BY SMT
  <2>3. PipeAt(n)'
    BY <2>1, <2>2 DEF PipeAt
  <2> QED BY <1>2, <1>3, <1>4, <2>1, <2>3 DEF PipeInv
<1> QED BY <1>5, <1>7, <1>8, <1>10, <1>11, <1>12, <1>13, PipeKinds

-----------------------------------------------------------------------------
(* Types *)

\* Changing a function at one argument keeps its type.
LEMMA ExceptType ==
  ASSUME NEW D, NEW R, NEW f \in [D -> R], NEW x, NEW v \in R
  PROVE  [f EXCEPT ![x] = v] \in [D -> R]
OBVIOUS

\* The types of what the nodes hold.
ServerTypes ==
  /\ leading \in [Node -> BOOLEAN]
  /\ store \in [Node -> [Key -> Writer \cup {Absent}]]
  /\ stopPhase \in [Node -> {"no", "cancelled", "closed", "stopped"}]
  /\ crashes \in Nat /\ highest \in [Node -> Nat]

\* What a command does to a store.
LEMMA applyCommandIs ==
  ASSUME NEW s \in [Key -> Writer \cup {Absent}], NEW e \in Entry
  PROVE  /\ applyCommand(s, e) \in [Key -> Writer \cup {Absent}]
         /\ \A key \in Key : applyCommand(s, e)[key] =
              IF Writes(e, key) THEN IF e.op = "Delete" THEN Absent ELSE e.by ELSE s[key]
<1>1. CASE e = NoOp
  BY <1>1 DEF applyCommand, Writes
<1>2. CASE e # NoOp
  <2>1. e \in Command
    BY <1>2 DEF Entry
  <2>2. e.key \in Key /\ e.by \in Writer /\ (e.op = "Put" \/ e.op = "Delete")
    BY SMT, <2>1 DEF Command
  <2>3. "Put" # "Delete"
    BY SMT
  <2> DEFINE v == IF e.op = "Put" THEN e.by ELSE Absent
  <2>4. v \in Writer \cup {Absent} /\ v = IF e.op = "Delete" THEN Absent ELSE e.by
    BY <2>2, <2>3
  <2>5. applyCommand(s, e) = [s EXCEPT ![e.key] = v]
    BY <1>2 DEF applyCommand
  <2> HIDE DEF v
  <2>6. /\ [s EXCEPT ![e.key] = v] \in [Key -> Writer \cup {Absent}]
        /\ \A key \in Key : [s EXCEPT ![e.key] = v][key] = IF key = e.key THEN v ELSE s[key]
    BY <2>2, <2>4
  <2> QED BY <1>2, <2>4, <2>5, <2>6 DEF Writes
<1> QED BY <1>1, <1>2

\* The steps that leave stores and their counts alone.
LEMMA StoreKinds ==
  ASSUME [Next]_vars
  PROVE  /\ \/ store' = store /\ highest' = highest
            \/ \E n \in Node, result \in {"ok", "error"} : ApplyCommand(n, result)
         /\ crashes' = crashes \/ \E n \in Node : Crash(n)
<1>1. ASSUME NEW n \in Node,
             \/ \E e \in proposed \cup {NoOp} : Choose(n, e)
             \/ \E i \in DOMAIN chosen : Learn(n, i)
             \/ \E k \in 1..commitIndex[n], failed \in BOOLEAN : Collect(n, k, failed)
             \/ SendApply(n)
      PROVE  store' = store /\ highest' = highest /\ crashes' = crashes
  BY <1>1 DEF Choose, Learn, Collect, SendApply, serverVars, historyVars
<1>2. ASSUME NEW n \in Node, NEW result, ApplyCommand(n, result) PROVE crashes' = crashes
  BY <1>2 DEF ApplyCommand
<1>3. ASSUME NEW n \in Node, Crash(n) PROVE store' = store /\ highest' = highest
  BY <1>3 DEF Crash
<1> QED BY <1>1, <1>2, <1>3, PipeKinds

LEMMA ServerTypesStep ==
  ASSUME EntryInv, PipeInv, ServerTypes, [Next]_vars
  PROVE  ServerTypes'
<1>1. \/ leading' = leading \/ \E n \in Node, b \in BOOLEAN : leading' = [leading EXCEPT ![n] = b]
  <2>1. CASE Consensus \/ UNCHANGED vars
    BY <2>1 DEF Consensus, Lead, StepDown, Choose, Learn, vars, consensusVars
  <2>2. CASE (\E n \in Node : Pipeline(n) \/ Crash(n)) \/ Stop
    BY <2>2 DEF Pipeline, Collect, SendApply, ApplyCommand, Notify, Crash, Stop,
         CancelPending, CloseStopCh, LoopReturns, consensusVars
  <2>3. CASE Write \/ Read
    BY ZenonT(40), <2>3 DEF Write, Register, ProposeAccepted, ProposeRefused, Receive, Closed, GiveUp,
         Read, GetAsLeader, GetIndex, GetValue, GetGiveUp, GetLocal, consensusVars
  <2> QED BY <2>1, <2>2, <2>3 DEF Next
<1>2. \/ stopPhase' = stopPhase
      \/ \E n \in Node, p \in {"no", "cancelled", "closed", "stopped"} :
           stopPhase' = [stopPhase EXCEPT ![n] = p]
  <2>1. CASE Consensus \/ UNCHANGED vars
    BY <2>1 DEF Consensus, Lead, StepDown, Choose, Learn, vars, serverVars
  <2>2. CASE (\E n \in Node : Pipeline(n) \/ Crash(n)) \/ Stop
    BY <2>2 DEF Pipeline, Collect, SendApply, ApplyCommand, Notify, Crash, Stop,
         CancelPending, CloseStopCh, LoopReturns, serverVars
  <2>3. CASE Write \/ Read
    BY ZenonT(40), <2>3 DEF Write, Register, ProposeAccepted, ProposeRefused, Receive, Closed, GiveUp,
         Read, GetAsLeader, GetIndex, GetValue, GetGiveUp, GetLocal, serverVars
  <2> QED BY <2>1, <2>2, <2>3 DEF Next
<1>3. crashes' \in Nat
  <2>1. crashes' = crashes \/ crashes' = crashes + 1
    BY StoreKinds DEF Crash
  <2> QED BY SMT, <2>1 DEF ServerTypes
<1>4. ASSUME NEW n \in Node, NEW result, ApplyCommand(n, result)
      PROVE  store' \in [Node -> [Key -> Writer \cup {Absent}]] /\ highest' \in [Node -> Nat]
  <2>1. store[n] \in [Key -> Writer \cup {Absent}] /\ highest[n] \in Nat
    BY DEF ServerTypes
  <2>2. Head(applyCh[n]) \in Entry
    BY <1>4, ApplyIs
  <2>3. applyCommand(store[n], Head(applyCh[n])) \in [Key -> Writer \cup {Absent}]
    BY <2>1, <2>2, applyCommandIs
  <2> DEFINE v == IF result = "ok" THEN applyCommand(store[n], Head(applyCh[n])) ELSE store[n]
  <2>4. v \in [Key -> Writer \cup {Absent}] /\ store' = [store EXCEPT ![n] = v]
    BY <1>4, <2>1, <2>3, ApplyIs
  <2>5. store' \in [Node -> [Key -> Writer \cup {Absent}]]
    <3> HIDE DEF v
    <3> QED BY <2>4, ExceptType DEF ServerTypes
  <2>6. Applied(n) \in Nat
    BY AppliedIs DEF PipeInv
  <2>7. Applied(n) + 1 \in Nat
    BY SMT, <2>6
  <2>8. Max({highest[n], Applied(n) + 1}) \in Nat
    BY <2>1, <2>7, MaxPair
  <2>9. highest' = [highest EXCEPT ![n] = Max({highest[n], Applied(n) + 1})]
    BY <1>4, ApplyIs
  <2>10. highest' \in [Node -> Nat]
    BY <2>8, <2>9, ExceptType DEF ServerTypes
  <2> QED BY <2>5, <2>10
<1> QED BY <1>1, <1>2, <1>3, <1>4, StoreKinds, ExceptType DEF ServerTypes

-----------------------------------------------------------------------------
(* Stores *)

\* Every value in a store was committed for its key at some point.
ValueInv ==
  \A n \in Node, key \in Key : \E k \in 0..Len(chosen) : store[n][key] = Replay(k)[key]

LEMMA ValueStep ==
  ASSUME EntryInv, PipeInv, ServerTypes, ValueInv, [Next]_vars
  PROVE  ValueInv'
<1> SUFFICES ASSUME NEW n \in Node, NEW key \in Key
             PROVE  (\E k \in 0..Len(chosen) : store[n][key] = Replay(k)[key])'
  BY DEF ValueInv
<1>1. /\ Len(chosen) \in Nat /\ Len(chosen') \in Nat /\ Len(chosen') >= Len(chosen)
      /\ \A i \in 1..Len(chosen) : chosen'[i] = chosen[i]
  BY ChosenGrows
<1>2. PICK k \in 0..Len(chosen) : store[n][key] = Replay(k)[key]
  BY DEF ValueInv
<1>3. k \in Nat /\ k \in 0..Len(chosen') /\ \A i \in 1..k : i \in 1..Len(chosen)
  BY SMT, <1>1
<1>4. Replay(k)'[key] = Replay(k)[key]
  BY <1>1, <1>3, ReplayStable
<1>5. ASSUME store'[n][key] = store[n][key]
      PROVE  (\E j \in 0..Len(chosen) : store[n][key] = Replay(j)[key])'
  BY <1>2, <1>3, <1>4, <1>5
<1>6. ASSUME NEW result, ApplyCommand(n, result), result = "ok",
             Writes(Head(applyCh[n]), key)
      PROVE  (\E j \in 0..Len(chosen) : store[n][key] = Replay(j)[key])'
  <2> DEFINE e == Head(applyCh[n])
  <2>1. store' = [store EXCEPT ![n] = applyCommand(store[n], e)] /\ e \in Entry /\ chosen' = chosen
    BY <1>6, ApplyIs
  <2>2. store[n] \in [Key -> Writer \cup {Absent}] /\ store'[n] = applyCommand(store[n], e)
    BY <2>1 DEF ServerTypes
  <2>3. store'[n][key] = IF e.op = "Delete" THEN Absent ELSE e.by
    BY <1>6, <2>1, <2>2, applyCommandIs
  <2>4. Applied(n) \in Nat /\ CountedAt(e, Applied(n) + 1)
    BY <1>6, PipeApply
  <2>5. PICK q \in 1..Applied(n) + 1 : q <= Len(chosen) /\ chosen[q] = e
    BY <2>4 DEF CountedAt
  <2>6. q \in Nat /\ q - 1 \in Nat /\ q = (q - 1) + 1 /\ q \in 0..Len(chosen)
    BY SMT, <1>1, <2>4, <2>5
  <2>7. Replay(q)[key] = IF e.op = "Delete" THEN Absent ELSE e.by
    <3>1. PICK p \in Nat : q = p + 1
      BY <2>6
    <3>2. Writes(chosen[p + 1], key) /\ chosen[p + 1] = e
      BY <1>6, <2>5, <3>1
    <3>3. Replay(p + 1)[key] = IF chosen[p + 1].op = "Delete" THEN Absent ELSE chosen[p + 1].by
      BY <3>2, ReplayNext
    <3> QED BY <3>1, <3>2, <3>3
  <2>8. \A i \in 1..q : chosen'[i] = chosen[i]
    BY <2>1
  <2>9. Replay(q)'[key] = Replay(q)[key]
    BY <2>6, <2>8, ReplayStable
  <2> QED BY <2>1, <2>3, <2>6, <2>7, <2>9
<1>7. ASSUME NEW m \in Node, NEW result, ApplyCommand(m, result),
             ~(m = n /\ result = "ok" /\ Writes(Head(applyCh[n]), key))
      PROVE  store'[n][key] = store[n][key]
  <2> DEFINE e == Head(applyCh[m])
  <2>1. /\ store' = [store EXCEPT ![m] = IF result = "ok" THEN applyCommand(store[m], e) ELSE store[m]]
        /\ e \in Entry
    BY <1>7, ApplyIs
  <2>2. store[n] \in [Key -> Writer \cup {Absent}]
    BY DEF ServerTypes
  <2>3. m # n \/ result # "ok" => store'[n] = store[n]
    BY <2>1 DEF ServerTypes
  <2>4. m = n /\ result = "ok" => store'[n] = applyCommand(store[n], e)
    BY <2>1 DEF ServerTypes
  <2>5. ~Writes(e, key) => applyCommand(store[n], e)[key] = store[n][key]
    BY <2>1, <2>2, applyCommandIs
  <2>6. CASE m = n /\ result = "ok"
    <3>1. ~Writes(e, key)
      BY <1>7, <2>6
    <3> QED BY <2>4, <2>5, <2>6, <3>1
  <2> QED BY <2>3, <2>6
<1> QED BY <1>5, <1>6, <1>7, StoreKinds

\* The steps of a node's pipeline, when every entry can be read.
LEMMA AppliedKinds ==
  ASSUME EntryInv, PipeInv, ServerTypes, [Next]_vars, "read" \notin StorageFaults, NEW n \in Node
  PROVE  /\ \/ Applied(n)' = Applied(n) /\ highest'[n] = highest[n] /\ store'[n] = store[n]
            \/ \E result \in {"ok", "error"} : ApplyCommand(n, result)
            \/ /\ Applied(n)' = 0 /\ highest'[n] = highest[n] /\ store'[n] = store[n]
               /\ crashes' # 0
         /\ crashes' = 0 => crashes = 0
<1>1. CASE \E result \in {"ok", "error"} : ApplyCommand(n, result)
  BY <1>1, ApplyIs
<1>2. CASE \E m \in Node \ {n}, result \in {"ok", "error"} : ApplyCommand(m, result)
  <2>1. PICK m \in Node \ {n}, result \in {"ok", "error"} : ApplyCommand(m, result)
    BY <1>2
  <2>2. /\ applyCh' = [applyCh EXCEPT ![m] = Tail(applyCh[m])] /\ toApply' = toApply
        /\ lastApplied' = lastApplied /\ crashes' = crashes
        /\ highest' = [highest EXCEPT ![m] = Max({highest[m], Applied(m) + 1})]
        /\ store' = [store EXCEPT ![m] = IF result = "ok" THEN applyCommand(store[m], Head(applyCh[m]))
                                                        ELSE store[m]]
    BY <2>1, ApplyIs
  <2>3. applyCh'[n] = applyCh[n] /\ highest'[n] = highest[n] /\ store'[n] = store[n]
    BY <2>2 DEF EntryInv, ServerTypes
  <2> QED BY <2>2, <2>3 DEF Applied
<1>3. ASSUME NEW m \in Node, Crash(m)
      PROVE  /\ (Applied(n)' = Applied(n) \/ Applied(n)' = 0) /\ crashes' # 0
             /\ highest' = highest /\ store' = store
  <2>1. /\ crashes' = crashes + 1 /\ highest' = highest /\ store' = store
        /\ lastApplied' = [lastApplied EXCEPT ![m] = 0]
        /\ toApply' = [toApply EXCEPT ![m] = << >>]
        /\ applyCh' = [applyCh EXCEPT ![m] = << >>]
    BY <1>3 DEF Crash
  <2>2. crashes' # 0
    BY SMT, <2>1 DEF ServerTypes
  <2>3. CASE m = n
    <3>1. lastApplied'[n] = 0 /\ toApply'[n] = << >> /\ applyCh'[n] = << >>
      BY <2>1, <2>3 DEF EntryInv
    <3>2. 0 - 0 - 0 = 0 /\ Len(<< >>) = 0
      BY SMT
    <3>3. Applied(n)' = 0 - Len(<< >>) - Len(<< >>)
      BY <3>1 DEF Applied
    <3> QED BY <2>1, <2>2, <3>2, <3>3
  <2>4. CASE m # n
    <3>1. /\ lastApplied'[n] = lastApplied[n] /\ toApply'[n] = toApply[n]
          /\ applyCh'[n] = applyCh[n]
      BY <2>1, <2>4 DEF EntryInv
    <3> QED BY <2>1, <2>2, <3>1 DEF Applied
  <2> QED BY <2>3, <2>4
<1>4. ASSUME lastApplied'[n] = lastApplied[n], toApply'[n] = toApply[n], applyCh'[n] = applyCh[n]
      PROVE  Applied(n)' = Applied(n)
  BY <1>4 DEF Applied
<1>5. ASSUME NEW m \in Node,
             \/ \E e \in proposed \cup {NoOp} : Choose(m, e)
             \/ \E i \in DOMAIN chosen : Learn(m, i)
      PROVE  Applied(n)' = Applied(n) /\ store' = store /\ highest' = highest /\ crashes' = crashes
  BY <1>4, <1>5 DEF Choose, Learn, pipeVars, serverVars, historyVars
<1>6. ASSUME NEW m \in Node, NEW k \in 1..commitIndex[m], NEW failed, Collect(m, k, failed)
      PROVE  Applied(n)' = Applied(n) /\ store' = store /\ highest' = highest /\ crashes' = crashes
  <2>1. /\ store' = store /\ highest' = highest /\ crashes' = crashes
        /\ m # n => /\ lastApplied'[n] = lastApplied[n] /\ toApply'[n] = toApply[n]
                    /\ applyCh'[n] = applyCh[n]
    BY <1>6 DEF Collect, serverVars, historyVars, EntryInv
  <2>2. m = n => Applied(n)' = Applied(n)
    BY <1>6, PipeCollect
  <2> QED BY <1>4, <2>1, <2>2
<1>7. ASSUME NEW m \in Node, SendApply(m)
      PROVE  Applied(n)' = Applied(n) /\ store' = store /\ highest' = highest /\ crashes' = crashes
  <2>1. /\ store' = store /\ highest' = highest /\ crashes' = crashes
        /\ m # n => /\ lastApplied'[n] = lastApplied[n] /\ toApply'[n] = toApply[n]
                    /\ applyCh'[n] = applyCh[n]
    BY <1>7 DEF SendApply, serverVars, historyVars, EntryInv
  <2>2. m = n => Applied(n)' = Applied(n)
    BY <1>7, PipeSend
  <2> QED BY <1>4, <2>1, <2>2
<1> QED BY <1>1, <1>2, <1>3, <1>4, <1>5, <1>6, <1>7, PipeKinds

\* n's store reflects at most what is chosen and, when every entry can be read, at
\* least what n has applied since it started: exactly that, if no node restarted.
HighInv ==
  \A n \in Node :
    /\ highest[n] <= Len(chosen)
    /\ "read" \notin StorageFaults =>
         Applied(n) <= highest[n] /\ (crashes = 0 => Applied(n) = highest[n])

LEMMA HighApply ==
  ASSUME EntryInv, PipeInv, ServerTypes, NEW n \in Node, NEW result, ApplyCommand(n, result)
  PROVE  /\ highest[n] \in Nat /\ highest'[n] \in Nat /\ highest[n] <= highest'[n]
         /\ highest'[n] = highest[n] \/ highest'[n] = Applied(n)'
         /\ Applied(n)' <= highest'[n] /\ Applied(n)' = Applied(n) + 1 /\ Applied(n) \in Nat
         /\ Applied(n)' <= Len(chosen)
<1>1. Applied(n)' = Applied(n) + 1 /\ Applied(n) \in Nat /\ PipeAt(n)
  BY PipeApply DEF PipeInv
<1>2. highest'[n] = Max({highest[n], Applied(n) + 1}) /\ highest[n] \in Nat
  BY ApplyIs DEF ServerTypes
<1>3. Applied(n) + 1 \in Nat
  BY SMT, <1>1
<1>4. /\ Max({highest[n], Applied(n) + 1}) \in {highest[n], Applied(n) + 1}
      /\ Max({highest[n], Applied(n) + 1}) >= highest[n]
      /\ Max({highest[n], Applied(n) + 1}) >= Applied(n) + 1
  BY <1>2, <1>3, MaxPair
<1>5. Applied(n) + 1 <= Len(chosen)
  <2>1. applyCh[n] # << >> /\ applyCh[n] \in Seq(Entry)
    BY ApplyIs DEF EntryInv
  <2>2. Len(applyCh[n]) \in Nat \ {0}
    BY <2>1, TailIs
  <2>3. /\ Len(toApply[n]) \in Nat /\ lastApplied[n] \in Nat /\ commitIndex[n] \in Nat
        /\ Applied(n) + Len(applyCh[n]) + Len(toApply[n]) = lastApplied[n]
        /\ Len(chosen) \in Nat /\ commitIndex[n] <= Len(chosen) /\ lastApplied[n] <= commitIndex[n]
    BY <1>1, AppliedIs
  <2> QED BY SMT, <1>1, <2>2, <2>3
<1> QED BY SMT, <1>1, <1>2, <1>3, <1>4, <1>5

LEMMA HighStep ==
  ASSUME EntryInv, PipeInv, ServerTypes, ServerTypes', HighInv, [Next]_vars
  PROVE  HighInv' /\ \A n \in Node : highest[n] \in Nat /\ highest[n] <= highest'[n]
<1>1. /\ Len(chosen) \in Nat /\ Len(chosen') \in Nat /\ Len(chosen) <= Len(chosen')
      /\ \A a, b \in Nat : a <= b /\ b <= Len(chosen) => a <= Len(chosen')
      /\ \A a \in Nat : a <= a /\ 0 <= a /\ (a <= Len(chosen) => a <= Len(chosen'))
  <2>1. Len(chosen) \in Nat /\ Len(chosen') \in Nat /\ Len(chosen') >= Len(chosen)
    BY ChosenGrows
  <2> QED BY SMT, <2>1
<1>2. \A n \in Node : /\ highest[n] \in Nat /\ highest'[n] \in Nat /\ highest[n] <= Len(chosen)
                      /\ highest[n] <= highest[n]
  BY <1>1 DEF ServerTypes, HighInv
<1>3. ASSUME NEW n \in Node
      PROVE  highest'[n] <= Len(chosen') /\ highest[n] <= highest'[n]
  <2>1. CASE \E result \in {"ok", "error"} : ApplyCommand(n, result)
    BY <1>1, <1>2, <2>1, HighApply
  <2>2. CASE highest'[n] = highest[n]
    BY <1>1, <1>2, <2>2
  <2>3. ASSUME NEW m \in Node \ {n}, NEW result, ApplyCommand(m, result)
        PROVE  highest'[n] = highest[n]
    <3>1. highest' = [highest EXCEPT ![m] = Max({highest[m], Applied(m) + 1})]
      BY <2>3, ApplyIs
    <3> QED BY <3>1 DEF ServerTypes
  <2> QED BY <2>1, <2>2, <2>3, StoreKinds
<1>4. ASSUME NEW n \in Node, "read" \notin StorageFaults
      PROVE  Applied(n)' <= highest'[n] /\ (crashes' = 0 => Applied(n)' = highest'[n])
  <2>1. Applied(n) <= highest[n] /\ (crashes = 0 => Applied(n) = highest[n])
    BY <1>4 DEF HighInv
  <2>2. CASE \E result \in {"ok", "error"} : ApplyCommand(n, result)
    <3>1. PICK result : ApplyCommand(n, result)
      BY <2>2
    <3>2. /\ highest[n] \in Nat /\ highest'[n] \in Nat /\ highest[n] <= highest'[n]
          /\ highest'[n] = highest[n] \/ highest'[n] = Applied(n)'
          /\ Applied(n)' <= highest'[n] /\ Applied(n)' = Applied(n) + 1 /\ Applied(n) \in Nat
      BY <3>1, HighApply
    <3>3. crashes' = crashes
      BY <3>1, ApplyIs
    <3>4. Applied(n) = highest[n] => Applied(n)' = highest'[n]
      BY SMT, <3>2
    <3> QED BY <2>1, <3>2, <3>3, <3>4
  <2>3. CASE Applied(n)' = Applied(n) /\ highest'[n] = highest[n]
    BY <1>4, <2>1, <2>3, AppliedKinds
  <2>4. CASE Applied(n)' = 0 /\ highest'[n] = highest[n] /\ crashes' # 0
    BY <1>1, <1>2, <2>4
  <2> QED BY <1>4, <2>2, <2>3, <2>4, AppliedKinds
<1> QED BY <1>2, <1>3, <1>4 DEF HighInv

\* A key that was written since n started is replayed, and one that was never
\* written is absent; the others may still have a later value, from before.
StoreInv ==
  \A n \in Node, key \in Key :
    /\ Written(key, Applied(n)) => store[n][key] = Replay(Applied(n))[key]
    /\ ~Written(key, highest[n]) => store[n][key] = Absent

LEMMA WrittenMore ==
  ASSUME NEW key, NEW j \in Nat, NEW k \in Nat, j <= k, Written(key, j)
  PROVE  Written(key, k)
<1>1. \A i \in 1..j : i \in 1..k
  BY SMT
<1> QED BY <1>1 DEF Written

LEMMA WrittenNone == \A key : ~Written(key, 0)
<1>1. 1..0 = {}
  BY SMT
<1> QED BY <1>1 DEF Written

\* The log that a store reflects stays, whatever the step.
LEMMA ReplayStays ==
  ASSUME EntryInv, [Next]_vars, NEW k \in Nat, k <= Len(chosen), NEW key \in Key
  PROVE  /\ Replay(k)'[key] = Replay(k)[key]
         /\ Written(key, k)' <=> Written(key, k)
<1>1. /\ Len(chosen) \in Nat /\ Len(chosen') >= Len(chosen)
      /\ \A i \in 1..Len(chosen) : chosen'[i] = chosen[i]
  BY ChosenGrows
<1>2. \A i \in 1..k : i \in 1..Len(chosen)
  BY SMT, <1>1
<1> QED BY <1>1, <1>2, ReplayStable

LEMMA StoreStep ==
  ASSUME EntryInv, PipeInv, ServerTypes, HighInv, HighInv', StoreInv, [Next]_vars,
         "read" \notin StorageFaults, "apply" \notin StorageFaults
  PROVE  StoreInv'
<1> SUFFICES ASSUME NEW n \in Node, NEW key \in Key
             PROVE  /\ Written(key, Applied(n))' => store'[n][key] = Replay(Applied(n))'[key]
                    /\ ~Written(key, highest[n])' => store'[n][key] = Absent
  BY DEF StoreInv
<1> DEFINE a == Applied(n)   h == highest[n]   v == store[n][key]
<1>1. a \in Nat /\ h \in Nat /\ a <= h /\ h <= Len(chosen) /\ Len(chosen) \in Nat
  BY AppliedIs DEF PipeInv, ServerTypes, HighInv
<1>2. a <= Len(chosen) /\ 0 \in Nat /\ 0 <= Len(chosen)
  BY SMT, <1>1
<1>3. (Written(key, a) => v = Replay(a)[key]) /\ (~Written(key, h) => v = Absent)
  BY DEF StoreInv
<1>4. ASSUME NEW k \in Nat, k <= Len(chosen)
      PROVE  /\ Replay(k)'[key] = Replay(k)[key]
             /\ Written(key, k)' <=> Written(key, k)
  BY <1>4, ReplayStays
<1>5. CASE Applied(n)' = Applied(n) /\ highest'[n] = highest[n] /\ store'[n] = store[n]
  BY <1>1, <1>2, <1>3, <1>4, <1>5
<1>6. CASE Applied(n)' = 0 /\ highest'[n] = highest[n] /\ store'[n] = store[n]
  <2>1. ~Written(key, Applied(n))'
    BY <1>2, <1>4, <1>6, WrittenNone
  <2> QED BY <1>1, <1>3, <1>4, <1>6, <2>1
<1>7. CASE \E result \in {"ok", "error"} : ApplyCommand(n, result)
  <2>1. PICK result : ApplyCommand(n, result)
    BY <1>7
  <2> DEFINE e == Head(applyCh[n])
  <2>2. e \in Entry /\ result = "ok" /\ chosen' = chosen
        /\ store' = [store EXCEPT ![n] = IF result = "ok" THEN applyCommand(store[n], e) ELSE store[n]]
    <3>1. result = "ok" \/ "apply" \in StorageFaults
      BY <2>1 DEF ApplyCommand
    <3>2. /\ e \in Entry /\ chosen' = chosen
          /\ store' = [store EXCEPT ![n] = IF result = "ok" THEN applyCommand(store[n], e) ELSE store[n]]
      BY <2>1, ApplyIs
    <3> QED BY <3>1, <3>2
  <2>3. store[n] \in [Key -> Writer \cup {Absent}] /\ store'[n] = applyCommand(store[n], e)
    BY <2>2 DEF ServerTypes
  <2>4. store'[n][key] = IF Writes(e, key) THEN IF e.op = "Delete" THEN Absent ELSE e.by ELSE v
    <3> HIDE DEF e
    <3>1. applyCommand(store[n], e)[key] =
            IF Writes(e, key) THEN IF e.op = "Delete" THEN Absent ELSE e.by ELSE store[n][key]
      BY <2>2, <2>3, applyCommandIs
    <3> QED BY <2>3, <3>1
  <2>5. /\ h <= highest'[n] /\ highest'[n] \in Nat /\ Applied(n)' <= highest'[n]
        /\ Applied(n)' = a + 1 /\ Applied(n)' <= Len(chosen)
        /\ highest'[n] = h \/ highest'[n] = Applied(n)'
    BY <2>1, HighApply
  <2>6. CountedAt(e, a + 1)
    BY <2>1, PipeApply
  <2>7. chosen[a + 1] = e
    BY <2>6 DEF CountedAt
  <2>8. a + 1 \in Nat /\ a + 1 <= Len(chosen) /\ highest'[n] <= Len(chosen) /\ a + 1 <= highest'[n]
    BY SMT, <1>1, <2>5
  <2> HIDE DEF a, h, v, e
  <2>9. /\ Writes(e, key) => Replay(a + 1)[key] = IF e.op = "Delete" THEN Absent ELSE e.by
        /\ ~Writes(e, key) => Replay(a + 1)[key] = Replay(a)[key]
        /\ Written(key, a + 1) <=> Written(key, a) \/ Writes(e, key)
    BY <1>1, <2>7, ReplayNext
  <2>10. Written(key, a + 1) => store'[n][key] = Replay(a + 1)[key]
    BY <1>3, <2>4, <2>9
  <2>11. Written(key, Applied(n))' => store'[n][key] = Replay(Applied(n))'[key]
    BY <1>4, <2>5, <2>8, <2>10
  <2>12. ~Written(key, highest'[n]) => store'[n][key] = Absent
    <3>1. ASSUME ~Written(key, highest'[n]) PROVE ~Written(key, h) /\ ~Written(key, a + 1)
      BY <1>1, <2>5, <2>8, <3>1, WrittenMore
    <3> QED BY <1>3, <2>4, <2>9, <3>1
  <2>13. Written(key, highest[n])' <=> Written(key, highest'[n])
    BY <1>4, <2>5, <2>8
  <2> QED BY <2>11, <2>12, <2>13
<1> QED BY <1>5, <1>6, <1>7, AppliedKinds

\* A store that has caught up is the replay of what n has applied.
LEMMA StoreIsReplayed ==
  ASSUME EntryInv, PipeInv, ServerTypes, HighInv, StoreInv, "read" \notin StorageFaults
  PROVE  StoreIsReplay
<1> SUFFICES ASSUME NEW n \in Node, Applied(n) >= highest[n]
             PROVE  store[n] = Replay(Applied(n))
  BY DEF StoreIsReplay
<1>1. Applied(n) \in Nat /\ highest[n] \in Nat /\ Applied(n) <= highest[n]
  BY AppliedIs DEF PipeInv, ServerTypes, HighInv
<1>2. Applied(n) = highest[n]
  BY SMT, <1>1
<1>3. ASSUME NEW key \in Key PROVE store[n][key] = Replay(Applied(n))[key]
  <2>1. CASE Written(key, Applied(n))
    BY <2>1 DEF StoreInv
  <2>2. CASE ~Written(key, Applied(n))
    <3>1. store[n][key] = Absent
      BY <1>2, <2>2 DEF StoreInv
    <3>2. Replay(Applied(n))[key] = Absent
      BY <1>1, <2>2, ReplayIs
    <3> QED BY <3>1, <3>2
  <2> QED BY <2>1, <2>2
<1>4. store[n] \in [Key -> Writer \cup {Absent}]
  BY DEF ServerTypes
<1> DEFINE F(key) == Replay(Applied(n))[key]
<1>5. Replay(Applied(n)) = [key \in Key |-> F(key)]
  BY DEF Replay
<1> HIDE DEF F
<1>6. \A key \in Key : store[n][key] = F(key)
  BY <1>3 DEF F
<1>7. store[n] = [key \in Key |-> F(key)]
  BY SMT, <1>4, <1>6
<1> QED BY <1>5, <1>7

-----------------------------------------------------------------------------
(* Requests *)

ReadCommand == [op : {"Get"}, key : Key]

\* A request that has not begun is nowhere; one that has begun is at a node and asks
\* for something, and returns when it is answered.
PcAt(r) ==
  /\ pc[r] = "idle" => at[r] = Nowhere
  /\ pc[r] # "idle" => at[r] \in Node
  /\ pc[r] # "idle" /\ r \in Writer => cmd[r] \in Command
  /\ pc[r] # "idle" /\ r \in Reader => cmd[r] \in ReadCommand
  /\ answer[r] # "none" => pc[r] = "done"

Pc == {"idle", "propose", "wait", "index", "get", "done"}

PcInv ==
  /\ pc \in [Request -> Pc] /\ at \in [Request -> Node \cup {Nowhere}]
  /\ answer \in [Request -> Answer]
  /\ \A r \in Request : PcAt(r)

\* The goroutine of r moves to p, at m, with the command c and the answer a.
Moves(r, p, m, c, a) ==
  /\ pc' = [pc EXCEPT ![r] = p]
  /\ at' = [at EXCEPT ![r] = m] \/ (at' = at /\ m = at[r])
  /\ cmd' = [cmd EXCEPT ![r] = c] \/ (cmd' = cmd /\ c = cmd[r])
  /\ answer' = [answer EXCEPT ![r] = a] \/ (answer' = answer /\ a = answer[r])

LEMMA ExceptIs ==
  ASSUME NEW D, NEW f, DOMAIN f = D, NEW x \in D, NEW v
  PROVE  LET g == [f EXCEPT ![x] = v] IN
         DOMAIN g = D /\ g[x] = v /\ \A y \in D \ {x} : g[y] = f[y]
BY SMT

LEMMA MovesIs ==
  ASSUME CommandInv, PcInv, NEW r \in Request, NEW p, NEW m, NEW c, NEW a, Moves(r, p, m, c, a)
  PROVE  /\ pc'[r] = p /\ at'[r] = m /\ cmd'[r] = c /\ answer'[r] = a
         /\ \A w \in Request \ {r} : /\ pc'[w] = pc[w] /\ at'[w] = at[w]
                                     /\ cmd'[w] = cmd[w] /\ answer'[w] = answer[w]
<1>1. DOMAIN pc = Request /\ DOMAIN at = Request /\ DOMAIN cmd = Request /\ DOMAIN answer = Request
  BY DEF PcInv, CommandInv
<1>2. pc'[r] = p /\ \A w \in Request \ {r} : pc'[w] = pc[w]
  BY <1>1, ExceptIs DEF Moves
<1>3. at'[r] = m /\ \A w \in Request \ {r} : at'[w] = at[w]
  BY <1>1, ExceptIs DEF Moves
<1>4. cmd'[r] = c /\ \A w \in Request \ {r} : cmd'[w] = cmd[w]
  BY <1>1, ExceptIs DEF Moves
<1>5. answer'[r] = a /\ \A w \in Request \ {r} : answer'[w] = answer[w]
  BY <1>1, ExceptIs DEF Moves
<1> QED BY <1>2, <1>3, <1>4, <1>5

LEMMA MovesKeep ==
  ASSUME CommandInv, PcInv, NEW r \in Request, NEW p, NEW m, NEW c, NEW a, Moves(r, p, m, c, a),
         p \in Pc, p # "idle", m \in Node, a \in Answer, a # "none" => p = "done",
         r \in Writer => c \in Command, r \in Reader => c \in ReadCommand
  PROVE  PcInv'
<1>1. pc' \in [Request -> Pc]
  BY ExceptType DEF Moves, PcInv
<1>2. at' \in [Request -> Node \cup {Nowhere}]
  <2>1. m \in Node \cup {Nowhere}
    OBVIOUS
  <2> QED BY <2>1, ExceptType DEF Moves, PcInv
<1>3. answer' \in [Request -> Answer]
  BY ExceptType DEF Moves, PcInv
<1>4. PcAt(r)'
  <2>1. pc'[r] = p /\ at'[r] = m /\ cmd'[r] = c /\ answer'[r] = a
    BY SMT, MovesIs
  <2> QED BY <2>1 DEF PcAt
<1>5. ASSUME NEW w \in Request \ {r} PROVE PcAt(w)'
  <2>1. PcAt(w)
    BY DEF PcInv
  <2>2. pc'[w] = pc[w] /\ at'[w] = at[w] /\ cmd'[w] = cmd[w] /\ answer'[w] = answer[w]
    BY MovesIs
  <2> QED BY <2>1, <2>2 DEF PcAt
<1> QED BY <1>1, <1>2, <1>3, <1>4, <1>5 DEF PcInv

\* What a step does to the requests.
LEMMA RequestKinds ==
  ASSUME [Next]_vars
  PROVE  \/ /\ pc' = pc /\ at' = at /\ cmd' = cmd /\ answer' = answer /\ value' = value
            /\ readIndex' = readIndex /\ seen' = seen /\ floor' = floor /\ started' = started
            /\ proposed' = proposed /\ nextRequestID' = nextRequestID
         \/ Write \/ Read \/ \E n \in Node : Crash(n)
<1>1. CASE Consensus \/ UNCHANGED vars
  BY <1>1 DEF Consensus, Lead, StepDown, Choose, Learn, vars, consensusVars, serverVars,
       requestVars, historyVars
<1>2. CASE \E n \in Node : Pipeline(n)
  <2>1. ASSUME NEW n \in Node, (\E k, failed : Collect(n, k, failed)) \/ SendApply(n)
        PROVE  UNCHANGED <<consensusVars, serverVars, requestVars, historyVars>>
    BY <2>1 DEF Collect, SendApply
  <2>2. ASSUME NEW n \in Node, (\E result : ApplyCommand(n, result)) \/ Notify(n)
        PROVE  /\ pc' = pc /\ at' = at /\ cmd' = cmd /\ answer' = answer /\ value' = value
               /\ readIndex' = readIndex /\ seen' = seen /\ floor' = floor /\ started' = started
               /\ proposed' = proposed /\ nextRequestID' = nextRequestID
    BY <2>2 DEF ApplyCommand, Notify, consensusVars, requestVars, historyVars
  <2>3. CASE UNCHANGED <<consensusVars, serverVars, requestVars, historyVars>>
    BY <2>3 DEF consensusVars, serverVars, requestVars, historyVars
  <2> QED BY <1>2, <2>1, <2>2, <2>3 DEF Pipeline
<1>3. CASE Stop
  BY <1>3 DEF Stop, CancelPending, CloseStopCh, LoopReturns, consensusVars, requestVars,
       historyVars
<1> QED BY <1>1, <1>2, <1>3 DEF Next

\* The steps of Put and Delete.
LEMMA WriteMoves ==
  ASSUME CommandInv, PcInv, resultCh \in [Writer -> Result \cup {Empty}], Write
  PROVE  \E r \in Writer, p \in {"propose", "wait", "done"}, m \in Node, c \in Command, a \in Answer :
           /\ Moves(r, p, m, c, a) /\ (a # "none" => p = "done")
           /\ pc[r] # "idle" => m = at[r] /\ c = cmd[r]
<1>1. ASSUME NEW r \in Writer, NEW n \in Node, NEW op \in Op, NEW key \in Key,
             Register(r, n, op, key)
      PROVE  \E c \in Command : /\ Moves(r, "propose", n, c, answer[r]) /\ pc[r] = "idle"
                                /\ answer[r] = "none"
  <2>1. nextRequestID[n] + 1 \in Nat \ {0} /\ op \in {"Put", "Delete"}
    BY SMT, RequestAssumption DEF CommandInv
  <2>2. [op |-> op, key |-> key, id |-> nextRequestID[n] + 1, by |-> r] \in Command
    BY SMT, <2>1 DEF Command
  <2>3. /\ pc[r] = "idle" /\ r \in Request
        /\ Moves(r, "propose", n, [op |-> op, key |-> key, id |-> nextRequestID[n] + 1, by |-> r], answer[r])
    BY <1>1 DEF Register, Moves, Request
  <2>4. answer[r] = "none"
    BY <2>3 DEF PcInv, PcAt
  <2> QED BY <2>2, <2>3, <2>4
<1>2. ASSUME NEW r \in Writer, pc[r] \in {"propose", "wait"}
      PROVE  pc[r] # "idle" /\ at[r] \in Node /\ cmd[r] \in Command /\ answer[r] = "none"
  <2>1. r \in Request /\ pc[r] # "idle" /\ pc[r] # "done"
    BY <1>2 DEF Request
  <2> QED BY <2>1 DEF PcInv, PcAt
<1>3. ASSUME NEW r \in Writer, ProposeAccepted(r)
      PROVE  pc[r] = "propose" /\ Moves(r, "wait", at[r], cmd[r], answer[r])
  BY <1>3 DEF ProposeAccepted, Moves
<1>4. ASSUME NEW r \in Writer, ProposeRefused(r)
      PROVE  pc[r] = "propose" /\ \E a \in {"notLeader", "error"} : Moves(r, "done", at[r], cmd[r], a)
  BY <1>4 DEF ProposeRefused, Return, Moves
<1>5. ASSUME NEW r \in Writer, Closed(r) \/ GiveUp(r)
      PROVE  pc[r] = "wait" /\ \E a \in {"closed", "timeout"} : Moves(r, "done", at[r], cmd[r], a)
  BY <1>5 DEF Closed, GiveUp, Return, Moves
<1>6. ASSUME NEW r \in Writer, Receive(r)
      PROVE  pc[r] = "wait" /\ Moves(r, "done", at[r], cmd[r], resultCh[r]) /\ resultCh[r] \in Answer
  <2>1. pc[r] = "wait" /\ Moves(r, "done", at[r], cmd[r], resultCh[r]) /\ resultCh[r] # Empty
    BY <1>6 DEF Receive, Return, Moves
  <2> QED BY <2>1 DEF Answer
<1>7. {"none", "notLeader", "error", "closed", "timeout"} \subseteq Answer
  BY SMT DEF Answer, Result
<1>8. PICK r \in Writer :
        \/ \E n \in Node, op \in Op, key \in Key : Register(r, n, op, key)
        \/ ProposeAccepted(r) \/ ProposeRefused(r) \/ Receive(r) \/ Closed(r) \/ GiveUp(r)
  BY DEF Write
<1>9. CASE \E n \in Node, op \in Op, key \in Key : Register(r, n, op, key)
  BY <1>1, <1>7, <1>9
<1>10. CASE ProposeAccepted(r)
  BY <1>2, <1>3, <1>7, <1>10
<1>11. CASE ProposeRefused(r)
  BY <1>2, <1>4, <1>7, <1>11
<1>12. CASE Closed(r) \/ GiveUp(r)
  BY <1>2, <1>5, <1>7, <1>12
<1>13. CASE Receive(r)
  BY <1>2, <1>6, <1>13
<1> QED BY <1>8, <1>9, <1>10, <1>11, <1>12, <1>13

\* The steps of Get.
LEMMA ReadMoves ==
  ASSUME CommandInv, PcInv, Read
  PROVE  \E r \in Reader, p \in {"index", "get", "done"}, m \in Node, c \in ReadCommand, a \in Answer :
           /\ Moves(r, p, m, c, a) /\ (a # "none" => p = "done")
           /\ pc[r] # "idle" => m = at[r] /\ c = cmd[r]
<1>1. \A r \in Reader : r \in Request /\ PcAt(r)
  BY DEF Request, PcInv
<1>2. ASSUME NEW r \in Reader, NEW n \in Node, NEW key \in Key,
             GetAsLeader(r, n, key) \/ GetLocal(r, n, key)
      PROVE  \E p \in {"index", "done"}, c \in ReadCommand, a \in {"none", "notLeader", "ok"} :
               Moves(r, p, n, c, a) /\ pc[r] = "idle" /\ (a # "none" => p = "done")
  <2>1. [op |-> "Get", key |-> key] \in ReadCommand
    BY SMT DEF ReadCommand
  <2> DEFINE c == [op |-> "Get", key |-> key]
  <2>2. pc[r] = "idle" /\ at' = [at EXCEPT ![r] = n] /\ cmd' = [cmd EXCEPT ![r] = c]
    BY <1>2 DEF GetAsLeader, GetLocal
  <2>3. answer[r] = "none"
    BY <1>1, <2>2 DEF PcAt
  <2>4. \/ pc' = [pc EXCEPT ![r] = "index"] /\ answer' = answer
        \/ \E a \in {"notLeader", "ok"} :
             pc' = [pc EXCEPT ![r] = "done"] /\ answer' = [answer EXCEPT ![r] = a]
    BY <1>2 DEF GetAsLeader, GetLocal, Return
  <2> HIDE DEF c
  <2>5. CASE pc' = [pc EXCEPT ![r] = "index"] /\ answer' = answer
    <3>1. Moves(r, "index", n, c, "none")
      BY <2>2, <2>3, <2>5 DEF Moves
    <3> QED BY <2>1, <2>2, <3>1 DEF c
  <2>6. ASSUME NEW a \in {"notLeader", "ok"},
               pc' = [pc EXCEPT ![r] = "done"] /\ answer' = [answer EXCEPT ![r] = a]
        PROVE  Moves(r, "done", n, c, a)
    BY <2>2, <2>6 DEF Moves
  <2> QED BY <2>1, <2>2, <2>4, <2>5, <2>6 DEF c
<1>3. ASSUME NEW r \in Reader, GetIndex(r)
      PROVE  pc[r] = "index" /\ Moves(r, "get", at[r], cmd[r], answer[r])
  BY <1>3 DEF GetIndex, Moves
<1>4. ASSUME NEW r \in Reader, GetValue(r) \/ GetGiveUp(r)
      PROVE  pc[r] = "get" /\ \E a \in {"ok", "timeout"} : Moves(r, "done", at[r], cmd[r], a)
  BY <1>4 DEF GetValue, GetGiveUp, Return, Moves
<1>5. ASSUME NEW r \in Reader, pc[r] \in {"index", "get"}
      PROVE  pc[r] # "idle" /\ at[r] \in Node /\ cmd[r] \in ReadCommand /\ answer[r] = "none"
  <2>1. pc[r] # "idle" /\ pc[r] # "done"
    BY <1>5
  <2> QED BY <1>1, <2>1 DEF PcAt
<1>6. {"none", "notLeader", "ok", "timeout"} \subseteq Answer
  BY SMT DEF Answer, Result
<1>7. PICK r \in Reader :
        \/ \E n \in Node, key \in Key : GetAsLeader(r, n, key) \/ GetLocal(r, n, key)
        \/ GetIndex(r) \/ GetValue(r) \/ GetGiveUp(r)
  BY RequestAssumption DEF Read
<1>8. CASE \E n \in Node, key \in Key : GetAsLeader(r, n, key) \/ GetLocal(r, n, key)
  <2>1. PICK n \in Node, key \in Key : GetAsLeader(r, n, key) \/ GetLocal(r, n, key)
    BY <1>8
  <2>2. PICK p \in {"index", "done"}, c \in ReadCommand, a \in {"none", "notLeader", "ok"} :
          Moves(r, p, n, c, a) /\ pc[r] = "idle" /\ (a # "none" => p = "done")
    BY <1>2, <2>1
  <2>3. p \in {"index", "get", "done"} /\ a \in Answer
    BY <1>6
  <2> QED BY <2>2, <2>3
<1>9. CASE GetIndex(r)
  BY <1>3, <1>5, <1>6, <1>9
<1>10. CASE GetValue(r) \/ GetGiveUp(r)
  BY <1>4, <1>5, <1>6, <1>10
<1> QED BY <1>7, <1>8, <1>9, <1>10

\* A crash ends the requests at its node.
LEMMA CrashIs ==
  ASSUME CommandInv, PcInv, NEW n \in Node, Crash(n)
  PROVE  /\ pc' \in [Request -> Pc] /\ answer' \in [Request -> Answer] /\ at' = at /\ cmd' = cmd
         /\ \A w \in Request :
              \/ pc'[w] = pc[w] /\ answer'[w] = answer[w]
              \/ pc'[w] = "done" /\ answer'[w] = "lost" /\ pc[w] # "idle"
<1> DEFINE lost == {r \in Request : at[r] = n /\ pc[r] # "done"}
<1>1. /\ pc' = [r \in Request |-> IF r \in lost THEN "done" ELSE pc[r]]
      /\ answer' = [r \in Request |-> IF r \in lost THEN "lost" ELSE answer[r]]
      /\ at' = at /\ cmd' = cmd
  BY DEF Crash
<1>2. \A w \in lost : pc[w] # "idle"
  BY NowhereAssumption DEF PcInv, PcAt
<1>3. \A w \in Request : pc[w] \in Pc /\ answer[w] \in Answer
  BY DEF PcInv
<1>4. "done" \in Pc /\ "lost" \in Answer
  BY SMT DEF Pc, Answer
<1> HIDE DEF lost
<1>5. pc' \in [Request -> Pc]
  BY <1>1, <1>3, <1>4
<1>6. answer' \in [Request -> Answer]
  BY <1>1, <1>3, <1>4
<1>7. ASSUME NEW w \in Request
      PROVE  \/ pc'[w] = pc[w] /\ answer'[w] = answer[w]
             \/ pc'[w] = "done" /\ answer'[w] = "lost" /\ pc[w] # "idle"
  <2>1. /\ pc'[w] = IF w \in lost THEN "done" ELSE pc[w]
        /\ answer'[w] = IF w \in lost THEN "lost" ELSE answer[w]
    BY <1>1
  <2> QED BY <1>2, <2>1
<1> QED BY <1>1, <1>5, <1>6, <1>7

\* A request that has begun stays where it is and keeps asking for the same.
LEMMA RequestFixed ==
  ASSUME CommandInv, PcInv, resultCh \in [Writer -> Result \cup {Empty}], [Next]_vars
  PROVE  PcInv' /\ \A w \in Request : pc[w] # "idle" =>
                     pc'[w] # "idle" /\ at'[w] = at[w] /\ cmd'[w] = cmd[w]
<1>1. CASE pc' = pc /\ at' = at /\ cmd' = cmd /\ answer' = answer
  <2>1. \A r \in Request : PcAt(r) => PcAt(r)'
    BY <1>1 DEF PcAt
  <2> QED BY <1>1, <2>1 DEF PcInv
<1>2. ASSUME NEW r \in Request, NEW p \in Pc, NEW m \in Node, NEW c, NEW a \in Answer,
             Moves(r, p, m, c, a), p # "idle", a # "none" => p = "done",
             r \in Writer => c \in Command, r \in Reader => c \in ReadCommand,
             pc[r] # "idle" => m = at[r] /\ c = cmd[r]
      PROVE  PcInv' /\ \A w \in Request : pc[w] # "idle" =>
                     pc'[w] # "idle" /\ at'[w] = at[w] /\ cmd'[w] = cmd[w]
  <2>1. PcInv'
    BY <1>2, MovesKeep
  <2>2. /\ pc'[r] = p /\ at'[r] = m /\ cmd'[r] = c
        /\ \A w \in Request \ {r} : pc'[w] = pc[w] /\ at'[w] = at[w] /\ cmd'[w] = cmd[w]
    BY ZenonT(40), <1>2, MovesIs
  <2> QED BY <1>2, <2>1, <2>2
<1>3. CASE Write
  <2>1. PICK r \in Writer, p \in {"propose", "wait", "done"}, m \in Node, c \in Command, a \in Answer :
           /\ Moves(r, p, m, c, a) /\ (a # "none" => p = "done")
           /\ pc[r] # "idle" => m = at[r] /\ c = cmd[r]
    BY <1>3, WriteMoves
  <2>2. r \in Request /\ r \notin Reader /\ p \in Pc /\ p # "idle"
    BY RequestAssumption DEF Request, Pc
  <2> QED BY <1>2, <2>1, <2>2
<1>4. CASE Read
  <2>1. PICK r \in Reader, p \in {"index", "get", "done"}, m \in Node, c \in ReadCommand, a \in Answer :
           /\ Moves(r, p, m, c, a) /\ (a # "none" => p = "done")
           /\ pc[r] # "idle" => m = at[r] /\ c = cmd[r]
    BY <1>4, ReadMoves
  <2>2. r \in Request /\ r \notin Writer /\ p \in Pc /\ p # "idle"
    BY RequestAssumption DEF Request, Pc
  <2> QED BY <1>2, <2>1, <2>2
<1>5. ASSUME NEW n \in Node, Crash(n)
      PROVE  PcInv' /\ \A w \in Request : pc[w] # "idle" =>
                     pc'[w] # "idle" /\ at'[w] = at[w] /\ cmd'[w] = cmd[w]
  <2>1. /\ pc' \in [Request -> Pc] /\ answer' \in [Request -> Answer] /\ at' = at /\ cmd' = cmd
        /\ \A w \in Request :
              \/ pc'[w] = pc[w] /\ answer'[w] = answer[w]
              \/ pc'[w] = "done" /\ answer'[w] = "lost" /\ pc[w] # "idle"
    BY <1>5, CrashIs
  <2>2. ASSUME NEW w \in Request PROVE PcAt(w)'
    <3>1. PcAt(w)
      BY DEF PcInv
    <3> QED BY <2>1, <3>1 DEF PcAt
  <2>3. PcInv'
    BY <2>1, <2>2 DEF PcInv
  <2> QED BY <2>1, <2>3
<1> QED BY <1>1, <1>3, <1>4, <1>5, RequestKinds

\* The types of what the requests hold.
DataInv ==
  /\ resultCh \in [Writer -> Result \cup {Empty}] /\ readIndex \in [Reader -> Nat]
  /\ value \in [Reader -> Writer \cup {Absent}]
  /\ seen \in Nat /\ floor \in [Reader -> Nat] /\ started \in [Reader -> Nat]

\* A result that is sent goes to an empty channel or is dropped.
LEMMA SendIs ==
  ASSUME NEW ch \in [Writer -> Result \cup {Empty}], NEW r \in Writer, NEW x \in Result
  PROVE  /\ Send(ch, r, x) \in [Writer -> Result \cup {Empty}]
         /\ Send(ch, r, x)[r] \in {ch[r], x}
         /\ \A w \in Writer \ {r} : Send(ch, r, x)[w] = ch[w]
<1> DEFINE v == IF ch[r] = Empty THEN x ELSE ch[r]
<1>1. Send(ch, r, x) = [ch EXCEPT ![r] = v]
  BY DEF Send
<1>2. v \in Result \cup {Empty} /\ v \in {ch[r], x}
  OBVIOUS
<1> HIDE DEF v
<1>3. DOMAIN ch = Writer
  OBVIOUS
<1>4. [ch EXCEPT ![r] = v] \in [Writer -> Result \cup {Empty}]
  BY <1>2, ExceptType
<1>5. [ch EXCEPT ![r] = v][r] = v /\ \A w \in Writer \ {r} : [ch EXCEPT ![r] = v][w] = ch[w]
  BY <1>3, ExceptIs
<1> QED BY <1>1, <1>2, <1>4, <1>5

\* Where results come from: the pipeline notifies a registered request of the result
\* it has, Stop sends "closed", and a channel may be emptied.
LEMMA ResultIs ==
  ASSUME EntryInv, CommandInv, PendingInv, DataInv, [Next]_vars
  PROVE  /\ resultCh' \in [Writer -> Result \cup {Empty}]
         /\ \A w \in Writer :
              \/ resultCh'[w] \in {resultCh[w], Empty, "closed"}
              \/ \E n \in Node : /\ notifying[n] # NoOp /\ pendingOps[n][w] = notifying[n].id
                                 /\ notifying[n].id # 0 /\ resultCh'[w] = notifying[n].result
<1> DEFINE Goal == /\ resultCh' \in [Writer -> Result \cup {Empty}]
                   /\ \A w \in Writer :
                        \/ resultCh'[w] \in {resultCh[w], Empty, "closed"}
                        \/ \E n \in Node : /\ notifying[n] # NoOp /\ pendingOps[n][w] = notifying[n].id
                                           /\ notifying[n].id # 0 /\ resultCh'[w] = notifying[n].result
<1>1. resultCh \in [Writer -> Result \cup {Empty}] /\ DOMAIN resultCh = Writer
  BY DEF DataInv
<1>2. CASE resultCh' = resultCh
  BY <1>1, <1>2
<1>3. ASSUME NEW r \in Writer, resultCh' = [resultCh EXCEPT ![r] = Empty]
      PROVE  Goal
  <2>1. Empty \in Result \cup {Empty}
    OBVIOUS
  <2>2. resultCh' \in [Writer -> Result \cup {Empty}]
    BY <1>1, <1>3, <2>1, ExceptType
  <2>3. resultCh'[r] = Empty /\ \A w \in Writer \ {r} : resultCh'[w] = resultCh[w]
    BY <1>1, <1>3, ExceptIs
  <2> QED BY <2>2, <2>3
<1>4. ASSUME NEW n \in Node, Notify(n)
      PROVE  Goal
  <2>1. /\ notifying[n] # NoOp
        /\ notifying[n] \in [id : Nat \ {0}, result : {"ok", "error"}] \cup {NoOp}
    BY <1>4 DEF Notify, EntryInv
  <2>2. notifying[n].id # 0 /\ notifying[n].result \in {"ok", "error"}
    BY SMT, <2>1
  <2>3. notifying[n].result \in Result
    BY <2>2 DEF Result
  <2>4. CASE Registered(n, notifying[n].id) = {}
    <3>1. resultCh' = resultCh
      BY <1>4, <2>4 DEF Notify
    <3> QED BY <1>2, <3>1
  <2>5. CASE Registered(n, notifying[n].id) # {}
    <3>1. PICK r \in Registered(n, notifying[n].id) : resultCh' = Send(resultCh, r, notifying[n].result)
      BY <1>4, <2>5 DEF Notify
    <3>2. r \in Writer /\ pendingOps[n][r] = notifying[n].id
      BY DEF Registered
    <3>3. \A x \in Result : /\ Send(resultCh, r, x) \in [Writer -> Result \cup {Empty}]
                             /\ Send(resultCh, r, x)[r] \in {resultCh[r], x}
                             /\ \A w \in Writer \ {r} : Send(resultCh, r, x)[w] = resultCh[w]
      BY SMT, <1>1, <3>2, SendIs
    <3>4. /\ resultCh' \in [Writer -> Result \cup {Empty}]
          /\ resultCh'[r] \in {resultCh[r], notifying[n].result}
          /\ \A w \in Writer \ {r} : resultCh'[w] = resultCh[w]
      BY <2>3, <3>1, <3>3
    <3> QED BY <2>1, <2>2, <3>2, <3>4
  <2> QED BY <2>4, <2>5
<1>5. ASSUME NEW n \in Node, CancelPending(n)
      PROVE  Goal
  <2>1. resultCh' = [r \in Writer |-> IF pendingOps[n][r] # 0
                                      THEN Send(resultCh, r, "closed")[r] ELSE resultCh[r]]
    BY <1>5 DEF CancelPending
  <2>2. "closed" \in Result
    BY SMT DEF Result
  <2>3. \A w \in Writer : Send(resultCh, w, "closed")[w] \in {resultCh[w], "closed"}
    BY <1>1, <2>2, SendIs
  <2>4. \A w \in Writer : resultCh'[w] \in {resultCh[w], "closed"}
    BY <2>1, <2>3
  <2>5. resultCh' \in [Writer -> Result \cup {Empty}]
    BY <1>1, <2>1, <2>2, <2>3
  <2> QED BY <2>4, <2>5
<1>6. ASSUME NEW n \in Node, Crash(n)
      PROVE  Goal
  <2> DEFINE lost == {r \in Request : at[r] = n /\ pc[r] # "done"}
  <2>1. resultCh' = [r \in Writer |-> IF r \in lost THEN Empty ELSE resultCh[r]]
    BY <1>6 DEF Crash
  <2> HIDE DEF lost
  <2>2. \A w \in Writer : resultCh'[w] \in {resultCh[w], Empty}
    BY <2>1
  <2>3. resultCh' \in [Writer -> Result \cup {Empty}]
    BY <1>1, <2>1
  <2> QED BY <2>2, <2>3
<1>7. CASE Consensus \/ UNCHANGED vars
  <2>1. resultCh' = resultCh
    BY <1>7 DEF Consensus, Lead, StepDown, Choose, Learn, vars, requestVars
  <2> QED BY <1>2, <2>1
<1>8. CASE \E n \in Node : Pipeline(n)
  <2>1. resultCh' = resultCh \/ \E n \in Node : Notify(n)
    BY <1>8 DEF Pipeline, Collect, SendApply, ApplyCommand, requestVars
  <2> QED BY <1>2, <1>4, <2>1
<1>9. CASE Write
  <2>1. resultCh' = resultCh \/ \E r \in Writer : Receive(r)
    BY <1>9 DEF Write, Register, ProposeAccepted, ProposeRefused, Closed, GiveUp
  <2>2. \A r \in Writer : Receive(r) => resultCh' = [resultCh EXCEPT ![r] = Empty]
    BY DEF Receive
  <2> QED BY <1>2, <1>3, <2>1, <2>2
<1>10. CASE Read
  <2>1. resultCh' = resultCh
    BY <1>10 DEF Read, GetAsLeader, GetIndex, GetValue, GetGiveUp, GetLocal
  <2> QED BY <1>2, <2>1
<1>11. CASE Stop
  <2>1. resultCh' = resultCh \/ \E n \in Node : CancelPending(n)
    BY <1>11 DEF Stop, CloseStopCh, LoopReturns, requestVars
  <2> QED BY <1>2, <1>5, <2>1
<1> QED BY <1>6, <1>7, <1>8, <1>9, <1>10, <1>11 DEF Next

\* What a step reveals of the log: the position of a command that succeeds, or the
\* earliest point that explains a value that is read.
LEMMA SeenIs ==
  ASSUME EntryInv, DataInv, [Next]_vars
  PROVE  /\ seen' \in Nat /\ seen <= seen'
         /\ \/ seen' = seen
            \/ \E r \in Writer : Receive(r) /\ resultCh[r] = "ok" /\ seen' \in Position(r)
            \/ \E r \in Reader \ LocalReader :
                 /\ GetValue(r)
                 /\ \A i \in floor[r]..Len(chosen) :
                      Replay(i)[cmd[r].key] = store[at[r]][cmd[r].key] => seen' <= i
<1>1. seen \in Nat /\ seen <= seen /\ Len(chosen) \in Nat /\ DOMAIN chosen = 1..Len(chosen)
  BY SMT DEF DataInv, EntryInv
<1>2. CASE seen' = seen
  BY <1>1, <1>2
<1>3. ASSUME NEW r \in Writer, Receive(r), resultCh[r] = "ok"
      PROVE  seen' \in Position(r) \cup {seen} /\ seen' \in Nat /\ seen <= seen'
  <2> DEFINE S == Position(r) \cup {seen}
  <2>1. seen' = Max(S)
    BY <1>3 DEF Receive
  <2>2. Position(r) \subseteq 1..Len(chosen)
    BY <1>1 DEF Position
  <2>3. S \in SUBSET Nat /\ S # {} /\ (\A x \in S : x <= Len(chosen) + seen) /\ Len(chosen) + seen \in Nat
    BY SMT, <1>1, <2>2
  <2>4. seen \in S
    OBVIOUS
  <2>5. S = Position(r) \cup {seen}
    BY SMT
  <2> HIDE DEF S
  <2>6. Max(S) \in S /\ \A y \in S : y <= Max(S)
    BY <2>3, MaxNat
  <2> QED BY <2>1, <2>3, <2>4, <2>5, <2>6
<1>4. ASSUME NEW r \in Reader \ LocalReader, GetValue(r)
      PROVE  /\ seen' \in Nat /\ seen <= seen'
             /\ \/ seen' = seen
                \/ \A i \in floor[r]..Len(chosen) :
                     Replay(i)[cmd[r].key] = store[at[r]][cmd[r].key] => seen' <= i
  <2> DEFINE S == {i \in floor[r]..Len(chosen) : Replay(i)[cmd[r].key] = store[at[r]][cmd[r].key]}
  <2>1. seen' = IF S = {} THEN seen ELSE Max({seen, Min(S)})
    BY <1>4 DEF GetValue
  <2>2. floor[r] \in Nat
    BY DEF DataInv
  <2>3. \A i \in floor[r]..Len(chosen) : i \in Nat
    BY SMT, <1>1, <2>2
  <2>4. S \in SUBSET Nat
    BY <2>3
  <2>5. \A i \in floor[r]..Len(chosen) :
          Replay(i)[cmd[r].key] = store[at[r]][cmd[r].key] => i \in S
    OBVIOUS
  <2> HIDE DEF S
  <2>6. CASE S = {}
    BY <1>1, <2>1, <2>6
  <2>7. CASE S # {}
    <3>1. Min(S) \in Nat /\ \A y \in S : Min(S) <= y
      BY <2>4, <2>7, MinNat
    <3>2. Max({seen, Min(S)}) \in {seen, Min(S)} /\ Max({seen, Min(S)}) >= seen
      BY <1>1, <3>1, MaxPair
    <3>3. seen' \in {seen, Min(S)} /\ seen' >= seen
      BY <2>1, <2>7, <3>2
    <3>4. seen' \in Nat /\ seen <= seen'
      BY SMT, <1>1, <3>1, <3>3
    <3> QED BY <2>5, <3>1, <3>3, <3>4
  <2> QED BY <2>6, <2>7
<1>5. CASE Write
  <2>1. seen' = seen \/ \E r \in Writer : Receive(r) /\ resultCh[r] = "ok"
    BY <1>5 DEF Write, Register, ProposeAccepted, ProposeRefused, Receive, Closed, GiveUp, historyVars
  <2> QED BY <1>2, <1>3, <2>1
<1>6. CASE Read
  <2>1. seen' = seen \/ \E r \in Reader \ LocalReader : GetValue(r)
    BY <1>6 DEF Read, GetAsLeader, GetIndex, GetGiveUp, GetLocal, historyVars
  <2> QED BY <1>2, <1>4, <2>1
<1>7. CASE \E n \in Node : Crash(n)
  <2>1. seen' = seen
    BY <1>7 DEF Crash
  <2> QED BY <1>2, <2>1
<1> QED BY <1>2, <1>5, <1>6, <1>7, RequestKinds

\* What a step of Get leaves in the variables of the reads.
LEMMA ReadIs ==
  ASSUME [Next]_vars
  PROVE  /\ \/ readIndex' = readIndex
            \/ \E r \in Reader : GetIndex(r) /\ readIndex' = [readIndex EXCEPT ![r] = commitIndex[at[r]]]
         /\ \/ value' = value
            \/ \E r \in Reader \ LocalReader :
                 GetValue(r) /\ value' = [value EXCEPT ![r] = store[at[r]][cmd[r].key]]
            \/ \E r \in LocalReader, n \in Node, key \in Key :
                 GetLocal(r, n, key) /\ value' = [value EXCEPT ![r] = store[n][key]]
         /\ \/ floor' = floor /\ started' = started
            \/ \E r \in Reader, n \in Node, key \in Key :
                 /\ GetAsLeader(r, n, key) /\ floor' = [floor EXCEPT ![r] = seen]
                 /\ started' = [started EXCEPT ![r] = Len(chosen)]
<1>1. CASE Read
  <2>1. \A r \in Reader, n \in Node, key \in Key : GetAsLeader(r, n, key) =>
          /\ readIndex' = readIndex /\ value' = value
          /\ floor' = [floor EXCEPT ![r] = seen] /\ started' = [started EXCEPT ![r] = Len(chosen)]
    BY DEF GetAsLeader
  <2>2. \A r \in Reader : GetIndex(r) =>
          /\ readIndex' = [readIndex EXCEPT ![r] = commitIndex[at[r]]]
          /\ value' = value /\ floor' = floor /\ started' = started
    BY DEF GetIndex, historyVars
  <2>3. \A r \in Reader : GetValue(r) =>
          /\ value' = [value EXCEPT ![r] = store[at[r]][cmd[r].key]]
          /\ readIndex' = readIndex /\ floor' = floor /\ started' = started
    BY DEF GetValue
  <2>4. \A r \in Reader : GetGiveUp(r) =>
          value' = value /\ readIndex' = readIndex /\ floor' = floor /\ started' = started
    BY DEF GetGiveUp, historyVars
  <2>5. \A r \in LocalReader, n \in Node, key \in Key : GetLocal(r, n, key) =>
          /\ value' = [value EXCEPT ![r] = store[n][key]]
          /\ readIndex' = readIndex /\ floor' = floor /\ started' = started
    BY DEF GetLocal, historyVars
  <2>6. CASE \E r \in Reader \ LocalReader, n \in Node, key \in Key : GetAsLeader(r, n, key)
    BY <2>1, <2>6
  <2>7. CASE \E r \in Reader \ LocalReader : GetIndex(r)
    BY <2>2, <2>7
  <2>8. CASE \E r \in Reader \ LocalReader : GetValue(r)
    BY <2>3, <2>8
  <2>9. CASE \E r \in Reader \ LocalReader : GetGiveUp(r)
    BY <2>4, <2>9
  <2>10. CASE \E r \in LocalReader, n \in Node, key \in Key : GetLocal(r, n, key)
    <3>1. PICK r \in LocalReader, n \in Node, key \in Key : GetLocal(r, n, key)
      BY <2>10
    <3>2. /\ value' = [value EXCEPT ![r] = store[n][key]]
          /\ readIndex' = readIndex /\ floor' = floor /\ started' = started
      BY <2>5, <3>1
    <3> QED BY <3>1, <3>2
  <2> QED BY <1>1, <2>6, <2>7, <2>8, <2>9, <2>10 DEF Read
<1>2. CASE Write \/ \E n \in Node : Crash(n)
  BY ZenonT(40), <1>2 DEF Write, Register, ProposeAccepted, ProposeRefused, Receive, Closed, GiveUp,
       Crash, historyVars
<1> QED BY <1>1, <1>2, RequestKinds

LEMMA DataStep ==
  ASSUME EntryInv, CommandInv, PendingInv, PcInv, ServerTypes, DataInv, [Next]_vars
  PROVE  DataInv'
<1>1. resultCh' \in [Writer -> Result \cup {Empty}]
  BY ResultIs
<1>2. seen' \in Nat
  BY SeenIs
<1>3. \A r \in Reader : pc[r] # "idle" => at[r] \in Node /\ cmd[r].key \in Key
  <2>1. \A c \in ReadCommand : c.key \in Key
    BY SMT DEF ReadCommand
  <2> QED BY <2>1 DEF PcInv, PcAt, Request
<1>4. readIndex' \in [Reader -> Nat]
  <2>1. readIndex \in [Reader -> Nat]
    BY DEF DataInv
  <2>2. ASSUME NEW r \in Reader, GetIndex(r) PROVE commitIndex[at[r]] \in Nat
    <3>1. pc[r] # "idle"
      BY <2>2 DEF GetIndex
    <3> QED BY <1>3, <3>1 DEF EntryInv
  <2> QED BY <2>1, <2>2, ReadIs, ExceptType
<1>5. value' \in [Reader -> Writer \cup {Absent}]
  <2>1. value \in [Reader -> Writer \cup {Absent}]
    BY DEF DataInv
  <2>2. \A n \in Node, key \in Key : store[n][key] \in Writer \cup {Absent}
    BY DEF ServerTypes
  <2>3. ASSUME NEW r \in Reader, GetValue(r) PROVE store[at[r]][cmd[r].key] \in Writer \cup {Absent}
    <3>1. pc[r] # "idle"
      BY <2>3 DEF GetValue
    <3> QED BY <1>3, <2>2, <3>1
  <2> QED BY ZenonT(40), <2>1, <2>2, <2>3, ReadIs, ExceptType, RequestAssumption
<1>6. floor' \in [Reader -> Nat] /\ started' \in [Reader -> Nat]
  <2>1. /\ floor \in [Reader -> Nat] /\ started \in [Reader -> Nat] /\ seen \in Nat
        /\ Len(chosen) \in Nat
    BY SMT DEF DataInv, EntryInv
  <2>2. \A r : /\ [floor EXCEPT ![r] = seen] \in [Reader -> Nat]
               /\ [started EXCEPT ![r] = Len(chosen)] \in [Reader -> Nat]
    BY <2>1, ExceptType
  <2>3. \/ floor' = floor /\ started' = started
        \/ \E r : floor' = [floor EXCEPT ![r] = seen] /\ started' = [started EXCEPT ![r] = Len(chosen)]
    BY ReadIs
  <2> QED BY <2>1, <2>2, <2>3
<1> QED BY <1>1, <1>2, <1>4, <1>5, <1>6 DEF DataInv

-----------------------------------------------------------------------------
(* What holds under all faults *)

ServerInv ==
  /\ EntryInv /\ CommandInv /\ PendingInv
  /\ PipeInv /\ ServerTypes /\ PcInv /\ DataInv
  /\ ValueInv /\ HighInv

LEMMA ServerStart ==
  ASSUME Init
  PROVE  ServerInv
<1>1. EntryInv
  BY SMT DEF Init, EntryInv
<1>2. CommandInv
  BY SMT DEF Init, CommandInv, Request
<1>3. PendingInv
  BY DEF Init, PendingInv, RegisteredIsWaiting
<1>4. \A n \in Node : /\ toApply[n] = << >> /\ applyCh[n] = << >> /\ lastApplied[n] = 0
                      /\ commitIndex[n] = 0 /\ highest[n] = 0
  BY DEF Init
<1>5. /\ Len(<< >>) = 0 /\ DOMAIN << >> = {} /\ 0 + 0 <= 0 /\ 0 <= 0 /\ 0 - 0 - 0 = 0 /\ 0 \in 0..0
      /\ 0 \in Nat
  BY SMT
<1>6. PipeInv
  BY <1>4, <1>5 DEF PipeInv, PipeAt
<1>7. ServerTypes
  BY <1>5 DEF Init, ServerTypes
<1>8. PcInv
  <2>1. "idle" \in Pc /\ "none" \in Answer
    BY SMT DEF Pc, Answer
  <2> QED BY <2>1 DEF Init, PcInv, PcAt
<1>9. DataInv
  BY <1>5 DEF Init, DataInv
<1>10. chosen = << >>
  BY DEF Init
<1>11. HighInv
  BY <1>4, <1>5, <1>10 DEF HighInv, Applied
<1>12. ValueInv
  <2>1. ASSUME NEW n \in Node, NEW key \in Key
        PROVE  \E k \in 0..Len(chosen) : store[n][key] = Replay(k)[key]
    <3>1. store[n][key] = Absent
      BY DEF Init
    <3>2. Replay(0)[key] = Absent
      BY <1>5, ReplayNext
    <3> QED BY <1>5, <1>10, <3>1, <3>2
  <2> QED BY <2>1 DEF ValueInv
<1> QED BY <1>1, <1>2, <1>3, <1>6, <1>7, <1>8, <1>9, <1>11, <1>12 DEF ServerInv

LEMMA ServerStep ==
  ASSUME ServerInv, [Next]_vars
  PROVE  ServerInv'
<1>1. /\ EntryInv /\ CommandInv /\ PendingInv /\ PipeInv /\ ServerTypes /\ PcInv /\ DataInv
      /\ ValueInv /\ HighInv
  BY DEF ServerInv
<1>2. EntryInv' /\ CommandInv' /\ PendingInv'
  BY <1>1, EntryStep, CommandStep, PendingStep
<1>3. PipeInv'
  BY <1>1, <1>2, PipeStep
<1>4. ServerTypes' /\ ValueInv'
  BY <1>1, ServerTypesStep, ValueStep
<1>5. DataInv'
  BY <1>1, DataStep
<1>6. resultCh \in [Writer -> Result \cup {Empty}]
  BY <1>1 DEF DataInv
<1>7. PcInv'
  BY <1>1, <1>6, RequestFixed
<1>8. HighInv'
  BY <1>1, <1>4, HighStep
<1> QED BY <1>2, <1>3, <1>4, <1>5, <1>7, <1>8 DEF ServerInv

\* Every variable of the servers keeps its type: what applyLoop hands to the server
\* are entries of the log, what handleApplyMsg stores are values that Puts wrote, and
\* every request that returns has an answer.
THEOREM TypeCorrect == Spec => []TypeOK
<1>1. Init => ServerInv
  BY ServerStart
<1>2. ServerInv /\ [Next]_vars => ServerInv'
  BY ServerStep
<1>3. ServerInv => TypeOK
  <2> SUFFICES ASSUME ServerInv PROVE TypeOK
    BY SMT
  <2>1. /\ proposed \subseteq Command /\ chosen \in Seq(Entry) /\ commitIndex \in [Node -> Nat]
        /\ lastApplied \in [Node -> Nat] /\ toApply \in [Node -> Seq(Entry)]
        /\ applyCh \in [Node -> Seq(Entry)]
        /\ notifying \in [Node -> [id : Nat \ {0}, result : {"ok", "error"}] \cup {NoOp}]
    BY DEF ServerInv, EntryInv
  <2>2. nextRequestID \in [Node -> Nat] /\ pendingOps \in [Node -> [Writer -> Nat]]
    BY DEF ServerInv, CommandInv, PendingInv
  <2>3. ServerTypes /\ DataInv
    BY DEF ServerInv
  <2>4. /\ pc \in [Request -> Pc] /\ at \in [Request -> Node \cup {Nowhere}]
        /\ answer \in [Request -> Answer]
        /\ \A r \in Writer : pc[r] # "idle" => cmd[r] \in Command
        /\ \A r \in Reader : pc[r] # "idle" => cmd[r] \in ReadCommand
    BY DEF ServerInv, PcInv, PcAt, Request
  <2> QED BY <2>1, <2>2, <2>3, <2>4 DEF TypeOK, ServerTypes, DataInv, Pc, ReadCommand
<1> QED BY <1>1, <1>2, <1>3, PTL DEF Spec

\* A store that has caught up with what it ever held is the replay of the log, however
\* often nodes crash and replay it: for every capacity of applyCh and every length of
\* the log, when the storage neither fails to read the log nor to write the store.
THEOREM StoresCorrect == {"read", "apply"} \cap StorageFaults = {} => (Spec => []StoreIsReplay)
<1> SUFFICES ASSUME {"read", "apply"} \cap StorageFaults = {}
             PROVE  Spec => []StoreIsReplay
  BY SMT
<1>1. "read" \notin StorageFaults /\ "apply" \notin StorageFaults
  OBVIOUS
<1> DEFINE IInv == ServerInv /\ StoreInv
<1>2. Init => IInv
  <2> SUFFICES ASSUME Init PROVE IInv
    BY SMT
  <2>1. \A n \in Node : toApply[n] = << >> /\ applyCh[n] = << >> /\ lastApplied[n] = 0
    BY DEF Init
  <2>2. Len(<< >>) = 0 /\ 0 - 0 - 0 = 0
    BY SMT
  <2>3. \A n \in Node : Applied(n) = 0
    BY <2>1, <2>2 DEF Applied
  <2>4. StoreInv
    BY <2>3, WrittenNone DEF StoreInv, Init
  <2> QED BY <2>4, ServerStart
<1>3. IInv /\ [Next]_vars => IInv'
  <2> SUFFICES ASSUME ServerInv, StoreInv, [Next]_vars PROVE ServerInv' /\ StoreInv'
    OBVIOUS
  <2>1. ServerInv'
    BY ServerStep
  <2>2. EntryInv /\ PipeInv /\ ServerTypes /\ HighInv /\ HighInv'
    BY <2>1 DEF ServerInv
  <2> QED BY <1>1, <2>1, <2>2, StoreStep
<1>4. IInv => StoreIsReplay
  BY <1>1, StoreIsReplayed DEF ServerInv
<1> HIDE DEF IInv
<1> QED BY <1>2, <1>3, <1>4, PTL DEF Spec

\* How a Get comes to succeed, and that its answer then stays.
LEMMA ReadAnswers ==
  ASSUME CommandInv, PcInv, DataInv, [Next]_vars, NEW r \in Reader, answer'[r] = "ok"
  PROVE  \/ /\ answer[r] = "ok" /\ cmd'[r] = cmd[r] /\ value'[r] = value[r]
            /\ floor'[r] = floor[r]
         \/ \E n \in Node, key \in Key :
              /\ r \in LocalReader /\ GetLocal(r, n, key)
              /\ cmd'[r].key = key /\ value'[r] = store[n][key]
         \/ /\ r \notin LocalReader /\ GetValue(r) /\ cmd'[r] = cmd[r] /\ floor'[r] = floor[r]
            /\ value'[r] = store[at[r]][cmd[r].key]
<1>1. /\ r \in Request /\ r \notin Writer /\ LocalReader \subseteq Reader
      /\ \A w \in Writer : w \in Request /\ r \in Request \ {w}
  BY RequestAssumption DEF Request
<1>2. /\ DOMAIN pc = Request /\ DOMAIN cmd = Request /\ DOMAIN answer = Request
      /\ DOMAIN value = Reader /\ DOMAIN floor = Reader
  BY DEF PcInv, CommandInv, DataInv
<1>3. ASSUME answer[r] = "ok"
      PROVE  cmd'[r] = cmd[r] /\ value'[r] = value[r] /\ floor'[r] = floor[r]
  <2>1. pc[r] = "done"
    BY <1>1, <1>3 DEF PcInv, PcAt
  <2>2. resultCh \in [Writer -> Result \cup {Empty}] /\ pc[r] # "idle"
    BY <2>1 DEF DataInv
  <2>3. cmd'[r] = cmd[r]
    BY <1>1, <2>2, RequestFixed
  <2>4. \A w : GetValue(w) => pc[w] = "get"
    BY DEF GetValue
  <2>5. \A w, n, key : GetLocal(w, n, key) \/ GetAsLeader(w, n, key) => pc[w] = "idle"
    BY DEF GetLocal, GetAsLeader
  <2>6. \A w \in Reader : \A v : w # r => [value EXCEPT ![w] = v][r] = value[r]
                                         /\ [floor EXCEPT ![w] = v][r] = floor[r]
    BY <1>2
  <2>7. value'[r] = value[r]
    <3>1. value' = value \/ \E w \in Reader : \E v : w # r /\ value' = [value EXCEPT ![w] = v]
      BY ZenonT(40), <1>1, <2>1, <2>4, <2>5, ReadIs
    <3> QED BY ZenonT(40), <2>6, <3>1
  <2>8. floor'[r] = floor[r]
    <3>1. floor' = floor \/ \E w \in Reader : \E v : w # r /\ floor' = [floor EXCEPT ![w] = v]
      <4>1. \/ floor' = floor
            \/ \E w \in Reader : \E n, key : GetAsLeader(w, n, key) /\ floor' = [floor EXCEPT ![w] = seen]
        BY ReadIs
      <4> QED BY <2>1, <2>5, <4>1
    <3> QED BY ZenonT(40), <2>6, <3>1
  <2> QED BY <2>3, <2>7, <2>8
<1>4. CASE answer[r] = "ok"
  BY <1>3, <1>4
<1>5. CASE answer[r] # "ok"
  <2>1. ~Write
    <3> SUFFICES ASSUME Write PROVE FALSE
      BY SMT
    <3>1. resultCh \in [Writer -> Result \cup {Empty}]
      BY DEF DataInv
    <3>2. PICK w \in Writer, p \in {"propose", "wait", "done"}, m \in Node, c \in Command, a \in Answer :
            Moves(w, p, m, c, a)
      BY <3>1, WriteMoves
    <3>3. answer'[r] = answer[r]
      BY <1>1, <3>2, MovesIs
    <3> QED BY <1>5, <3>3
  <2>2. ~(\E n \in Node : Crash(n))
    BY <1>1, <1>5, CrashIs
  <2>3. Read
    BY <1>5, <2>1, <2>2, RequestKinds
  <2>4. \A w \in Reader : \A a : answer' = [answer EXCEPT ![w] = a] => w = r /\ a = "ok"
    <3> SUFFICES ASSUME NEW w \in Reader, NEW a, answer' = [answer EXCEPT ![w] = a]
                 PROVE  w = r /\ a = "ok"
      OBVIOUS
    <3>1. w \in Request
      BY DEF Request
    <3> QED BY <1>1, <1>2, <1>5, <3>1, ExceptIs
  <2>5. CASE \E n \in Node, key \in Key, w \in LocalReader : GetLocal(w, n, key)
    <3>1. PICK n \in Node, key \in Key, w \in LocalReader : GetLocal(w, n, key)
      BY <2>5
    <3>2. /\ answer' = [answer EXCEPT ![w] = "ok"] /\ value' = [value EXCEPT ![w] = store[n][key]]
          /\ cmd' = [cmd EXCEPT ![w] = [op |-> "Get", key |-> key]]
      BY <3>1 DEF GetLocal, Return
    <3>3. w = r
      BY <1>1, <2>4, <3>2
    <3>4. value'[r] = store[n][key] /\ cmd'[r] = [op |-> "Get", key |-> key]
      BY <1>1, <1>2, <3>2, <3>3
    <3>5. cmd'[r].key = key
      BY SMT, <3>4
    <3> QED BY <3>1, <3>3, <3>4, <3>5
  <2>6. CASE \E w \in Reader \ LocalReader : GetValue(w)
    <3>1. PICK w \in Reader \ LocalReader : GetValue(w)
      BY <2>6
    <3>2. /\ answer' = [answer EXCEPT ![w] = "ok"] /\ cmd' = cmd /\ floor' = floor
          /\ value' = [value EXCEPT ![w] = store[at[w]][cmd[w].key]]
      BY <3>1 DEF GetValue, Return
    <3>3. w = r
      BY <2>4, <3>2
    <3>4. value'[r] = store[at[r]][cmd[r].key]
      BY <1>2, <3>2, <3>3
    <3> QED BY <3>1, <3>2, <3>3, <3>4
  <2>7. CASE \E w \in Reader \ LocalReader :
               \/ \E n \in Node, key \in Key : GetAsLeader(w, n, key)
               \/ GetIndex(w) \/ GetGiveUp(w)
    <3>1. PICK w \in Reader \ LocalReader :
            answer' = answer \/ \E a \in {"notLeader", "timeout"} : answer' = [answer EXCEPT ![w] = a]
      BY <2>7 DEF GetAsLeader, GetIndex, GetGiveUp, Return
    <3> QED BY <1>5, <2>4, <3>1
  <2> QED BY <2>3, <2>5, <2>6, <2>7 DEF Read
<1> QED BY <1>4, <1>5

\* A Get that does not ask for a linearizable read returns a value that was committed
\* for its key at some point, whatever fails: a store only ever holds such values.
THEOREM LocalReadsCorrect == Spec => []ReadsCommitted
<1> DEFINE IInv == ServerInv /\ ReadsCommitted
<1>1. Init => IInv
  <2>1. ASSUME Init PROVE ReadsCommitted
    <3>1. \A r \in LocalReader : answer[r] # "ok"
      BY <2>1, RequestAssumption DEF Init, Request
    <3> QED BY <3>1 DEF ReadsCommitted
  <2> QED BY <2>1, ServerStart
<1>2. IInv /\ [Next]_vars => IInv'
  <2> SUFFICES ASSUME ServerInv, ReadsCommitted, [Next]_vars PROVE ServerInv' /\ ReadsCommitted'
    OBVIOUS
  <2>1. ServerInv'
    BY ServerStep
  <2>2. EntryInv /\ CommandInv /\ PcInv /\ DataInv /\ ServerTypes /\ ValueInv
    BY DEF ServerInv
  <2>3. Len(chosen) \in Nat /\ Len(chosen') \in Nat /\ Len(chosen) <= Len(chosen')
    <3>1. Len(chosen) \in Nat /\ Len(chosen') \in Nat /\ Len(chosen') >= Len(chosen)
      BY <2>2, ChosenGrows
    <3> QED BY SMT, <3>1
  <2>4. \A i \in 0..Len(chosen) : i \in Nat /\ i <= Len(chosen) /\ i \in 0..Len(chosen')
    BY SMT, <2>3
  <2>5. \A c \in ReadCommand : c.key \in Key
    BY SMT DEF ReadCommand
  <2>6. ASSUME NEW r \in LocalReader, answer'[r] = "ok"
        PROVE  \E i \in 0..Len(chosen') : Replay(i)'[cmd'[r].key] = value'[r]
    <3>1. r \in Reader /\ r \in Request
      BY RequestAssumption DEF Request
    <3>2. ASSUME NEW key \in Key, NEW i \in 0..Len(chosen), Replay(i)[key] = value'[r],
                 cmd'[r].key = key
          PROVE  \E j \in 0..Len(chosen') : Replay(j)'[cmd'[r].key] = value'[r]
      <4>1. Replay(i)'[key] = Replay(i)[key]
        BY <2>2, <2>4, ReplayStays
      <4> QED BY <2>4, <3>2, <4>1
    <3>3. CASE answer[r] = "ok" /\ cmd'[r] = cmd[r] /\ value'[r] = value[r]
      <4>1. cmd[r].key \in Key
        BY <2>2, <2>5, <3>1, <3>3 DEF PcInv, PcAt
      <4>2. PICK i \in 0..Len(chosen) : Replay(i)[cmd[r].key] = value[r]
        BY <3>3 DEF ReadsCommitted
      <4> QED BY <3>2, <3>3, <4>1, <4>2
    <3>4. ASSUME NEW n \in Node, NEW key \in Key, cmd'[r].key = key, value'[r] = store[n][key]
          PROVE  \E j \in 0..Len(chosen') : Replay(j)'[cmd'[r].key] = value'[r]
      <4>1. PICK i \in 0..Len(chosen) : store[n][key] = Replay(i)[key]
        BY <2>2 DEF ValueInv
      <4> QED BY <3>2, <3>4, <4>1
    <3> QED BY <2>2, <2>6, <3>1, <3>3, <3>4, ReadAnswers
  <2> QED BY <2>1, <2>6 DEF ReadsCommitted
<1>3. IInv => ReadsCommitted
  OBVIOUS
<1> HIDE DEF IInv
<1> QED BY <1>1, <1>2, <1>3, PTL DEF Spec

=============================================================================
