--------------------------- MODULE KVAnswerProofs ---------------------------
(***************************************************************************)
(* What the answers of the key-value servers are worth, for any numbers of *)
(* nodes, keys and requests and all bounds, where one node leads and until *)
(* a process restarts.  Request IDs are then unique, and what was answered *)
(* is in the store that answers.                                           *)
(***************************************************************************)
EXTENDS KVServerProofs

-----------------------------------------------------------------------------
(* Where commands come from.  A step that names no prover is Zenon's. *)

USE Zenon

\* The commands that are proposed and chosen are those of requests at a node that
\* may lead, and no command is chosen twice.
OriginInv ==
  /\ \A n \in Node : leading[n] => n \in Electing
  /\ \A c \in proposed : \E w \in Writer : pc[w] # "idle" /\ at[w] \in Electing /\ cmd[w] = c
  /\ \A i \in DOMAIN chosen : chosen[i] \in proposed \cup {NoOp}
  /\ \A i, j \in DOMAIN chosen : chosen[i] = chosen[j] /\ chosen[i] # NoOp => i = j

LEMMA LeadingKinds ==
  ASSUME ServerTypes, [Next]_vars, NEW n \in Node, leading'[n]
  PROVE  leading[n] \/ n \in Electing
<1>1. DOMAIN leading = Node
  BY DEF ServerTypes
<1>2. ASSUME NEW m \in Node, leading' = [leading EXCEPT ![m] = FALSE]
      PROVE  leading[n]
  <2>1. leading'[m] = FALSE /\ \A y \in Node \ {m} : leading'[y] = leading[y]
    BY <1>1, <1>2, ExceptIs
  <2> QED BY <2>1
<1>3. ASSUME NEW m \in Node, Lead(m)
      PROVE  leading[n] \/ n \in Electing
  <2>1. leading' = [leading EXCEPT ![m] = TRUE] /\ m \in Electing
    BY <1>3 DEF Lead
  <2>2. \A y \in Node \ {m} : leading'[y] = leading[y]
    BY <1>1, <2>1, ExceptIs
  <2> QED BY <2>1, <2>2
<1>4. CASE Consensus \/ UNCHANGED vars
  <2>1. \/ leading' = leading \/ \E m \in Node : Lead(m)
        \/ \E m \in Node : leading' = [leading EXCEPT ![m] = FALSE]
    BY <1>4 DEF Consensus, StepDown, Choose, Learn, vars, consensusVars
  <2> QED BY <1>2, <1>3, <2>1
<1>5. CASE \E m \in Node : Pipeline(m)
  <2>1. leading' = leading
    BY <1>5 DEF Pipeline, Collect, SendApply, ApplyCommand, Notify, consensusVars
  <2> QED BY <2>1
<1>6. CASE Write
  <2>1. leading' = leading
    BY <1>6 DEF Write, Register, ProposeAccepted, ProposeRefused, Receive, Closed, GiveUp,
         consensusVars
  <2> QED BY <2>1
<1>7. CASE Read \/ Stop
  <2>1. leading' = leading
    BY <1>7 DEF Read, GetAsLeader, GetIndex, GetValue, GetGiveUp, GetLocal, Stop,
         CancelPending, CloseStopCh, LoopReturns, consensusVars
  <2> QED BY <2>1
<1>8. ASSUME NEW m \in Node, Crash(m) PROVE leading[n]
  <2>1. leading' = [leading EXCEPT ![m] = FALSE]
    BY <1>8 DEF Crash
  <2> QED BY <1>2, <2>1
<1> QED BY <1>4, <1>5, <1>6, <1>7, <1>8 DEF Next

LEMMA ProposedKinds ==
  ASSUME [Next]_vars
  PROVE  \/ proposed' = proposed
         \/ \E r \in Writer : ProposeAccepted(r) /\ proposed' = proposed \cup {cmd[r]}
<1>1. CASE Write
  BY ZenonT(40), <1>1 DEF Write, Register, ProposeAccepted, ProposeRefused, Receive, Closed, GiveUp,
       consensusVars
<1>2. CASE Read
  BY <1>2 DEF Read, GetAsLeader, GetIndex, GetValue, GetGiveUp, GetLocal, consensusVars
<1>3. CASE \E n \in Node : Crash(n)
  BY <1>3 DEF Crash
<1> QED BY <1>1, <1>2, <1>3, RequestKinds

LEMMA ChosenKinds ==
  ASSUME [Next]_vars
  PROVE  chosen' = chosen \/ \E n \in Node, e \in proposed \cup {NoOp} : Choose(n, e)
<1>1. ASSUME NEW n \in Node,
             \/ \E i \in DOMAIN chosen : Learn(n, i)
             \/ \E k \in 1..commitIndex[n], failed \in BOOLEAN : Collect(n, k, failed)
             \/ SendApply(n) \/ (\E result \in {"ok", "error"} : ApplyCommand(n, result)) \/ Crash(n)
      PROVE  chosen' = chosen
  BY <1>1 DEF Learn, Collect, SendApply, ApplyCommand, Crash, consensusVars
<1> QED BY <1>1, PipeKinds

LEMMA OriginStep ==
  ASSUME ServerInv, OriginInv, [Next]_vars
  PROVE  OriginInv'
<1>1. /\ EntryInv /\ CommandInv /\ PcInv /\ ServerTypes /\ resultCh \in [Writer -> Result \cup {Empty}]
      /\ \A r \in Writer : r \in Request
  BY DEF ServerInv, DataInv, Request
<1>2. \A w \in Writer : pc[w] # "idle" => pc'[w] # "idle" /\ at'[w] = at[w] /\ cmd'[w] = cmd[w]
  BY <1>1, RequestFixed
<1>3. \A n \in Node : leading'[n] => n \in Electing
  BY <1>1, LeadingKinds DEF OriginInv
<1>4. \A c \in proposed : \E w \in Writer : pc'[w] # "idle" /\ at'[w] \in Electing /\ cmd'[w] = c
  BY <1>2 DEF OriginInv
<1>5. ASSUME NEW r \in Writer, ProposeAccepted(r)
      PROVE  \E w \in Writer : pc'[w] # "idle" /\ at'[w] \in Electing /\ cmd'[w] = cmd[r]
  <2>1. pc[r] = "propose" /\ leading[at[r]]
    BY <1>5 DEF ProposeAccepted
  <2>2. pc[r] # "idle" /\ at[r] \in Node
    BY <1>1, <2>1 DEF PcInv, PcAt
  <2> QED BY <1>2, <2>1, <2>2 DEF OriginInv
<1>6. \A c \in proposed' : \E w \in Writer : pc'[w] # "idle" /\ at'[w] \in Electing /\ cmd'[w] = c
  <2>1. CASE proposed' = proposed
    BY <1>4, <2>1
  <2>2. ASSUME NEW r \in Writer, ProposeAccepted(r), proposed' = proposed \cup {cmd[r]},
               NEW c \in proposed'
        PROVE  \E w \in Writer : pc'[w] # "idle" /\ at'[w] \in Electing /\ cmd'[w] = c
    <3>1. c \in proposed \/ c = cmd[r]
      BY <2>2
    <3> QED BY <1>4, <1>5, <2>2, <3>1
  <2> QED BY <2>1, <2>2, ProposedKinds
<1>7. proposed \subseteq proposed'
  BY ProposedKinds
<1>8. CASE chosen' = chosen
  BY <1>3, <1>6, <1>7, <1>8 DEF OriginInv
<1>9. ASSUME NEW n \in Node, NEW e \in proposed \cup {NoOp}, Choose(n, e)
      PROVE  OriginInv'
  <2>1. chosen' = Append(chosen, e) /\ (e = NoOp \/ \A i \in DOMAIN chosen : chosen[i] # e)
    BY <1>9 DEF Choose
  <2>2. chosen \in Seq(Entry) /\ e \in Entry
    BY <1>1 DEF EntryInv, Entry
  <2>3. /\ DOMAIN chosen = 1..Len(chosen)
        /\ \A i \in 1..Len(chosen) : Append(chosen, e)[i] = chosen[i]
        /\ \A i \in DOMAIN Append(chosen, e) :
             i \in DOMAIN chosen \/ (i = Len(chosen) + 1 /\ Append(chosen, e)[i] = e)
    BY ZenonT(40), <2>2, AppendIs
  <2>4. \A i \in DOMAIN chosen' : \/ i \in DOMAIN chosen /\ chosen'[i] = chosen[i]
                                  \/ i = Len(chosen) + 1 /\ chosen'[i] = e
    BY <2>1, <2>3
  <2>5. \A i \in DOMAIN chosen' : chosen'[i] \in proposed' \cup {NoOp}
    BY <1>7, <2>4 DEF OriginInv
  <2>6. ASSUME NEW i \in DOMAIN chosen', NEW j \in DOMAIN chosen', chosen'[i] = chosen'[j],
               chosen'[i] # NoOp
        PROVE  i = j
    <3>1. CASE i \in DOMAIN chosen /\ chosen'[i] = chosen[i]
      BY <2>1, <2>4, <2>6, <3>1 DEF OriginInv
    <3>2. CASE i = Len(chosen) + 1 /\ chosen'[i] = e
      BY <2>1, <2>4, <2>6, <3>2
    <3> QED BY <2>4, <3>1, <3>2
  <2> QED BY <1>3, <1>6, <2>5, <2>6 DEF OriginInv
<1> QED BY <1>8, <1>9, ChosenKinds

-----------------------------------------------------------------------------
(* Request IDs *)

\* Until a node restarts it gives every request an ID of its own.
IdInv ==
  /\ \A w \in Writer : pc[w] # "idle" => cmd[w].id <= nextRequestID[at[w]]
  /\ \A v, w \in Writer :
       pc[v] # "idle" /\ pc[w] # "idle" /\ at[v] = at[w] /\ cmd[v].id = cmd[w].id => v = w
  /\ \A n \in Node, w \in Writer : pendingOps[n][w] # 0 => pendingOps[n][w] = cmd[w].id

LEMMA Over == \A a, b \in Nat : a <= b => a <= b + 1 /\ a # b + 1
BY SMT

LEMMA UpTo == \A a \in Nat : a + 1 <= a + 1 /\ a <= a
BY SMT

LEMMA RegisterIs ==
  ASSUME CommandInv, PcInv, PendingInv, NEW r \in Writer, NEW n \in Node, NEW op \in Op,
         NEW key \in Key, Register(r, n, op, key)
  PROVE  /\ pc[r] = "idle" /\ pc'[r] # "idle" /\ at'[r] = n /\ cmd'[r].id = nextRequestID[n] + 1
         /\ \A w \in Writer \ {r} : pc'[w] = pc[w] /\ at'[w] = at[w] /\ cmd'[w] = cmd[w]
         /\ nextRequestID'[n] = nextRequestID[n] + 1
         /\ \A m \in Node \ {n} : nextRequestID'[m] = nextRequestID[m]
         /\ pendingOps'[n][r] = nextRequestID[n] + 1
         /\ \A m \in Node, w \in Writer :
              m # n \/ w # r => pendingOps'[m][w] = pendingOps[m][w]
<1>1. /\ DOMAIN pc = Request /\ DOMAIN at = Request /\ DOMAIN cmd = Request
      /\ DOMAIN nextRequestID = Node /\ pendingOps \in [Node -> [Writer -> Nat]]
      /\ r \in Request /\ \A w \in Writer : w \in Request
  BY DEF CommandInv, PcInv, PendingInv, Request
<1> DEFINE id == nextRequestID[n] + 1
           c == [op |-> op, key |-> key, id |-> id, by |-> r]
<1>2. /\ pc[r] = "idle" /\ nextRequestID' = [nextRequestID EXCEPT ![n] = id]
      /\ pendingOps' = [pendingOps EXCEPT ![n][r] = id]
      /\ cmd' = [cmd EXCEPT ![r] = c] /\ at' = [at EXCEPT ![r] = n]
      /\ pc' = [pc EXCEPT ![r] = "propose"]
  BY DEF Register
<1>3. c.id = id
  BY SMT
<1> HIDE DEF c, id
<1>4. pc'[r] = "propose" /\ \A w \in Request \ {r} : pc'[w] = pc[w]
  BY <1>1, <1>2, ExceptIs
<1>5. at'[r] = n /\ \A w \in Request \ {r} : at'[w] = at[w]
  BY <1>1, <1>2, ExceptIs
<1>6. cmd'[r] = c /\ \A w \in Request \ {r} : cmd'[w] = cmd[w]
  BY <1>1, <1>2, ExceptIs
<1>7. nextRequestID'[n] = id /\ \A m \in Node \ {n} : nextRequestID'[m] = nextRequestID[m]
  BY <1>1, <1>2, ExceptIs
<1>8. /\ pendingOps'[n][r] = id
      /\ \A m \in Node, w \in Writer : m # n \/ w # r => pendingOps'[m][w] = pendingOps[m][w]
  BY SMT, <1>1, <1>2
<1> QED BY <1>1, <1>2, <1>3, <1>4, <1>5, <1>6, <1>7, <1>8 DEF id

\* Any other step, but for a crash, gives no ID and registers nobody.
LEMMA NoRegister ==
  ASSUME ServerInv, [Next]_vars
  PROVE  \/ \E r \in Writer, n \in Node, op \in Op, key \in Key : Register(r, n, op, key)
         \/ \E n \in Node : Crash(n)
         \/ /\ nextRequestID' = nextRequestID
            /\ \A w \in Writer : pc'[w] # "idle" => pc[w] # "idle"
            /\ \A n \in Node, w \in Writer : pendingOps'[n][w] \in {pendingOps[n][w], 0}
<1> DEFINE Goal == /\ nextRequestID' = nextRequestID
                   /\ \A w \in Writer : pc'[w] # "idle" => pc[w] # "idle"
                   /\ \A n \in Node, w \in Writer : pendingOps'[n][w] \in {pendingOps[n][w], 0}
<1>1. /\ CommandInv /\ PcInv /\ pendingOps \in [Node -> [Writer -> Nat]]
      /\ \A w \in Writer : w \in Request /\ w \notin Reader
  BY RequestAssumption DEF ServerInv, PendingInv, Request
<1>2. \A m \in Node, r \in Writer : \A n \in Node, w \in Writer :
        [pendingOps EXCEPT ![m][r] = 0][n][w] \in {pendingOps[n][w], 0}
  BY SMT, <1>1
<1>3. ASSUME NEW m \in Node, pendingOps' = [pendingOps EXCEPT ![m] = [r \in Writer |-> 0]]
      PROVE  \A n \in Node, w \in Writer : pendingOps'[n][w] \in {pendingOps[n][w], 0}
  BY SMT, <1>1, <1>3
<1>4. CASE pendingOps' = pendingOps /\ pc' = pc /\ nextRequestID' = nextRequestID
  BY <1>4
<1>5. CASE Consensus \/ UNCHANGED vars
  <2>1. pendingOps' = pendingOps /\ pc' = pc /\ nextRequestID' = nextRequestID
    BY <1>5 DEF Consensus, Lead, StepDown, Choose, Learn, vars, serverVars, requestVars
  <2> QED BY <1>4, <2>1
<1>6. CASE \E n \in Node : Pipeline(n)
  <2>1. ASSUME NEW n \in Node,
               \/ \E k \in 1..commitIndex[n], failed \in BOOLEAN : Collect(n, k, failed)
               \/ SendApply(n) \/ \E result \in {"ok", "error"} : ApplyCommand(n, result)
        PROVE  Goal
    <3>1. pendingOps' = pendingOps /\ pc' = pc /\ nextRequestID' = nextRequestID
      BY <2>1 DEF Collect, SendApply, ApplyCommand, serverVars, requestVars
    <3> QED BY <1>4, <3>1
  <2>2. ASSUME NEW n \in Node, Notify(n) PROVE Goal
    <3>1. pc' = pc /\ nextRequestID' = nextRequestID
      BY <2>2 DEF Notify
    <3>2. pendingOps' = pendingOps \/ \E r \in Writer : pendingOps' = [pendingOps EXCEPT ![n][r] = 0]
      BY <2>2 DEF Notify, Registered, Unregister
    <3>3. \A m \in Node, w \in Writer : pendingOps'[m][w] \in {pendingOps[m][w], 0}
      BY <1>2, <3>2
    <3> QED BY <3>1, <3>3
  <2> QED BY <1>6, <2>1, <2>2 DEF Pipeline
<1>7. ASSUME NEW r \in Writer,
             ProposeAccepted(r) \/ ProposeRefused(r) \/ Receive(r) \/ Closed(r) \/ GiveUp(r)
      PROVE  Goal
  <2>1. /\ pc[r] \in {"propose", "wait"} /\ nextRequestID' = nextRequestID
        /\ pc' = [pc EXCEPT ![r] = "wait"] \/ pc' = [pc EXCEPT ![r] = "done"]
        /\ pendingOps' = pendingOps \/ pendingOps' = [pendingOps EXCEPT ![at[r]][r] = 0]
    BY <1>7 DEF ProposeAccepted, ProposeRefused, Receive, Closed, GiveUp, Return, Unregister,
         serverVars
  <2>2. pc[r] # "idle"
    BY <2>1
  <2>3. at[r] \in Node
    BY <1>1, <2>2 DEF PcInv, PcAt
  <2>4. DOMAIN pc = Request
    BY <1>1 DEF CommandInv
  <2>5. \A w \in Request \ {r} : pc'[w] = pc[w]
    BY <1>1, <2>1, <2>4, ExceptIs
  <2>6. \A m \in Node, w \in Writer : pendingOps'[m][w] \in {pendingOps[m][w], 0}
    BY <1>2, <2>1, <2>3
  <2> QED BY <1>1, <2>1, <2>2, <2>5, <2>6
<1>8. CASE Write
  <2>1. PICK r \in Writer :
          \/ \E n \in Node, op \in Op, key \in Key : Register(r, n, op, key)
          \/ ProposeAccepted(r) \/ ProposeRefused(r) \/ Receive(r) \/ Closed(r) \/ GiveUp(r)
    BY <1>8 DEF Write
  <2> QED BY <1>7, <2>1
<1>9. CASE Read
  <2>1. pendingOps' = pendingOps /\ nextRequestID' = nextRequestID
    BY <1>9 DEF Read, GetAsLeader, GetIndex, GetValue, GetGiveUp, GetLocal, serverVars
  <2>2. PICK r \in Reader, p \in {"index", "get", "done"}, m \in Node, c \in ReadCommand, a \in Answer :
          Moves(r, p, m, c, a)
    BY <1>1, <1>9, ReadMoves
  <2>3. r \in Request
    BY DEF Request
  <2>4. \A w \in Writer : pc'[w] = pc[w]
    BY <1>1, <2>2, <2>3, MovesIs
  <2> QED BY <2>1, <2>4
<1>10. CASE Stop
  <2>1. pc' = pc /\ nextRequestID' = nextRequestID
    BY <1>10 DEF Stop, CancelPending, CloseStopCh, LoopReturns, requestVars
  <2>2. pendingOps' = pendingOps
        \/ \E n \in Node : pendingOps' = [pendingOps EXCEPT ![n] = [r \in Writer |-> 0]]
    BY <1>10 DEF Stop, CancelPending, CloseStopCh, LoopReturns
  <2> QED BY <1>3, <2>1, <2>2
<1> QED BY <1>5, <1>6, <1>8, <1>9, <1>10 DEF Next

LEMMA IdStep ==
  ASSUME ServerInv, IdInv, [Next]_vars, \A n \in Node : ~Crash(n)
  PROVE  IdInv'
<1>1. /\ CommandInv /\ PcInv /\ PendingInv /\ resultCh \in [Writer -> Result \cup {Empty}]
      /\ \A w \in Writer : w \in Request
  BY DEF ServerInv, DataInv, Request
<1>2. \A w \in Writer : pc[w] # "idle" => pc'[w] # "idle" /\ at'[w] = at[w] /\ cmd'[w] = cmd[w]
  BY <1>1, RequestFixed
<1>3. \A n \in Node, w \in Writer : pendingOps[n][w] # 0 => pc[w] # "idle"
  BY <1>1 DEF PendingInv
<1>4. CASE /\ nextRequestID' = nextRequestID
           /\ \A w \in Writer : pc'[w] # "idle" => pc[w] # "idle"
           /\ \A n \in Node, w \in Writer : pendingOps'[n][w] \in {pendingOps[n][w], 0}
  <2>1. \A w \in Writer : pc'[w] # "idle" =>
          pc[w] # "idle" /\ at'[w] = at[w] /\ cmd'[w] = cmd[w]
    BY <1>2, <1>4
  <2>2. \A w \in Writer : pc'[w] # "idle" => cmd'[w].id <= nextRequestID'[at'[w]]
    BY <1>4, <2>1 DEF IdInv
  <2>3. ASSUME NEW v \in Writer, NEW w \in Writer, pc'[v] # "idle", pc'[w] # "idle",
               at'[v] = at'[w], cmd'[v].id = cmd'[w].id
        PROVE  v = w
    BY <2>1, <2>3 DEF IdInv
  <2>4. ASSUME NEW n \in Node, NEW w \in Writer, pendingOps'[n][w] # 0
        PROVE  pendingOps'[n][w] = cmd'[w].id
    <3>1. pendingOps'[n][w] = pendingOps[n][w]
      BY <1>4, <2>4
    <3>2. cmd'[w] = cmd[w]
      BY <1>2, <1>3, <2>4, <3>1
    <3> QED BY <2>4, <3>1, <3>2 DEF IdInv
  <2> QED BY <2>2, <2>3, <2>4 DEF IdInv
<1>5. ASSUME NEW r \in Writer, NEW n \in Node, NEW op \in Op, NEW key \in Key,
             Register(r, n, op, key)
      PROVE  IdInv'
  <2>1. /\ pc[r] = "idle" /\ at'[r] = n /\ cmd'[r].id = nextRequestID[n] + 1
        /\ \A w \in Writer \ {r} : pc'[w] = pc[w] /\ at'[w] = at[w] /\ cmd'[w] = cmd[w]
    BY <1>1, <1>5, RegisterIs
  <2>2. /\ nextRequestID'[n] = nextRequestID[n] + 1
        /\ \A m \in Node \ {n} : nextRequestID'[m] = nextRequestID[m]
    BY <1>1, <1>5, RegisterIs
  <2>3. /\ pendingOps'[n][r] = nextRequestID[n] + 1
        /\ \A m \in Node, w \in Writer : m # n \/ w # r => pendingOps'[m][w] = pendingOps[m][w]
    BY ZenonT(40), <1>1, <1>5, RegisterIs
  <2>4. \A m \in Node : nextRequestID[m] \in Nat
    BY <1>1 DEF CommandInv
  <2>5. \A w \in Writer : pc[w] # "idle" => at[w] \in Node /\ cmd[w].id \in Nat
    <3>1. \A c \in Command : c.id \in Nat
      BY SMT DEF Command
    <3> QED BY <1>1, <3>1 DEF PcInv, PcAt
  <2>6. ASSUME NEW w \in Writer \ {r}, pc'[w] # "idle"
        PROVE  /\ cmd'[w].id <= nextRequestID'[at'[w]]
               /\ at'[w] = n => cmd'[w].id # nextRequestID[n] + 1
    <3>1. /\ at'[w] = at[w] /\ cmd'[w].id = cmd[w].id /\ at[w] \in Node /\ cmd[w].id \in Nat
          /\ cmd[w].id <= nextRequestID[at[w]]
      BY <2>1, <2>5, <2>6 DEF IdInv
    <3>2. cmd[w].id <= nextRequestID[at[w]] + 1 /\ cmd[w].id # nextRequestID[at[w]] + 1
      BY <2>4, <3>1, Over
    <3>3. CASE at[w] = n
      <4>1. nextRequestID'[at'[w]] = nextRequestID[at[w]] + 1
        BY <2>2, <3>1, <3>3
      <4> QED BY <3>1, <3>2, <3>3, <4>1
    <3>4. CASE at[w] # n
      <4>1. nextRequestID'[at'[w]] = nextRequestID[at[w]] /\ at'[w] # n
        BY <2>2, <3>1, <3>4
      <4> QED BY <3>1, <4>1
    <3> QED BY <3>3, <3>4
  <2>7. cmd'[r].id <= nextRequestID'[at'[r]]
    BY <2>1, <2>2, <2>4, UpTo
  <2>8. ASSUME NEW v \in Writer, NEW w \in Writer, pc'[v] # "idle", pc'[w] # "idle",
               at'[v] = at'[w], cmd'[v].id = cmd'[w].id
        PROVE  v = w
    <3>1. CASE v = r
      BY <2>1, <2>6, <2>8, <3>1
    <3>2. CASE w = r
      BY <2>1, <2>6, <2>8, <3>2
    <3>3. CASE v # r /\ w # r
      <4>1. /\ pc[v] # "idle" /\ pc[w] # "idle" /\ at[v] = at[w] /\ cmd[v].id = cmd[w].id
        BY <2>1, <2>8, <3>3
      <4> QED BY <4>1 DEF IdInv
    <3> QED BY <3>1, <3>2, <3>3
  <2>9. ASSUME NEW m \in Node, NEW w \in Writer, pendingOps'[m][w] # 0
        PROVE  pendingOps'[m][w] = cmd'[w].id
    <3>1. CASE m = n /\ w = r
      BY <2>1, <2>3, <3>1
    <3>2. CASE m # n \/ w # r
      <4>1. pendingOps'[m][w] = pendingOps[m][w]
        BY <2>3, <3>2
      <4> QED BY ZenonT(40), <1>2, <1>3, <2>9, <4>1 DEF IdInv
    <3> QED BY <3>1, <3>2
  <2> QED BY <2>6, <2>7, <2>8, <2>9 DEF IdInv
<1> QED BY <1>4, <1>5, NoRegister

-----------------------------------------------------------------------------
(* Notifications *)

\* Whoever waits does so at a node that may lead; a notification is of an entry
\* that is applied.
NotifyInv ==
  /\ \A w \in Writer : pc[w] = "wait" => at[w] \in Electing
  /\ \A r \in Reader : pc[r] \in {"index", "get"} => at[r] \in Electing
  /\ \A n \in Node : notifying[n] # NoOp =>
       \E p \in 1..highest[n] : /\ p <= Len(chosen) /\ chosen[p] # NoOp
                                /\ chosen[p].id = notifying[n].id

\* How a request comes to wait.
LEMMA WaitKinds ==
  ASSUME ServerInv, [Next]_vars
  PROVE  /\ \A w \in Writer : pc'[w] = "wait" =>
              pc[w] = "wait" \/ (pc[w] # "idle" /\ at[w] \in Node /\ leading[at[w]])
         /\ \A r \in Reader : pc'[r] \in {"index", "get"} =>
              pc[r] \in {"index", "get"} \/ (at'[r] \in Node /\ leading[at'[r]])
<1>1. /\ CommandInv /\ PcInv /\ resultCh \in [Writer -> Result \cup {Empty}] /\ DOMAIN pc = Request
      /\ DOMAIN at = Request
  BY DEF ServerInv, DataInv, CommandInv, PendingInv
<1>2. /\ \A w \in Writer : w \in Request /\ w \notin Reader
      /\ \A r \in Reader : r \in Request /\ r \notin Writer
  BY RequestAssumption DEF Request
<1>3. CASE pc' = pc
  BY <1>3
<1>4. CASE Write
  <2>1. PICK r \in Writer :
          \/ \E n \in Node, op \in Op, key \in Key : Register(r, n, op, key)
          \/ ProposeAccepted(r) \/ ProposeRefused(r) \/ Receive(r) \/ Closed(r) \/ GiveUp(r)
    BY <1>4 DEF Write
  <2>2. \/ pc' = [pc EXCEPT ![r] = "propose"] \/ pc' = [pc EXCEPT ![r] = "done"]
        \/ pc' = [pc EXCEPT ![r] = "wait"] /\ pc[r] = "propose" /\ leading[at[r]]
    BY <2>1 DEF Register, ProposeAccepted, ProposeRefused, Receive, Closed, GiveUp, Return
  <2>3. \A w \in Request \ {r} : pc'[w] = pc[w]
    BY <1>1, <1>2, <2>2, ExceptIs
  <2>4. pc'[r] = "wait" => pc[r] = "propose" /\ leading[at[r]]
    BY <1>1, <1>2, <2>2, ExceptIs
  <2>5. pc[r] = "propose" => pc[r] # "idle" /\ at[r] \in Node
    BY <1>1, <1>2 DEF PcInv, PcAt
  <2> QED BY <1>2, <2>3, <2>4, <2>5
<1>5. CASE Read
  <2>1. ASSUME NEW r \in Reader, NEW n \in Node, NEW key \in Key,
               GetAsLeader(r, n, key) \/ GetLocal(r, n, key)
        PROVE  /\ at'[r] = n /\ (pc'[r] = "done" \/ leading[n])
               /\ \A w \in Request \ {r} : pc'[w] = pc[w]
    <3>1. /\ at' = [at EXCEPT ![r] = n]
          /\ \/ leading[n] /\ pc' = [pc EXCEPT ![r] = "index"]
             \/ pc' = [pc EXCEPT ![r] = "done"]
      BY <2>1 DEF GetAsLeader, GetLocal, Return
    <3> QED BY <1>1, <1>2, <3>1, ExceptIs
  <2>2. ASSUME NEW r \in Reader, GetIndex(r) \/ GetValue(r) \/ GetGiveUp(r)
        PROVE  /\ pc[r] \in {"index", "get"}
               /\ \A w \in Request \ {r} : pc'[w] = pc[w]
    <3>1. /\ pc[r] \in {"index", "get"}
          /\ pc' = [pc EXCEPT ![r] = "get"] \/ pc' = [pc EXCEPT ![r] = "done"]
      BY <2>2 DEF GetIndex, GetValue, GetGiveUp, Return
    <3> QED BY <1>1, <1>2, <3>1, ExceptIs
  <2>3. PICK r \in Reader :
          \/ \E n \in Node, key \in Key : GetAsLeader(r, n, key) \/ GetLocal(r, n, key)
          \/ GetIndex(r) \/ GetValue(r) \/ GetGiveUp(r)
    BY <1>5, RequestAssumption DEF Read
  <2>4. /\ \A w \in Request \ {r} : pc'[w] = pc[w]
        /\ pc'[r] \in {"index", "get"} => pc[r] \in {"index", "get"} \/ (at'[r] \in Node /\ leading[at'[r]])
    BY <2>1, <2>2, <2>3
  <2> QED BY <1>2, <2>4
<1>6. ASSUME NEW n \in Node, Crash(n), NEW w \in Request
      PROVE  pc'[w] = pc[w] \/ pc'[w] = "done"
  BY <1>1, <1>6, CrashIs
<1>7. CASE \E n \in Node : Crash(n)
  BY <1>2, <1>6, <1>7
<1> QED BY <1>3, <1>4, <1>5, <1>7, RequestKinds

\* Where notifications come from.
LEMMA NotifyKinds ==
  ASSUME EntryInv, [Next]_vars, NEW n \in Node
  PROVE  \/ notifying'[n] = notifying[n] \/ notifying'[n] = NoOp
         \/ \E result \in {"ok", "error"} : ApplyCommand(n, result)
<1>1. DOMAIN notifying = Node
  BY DEF EntryInv
<1>2. CASE notifying' = notifying
  BY <1>2
<1>3. ASSUME NEW m \in Node, NEW v, notifying' = [notifying EXCEPT ![m] = v]
      PROVE  notifying'[m] = v /\ \A y \in Node \ {m} : notifying'[y] = notifying[y]
  BY <1>1, <1>3, ExceptIs
<1>4. CASE \E m \in Node : notifying' = [notifying EXCEPT ![m] = NoOp]
  BY <1>3, <1>4
<1>5. CASE \E m \in Node, result \in {"ok", "error"} : ApplyCommand(m, result)
  <2>1. PICK m \in Node, result \in {"ok", "error"} : ApplyCommand(m, result)
    BY <1>5
  <2>2. \E v : notifying' = [notifying EXCEPT ![m] = v]
    BY <2>1 DEF ApplyCommand
  <2> QED BY <1>3, <2>1, <2>2
<1>6. CASE Consensus \/ UNCHANGED vars
  <2>1. notifying' = notifying
    BY <1>6 DEF Consensus, Lead, StepDown, Choose, Learn, vars, serverVars
  <2> QED BY <1>2, <2>1
<1>7. CASE \E m \in Node : Pipeline(m)
  <2>1. \/ notifying' = notifying \/ \E m \in Node : notifying' = [notifying EXCEPT ![m] = NoOp]
        \/ \E m \in Node, result \in {"ok", "error"} : ApplyCommand(m, result)
    BY <1>7 DEF Pipeline, Collect, SendApply, Notify, serverVars
  <2> QED BY <1>2, <1>4, <1>5, <2>1
<1>8. CASE Write \/ Read
  <2>1. notifying' = notifying
    BY ZenonT(40), <1>8 DEF Write, Register, ProposeAccepted, ProposeRefused, Receive, Closed, GiveUp,
         Read, GetAsLeader, GetIndex, GetValue, GetGiveUp, GetLocal, serverVars
  <2> QED BY <1>2, <2>1
<1>9. CASE Stop
  <2>1. notifying' = notifying
    BY <1>9 DEF Stop, CancelPending, CloseStopCh, LoopReturns
  <2> QED BY <1>2, <2>1
<1>10. CASE \E m \in Node : Crash(m)
  <2>1. \E m \in Node : notifying' = [notifying EXCEPT ![m] = NoOp]
    BY <1>10 DEF Crash
  <2> QED BY <1>4, <2>1
<1> QED BY <1>6, <1>7, <1>8, <1>9, <1>10 DEF Next

LEMMA NotifyStep ==
  ASSUME ServerInv, ServerInv', OriginInv, NotifyInv, [Next]_vars
  PROVE  NotifyInv'
<1>1. /\ EntryInv /\ CommandInv /\ PcInv /\ PipeInv /\ ServerTypes /\ HighInv /\ ServerTypes'
      /\ resultCh \in [Writer -> Result \cup {Empty}]
      /\ \A w \in Writer : w \in Request
      /\ \A w \in Reader : w \in Request
  BY DEF ServerInv, DataInv, Request
<1>2. \A w \in Request : pc[w] # "idle" => pc'[w] # "idle" /\ at'[w] = at[w] /\ cmd'[w] = cmd[w]
  BY <1>1, RequestFixed
<1>3. ASSUME NEW w \in Writer, pc'[w] = "wait" PROVE at'[w] \in Electing
  <2>1. pc[w] = "wait" \/ (pc[w] # "idle" /\ at[w] \in Node /\ leading[at[w]])
    BY <1>3, WaitKinds
  <2>2. pc[w] # "idle" /\ at[w] \in Electing
    BY <2>1 DEF NotifyInv, OriginInv
  <2> QED BY <1>1, <1>2, <2>2
<1>4. ASSUME NEW r \in Reader, pc'[r] \in {"index", "get"} PROVE at'[r] \in Electing
  <2>1. pc[r] \in {"index", "get"} \/ (at'[r] \in Node /\ leading[at'[r]])
    BY <1>4, WaitKinds
  <2>2. pc[r] \in {"index", "get"} => at[r] \in Electing /\ pc[r] # "idle"
    BY DEF NotifyInv
  <2> QED BY <1>1, <1>2, <2>1, <2>2 DEF OriginInv
<1>5. /\ Len(chosen) \in Nat /\ Len(chosen') \in Nat /\ Len(chosen') >= Len(chosen)
      /\ \A i \in 1..Len(chosen) : chosen'[i] = chosen[i]
  BY <1>1, ChosenGrows
<1>6. \A n \in Node : highest[n] \in Nat /\ highest[n] <= highest'[n] /\ highest'[n] \in Nat
  <2>1. \A n \in Node : highest'[n] \in Nat
    BY <1>1 DEF ServerTypes
  <2> QED BY <1>1, <2>1, HighStep
<1>7. ASSUME NEW n \in Node, notifying'[n] # NoOp, NEW p \in Nat \ {0}, p <= highest'[n], p <= Len(chosen),
             chosen[p] # NoOp, chosen[p].id = notifying'[n].id
      PROVE  \E q \in 1..highest'[n] : /\ q <= Len(chosen') /\ chosen'[q] # NoOp
                                       /\ chosen'[q].id = notifying'[n].id
  <2>1. p \in 1..Len(chosen) /\ p \in 1..highest'[n] /\ p <= Len(chosen')
    BY SMT, <1>5, <1>6, <1>7
  <2> QED BY <1>5, <1>7, <2>1
<1>8. ASSUME NEW n \in Node, notifying'[n] # NoOp
      PROVE  \E q \in 1..highest'[n] : /\ q <= Len(chosen') /\ chosen'[q] # NoOp
                                       /\ chosen'[q].id = notifying'[n].id
  <2>1. CASE notifying'[n] = notifying[n]
    <3>1. PICK p \in 1..highest[n] : /\ p <= Len(chosen) /\ chosen[p] # NoOp
                                     /\ chosen[p].id = notifying[n].id
      BY <1>8, <2>1 DEF NotifyInv
    <3>2. highest[n] \in Nat /\ highest'[n] \in Nat /\ highest[n] <= highest'[n]
      BY <1>6
    <3>3. p \in Nat \ {0} /\ p <= highest'[n]
      BY SMT, <3>2
    <3> QED BY <1>7, <1>8, <2>1, <3>1, <3>3
  <2>2. ASSUME NEW result \in {"ok", "error"}, ApplyCommand(n, result)
        PROVE  \E q \in 1..highest'[n] : /\ q <= Len(chosen') /\ chosen'[q] # NoOp
                                         /\ chosen'[q].id = notifying'[n].id
    <3> DEFINE e == Head(applyCh[n])
    <3>1. notifying' = [notifying EXCEPT ![n] = IF e = NoOp THEN NoOp ELSE [id |-> e.id, result |-> result]]
      BY <1>1, <2>2, ApplyIs
    <3>2. DOMAIN notifying = Node
      BY <1>1 DEF EntryInv
    <3>3. CountedAt(e, Applied(n) + 1) /\ Applied(n) \in Nat /\ Applied(n)' = Applied(n) + 1
      BY <1>1, <2>2, PipeApply
    <3>4. Applied(n)' <= highest'[n]
      BY <1>1, <2>2, HighApply
    <3> HIDE DEF e
    <3>5. notifying'[n] = IF e = NoOp THEN NoOp ELSE [id |-> e.id, result |-> result]
      BY <3>1, <3>2, ExceptIs
    <3>6. e # NoOp /\ notifying'[n] = [id |-> e.id, result |-> result]
      BY <1>8, <3>5
    <3>7. notifying'[n].id = e.id
      BY SMT, <3>6
    <3>8. PICK q \in 1..Applied(n) + 1 : q <= Len(chosen) /\ chosen[q] = e
      BY <3>3 DEF CountedAt
    <3>9. Applied(n) + 1 <= highest'[n] /\ highest'[n] \in Nat
      BY <1>6, <3>3, <3>4
    <3>10. q \in Nat \ {0} /\ q <= highest'[n]
      BY SMT, <3>3, <3>9
    <3> QED BY <1>7, <1>8, <3>6, <3>7, <3>8, <3>10
  <2> QED BY <1>1, <1>8, <2>1, <2>2, NotifyKinds
<1> QED BY <1>3, <1>4, <1>8 DEF NotifyInv

-----------------------------------------------------------------------------
(* Answers of one leader that has not restarted *)

\* At most one node may lead.
OneLeader == \A m, n \in Electing : m = n

\* A success under way to w is of its own command.
IsApplied(w) == \E i \in Position(w) : i <= highest[at[w]]

OwnInv == \A w \in Writer : at[w] \in Electing /\ resultCh[w] = "ok" => IsApplied(w)

LEMMA AppliedStays ==
  ASSUME ServerInv, ServerInv', [Next]_vars, NEW w \in Writer, pc[w] # "idle", IsApplied(w)
  PROVE  IsApplied(w)'
<1>1. /\ EntryInv /\ CommandInv /\ PcInv /\ PipeInv /\ ServerTypes /\ HighInv /\ ServerTypes' /\ EntryInv'
      /\ resultCh \in [Writer -> Result \cup {Empty}] /\ w \in Request
  BY DEF ServerInv, DataInv, Request
<1>2. at'[w] = at[w] /\ cmd'[w] = cmd[w]
  BY <1>1, RequestFixed
<1>3. at[w] \in Node
  BY <1>1 DEF PcInv, PcAt
<1>4. /\ Len(chosen) \in Nat /\ Len(chosen') \in Nat /\ Len(chosen') >= Len(chosen)
      /\ \A i \in 1..Len(chosen) : chosen'[i] = chosen[i]
  BY <1>1, ChosenGrows
<1>5. highest[at[w]] \in Nat /\ highest[at[w]] <= highest'[at[w]] /\ highest'[at[w]] \in Nat
  <2>1. highest'[at[w]] \in Nat
    BY <1>1, <1>3 DEF ServerTypes
  <2> QED BY <1>1, <1>3, <2>1, HighStep
<1>6. DOMAIN chosen = 1..Len(chosen) /\ DOMAIN chosen' = 1..Len(chosen')
  BY SMT, <1>1 DEF EntryInv
<1>7. PICK i \in DOMAIN chosen : chosen[i] = cmd[w] /\ i <= highest[at[w]]
  BY DEF IsApplied, Position
<1>8. i \in 1..Len(chosen) /\ i \in 1..Len(chosen') /\ i <= highest'[at[w]]
  BY SMT, <1>4, <1>5, <1>6, <1>7
<1>9. i \in DOMAIN chosen' /\ chosen'[i] = cmd'[w]
  BY <1>2, <1>4, <1>6, <1>7, <1>8
<1> QED BY <1>2, <1>8, <1>9 DEF IsApplied, Position

LEMMA OwnStep ==
  ASSUME ServerInv, ServerInv', OneLeader, OriginInv, IdInv, NotifyInv, OwnInv, [Next]_vars
  PROVE  OwnInv'
<1>1. /\ EntryInv /\ CommandInv /\ PcInv /\ PendingInv /\ DataInv
      /\ resultCh \in [Writer -> Result \cup {Empty}]
      /\ \A w \in Writer : w \in Request
  BY DEF ServerInv, DataInv, Request
<1>2. \A w \in Request : pc[w] # "idle" => at'[w] = at[w]
  BY <1>1, RequestFixed
<1>3. ASSUME NEW w \in Writer, at'[w] \in Electing, resultCh'[w] = "ok"
      PROVE  pc[w] # "idle" /\ IsApplied(w)
  <2>1. CASE resultCh[w] = "ok"
    <3>1. pc[w] # "idle"
      <4>1. resultCh[w] # Empty
        BY SMT, <2>1 DEF Empty
      <4> QED BY <1>1, <4>1 DEF PendingInv
    <3> QED BY <1>1, <1>2, <1>3, <2>1, <3>1 DEF OwnInv
  <2>2. ASSUME NEW n \in Node, notifying[n] # NoOp, pendingOps[n][w] = notifying[n].id,
               notifying[n].id # 0
        PROVE  pc[w] # "idle" /\ IsApplied(w)
    <3>1. pc[w] # "idle" /\ at[w] = n
      BY <1>1, <2>2 DEF PendingInv, RegisteredIsWaiting
    <3>2. n \in Electing
      BY <1>1, <1>2, <1>3, <3>1
    <3>3. PICK p \in 1..highest[n] : /\ p <= Len(chosen) /\ chosen[p] # NoOp
                                     /\ chosen[p].id = notifying[n].id
      BY <2>2 DEF NotifyInv
    <3>4. highest[n] \in Nat /\ chosen \in Seq(Entry)
      BY DEF ServerInv, ServerTypes, EntryInv
    <3>5. p \in DOMAIN chosen /\ p <= highest[n]
      BY SMT, <3>3, <3>4
    <3>6. chosen[p] \in proposed
      BY <3>3, <3>5 DEF OriginInv
    <3>7. PICK v \in Writer : pc[v] # "idle" /\ at[v] \in Electing /\ cmd[v] = chosen[p]
      BY <3>6 DEF OriginInv
    <3>8. cmd[w].id = cmd[v].id
      BY <2>2, <3>3, <3>7 DEF IdInv
    <3>9. at[v] = at[w]
      BY <3>1, <3>2, <3>7 DEF OneLeader
    <3>10. v = w
      BY <3>1, <3>7, <3>8, <3>9 DEF IdInv
    <3> QED BY <3>1, <3>5, <3>7, <3>10 DEF IsApplied, Position
  <2>3. /\ "ok" # "closed" /\ "ok" # Empty
    BY SMT DEF Empty
  <2> QED BY <1>1, <1>3, <2>1, <2>2, <2>3, ResultIs
<1> QED BY <1>3, AppliedStays DEF OwnInv

\* How a Put or Delete comes to succeed, and that its answer then stays.
LEMMA WriteAnswers ==
  ASSUME CommandInv, PcInv, DataInv, [Next]_vars, NEW w \in Writer, answer'[w] = "ok"
  PROVE  answer[w] = "ok" \/ (Receive(w) /\ resultCh[w] = "ok")
<1> SUFFICES ASSUME answer[w] # "ok"
             PROVE  Receive(w) /\ resultCh[w] = "ok"
  BY SMT
<1>1. w \in Request /\ w \notin Reader /\ DOMAIN answer = Request
  BY RequestAssumption DEF Request, PcInv
<1>2. ~Read
  <2> SUFFICES ASSUME Read PROVE FALSE
    BY SMT
  <2>1. PICK r \in Reader, p \in {"index", "get", "done"}, m \in Node, c \in ReadCommand, a \in Answer :
          Moves(r, p, m, c, a)
    BY ReadMoves
  <2>2. r \in Request /\ w \in Request \ {r}
    BY <1>1 DEF Request
  <2>3. answer'[w] = answer[w]
    BY <2>1, <2>2, MovesIs
  <2> QED BY <2>3
<1>3. ~(\E n \in Node : Crash(n))
  BY <1>1, CrashIs
<1>4. Write
  BY <1>2, <1>3, RequestKinds
<1>5. PICK r \in Writer :
        \/ \E n \in Node, op \in Op, key \in Key : Register(r, n, op, key)
        \/ ProposeAccepted(r) \/ ProposeRefused(r) \/ Receive(r) \/ Closed(r) \/ GiveUp(r)
  BY <1>4 DEF Write
<1>6. r \in Request
  BY DEF Request
<1>7. \A a : answer' = [answer EXCEPT ![r] = a] => r = w /\ a = "ok"
  BY <1>1, <1>6, ExceptIs
<1>8. CASE Receive(r)
  <2>1. answer' = [answer EXCEPT ![r] = resultCh[r]]
    BY <1>8 DEF Receive, Return
  <2> QED BY <1>7, <1>8, <2>1
<1>9. CASE \/ \E n \in Node, op \in Op, key \in Key : Register(r, n, op, key)
           \/ ProposeAccepted(r) \/ ProposeRefused(r) \/ Closed(r) \/ GiveUp(r)
  <2>1. \/ answer' = answer
        \/ \E a \in {"notLeader", "error", "closed", "timeout"} : answer' = [answer EXCEPT ![r] = a]
    BY <1>9 DEF Register, ProposeAccepted, ProposeRefused, Closed, GiveUp, Return
  <2> QED BY <1>7, <2>1
<1> QED BY <1>5, <1>8, <1>9

\* What holds of one leader until a process restarts.
UntilRestart == IdInv /\ NotifyInv /\ OwnInv /\ AnswerIsOwn

LEMMA CrashCounts ==
  ASSUME ServerTypes, [Next]_vars, crashes' = 0
  PROVE  crashes = 0 /\ \A n \in Node : ~Crash(n)
<1>1. \A n \in Node : Crash(n) => crashes' = crashes + 1
  BY DEF Crash
<1>2. crashes \in Nat
  BY DEF ServerTypes
<1>3. crashes + 1 # 0
  BY SMT, <1>2
<1> QED BY <1>1, <1>3, StoreKinds

LEMMA UntilRestartStep ==
  ASSUME ServerInv, OneLeader, OriginInv, UntilRestart, [Next]_vars, \A n \in Node : ~Crash(n)
  PROVE  UntilRestart'
<1>1. ServerInv'
  BY ServerStep
<1>2. IdInv /\ NotifyInv /\ OwnInv /\ AnswerIsOwn
  BY DEF UntilRestart
<1>3. IdInv' /\ NotifyInv' /\ OwnInv'
  BY <1>1, <1>2, IdStep, NotifyStep, OwnStep
<1>4. CommandInv /\ PcInv /\ DataInv /\ \A w \in Writer : w \in Request
  BY DEF ServerInv, Request
<1>5. ASSUME NEW w \in Writer, answer'[w] = "ok" PROVE IsApplied(w)'
  <2>1. CASE answer[w] = "ok"
    <3>1. pc[w] = "done"
      BY <1>4, <2>1 DEF PcInv, PcAt
    <3>2. pc[w] # "idle" /\ IsApplied(w)
      BY <1>2, <2>1, <3>1 DEF AnswerIsOwn, IsApplied
    <3> QED BY <1>1, <3>2, AppliedStays
  <2>2. CASE Receive(w) /\ resultCh[w] = "ok"
    <3>1. pc[w] = "wait"
      BY <2>2 DEF Receive
    <3>2. pc[w] # "idle" /\ IsApplied(w)
      BY <1>2, <2>2, <3>1 DEF NotifyInv, OwnInv
    <3> QED BY <1>1, <3>2, AppliedStays
  <2> QED BY <1>4, <1>5, <2>1, <2>2, WriteAnswers
<1>6. AnswerIsOwn'
  BY <1>5 DEF AnswerIsOwn, IsApplied
<1> QED BY <1>3, <1>6 DEF UntilRestart

LEMMA UntilRestartStart ==
  ASSUME Init
  PROVE  OriginInv /\ UntilRestart
<1>1. /\ \A r \in Request : pc[r] = "idle" /\ answer[r] = "none"
      /\ \A r \in Writer : r \in Request /\ resultCh[r] = Empty
      /\ \A r \in Reader : r \in Request
      /\ \A n \in Node : ~leading[n] /\ notifying[n] = NoOp /\ \A r \in Writer : pendingOps[n][r] = 0
      /\ proposed = {} /\ chosen = << >>
  BY DEF Init, Request
<1>2. Empty # "ok" /\ DOMAIN << >> = {}
  BY SMT DEF Empty
<1>3. OriginInv
  BY <1>1, <1>2 DEF OriginInv
<1>4. IdInv
  BY <1>1 DEF IdInv
<1>5. NotifyInv
  BY <1>1 DEF NotifyInv
<1>6. OwnInv
  <2>1. \A w \in Writer : resultCh[w] # "ok"
    BY <1>1, <1>2
  <2> QED BY <2>1 DEF OwnInv
<1>7. AnswerIsOwn
  BY <1>1 DEF AnswerIsOwn
<1> QED BY <1>3, <1>4, <1>5, <1>6, <1>7 DEF UntilRestart

\* While one node leads and no process has restarted, propose returns nil only when
\* the very command it proposed is committed and applied: the counter nextRequestID
\* gives every request an ID of its own, and handleApplyMsg notifies the request that
\* is registered under the ID of the entry it has applied.  Whatever the storage does.
THEOREM AnswersAreOwn == OneLeader => (Spec => []AnswerIsOwnUntilRestart)
<1> SUFFICES ASSUME OneLeader
             PROVE  Spec => []AnswerIsOwnUntilRestart
  BY SMT
<1> DEFINE IInv == ServerInv /\ OriginInv /\ (crashes = 0 => UntilRestart)
<1>1. Init => IInv
  BY ServerStart, UntilRestartStart
<1>2. IInv /\ [Next]_vars => IInv'
  <2> SUFFICES ASSUME ServerInv, OriginInv, crashes = 0 => UntilRestart, [Next]_vars
               PROVE  ServerInv' /\ OriginInv' /\ (crashes' = 0 => UntilRestart')
    OBVIOUS
  <2>1. ServerInv' /\ OriginInv' /\ ServerTypes
    BY ServerStep, OriginStep DEF ServerInv
  <2>2. ASSUME crashes' = 0 PROVE UntilRestart'
    <3>1. crashes = 0 /\ \A n \in Node : ~Crash(n)
      BY <2>1, <2>2, CrashCounts
    <3> QED BY <3>1, UntilRestartStep
  <2> QED BY <2>1, <2>2
<1>3. IInv => AnswerIsOwnUntilRestart
  BY DEF AnswerIsOwnUntilRestart, UntilRestart
<1> HIDE DEF IInv
<1> QED BY <1>1, <1>2, <1>3, PTL DEF Spec

\* What the answers have revealed is in the store of the node that leads.
SeenInv ==
  /\ \A n \in Electing : seen <= highest[n]
  /\ \A r \in Reader : floor[r] <= seen

LEMMA Chain ==
  /\ \A a, b, c \in Nat : a <= b /\ b <= c => a <= c
  /\ \A a, b, c \in Nat : a <= b /\ b <= c => b \in a..c
BY SMT

\* A read at the leader finds the log replayed as far as its store has come, which is
\* not before the read's floor.
LEMMA LeaderReads ==
  ASSUME ServerInv, StoreInv, NotifyInv, SeenInv, crashes = 0, "read" \notin StorageFaults,
         NEW r \in Reader, pc[r] = "get"
  PROVE  /\ at[r] \in Electing /\ at[r] \in Node /\ cmd[r].key \in Key
         /\ highest[at[r]] \in floor[r]..Len(chosen) /\ highest[at[r]] \in Nat
         /\ Replay(highest[at[r]])[cmd[r].key] = store[at[r]][cmd[r].key]
<1>1. at[r] \in Electing
  BY DEF NotifyInv
<1>2. at[r] \in Node
  BY <1>1, BoundAssumption
<1>3. cmd[r].key \in Key
  <2>1. \A c \in ReadCommand : c.key \in Key
    BY SMT DEF ReadCommand
  <2>2. pc[r] # "idle" /\ r \in Request
    BY DEF Request
  <2> QED BY <2>1, <2>2 DEF ServerInv, PcInv, PcAt
<1> DEFINE h == highest[at[r]]
<1>4. /\ EntryInv /\ PipeInv /\ ServerTypes /\ HighInv /\ h \in Nat /\ seen \in Nat /\ floor[r] \in Nat
  BY <1>2 DEF ServerInv, ServerTypes, DataInv
<1>5. Len(chosen) \in Nat
  BY <1>4, LenIs DEF EntryInv
<1>6. h <= Len(chosen) /\ Applied(at[r]) = h /\ seen <= h /\ floor[r] <= seen
  BY <1>1, <1>2, <1>4 DEF HighInv, SeenInv
<1>7. floor[r] <= h
  BY <1>4, <1>6, Chain
<1>8. h \in floor[r]..Len(chosen)
  BY <1>4, <1>5, <1>6, <1>7, Chain
<1>9. Applied(at[r]) >= highest[at[r]]
  BY SMT, <1>4, <1>6
<1>10. StoreIsReplay
  BY <1>4, StoreIsReplayed
<1>11. store[at[r]] = Replay(Applied(at[r]))
  BY <1>2, <1>9, <1>10 DEF StoreIsReplay
<1>12. Replay(h)[cmd[r].key] = store[at[r]][cmd[r].key]
  BY <1>6, <1>11
<1> QED BY <1>1, <1>2, <1>3, <1>4, <1>8, <1>12

LEMMA SeenStep ==
  ASSUME ServerInv, ServerInv', OneLeader, OriginInv, UntilRestart, StoreInv, SeenInv,
         crashes = 0, "read" \notin StorageFaults, [Next]_vars
  PROVE  SeenInv'
<1>1. /\ EntryInv /\ PipeInv /\ ServerTypes /\ ServerTypes' /\ HighInv /\ DataInv /\ PcInv /\ NotifyInv
      /\ OwnInv /\ DataInv'
  BY DEF ServerInv, UntilRestart
<1>2. \A n \in Electing : /\ highest[n] \in Nat /\ highest'[n] \in Nat /\ highest[n] <= highest'[n]
                          /\ seen <= highest[n] /\ n \in Node
  <2>1. \A n \in Electing : n \in Node
    BY BoundAssumption
  <2>2. \A n \in Node : highest'[n] \in Nat
    BY <1>1 DEF ServerTypes
  <2>3. \A n \in Node : highest[n] \in Nat /\ highest[n] <= highest'[n]
    BY <1>1, HighStep
  <2> QED BY <2>1, <2>2, <2>3 DEF SeenInv
<1>3. seen \in Nat /\ seen' \in Nat /\ seen <= seen'
  BY <1>1, SeenIs DEF DataInv
<1>4. \A r \in Reader : floor'[r] <= seen'
  <2>1. floor' = floor \/ \E r \in Reader : floor' = [floor EXCEPT ![r] = seen]
    BY ReadIs
  <2>2. DOMAIN floor = Reader
    BY <1>1 DEF DataInv
  <2>3. \A r \in Reader : floor'[r] \in {floor[r], seen}
    <3>1. CASE floor' = floor
      BY <3>1
    <3>2. ASSUME NEW r \in Reader, floor' = [floor EXCEPT ![r] = seen]
          PROVE  \A q \in Reader : floor'[q] \in {floor[q], seen}
      <4>1. floor'[r] = seen /\ \A y \in Reader \ {r} : floor'[y] = floor[y]
        BY <2>2, <3>2, ExceptIs
      <4> QED BY <4>1
    <3> QED BY <2>1, <3>1, <3>2
  <2>4. \A r \in Reader : floor[r] \in Nat /\ floor[r] <= seen
    BY <1>1 DEF DataInv, SeenInv
  <2>5. \A r \in Reader : floor[r] <= seen'
    BY <1>3, <2>4, Chain
  <2> QED BY <1>3, <2>3, <2>5
<1>5. \A n \in Electing : seen' <= highest[n]
  <2>1. CASE seen' = seen
    BY <1>2, <2>1
  <2>2. ASSUME NEW w \in Writer, Receive(w), resultCh[w] = "ok", seen' \in Position(w)
        PROVE  \A n \in Electing : seen' <= highest[n]
    <3>1. pc[w] = "wait" /\ at[w] \in Electing
      BY <1>1, <2>2 DEF Receive, NotifyInv
    <3>2. PICK i \in Position(w) : i <= highest[at[w]]
      BY <1>1, <2>2, <3>1 DEF OwnInv, IsApplied
    <3>3. w \in Request /\ pc[w] # "idle"
      BY <3>1 DEF Request
    <3>4. cmd[w] \in Command
      BY <1>1, <3>3 DEF PcInv, PcAt
    <3>5. cmd[w] # NoOp
      BY <3>4, NoOpAssumption
    <3>6. i \in DOMAIN chosen /\ seen' \in DOMAIN chosen /\ chosen[i] = cmd[w] /\ chosen[seen'] = cmd[w]
      BY <2>2 DEF Position
    <3>7. i = seen'
      BY <3>5, <3>6 DEF OriginInv
    <3> QED BY <3>1, <3>2, <3>7 DEF OneLeader
  <2>3. ASSUME NEW r \in Reader \ LocalReader, GetValue(r),
               \A i \in floor[r]..Len(chosen) :
                 Replay(i)[cmd[r].key] = store[at[r]][cmd[r].key] => seen' <= i
        PROVE  \A n \in Electing : seen' <= highest[n]
    <3>1. pc[r] = "get"
      BY <2>3 DEF GetValue
    <3>2. /\ at[r] \in Electing /\ highest[at[r]] \in floor[r]..Len(chosen)
          /\ Replay(highest[at[r]])[cmd[r].key] = store[at[r]][cmd[r].key]
      BY <1>1, <3>1, LeaderReads
    <3>3. seen' <= highest[at[r]]
      BY <2>3, <3>2
    <3> QED BY <3>2, <3>3 DEF OneLeader
  <2> QED BY <1>1, <2>1, <2>2, <2>3, SeenIs
<1>6. \A n \in Electing : seen' <= highest'[n]
  BY <1>2, <1>3, <1>5, Chain
<1> QED BY <1>4, <1>6 DEF SeenInv

LEMMA LinearizableStep ==
  ASSUME ServerInv, StoreInv, NotifyInv, SeenInv, crashes = 0, "read" \notin StorageFaults,
         ReadsLinearizable, [Next]_vars
  PROVE  ReadsLinearizable'
<1>1. EntryInv /\ CommandInv /\ PcInv /\ DataInv
  BY DEF ServerInv
<1>2. /\ Len(chosen) \in Nat /\ Len(chosen') \in Nat /\ Len(chosen') >= Len(chosen)
  BY <1>1, ChosenGrows
<1>3. ASSUME NEW r \in Reader, NEW i \in floor[r]..Len(chosen), cmd[r].key \in Key,
             Replay(i)[cmd[r].key] = value'[r], cmd'[r] = cmd[r], floor'[r] = floor[r]
      PROVE  \E j \in floor'[r]..Len(chosen') : Replay(j)'[cmd'[r].key] = value'[r]
  <2>1. floor[r] \in Nat
    BY <1>1 DEF DataInv
  <2>2. i \in Nat /\ i <= Len(chosen) /\ i \in floor[r]..Len(chosen')
    BY SMT, <1>2, <2>1
  <2>3. Replay(i)'[cmd[r].key] = Replay(i)[cmd[r].key]
    BY <1>1, <1>3, <2>2, ReplayStays
  <2> QED BY <1>3, <2>2, <2>3
<1>4. ASSUME NEW r \in Reader \ LocalReader, answer'[r] = "ok"
      PROVE  \E j \in floor'[r]..Len(chosen') : Replay(j)'[cmd'[r].key] = value'[r]
  <2>1. CASE answer[r] = "ok" /\ cmd'[r] = cmd[r] /\ value'[r] = value[r] /\ floor'[r] = floor[r]
    <3>1. \A c \in ReadCommand : c.key \in Key
      BY SMT DEF ReadCommand
    <3>2. r \in Request
      BY DEF Request
    <3>3. cmd[r].key \in Key
      BY <1>1, <2>1, <3>1, <3>2 DEF PcInv, PcAt
    <3>4. PICK i \in floor[r]..Len(chosen) : Replay(i)[cmd[r].key] = value[r]
      BY <2>1 DEF ReadsLinearizable
    <3>5. Replay(i)[cmd[r].key] = value'[r]
      BY <2>1, <3>4
    <3> QED BY <1>3, <2>1, <3>3, <3>5
  <2>2. CASE /\ GetValue(r) /\ cmd'[r] = cmd[r] /\ floor'[r] = floor[r]
             /\ value'[r] = store[at[r]][cmd[r].key]
    <3>1. pc[r] = "get"
      BY <2>2 DEF GetValue
    <3>2. /\ cmd[r].key \in Key /\ highest[at[r]] \in floor[r]..Len(chosen)
          /\ Replay(highest[at[r]])[cmd[r].key] = store[at[r]][cmd[r].key]
      BY <3>1, LeaderReads
    <3>3. Replay(highest[at[r]])[cmd[r].key] = value'[r]
      BY <2>2, <3>2
    <3> QED BY <1>3, <2>2, <3>2, <3>3
  <2> QED BY <1>1, <1>4, <2>1, <2>2, ReadAnswers
<1> QED BY <1>4 DEF ReadsLinearizable

\* While one node leads and no process has restarted, a linearizable Get returns the
\* value of its key at a point of the log not before anything that an answer given
\* earlier had revealed: although Get waits for lastApplied only, which is ahead of
\* the store, no answer reveals more than the leader's store already holds.
THEOREM LeaderReadsCorrect ==
  OneLeader /\ {"read", "apply"} \cap StorageFaults = {} =>
    (Spec => []ReadsLinearizableUntilRestart)
<1> SUFFICES ASSUME OneLeader, {"read", "apply"} \cap StorageFaults = {}
             PROVE  Spec => []ReadsLinearizableUntilRestart
  BY SMT
<1>1. "read" \notin StorageFaults /\ "apply" \notin StorageFaults
  OBVIOUS
<1> DEFINE Q == UntilRestart /\ SeenInv /\ ReadsLinearizable
           IInv == ServerInv /\ StoreInv /\ OriginInv /\ (crashes = 0 => Q)
<1>2. Init => IInv
  <2> SUFFICES ASSUME Init PROVE IInv
    BY SMT
  <2>1. \A n \in Node : toApply[n] = << >> /\ applyCh[n] = << >> /\ lastApplied[n] = 0
    BY DEF Init
  <2>2. Len(<< >>) = 0 /\ 0 - 0 - 0 = 0 /\ 0 <= 0
    BY SMT
  <2>3. \A n \in Node : Applied(n) = 0
    BY <2>1, <2>2 DEF Applied
  <2>4. StoreInv
    BY <2>3, WrittenNone DEF StoreInv, Init
  <2>5. \A n \in Electing : n \in Node
    BY BoundAssumption
  <2>6. SeenInv
    BY <2>2, <2>5 DEF Init, SeenInv
  <2>7. \A r \in Reader : answer[r] # "ok"
    BY DEF Init, Request
  <2>8. ReadsLinearizable
    BY <2>7 DEF ReadsLinearizable
  <2> QED BY <2>4, <2>6, <2>8, ServerStart, UntilRestartStart
<1>3. IInv /\ [Next]_vars => IInv'
  <2> SUFFICES ASSUME ServerInv, StoreInv, OriginInv, crashes = 0 => Q, [Next]_vars
               PROVE  ServerInv' /\ StoreInv' /\ OriginInv' /\ (crashes' = 0 => Q')
    OBVIOUS
  <2>1. ServerInv' /\ OriginInv'
    BY ServerStep, OriginStep
  <2>2. EntryInv /\ PipeInv /\ ServerTypes /\ HighInv /\ HighInv'
    BY <2>1 DEF ServerInv
  <2>3. StoreInv'
    BY <1>1, <2>2, StoreStep
  <2>4. ASSUME crashes' = 0
        PROVE  UntilRestart' /\ SeenInv' /\ ReadsLinearizable'
    <3>1. crashes = 0 /\ \A n \in Node : ~Crash(n)
      BY <2>2, <2>4, CrashCounts
    <3>2. UntilRestart /\ SeenInv /\ ReadsLinearizable /\ NotifyInv
      BY <3>1 DEF UntilRestart
    <3>3. UntilRestart'
      BY <3>1, <3>2, UntilRestartStep
    <3>4. SeenInv'
      BY <1>1, <2>1, <3>1, <3>2, SeenStep
    <3>5. ReadsLinearizable'
      BY <1>1, <3>1, <3>2, LinearizableStep
    <3> QED BY <3>3, <3>4, <3>5
  <2> QED BY <2>1, <2>3, <2>4
<1>4. IInv => ReadsLinearizableUntilRestart
  BY DEF ReadsLinearizableUntilRestart
<1> HIDE DEF IInv
<1> QED BY <1>2, <1>3, <1>4, PTL DEF Spec

=============================================================================
