-------------------------- MODULE ForwardingProofs --------------------------
(***************************************************************************)
(* Forwarding, for any cluster and any number of hops and elections: who   *)
(* proposes a write, what an answer means, where a forwarded request       *)
(* arrives, and how far it goes while the leader is known.                 *)
(***************************************************************************)
EXTENDS Forwarding, FiniteSetTheorems, TLAPS

Hop ==
  [node : Node, hint : Node \cup {Nobody}, proposed : BOOLEAN,
   stage : {"arrived", "waiting", "refused", "forwarding", "done"},
   gaveUp : BOOLEAN, answer : {"none", "ok", "timeout", "error", "not leader"}]

HopTypes ==
  /\ leaderId \in [Node -> Node \cup {Nobody}]
  /\ hops \in [Request -> Seq(Hop)]

\* A handler that has passed the request on did not propose it, and one that has
\* proposed it will not pass it on.
ChainInv ==
  \A w \in Request : \A h \in DOMAIN hops[w] :
    /\ h < Len(hops[w]) => ~hops[w][h].proposed /\ hops[w][h].stage \in {"forwarding", "done"}
    /\ hops[w][h].proposed => hops[w][h].stage \in {"waiting", "done"}
    /\ hops[w][h].stage = "waiting" => hops[w][h].proposed

-----------------------------------------------------------------------------
(* What a step does to the handlers *)

\* A handler of w gets the record f.
Becomes(w, h, f) ==
  /\ hops'[w] \in Seq(Hop) /\ Len(hops'[w]) = Len(hops[w]) /\ hops'[w][h] = f
  /\ \A g \in DOMAIN hops[w] : g # h => hops'[w][g] = hops[w][g]

\* How a handler goes on, by where it stands: old is its record.
GoesOn(w, h, old, f) ==
  \/ /\ old.stage = "arrived" /\ f.stage = "waiting" /\ f.proposed
  \/ /\ old.stage = "arrived" /\ f.stage = "done" /\ f.answer = "error"
     /\ f.proposed = old.proposed
  \/ /\ old.stage = "arrived" /\ f.stage = "refused" /\ f.answer = old.answer
     /\ old.node \notin leading /\ f.hint = leaderId[old.node] /\ f.proposed = old.proposed
  \/ /\ old.stage = "waiting" /\ f.stage = "done" /\ f.proposed
     /\ f.answer \in {"ok", "timeout", "error"}
  \/ /\ w \in Read /\ f.stage = "done" /\ f.proposed = old.proposed
  \/ /\ old.stage = "refused" /\ f.stage = "done" /\ f.answer = "not leader"
  \/ /\ old.stage = "forwarding" /\ f.stage = "done"
     /\ \/ f.gaveUp /\ f.answer = "not leader"
        \/ /\ h + 1 \in DOMAIN hops[w] /\ hops[w][h + 1].stage = "done"
           /\ f.answer = hops[w][h + 1].answer

\* What no handler takes back.
Keeps(old, f) ==
  /\ f.node = old.node
  /\ old.stage # "arrived" => f.hint = old.hint /\ f.proposed = old.proposed
  /\ old.proposed => f.proposed
  /\ old.gaveUp => f.gaveUp

\* One handler goes on, or the last one, refused, starts the next at node m.
HandlerStep(w, h) ==
  \E f \in Hop : Becomes(w, h, f) /\ Keeps(hops[w][h], f) /\ GoesOn(w, h, hops[w][h], f)

ForwardStep(w, h, m) ==
  /\ h = Len(hops[w]) /\ hops[w][h].stage = "refused"
  /\ hops'[w] \in Seq(Hop) /\ Len(hops'[w]) = Len(hops[w]) + 1
  /\ \A g \in DOMAIN hops[w] : g # h => hops'[w][g] = hops[w][g]
  /\ hops'[w][h] = [hops[w][h] EXCEPT !.stage = "forwarding"]
  /\ hops'[w][h + 1] = Arrived(m)

Others(w) ==
  /\ UNCHANGED <<raftVars, settled>>
  /\ hops' \in [Request -> Seq(Hop)] /\ \A v \in Request \ {w} : hops'[v] = hops[v]

\* A record written with EXCEPT is written as Becomes says.
LEMMA ExceptBecomes ==
  ASSUME HopTypes, NEW w \in Request, NEW h \in DOMAIN hops[w], NEW f \in Hop,
         hops' = [hops EXCEPT ![w] = [@ EXCEPT ![h] = f]]
  PROVE  /\ Becomes(w, h, f)
         /\ hops' \in [Request -> Seq(Hop)] /\ \A v \in Request \ {w} : hops'[v] = hops[v]
<1>1. hops[w] \in Seq(Hop) /\ h \in 1..Len(hops[w])
  BY DEF HopTypes
<1>2. /\ hops'[w] = [hops[w] EXCEPT ![h] = f]
      /\ hops' \in [Request -> Seq(Hop)] /\ \A v \in Request \ {w} : hops'[v] = hops[v]
  BY DEF HopTypes
<1> QED BY <1>1, <1>2 DEF Becomes

\* The steps of a handler other than forwarding.
LEMMA HandleIs ==
  ASSUME HopTypes, ChainInv, NEW w \in Request, NEW h \in 1..MaxHops,
         \/ Propose(w, h) \/ Refuse(w, h) \/ Succeed(w, h) \/ TimeOut(w, h)
         \/ HandleGet(w, h) \/ DoNotForward(w, h) \/ Relay(w, h) \/ GiveUp(w, h)
         \/ Fault(w, h)
  PROVE  h \in DOMAIN hops[w] /\ HandlerStep(w, h) /\ Others(w)
<1> DEFINE old == hops[w][h]
           answered(a) == [hops EXCEPT ![w][h].stage = "done", ![w][h].answer = a]
<1>1. h \in DOMAIN hops[w] /\ UNCHANGED <<raftVars, settled>>
  BY Zenon DEF Propose, Refuse, Succeed, TimeOut, HandleGet, DoNotForward, Relay, GiveUp,
     Fault, ProposeFails, Fail, ForwardFails, At
<1>2. old \in Hop /\ hops[w] \in Seq(Hop) /\ hops \in [Request -> Seq(Hop)]
  BY <1>1 DEF HopTypes
<1>3. ASSUME NEW f \in Hop, hops' = [hops EXCEPT ![w] = [@ EXCEPT ![h] = f]],
             Keeps(old, f), GoesOn(w, h, old, f)
      PROVE  HandlerStep(w, h) /\ Others(w)
  BY Zenon, <1>1, <1>3, ExceptBecomes DEF HandlerStep, Others
<1>4. CASE Propose(w, h)
  <2> DEFINE f == [old EXCEPT !.stage = "waiting", !.proposed = TRUE]
  <2>1. old.stage = "arrived" /\ hops' = [hops EXCEPT ![w] = [@ EXCEPT ![h] = f]]
    BY <1>1, <1>2, <1>4, Zenon DEF Propose, At
  <2>2. f \in Hop /\ Keeps(old, f) /\ GoesOn(w, h, old, f)
    BY <1>2, <2>1 DEF Hop, Keeps, GoesOn
  <2> QED BY Zenon, <1>1, <1>3, <2>1, <2>2
<1>5. CASE Refuse(w, h)
  <2> DEFINE f == [old EXCEPT !.stage = "refused", !.hint = leaderId[old.node]]
  <2>1. /\ old.stage = "arrived" /\ old.node \notin leading
        /\ hops' = [hops EXCEPT ![w] = [@ EXCEPT ![h] = f]]
    BY <1>1, <1>2, <1>5, Zenon DEF Refuse, At
  <2>2. f \in Hop /\ Keeps(old, f) /\ GoesOn(w, h, old, f)
    BY <1>2, <2>1 DEF Hop, HopTypes, Keeps, GoesOn
  <2> QED BY Zenon, <1>1, <1>3, <2>1, <2>2
<1>6. old.stage = "waiting" => old.proposed
  BY <1>1, Zenon DEF ChainInv
<1>7. CASE GiveUp(w, h)
  <2> DEFINE f == [old EXCEPT !.stage = "done", !.answer = "not leader", !.gaveUp = TRUE]
  <2>1. old.stage = "forwarding" /\ hops' = [hops EXCEPT ![w] = [@ EXCEPT ![h] = f]]
    BY <1>1, <1>2, <1>7 DEF GiveUp, At
  <2>2. f \in Hop /\ Keeps(old, f) /\ GoesOn(w, h, old, f)
    BY <1>2, <2>1 DEF Hop, Keeps, GoesOn
  <2> QED BY Zenon, <1>1, <1>3, <2>1, <2>2
<1>8. ASSUME NEW a \in {"none", "ok", "timeout", "error", "not leader"},
             hops' = answered(a),
             \/ old.stage = "arrived" /\ a = "error"
             \/ old.stage = "waiting" /\ old.proposed /\ a \in {"ok", "timeout", "error"}
             \/ w \in Read
             \/ old.stage = "refused" /\ a = "not leader"
             \/ /\ old.stage = "forwarding" /\ h + 1 \in DOMAIN hops[w]
                /\ hops[w][h + 1].stage = "done" /\ a = hops[w][h + 1].answer
      PROVE  HandlerStep(w, h) /\ Others(w)
  <2> DEFINE f == [old EXCEPT !.stage = "done", !.answer = a]
  <2>1. hops' = [hops EXCEPT ![w] = [@ EXCEPT ![h] = f]]
    BY <1>1, <1>2, <1>8
  <2>2. /\ f \in Hop /\ f.stage = "done" /\ f.answer = a /\ f.node = old.node
        /\ f.hint = old.hint /\ f.proposed = old.proposed /\ f.gaveUp = old.gaveUp
    BY <1>2 DEF Hop
  <2> HIDE DEF f
  <2>3. Keeps(old, f) /\ GoesOn(w, h, old, f)
    BY <1>8, <2>2 DEF Keeps, GoesOn
  <2> QED BY Zenon, <1>1, <1>3, <2>1, <2>2, <2>3
<1>9. CASE Succeed(w, h) \/ TimeOut(w, h) \/ DoNotForward(w, h) \/ Fault(w, h)
  <2>1. \/ old.stage = "arrived" /\ hops' = answered("error")
        \/ /\ old.stage = "waiting"
           /\ hops' = answered("ok") \/ hops' = answered("timeout") \/ hops' = answered("error")
        \/ old.stage = "refused" /\ hops' = answered("not leader")
    BY Zenon, <1>9 DEF Succeed, TimeOut, DoNotForward, Fault, ProposeFails, Fail, ForwardFails,
       At, Answer
  <2> HIDE DEF answered, old
  <2> QED BY <1>1, <1>6, <1>8, <2>1
<1>10. CASE HandleGet(w, h)
  <2>1. PICK a \in {"ok", "timeout", "error", "not leader"} : hops' = answered(a)
    BY <1>10 DEF HandleGet, Answer
  <2>2. w \in Read
    BY <1>10, Zenon DEF HandleGet
  <2> HIDE DEF answered, old
  <2>3. a \in {"none", "ok", "timeout", "error", "not leader"}
    OBVIOUS
  <2> QED BY Zenon, <1>1, <1>8, <2>1, <2>2, <2>3
<1>11. CASE Relay(w, h)
  <2>1. /\ old.stage = "forwarding" /\ h + 1 \in DOMAIN hops[w]
        /\ hops[w][h + 1].stage = "done" /\ hops' = answered(hops[w][h + 1].answer)
    BY Zenon, <1>11 DEF Relay, At, Answer
  <2>2. hops[w][h + 1] \in Hop
    BY <1>2, <2>1
  <2>3. hops[w][h + 1].answer \in {"none", "ok", "timeout", "error", "not leader"}
    BY <2>2 DEF Hop
  <2> HIDE DEF answered, old
  <2> QED BY <1>1, <1>8, <2>1, <2>3
<1> QED BY <1>1, <1>4, <1>5, <1>7, <1>9, <1>10, <1>11

\* Forwarding: the node that is addressed has the host name of the hint.
LEMMA ForwardIs ==
  ASSUME HopTypes, ChainInv, NEW w \in Request, NEW h \in 1..MaxHops, Forward(w, h)
  PROVE  \E m \in Node : /\ HostOf[m] = hops[w][h].hint
                         /\ ForwardStep(w, h, m) /\ Others(w)
<1> DEFINE s == [hops[w] EXCEPT ![h].stage = "forwarding"]
<1>0. PICK addr \in Target(w, h) : \E m \in Resolve(addr) :
        hops' = [hops EXCEPT ![w] = Append(s, Arrived(m))]
  BY Zenon DEF Forward
<1>1. PICK m \in Resolve(addr) : hops' = [hops EXCEPT ![w] = Append(s, Arrived(m))]
  BY <1>0, Zenon
<1>2. addr.host = hops[w][h].hint
  <2>1. addr = derivePeerHTTPAddrs(hops[w][h].node)[hops[w][h].hint]
        /\ hops[w][h].hint \in DOMAIN derivePeerHTTPAddrs(hops[w][h].node)
    BY Zenon DEF Target
  <2>2. addr = [host |-> hops[w][h].hint, port |-> HTTPPort[hops[w][h].node]]
    BY Zenon, <2>1 DEF derivePeerHTTPAddrs
  <2> QED BY <2>2
<1>3. m \in Node /\ HostOf[m] = hops[w][h].hint
  BY <1>2 DEF Resolve
<1>4. /\ h \in DOMAIN hops[w] /\ hops[w][h].stage = "refused"
      /\ UNCHANGED <<raftVars, settled>>
  BY Zenon DEF Forward, At
<1>5. hops[w] \in Seq(Hop) /\ hops[w][h] \in Hop
  BY <1>4 DEF HopTypes
<1>6. [hops[w][h] EXCEPT !.stage = "forwarding"] \in Hop /\ Arrived(m) \in Hop
  BY <1>3, <1>5 DEF Hop, Arrived
<1>7. s \in Seq(Hop) /\ Len(s) = Len(hops[w])
  BY <1>4, <1>5, <1>6
<1>8. h = Len(hops[w])
  BY <1>4, <1>5 DEF ChainInv
<1>9. /\ s[h] = [hops[w][h] EXCEPT !.stage = "forwarding"]
      /\ \A g \in DOMAIN hops[w] : g # h => s[g] = hops[w][g]
  BY <1>4, <1>5
<1>10. /\ hops'[w] = Append(s, Arrived(m))
       /\ hops' \in [Request -> Seq(Hop)] /\ \A v \in Request \ {w} : hops'[v] = hops[v]
  <2>1. Append(s, Arrived(m)) \in Seq(Hop)
    BY <1>6, <1>7
  <2> HIDE DEF s
  <2> QED BY <1>1, <2>1 DEF HopTypes
<1> HIDE DEF s
<1>11. /\ hops'[w] \in Seq(Hop) /\ Len(hops'[w]) = Len(hops[w]) + 1
       /\ \A g \in 1..Len(hops[w]) : hops'[w][g] = s[g]
       /\ hops'[w][Len(hops[w]) + 1] = Arrived(m)
  BY <1>6, <1>7, <1>10
<1>12. DOMAIN hops[w] = 1..Len(hops[w])
  BY <1>5
<1>13. ForwardStep(w, h, m)
  BY <1>4, <1>8, <1>9, <1>11, <1>12 DEF ForwardStep
<1> QED BY <1>3, <1>4, <1>10, <1>13 DEF Others

-----------------------------------------------------------------------------
(* The invariants of the other properties *)

\* A handler that was started by forwarding runs on the node that the hint named.
ArriveInv ==
  \A w \in Request : \A h \in DOMAIN hops[w] :
    h < Len(hops[w]) => hops[w][h + 1].node = hops[w][h].hint

\* A handler that has answered "ok" or "timeout" stands for one that proposed.  One
\* that has answered "not leader" has nobody behind it who proposed or still may,
\* unless one gave up.
AnswerOf(s, h) ==
  s[h].stage = "done" =>
    /\ s[h].answer \in {"ok", "timeout"} => \E g \in DOMAIN s : s[g].proposed
    /\ s[h].answer = "not leader" =>
         \/ \E g \in DOMAIN s : s[g].gaveUp
         \/ \A g \in DOMAIN s : g >= h => ~s[g].proposed /\ s[g].stage = "done"

AnswerInv == \A w \in Write : \A h \in DOMAIN hops[w] : AnswerOf(hops[w], h)

\* Since the request was sent every node has known leader l; the first handler was
\* refused with l as its hint, and the second runs on l.
SettledInv ==
  \A w \in Write : settled[w] =>
    /\ hops[w] # << >> /\ Len(hops[w]) <= 2
    /\ \E l \in leading :
         /\ \A m \in Node : leaderId[m] = l
         /\ hops[w][1].stage = "refused" => hops[w][1].hint = l
         /\ Len(hops[w]) = 2 => hops[w][2].node = l /\ hops[w][2].stage # "refused"

\* Every node's host name is its ID, as in the Docker deployment.
HostsAreIDs == \A n \in Node : HostOf[n] = n

\* The records before and after a step of one handler.
LEMMA HandlerTypes ==
  ASSUME HopTypes, NEW w \in Request, NEW h \in DOMAIN hops[w], HandlerStep(w, h), Others(w)
  PROVE  /\ hops[w] \in Seq(Hop) /\ hops'[w] \in Seq(Hop) /\ Len(hops'[w]) = Len(hops[w])
         /\ DOMAIN hops[w] = 1..Len(hops[w]) /\ DOMAIN hops'[w] = 1..Len(hops[w])
         /\ \A g \in 1..Len(hops[w]) : hops[w][g] \in Hop /\ hops'[w][g] \in Hop
         /\ HopTypes'
<1>1. hops[w] \in Seq(Hop) /\ hops'[w] \in Seq(Hop) /\ Len(hops'[w]) = Len(hops[w])
  BY DEF HopTypes, HandlerStep, Becomes
<1>2. /\ DOMAIN hops[w] = 1..Len(hops[w]) /\ DOMAIN hops'[w] = 1..Len(hops[w])
      /\ \A g \in 1..Len(hops[w]) : hops[w][g] \in Hop /\ hops'[w][g] \in Hop
  BY <1>1
<1>3. hops' \in [Request -> Seq(Hop)]
  BY Zenon DEF Others
<1> QED BY <1>1, <1>2, <1>3 DEF HopTypes, Others, raftVars

LEMMA OneOrTwo == \A k \in Nat : k # 0 /\ k <= 2 => k \in 1..2
  OBVIOUS

\* A step of one handler keeps what is known of the chain, of the hints and of the
\* leader that everybody knows.
LEMMA HandlerKeeps ==
  ASSUME HopTypes, ChainInv, NEW w \in Request, NEW h \in DOMAIN hops[w],
         HandlerStep(w, h), Others(w)
  PROVE  ChainInv' /\ (ArriveInv => ArriveInv') /\ (SettledInv => SettledInv')
<1>1. PICK f \in Hop : Becomes(w, h, f) /\ Keeps(hops[w][h], f) /\ GoesOn(w, h, hops[w][h], f)
  BY DEF HandlerStep
<1>2. /\ DOMAIN hops[w] = 1..Len(hops[w]) /\ DOMAIN hops'[w] = 1..Len(hops[w])
      /\ Len(hops'[w]) = Len(hops[w]) /\ Len(hops[w]) \in Nat
      /\ \A g \in 1..Len(hops[w]) : hops[w][g] \in Hop
  BY HandlerTypes
<1>3. hops'[w][h] = f /\ \A g \in 1..Len(hops[w]) : g # h => hops'[w][g] = hops[w][g]
  BY <1>1, <1>2 DEF Becomes
<1>4. /\ \A v \in Request \ {w} : hops'[v] = hops[v]
      /\ UNCHANGED <<leading, leaderId, settled>>
  BY Zenon DEF Others, raftVars
<1>5. /\ h < Len(hops[w]) => /\ ~hops[w][h].proposed
                             /\ hops[w][h].stage \in {"forwarding", "done"}
      /\ hops[w][h].proposed => hops[w][h].stage \in {"waiting", "done"}
  BY DEF ChainInv
<1>6. /\ h < Len(hops[w]) => ~f.proposed /\ f.stage \in {"forwarding", "done"}
      /\ f.proposed => f.stage \in {"waiting", "done"}
      /\ f.stage = "waiting" => f.proposed
  BY <1>1, <1>5 DEF Keeps, GoesOn
<1>7. ChainInv'
  <2> SUFFICES ASSUME NEW v \in Request, NEW g \in DOMAIN hops'[v]
               PROVE  /\ g < Len(hops'[v]) => /\ ~hops'[v][g].proposed
                                              /\ hops'[v][g].stage \in {"forwarding", "done"}
                      /\ hops'[v][g].proposed => hops'[v][g].stage \in {"waiting", "done"}
                      /\ hops'[v][g].stage = "waiting" => hops'[v][g].proposed
    BY DEF ChainInv
  <2>1. CASE v # w
    BY <1>4, <2>1 DEF ChainInv
  <2>2. CASE v = w /\ g # h
    BY <1>2, <1>3, <2>2 DEF ChainInv
  <2>3. CASE v = w /\ g = h
    BY <1>2, <1>3, <1>6, <2>3
  <2> QED BY <2>1, <2>2, <2>3
<1>8. f.node = hops[w][h].node /\ (h < Len(hops[w]) => f.hint = hops[w][h].hint)
  BY <1>1, <1>5 DEF Keeps
<1>9. ASSUME ArriveInv PROVE ArriveInv'
  <2> SUFFICES ASSUME NEW v \in Request, NEW g \in DOMAIN hops'[v], g < Len(hops'[v])
               PROVE  hops'[v][g + 1].node = hops'[v][g].hint
    BY DEF ArriveInv
  <2>1. CASE v # w
    BY <1>4, <1>9, <2>1 DEF ArriveInv
  <2>2. CASE v = w
    <3>1. g \in 1..Len(hops[w]) /\ g < Len(hops[w]) /\ g + 1 \in 1..Len(hops[w])
      BY <1>2, <2>2
    <3>2. hops[w][g + 1].node = hops[w][g].hint
      BY <1>2, <1>9, <3>1 DEF ArriveInv
    <3>3. hops'[w][g].hint = hops[w][g].hint /\ hops'[w][g + 1].node = hops[w][g + 1].node
      BY <1>3, <1>8, <3>1
    <3> QED BY <2>2, <3>2, <3>3
  <2> QED BY <2>1, <2>2
<1>10. ASSUME SettledInv PROVE SettledInv'
  <2> SUFFICES ASSUME NEW v \in Write, settled[v]
               PROVE  /\ hops'[v] # << >> /\ Len(hops'[v]) <= 2
                      /\ \E l \in leading :
                           /\ \A m \in Node : leaderId[m] = l
                           /\ hops'[v][1].stage = "refused" => hops'[v][1].hint = l
                           /\ Len(hops'[v]) = 2 => /\ hops'[v][2].node = l
                                                   /\ hops'[v][2].stage # "refused"
    BY <1>4 DEF SettledInv
  <2>1. CASE v # w
    BY <1>4, <1>10, <2>1 DEF SettledInv, Request
  <2>2. CASE v = w
    <3>1. PICK l \in leading :
            /\ Len(hops[w]) \in 1..2 /\ \A m \in Node : leaderId[m] = l
            /\ hops[w][1].stage = "refused" => hops[w][1].hint = l
            /\ Len(hops[w]) = 2 => hops[w][2].node = l /\ hops[w][2].stage # "refused"
      <4>1. hops[w] # << >> => Len(hops[w]) # 0
        BY DEF HopTypes
      <4>2. /\ hops[w] # << >> /\ Len(hops[w]) <= 2
            /\ \E l \in leading :
                 /\ \A m \in Node : leaderId[m] = l
                 /\ hops[w][1].stage = "refused" => hops[w][1].hint = l
                 /\ Len(hops[w]) = 2 => hops[w][2].node = l /\ hops[w][2].stage # "refused"
        BY <1>4, <1>10, <2>2, Zenon DEF SettledInv
      <4>3. Len(hops[w]) # 0 /\ Len(hops[w]) <= 2
        BY <4>1, <4>2, Zenon
      <4>4. Len(hops[w]) \in 1..2
        BY <1>2, <4>3, OneOrTwo, Zenon
      <4> QED BY <4>2, <4>4, Zenon
    <3>2. f.stage = "refused" =>
            \/ hops[w][h].stage = "refused" /\ f.hint = hops[w][h].hint
            \/ hops[w][h].node \notin leading /\ f.hint = leaderId[hops[w][h].node]
      BY <1>1, <1>5 DEF Keeps, GoesOn
    <3>3. hops[w][h].node \in Node
      BY <1>2 DEF Hop
    <3>4. hops'[w][1].stage = "refused" => hops'[w][1].hint = l
      BY <1>2, <1>3, <3>1, <3>2, <3>3
    <3>5. Len(hops[w]) = 2 => hops'[w][2].node = l /\ hops'[w][2].stage # "refused"
      BY <1>2, <1>3, <1>8, <3>1, <3>2
    <3>6. hops'[w] # << >>
      BY <1>2, <3>1
    <3> QED BY <1>2, <2>2, <3>1, <3>4, <3>5, <3>6
  <2> QED BY <2>1, <2>2
<1> QED BY <1>7, <1>9, <1>10

\* A step of one handler keeps what an answer says.
LEMMA HandlerAnswers ==
  ASSUME HopTypes, ChainInv, AnswerInv, NEW w \in Request, NEW h \in DOMAIN hops[w],
         HandlerStep(w, h), Others(w)
  PROVE  AnswerInv'
<1>1. PICK f \in Hop : Becomes(w, h, f) /\ Keeps(hops[w][h], f) /\ GoesOn(w, h, hops[w][h], f)
  BY DEF HandlerStep
<1>2. /\ DOMAIN hops[w] = 1..Len(hops[w]) /\ DOMAIN hops'[w] = 1..Len(hops[w])
      /\ Len(hops'[w]) = Len(hops[w]) /\ Len(hops[w]) \in Nat
      /\ \A g \in 1..Len(hops[w]) : hops[w][g] \in Hop
  BY HandlerTypes
<1>3. hops'[w][h] = f /\ \A g \in 1..Len(hops[w]) : g # h => hops'[w][g] = hops[w][g]
  BY <1>1, <1>2 DEF Becomes
<1>4. \A v \in Request \ {w} : hops'[v] = hops[v]
  BY Zenon DEF Others
<1> SUFFICES ASSUME NEW v \in Write, NEW g \in DOMAIN hops'[v], hops'[v][g].stage = "done"
             PROVE  /\ hops'[v][g].answer \in {"ok", "timeout"} => \E d \in DOMAIN hops'[v] : hops'[v][d].proposed
                    /\ hops'[v][g].answer = "not leader" =>
                         \/ \E d \in DOMAIN hops'[v] : hops'[v][d].gaveUp
                         \/ \A d \in DOMAIN hops'[v] : d >= g =>
                              ~hops'[v][d].proposed /\ hops'[v][d].stage = "done"
  BY DEF AnswerInv, AnswerOf
<1>5. CASE v # w
  <2>1. hops'[v] = hops[v]
    BY <1>4, <1>5 DEF Request
  <2> QED BY <2>1 DEF AnswerInv, AnswerOf
<1>6. CASE v = w
  <2>1. w \in Write /\ w \notin Read
    BY <1>6, RequestAssumption
  <2>2. /\ \A d \in 1..Len(hops[w]) : hops[w][d].proposed => hops'[w][d].proposed
        /\ \A d \in 1..Len(hops[w]) : hops[w][d].gaveUp => hops'[w][d].gaveUp
    BY <1>1, <1>3 DEF Keeps
  <2>3. /\ h < Len(hops[w]) => /\ ~hops[w][h].proposed
                               /\ hops[w][h].stage \in {"forwarding", "done"}
        /\ hops[w][h].proposed => hops[w][h].stage \in {"waiting", "done"}
        /\ hops[w][h].stage # "arrived" => f.proposed = hops[w][h].proposed
    BY <1>1 DEF ChainInv, Keeps
  <2>4. \* what the earlier answers said
        \A d \in 1..Len(hops[w]) : hops[w][d].stage = "done" =>
          /\ hops[w][d].answer \in {"ok", "timeout"} => \E e \in 1..Len(hops[w]) : hops[w][e].proposed
          /\ hops[w][d].answer = "not leader" =>
               \/ \E e \in 1..Len(hops[w]) : hops[w][e].gaveUp
               \/ \A e \in 1..Len(hops[w]) : e >= d =>
                    ~hops[w][e].proposed /\ hops[w][e].stage = "done"
    BY <1>2, <2>1, Zenon DEF AnswerInv, AnswerOf
  <2>5. g \in 1..Len(hops[w]) /\ h \in 1..Len(hops[w])
    BY <1>2, <1>6
  <2>6. \* a handler that was done and did not propose has nothing left to do
        ~(hops[w][h].stage = "done" /\ ~hops[w][h].proposed)
    BY <1>1, <2>1, Zenon DEF GoesOn
  <2>7. CASE hops[w][g].stage = "done" /\ hops'[w][g].answer = hops[w][g].answer
    <3>1. hops'[w][g].answer \in {"ok", "timeout"} => \E d \in 1..Len(hops[w]) : hops'[w][d].proposed
      BY <2>2, <2>4, <2>5, <2>7
    <3>2. hops'[w][g].answer = "not leader" =>
            \/ \E d \in 1..Len(hops[w]) : hops'[w][d].gaveUp
            \/ \A d \in 1..Len(hops[w]) : d >= g =>
                 ~hops'[w][d].proposed /\ hops'[w][d].stage = "done"
      BY <1>3, <2>2, <2>4, <2>5, <2>6, <2>7
    <3> QED BY <1>2, <1>6, <3>1, <3>2
  <2>8. CASE ~(hops[w][g].stage = "done" /\ hops'[w][g].answer = hops[w][g].answer)
    <3>1. g = h /\ f.stage = "done"
      BY <1>3, <1>6, <2>5, <2>6, <2>8
    <3>2. \/ f.answer = "error"
          \/ f.proposed /\ f.answer \in {"ok", "timeout"}
          \/ hops[w][h].stage = "refused" /\ f.answer = "not leader"
          \/ f.gaveUp /\ f.answer = "not leader"
          \/ /\ hops[w][h].stage = "forwarding" /\ h + 1 \in 1..Len(hops[w])
             /\ hops[w][h + 1].stage = "done" /\ f.answer = hops[w][h + 1].answer
      BY <1>1, <1>2, <2>1, <3>1 DEF GoesOn
    <3>3. CASE f.answer = "error" \/ (f.proposed /\ f.answer \in {"ok", "timeout"})
      BY <1>2, <1>3, <1>6, <3>1, <3>3
    <3>4. CASE hops[w][h].stage = "refused" /\ f.answer = "not leader"
      <4>1. h = Len(hops[w])
        <5>1. ~(h < Len(hops[w])) /\ Len(hops[w]) \in Nat
          BY <1>2, <2>3, <3>4, Zenon
        <5> QED BY <2>5, <5>1
      <4>2. ~f.proposed
        BY <2>3, <3>4
      <4>3. \A d \in 1..Len(hops[w]) : d >= h => d = h
        BY <1>2, <2>5, <4>1
      <4> QED BY <1>2, <1>3, <1>6, <3>1, <3>4, <4>2, <4>3, Zenon
    <3>5. CASE f.gaveUp /\ f.answer = "not leader"
      BY <1>2, <1>3, <1>6, <3>1, <3>5
    <3>6. CASE /\ hops[w][h].stage = "forwarding" /\ h + 1 \in 1..Len(hops[w])
               /\ hops[w][h + 1].stage = "done" /\ f.answer = hops[w][h + 1].answer
      <4>1. ~f.proposed
        BY <2>3, <3>6
      <4>2. f.answer \in {"ok", "timeout"} => \E d \in 1..Len(hops[w]) : hops'[w][d].proposed
        BY <2>2, <2>4, <3>6
      <4>3. f.answer = "not leader" =>
              \/ \E d \in 1..Len(hops[w]) : hops'[w][d].gaveUp
              \/ \A d \in 1..Len(hops[w]) : d >= h =>
                   ~hops'[w][d].proposed /\ hops'[w][d].stage = "done"
        <5>1. CASE \E e \in 1..Len(hops[w]) : hops[w][e].gaveUp
          BY <2>2, <5>1
        <5>2. CASE f.answer = "not leader" /\ \A e \in 1..Len(hops[w]) : e >= h + 1 =>
                     ~hops[w][e].proposed /\ hops[w][e].stage = "done"
          <6>1. \A d \in 1..Len(hops[w]) : d >= h => d = h \/ (d # h /\ d >= h + 1)
            BY <1>2, <2>5
          <6> QED BY <1>3, <3>1, <4>1, <5>2, <6>1, Zenon
        <5> QED BY <2>4, <3>6, <5>1, <5>2
      <4> QED BY <1>2, <1>3, <1>6, <3>1, <4>2, <4>3
    <3> QED BY <3>2, <3>3, <3>4, <3>5, <3>6
  <2> QED BY <2>7, <2>8
<1> QED BY <1>5, <1>6

-----------------------------------------------------------------------------
(* The steps that start a handler, and the others *)

\* The records before and after a request is passed on to node m.
LEMMA ForwardTypes ==
  ASSUME HopTypes, NEW w \in Request, NEW h \in DOMAIN hops[w], NEW m \in Node,
         ForwardStep(w, h, m), Others(w)
  PROVE  /\ DOMAIN hops[w] = 1..h /\ DOMAIN hops'[w] = 1..h + 1
         /\ Len(hops[w]) = h /\ Len(hops'[w]) = h + 1 /\ h \in Nat \ {0}
         /\ \A g \in 1..h : hops[w][g] \in Hop
         /\ hops'[w][h].node = hops[w][h].node /\ hops'[w][h].hint = hops[w][h].hint
         /\ hops'[w][h].proposed = hops[w][h].proposed
         /\ hops'[w][h].gaveUp = hops[w][h].gaveUp
         /\ hops'[w][h].stage = "forwarding"
         /\ \A g \in 1..h : g # h => hops'[w][g] = hops[w][g]
         /\ hops'[w][h + 1] = Arrived(m)
         /\ HopTypes'
<1>1. /\ h = Len(hops[w]) /\ Len(hops'[w]) = Len(hops[w]) + 1
      /\ hops'[w] \in Seq(Hop) /\ hops'[w][h + 1] = Arrived(m)
      /\ \A g \in DOMAIN hops[w] : g # h => hops'[w][g] = hops[w][g]
      /\ hops'[w][h] = [hops[w][h] EXCEPT !.stage = "forwarding"]
  BY Zenon DEF ForwardStep
<1>2. hops[w] \in Seq(Hop)
  BY DEF HopTypes
<1>3. /\ DOMAIN hops[w] = 1..h /\ DOMAIN hops'[w] = 1..h + 1
      /\ Len(hops[w]) = h /\ Len(hops'[w]) = h + 1 /\ h \in Nat \ {0}
      /\ \A g \in 1..h : hops[w][g] \in Hop
  BY <1>1, <1>2
<1>4. hops[w][h] \in Hop
  BY <1>2
<1>5. /\ hops'[w][h].node = hops[w][h].node /\ hops'[w][h].hint = hops[w][h].hint
      /\ hops'[w][h].proposed = hops[w][h].proposed
      /\ hops'[w][h].gaveUp = hops[w][h].gaveUp
      /\ hops'[w][h].stage = "forwarding"
  BY <1>1, <1>4 DEF Hop
<1>6. HopTypes'
  BY DEF HopTypes, Others, raftVars
<1> QED BY <1>1, <1>3, <1>5, <1>6, Zenon

\* Passing a request on keeps what is known of the chain and of the answers, and
\* with the host names as IDs also of the hints and of the leader known to all.
LEMMA ForwardKeeps ==
  ASSUME HopTypes, ChainInv, NEW w \in Request, NEW h \in DOMAIN hops[w], NEW m \in Node,
         ForwardStep(w, h, m), Others(w), HostOf[m] = hops[w][h].hint
  PROVE  /\ ChainInv' /\ (AnswerInv => AnswerInv')
         /\ HostsAreIDs => /\ ArriveInv => ArriveInv'
                           /\ SettledInv => SettledInv'
<1>1. /\ DOMAIN hops[w] = 1..h /\ DOMAIN hops'[w] = 1..h + 1
      /\ Len(hops[w]) = h /\ Len(hops'[w]) = h + 1 /\ h \in Nat \ {0}
  BY ForwardTypes, Zenon
<1>2. /\ hops'[w][h].node = hops[w][h].node /\ hops'[w][h].hint = hops[w][h].hint
      /\ hops'[w][h].proposed = hops[w][h].proposed
      /\ hops'[w][h].gaveUp = hops[w][h].gaveUp
      /\ hops'[w][h].stage = "forwarding"
      /\ \A g \in 1..h : g # h => hops'[w][g] = hops[w][g]
  BY ForwardTypes, Zenon
<1>3. /\ hops'[w][h + 1].node = m /\ hops'[w][h + 1].stage = "arrived"
      /\ ~hops'[w][h + 1].proposed
  <2>1. hops'[w][h + 1] = Arrived(m)
    BY ForwardTypes, Zenon
  <2> QED BY <2>1 DEF Arrived
<1>4. /\ \A v \in Request \ {w} : hops'[v] = hops[v]
      /\ UNCHANGED <<leading, leaderId, settled>>
  BY Zenon DEF Others, raftVars
<1>5. hops[w][h].stage = "refused"
  BY Zenon DEF ForwardStep
<1>6. ~hops[w][h].proposed
  BY <1>5 DEF ChainInv
<1>7. \A g \in 1..h + 1 : g = h + 1 \/ g = h \/ (g \in 1..h /\ g # h /\ g < h)
  BY <1>1
<1>8. ChainInv'
  <2> SUFFICES ASSUME NEW v \in Request, NEW g \in DOMAIN hops'[v]
               PROVE  /\ g < Len(hops'[v]) => /\ ~hops'[v][g].proposed
                                              /\ hops'[v][g].stage \in {"forwarding", "done"}
                      /\ hops'[v][g].proposed => hops'[v][g].stage \in {"waiting", "done"}
                      /\ hops'[v][g].stage = "waiting" => hops'[v][g].proposed
    BY DEF ChainInv
  <2>1. CASE v # w
    BY <1>4, <2>1 DEF ChainInv
  <2>2. CASE v = w /\ g = h + 1
    BY <1>1, <1>3, <2>2
  <2>3. CASE v = w /\ g = h
    BY <1>2, <1>6, <2>3
  <2>4. CASE v = w /\ g \in 1..h /\ g # h /\ g < h
    <3>1. ~hops[w][g].proposed /\ hops[w][g].stage \in {"forwarding", "done"}
      BY <1>1, <2>4 DEF ChainInv
    <3> QED BY <1>2, <2>4, <3>1
  <2> QED BY <1>1, <1>7, <2>1, <2>2, <2>3, <2>4
<1>9. ASSUME AnswerInv PROVE AnswerInv'
  <2> SUFFICES ASSUME NEW v \in Write, NEW g \in DOMAIN hops'[v], hops'[v][g].stage = "done"
               PROVE  /\ hops'[v][g].answer \in {"ok", "timeout"} =>
                           \E d \in DOMAIN hops'[v] : hops'[v][d].proposed
                      /\ hops'[v][g].answer = "not leader" =>
                           \/ \E d \in DOMAIN hops'[v] : hops'[v][d].gaveUp
                           \/ \A d \in DOMAIN hops'[v] : d >= g =>
                                ~hops'[v][d].proposed /\ hops'[v][d].stage = "done"
    BY DEF AnswerInv, AnswerOf
  <2>1. CASE v # w
    <3>1. hops'[v] = hops[v]
      BY <1>4, <2>1 DEF Request
    <3> QED BY <1>9, <3>1 DEF AnswerInv, AnswerOf
  <2>2. CASE v = w
    <3>1. g \in 1..h /\ g # h /\ g < h /\ hops'[w][g] = hops[w][g]
      BY <1>1, <1>2, <1>3, <1>7, <2>2
    <3>2. /\ hops[w][g].answer \in {"ok", "timeout"} => \E e \in 1..h : hops[w][e].proposed
          /\ hops[w][g].answer = "not leader" =>
               \/ \E e \in 1..h : hops[w][e].gaveUp
               \/ \A e \in 1..h : e >= g => hops[w][e].stage = "done"
      <4>1. AnswerOf(hops[w], g) /\ hops[w][g].stage = "done"
        BY <1>1, <1>9, <2>2, <3>1, Zenon DEF AnswerInv
      <4> QED BY <1>1, <4>1, Zenon DEF AnswerOf
    <3>3. h \in 1..h /\ h >= g /\ \A e \in 1..h : e \in 1..h + 1
      BY <1>1, <3>1
    <3>4. \A e \in 1..h : /\ hops[w][e].proposed => hops'[w][e].proposed
                          /\ hops[w][e].gaveUp => hops'[w][e].gaveUp
      BY <1>2
    <3> QED BY <1>1, <1>5, <2>2, <3>1, <3>2, <3>3, <3>4
  <2> QED BY <2>1, <2>2
<1>10. ASSUME HostsAreIDs PROVE m = hops[w][h].hint
  BY <1>10 DEF HostsAreIDs
<1>11. ASSUME HostsAreIDs, ArriveInv PROVE ArriveInv'
  <2> SUFFICES ASSUME NEW v \in Request, NEW g \in DOMAIN hops'[v], g < Len(hops'[v])
               PROVE  hops'[v][g + 1].node = hops'[v][g].hint
    BY DEF ArriveInv
  <2>1. CASE v # w
    BY <1>4, <1>11, <2>1 DEF ArriveInv
  <2>2. CASE v = w /\ g = h
    BY <1>2, <1>3, <1>10, <1>11, <2>2
  <2>3. CASE v = w /\ g \in 1..h /\ g # h /\ g < h
    <3>1. g + 1 \in 1..h
      BY <1>1, <2>3
    <3>2. hops[w][g + 1].node = hops[w][g].hint
      BY <1>1, <1>11, <2>3 DEF ArriveInv
    <3> QED BY <1>2, <2>3, <3>1, <3>2
  <2>4. v = w => g # h + 1
    BY <1>1
  <2> QED BY <1>1, <1>7, <2>1, <2>2, <2>3, <2>4
<1>12. ASSUME HostsAreIDs, SettledInv PROVE SettledInv'
  <2> SUFFICES ASSUME NEW v \in Write, settled[v]
               PROVE  /\ hops'[v] # << >> /\ Len(hops'[v]) <= 2
                      /\ \E l \in leading :
                           /\ \A k \in Node : leaderId[k] = l
                           /\ hops'[v][1].stage = "refused" => hops'[v][1].hint = l
                           /\ Len(hops'[v]) = 2 => /\ hops'[v][2].node = l
                                                   /\ hops'[v][2].stage # "refused"
    BY <1>4 DEF SettledInv
  <2>1. CASE v # w
    BY <1>4, <1>12, <2>1 DEF SettledInv, Request
  <2>2. CASE v = w
    <3>1. Len(hops[w]) <= 2
      BY <1>4, <1>12, <2>2, Zenon DEF SettledInv
    <3>2. PICK l \in leading :
            /\ \A k \in Node : leaderId[k] = l
            /\ hops[w][1].stage = "refused" => hops[w][1].hint = l
            /\ Len(hops[w]) = 2 => hops[w][2].stage # "refused"
      BY <1>4, <1>12, <2>2, Zenon DEF SettledInv
    <3>3. h # 2
      BY <1>1, <1>5, <3>2, Zenon
    <3>4. h = 1
      BY <1>1, <3>1, <3>3
    <3>5. m = l
      BY <1>5, <1>10, <1>12, <3>2, <3>4
    <3>6. hops'[w] # << >> /\ Len(hops'[w]) = 2 /\ hops'[w][2].node = l
          /\ hops'[w][2].stage # "refused" /\ hops'[w][1].stage # "refused"
      BY <1>1, <1>2, <1>3, <3>4, <3>5
    <3> QED BY <2>2, <3>2, <3>6
  <2> QED BY <2>1, <2>2
<1> QED BY <1>8, <1>9, <1>11, <1>12

\* The other steps: a client sends its request, and leaders change.
LEMMA OthersKeep ==
  ASSUME HopTypes, ChainInv, settled \in [Request -> BOOLEAN],
         \/ \E n \in Node, voters \in SUBSET Node : BecomeLeader(n, voters)
         \/ \E n \in Node, t \in 1..MaxTerm : StepDown(n, t)
         \/ \E n, l \in Node : HearOfLeader(n, l)
         \/ \E w \in Request, n \in Node : Send(w, n)
         \/ UNCHANGED vars
  PROVE  /\ HopTypes' /\ ChainInv' /\ (settled \in [Request -> BOOLEAN])'
         /\ (ArriveInv => ArriveInv') /\ (AnswerInv => AnswerInv')
         /\ (SettledInv => SettledInv')
<1>1. ASSUME UNCHANGED hops, leaderId' \in [Node -> Node \cup {Nobody}],
             settled' = [w \in Request |-> FALSE]
      PROVE  /\ HopTypes' /\ ChainInv' /\ (settled \in [Request -> BOOLEAN])'
             /\ (ArriveInv => ArriveInv') /\ (AnswerInv => AnswerInv')
             /\ (SettledInv => SettledInv')
  <2>1. \A w \in Write : ~settled'[w]
    BY <1>1 DEF Request
  <2>2. HopTypes' /\ ChainInv' /\ settled' \in [Request -> BOOLEAN]
    BY <1>1 DEF HopTypes, ChainInv
  <2>3. (ArriveInv => ArriveInv') /\ (AnswerInv => AnswerInv')
    BY <1>1, Zenon DEF ArriveInv, AnswerInv
  <2> QED BY <2>1, <2>2, <2>3, Zenon DEF SettledInv
<1>2. ASSUME NEW n \in Node, NEW voters \in SUBSET Node, BecomeLeader(n, voters)
      PROVE  UNCHANGED hops /\ leaderId' \in [Node -> Node \cup {Nobody}]
             /\ settled' = [w \in Request |-> FALSE]
  <2>1. leaderId' = [leaderId EXCEPT ![n] = n] /\ UNCHANGED hops
        /\ settled' = [w \in Request |-> FALSE]
    BY <1>2, Zenon DEF BecomeLeader
  <2> QED BY <2>1 DEF HopTypes
<1>3. ASSUME NEW n \in Node, NEW l \in Node, HearOfLeader(n, l)
      PROVE  UNCHANGED hops /\ leaderId' \in [Node -> Node \cup {Nobody}]
             /\ settled' = [w \in Request |-> FALSE]
  <2>1. leaderId' = [leaderId EXCEPT ![n] = l] /\ UNCHANGED hops
        /\ settled' = [w \in Request |-> FALSE]
    BY <1>3, Zenon DEF HearOfLeader
  <2> QED BY <2>1 DEF HopTypes
<1>4. ASSUME NEW w \in Request, NEW n \in Node, Send(w, n)
      PROVE  /\ HopTypes' /\ ChainInv' /\ (settled \in [Request -> BOOLEAN])'
             /\ (ArriveInv => ArriveInv') /\ (AnswerInv => AnswerInv')
             /\ (SettledInv => SettledInv')
  <2> DEFINE known == \E l \in leading : \A m \in Node : leaderId[m] = l
  <2>1. /\ hops' = [hops EXCEPT ![w] = <<Arrived(n)>>] /\ UNCHANGED <<leading, leaderId>>
        /\ settled' = [settled EXCEPT ![w] = known]
    BY Zenon, <1>4 DEF Send, raftVars
  <2>2. /\ Arrived(n) \in Hop /\ ~Arrived(n).proposed /\ Arrived(n).stage = "arrived"
    BY DEF Arrived, Hop
  <2>3. /\ hops'[w] = <<Arrived(n)>> /\ \A v \in Request \ {w} : hops'[v] = hops[v]
        /\ hops' \in [Request -> Seq(Hop)]
    BY <2>1, <2>2 DEF HopTypes
  <2>4. DOMAIN hops'[w] = {1} /\ Len(hops'[w]) = 1 /\ hops'[w][1] = Arrived(n)
        /\ hops'[w] # << >>
    BY <2>3
  <2>5. HopTypes' /\ ChainInv'
    BY <2>1, <2>2, <2>3, <2>4 DEF HopTypes, ChainInv
  <2> HIDE DEF known
  <2>6. settled' \in [Request -> BOOLEAN] /\ settled'[w] = (known \/ FALSE)
        /\ \A v \in Request \ {w} : settled'[v] = settled[v]
    <3>1. known \in BOOLEAN
      BY Zenon DEF known
    <3> QED BY <2>1, <3>1
  <2>7. ArriveInv => ArriveInv'
    <3> SUFFICES ASSUME ArriveInv, NEW v \in Request, NEW g \in DOMAIN hops'[v],
                        g < Len(hops'[v])
                 PROVE  hops'[v][g + 1].node = hops'[v][g].hint
      BY DEF ArriveInv
    <3>1. ASSUME v = w PROVE FALSE
      <4>1. g = 1 /\ g < 1
        BY <2>4, <3>1, Zenon
      <4> QED BY <4>1
    <3>2. hops'[v] = hops[v]
      BY <2>3, <3>1, Zenon
    <3> QED BY <3>2, Zenon DEF ArriveInv
  <2>8. AnswerInv => AnswerInv'
    <3> SUFFICES ASSUME AnswerInv, NEW v \in Write
                 PROVE  \A h \in DOMAIN hops'[v] : hops'[v][h].stage = "done" =>
                          /\ hops'[v][h].answer \in {"ok", "timeout"} =>
                               \E g \in DOMAIN hops'[v] : hops'[v][g].proposed
                          /\ hops'[v][h].answer = "not leader" =>
                               \/ \E g \in DOMAIN hops'[v] : hops'[v][g].gaveUp
                               \/ \A g \in DOMAIN hops'[v] : g >= h =>
                                    ~hops'[v][g].proposed /\ hops'[v][g].stage = "done"
      BY DEF AnswerInv, AnswerOf
    <3>1. CASE v = w
      BY <2>2, <2>4, <3>1
    <3>2. CASE v # w
      <4>1. hops'[v] = hops[v]
        BY <2>3, <3>2 DEF Request
      <4> QED BY <4>1, Zenon DEF AnswerInv, AnswerOf
    <3> QED BY <3>1, <3>2
  <2>9. SettledInv => SettledInv'
    <3> SUFFICES ASSUME SettledInv, NEW v \in Write, settled'[v]
                 PROVE  /\ hops'[v] # << >> /\ Len(hops'[v]) <= 2
                        /\ \E l \in leading' :
                             /\ \A k \in Node : leaderId'[k] = l
                             /\ hops'[v][1].stage = "refused" => hops'[v][1].hint = l
                             /\ Len(hops'[v]) = 2 => /\ hops'[v][2].node = l
                                                     /\ hops'[v][2].stage # "refused"
      BY DEF SettledInv
    <3>1. CASE v = w
      <4>1. known
        BY <2>6, <3>1, Zenon
      <4>2. PICK l \in leading : \A k \in Node : leaderId[k] = l
        BY <4>1 DEF known
      <4>3. Len(hops'[w]) <= 2 /\ Len(hops'[w]) # 2 /\ hops'[w][1].stage # "refused"
        BY <2>2, <2>4
      <4>4. leading' = leading /\ leaderId' = leaderId
        BY <2>1, Zenon
      <4> QED BY <2>4, <3>1, <4>2, <4>3, <4>4, Zenon
    <3>2. CASE v # w
      <4>1. hops'[v] = hops[v] /\ settled[v]
        BY <2>3, <2>6, <3>2, Zenon DEF Request
      <4>2. leading' = leading /\ leaderId' = leaderId
        BY <2>1, Zenon
      <4> QED BY <4>1, <4>2 DEF SettledInv
    <3> QED BY <3>1, <3>2
  <2> QED BY <2>5, <2>6, <2>7, <2>8, <2>9
<1>5. ASSUME NEW n \in Node, NEW t \in 1..MaxTerm, StepDown(n, t)
      PROVE  UNCHANGED hops /\ leaderId' \in [Node -> Node \cup {Nobody}]
             /\ settled' = [w \in Request |-> FALSE]
  BY <1>5, Zenon DEF StepDown, HopTypes
<1>6. CASE UNCHANGED vars
  <2>1. hops' = hops /\ leaderId' = leaderId /\ leading' = leading /\ settled' = settled
    BY <1>6, Zenon DEF vars, raftVars
  <2>2. (ArriveInv => ArriveInv') /\ (AnswerInv => AnswerInv')
    BY <2>1, Zenon DEF ArriveInv, AnswerInv
  <2>3. SettledInv => SettledInv'
    BY <2>1 DEF SettledInv
  <2> QED BY <2>1, <2>2, <2>3 DEF HopTypes, ChainInv
<1> QED BY <1>1, <1>2, <1>3, <1>4, <1>5, <1>6, Zenon

\* Every step keeps all of it.
LEMMA NextKeeps ==
  ASSUME HopTypes, ChainInv, settled \in [Request -> BOOLEAN], [Next]_vars
  PROVE  /\ HopTypes' /\ ChainInv' /\ (settled \in [Request -> BOOLEAN])'
         /\ AnswerInv => AnswerInv'
         /\ HostsAreIDs => (ArriveInv => ArriveInv') /\ (SettledInv => SettledInv')
<1>1. ASSUME NEW w \in Request, NEW h \in DOMAIN hops[w], HandlerStep(w, h), Others(w)
      PROVE  /\ HopTypes' /\ ChainInv' /\ settled' \in [Request -> BOOLEAN]
             /\ AnswerInv => AnswerInv'
             /\ (ArriveInv => ArriveInv') /\ (SettledInv => SettledInv')
  <2>1. UNCHANGED settled
    BY <1>1, Zenon DEF Others
  <2> QED BY <1>1, <2>1, HandlerTypes, HandlerKeeps, HandlerAnswers, Zenon
<1>2. ASSUME NEW w \in Request, NEW h \in DOMAIN hops[w], NEW m \in Node,
             HostOf[m] = hops[w][h].hint, ForwardStep(w, h, m), Others(w)
      PROVE  /\ HopTypes' /\ ChainInv' /\ settled' \in [Request -> BOOLEAN]
             /\ AnswerInv => AnswerInv'
             /\ HostsAreIDs => (ArriveInv => ArriveInv') /\ (SettledInv => SettledInv')
  <2>1. UNCHANGED settled
    BY <1>2, Zenon DEF Others
  <2>2. HopTypes'
    BY <1>2, ForwardTypes, Zenon
  <2> QED BY <1>2, <2>1, <2>2, ForwardKeeps, Zenon
<1>3. ASSUME NEW w \in Request, NEW h \in 1..MaxHops, Forward(w, h)
      PROVE  h \in DOMAIN hops[w]
  BY <1>3, Zenon DEF Forward, At
<1>4. CASE \E w \in Request, h \in 1..MaxHops : Handle(w, h) \/ Fault(w, h)
  <2>1. PICK w \in Request, h \in 1..MaxHops : Handle(w, h) \/ Fault(w, h)
    BY <1>4, Zenon
  <2>2. CASE Forward(w, h)
    <3>1. h \in DOMAIN hops[w]
      BY <1>3, <2>2
    <3>2. PICK m \in Node : HostOf[m] = hops[w][h].hint /\ ForwardStep(w, h, m) /\ Others(w)
      BY <2>2, ForwardIs, Zenon
    <3> QED BY <1>2, <3>1, <3>2, Zenon
  <2>3. CASE ~Forward(w, h)
    <3>1. h \in DOMAIN hops[w] /\ HandlerStep(w, h) /\ Others(w)
      BY <2>1, <2>3, HandleIs, Zenon DEF Handle
    <3> QED BY <1>1, <3>1, Zenon
  <2> QED BY <2>2, <2>3
<1>5. CASE ~(\E w \in Request, h \in 1..MaxHops : Handle(w, h) \/ Fault(w, h))
  <2>1. \/ \E n \in Node, voters \in SUBSET Node : BecomeLeader(n, voters)
        \/ \E n \in Node, t \in 1..MaxTerm : StepDown(n, t)
        \/ \E n, l \in Node : HearOfLeader(n, l)
        \/ \E w \in Request, n \in Node : Send(w, n)
        \/ UNCHANGED vars
    BY <1>5, Zenon DEF Next
  <2> QED BY <2>1, OthersKeep, Zenon
<1> QED BY <1>4, <1>5

-----------------------------------------------------------------------------
LEMMA InitAll ==
  ASSUME Init
  PROVE  /\ HopTypes /\ ChainInv /\ settled \in [Request -> BOOLEAN]
         /\ AnswerInv /\ ArriveInv /\ SettledInv
<1>1. /\ hops = [w \in Request |-> << >>] /\ settled = [w \in Request |-> FALSE]
      /\ leaderId = [n \in Node |-> Nobody]
  BY DEF Init
<1>2. \A w \in Request : hops[w] = << >> /\ DOMAIN hops[w] = {} /\ ~settled[w]
  BY <1>1
<1>3. HopTypes /\ settled \in [Request -> BOOLEAN]
  BY <1>1 DEF HopTypes
<1>4. \A w \in Write : w \in Request
  BY DEF Request
<1>5. ChainInv /\ AnswerInv /\ ArriveInv /\ SettledInv
  BY <1>2, <1>4, Zenon DEF ChainInv, AnswerInv, ArriveInv, SettledInv
<1> QED BY <1>3, <1>5

\* However often a write is passed on, whoever gives up on whom and whoever leads
\* meanwhile, one node at most proposes it: handlePut and handleDelete forward
\* what was refused, and only that (tryForwardToLeader).
THEOREM ForwardingCorrect == Spec => []ProposedOnce
<1> DEFINE Inv == HopTypes /\ ChainInv /\ settled \in [Request -> BOOLEAN]
<1>1. Init => Inv
  BY InitAll
<1>2. Inv /\ [Next]_vars => Inv'
  BY NextKeeps, Zenon
<1>3. Inv => ProposedOnce
  <2> SUFFICES ASSUME HopTypes, ChainInv, NEW w \in Write
               PROVE  Cardinality({h \in DOMAIN hops[w] : hops[w][h].proposed}) <= 1
    BY DEF ProposedOnce
  <2> DEFINE P == {h \in DOMAIN hops[w] : hops[w][h].proposed}
  <2>1. P \subseteq {Len(hops[w])}
    BY DEF HopTypes, ChainInv, Request
  <2>2. IsFiniteSet({Len(hops[w])}) /\ Cardinality({Len(hops[w])}) = 1
    BY FS_Singleton, Zenon
  <2>3. Cardinality(P) <= Cardinality({Len(hops[w])})
    BY <2>1, <2>2, FS_Subset
  <2> QED BY <2>2, <2>3
<1> QED BY <1>1, <1>2, <1>3, PTL DEF Spec

\* However many hops lie between, a client is told of success or of a timeout only
\* if a handler put its write into a leader's log, and of "not leader" only if none
\* did, unless one gave up on the next: the answer is carried back unchanged along
\* the whole chain (handlePut, handleDelete, tryForwardToLeader).
THEOREM AnswersTellProposals == Spec => []AnswerTellsProposal
<1> DEFINE Inv == HopTypes /\ ChainInv /\ settled \in [Request -> BOOLEAN] /\ AnswerInv
<1>1. Init => Inv
  BY InitAll
<1>2. Inv /\ [Next]_vars => Inv'
  BY NextKeeps, Zenon
<1>3. Inv => AnswerTellsProposal
  <2> SUFFICES ASSUME HopTypes, AnswerInv, NEW w \in Write, At(w, 1, "done")
               PROVE  /\ hops[w][1].answer \in {"ok", "timeout"} => \E f \in Range(hops[w]) : f.proposed
                      /\ hops[w][1].answer = "not leader" /\ (\A f \in Range(hops[w]) : ~f.gaveUp) =>
                           \A f \in Range(hops[w]) : ~f.proposed
    BY DEF AnswerTellsProposal
  <2>1. 1 \in DOMAIN hops[w] /\ hops[w][1].stage = "done"
    BY DEF At
  <2>2. \A g \in DOMAIN hops[w] : g >= 1
    BY DEF HopTypes, Request
  <2>3. \A g \in DOMAIN hops[w] : hops[w][g] \in Range(hops[w])
    BY Zenon DEF Range
  <2>4. \A f \in Range(hops[w]) : \E g \in DOMAIN hops[w] : f = hops[w][g]
    BY Zenon DEF Range
  <2>5. AnswerOf(hops[w], 1)
    BY <2>1, Zenon DEF AnswerInv
  <2>6. hops[w][1].answer \in {"ok", "timeout"} => \E f \in Range(hops[w]) : f.proposed
    BY <2>1, <2>3, <2>5, Zenon DEF AnswerOf
  <2>7. hops[w][1].answer = "not leader" =>
          \/ \E f \in Range(hops[w]) : f.gaveUp
          \/ \A g \in DOMAIN hops[w] : ~hops[w][g].proposed
    BY <2>1, <2>2, <2>3, <2>5, Zenon DEF AnswerOf
  <2> QED BY <2>4, <2>6, <2>7, Zenon
<1> QED BY <1>1, <1>2, <1>3, PTL DEF Spec

\* When every node's host name is its ID, a forwarded write arrives at the node
\* that the hint names (derivePeerHTTPAddrs, tryForwardToLeader).
THEOREM ArrivalsCorrect == HostsAreIDs => (Spec => []ArrivesAtHint)
<1> SUFFICES ASSUME HostsAreIDs PROVE Spec => []ArrivesAtHint
  OBVIOUS
<1> DEFINE Inv == HopTypes /\ ChainInv /\ settled \in [Request -> BOOLEAN] /\ ArriveInv
<1>1. Init => Inv
  BY InitAll
<1>2. Inv /\ [Next]_vars => Inv'
  BY NextKeeps, Zenon
<1>3. Inv => ArrivesAtHint
  <2> SUFFICES ASSUME HopTypes, ArriveInv, NEW w \in Write, NEW h \in 1..MaxHops - 1,
                      h + 1 \in DOMAIN hops[w]
               PROVE  hops[w][h + 1].node = hops[w][h].hint
    BY DEF ArrivesAtHint
  <2>1. w \in Request /\ hops[w] \in Seq(Hop)
    BY DEF HopTypes, Request
  <2>2. h \in DOMAIN hops[w] /\ h < Len(hops[w])
    BY <2>1
  <2> QED BY <2>1, <2>2, Zenon DEF ArriveInv
<1> QED BY <1>1, <1>2, <1>3, PTL DEF Spec

\* And while every node knows the leader, a write reaches it in one hop at most,
\* and is not refused there (handlePut, tryForwardToLeader).
THEOREM SettledCorrect == HostsAreIDs => (Spec => []OneHopWhenSettled)
<1> SUFFICES ASSUME HostsAreIDs PROVE Spec => []OneHopWhenSettled
  OBVIOUS
<1> DEFINE Inv == HopTypes /\ ChainInv /\ settled \in [Request -> BOOLEAN] /\ SettledInv
<1>1. Init => Inv
  BY InitAll
<1>2. Inv /\ [Next]_vars => Inv'
  BY NextKeeps, Zenon
<1>3. Inv => OneHopWhenSettled
  BY Zenon DEF SettledInv, OneHopWhenSettled
<1> QED BY <1>1, <1>2, <1>3, PTL DEF Spec

=============================================================================
