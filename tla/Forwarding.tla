----------------------------- MODULE Forwarding -----------------------------
(***************************************************************************)
(* internal/server/http_handler.go: a node that is not the leader passes a *)
(* write on to the node it believes to be the leader, over HTTP, and hands *)
(* the answer back.  Each hop is a handler of its own, that goes on running*)
(* when the hop before has given up.  The addresses come from the peer list*)
(* as cmd/server/main.go reads it.  Elections and commits are left to Raft:*)
(* here a node may lead, lose the lead or hear of a leader at any time.    *)
(***************************************************************************)
EXTENDS Integers, Sequences, FiniteSets, Functions

CONSTANTS Node,       \* the IDs of the nodes
          Write,      \* PUT and DELETE requests
          Read,       \* GET requests with linearizable=true
          Nobody,     \* no leader known
          HostOf,     \* the host of each node, which its peers take for its ID
          RaftPort, HTTPPort,  \* the ports of each node
          MaxTerm,    \* bound on the elections
          MaxHops     \* bound on the handlers that one request passes

ASSUME RequestAssumption == Write \cap Read = {}

VARIABLES term,     \* currentTerm of each node
          leading,  \* the nodes that are in state Leader
          leaderId, \* the leader each node knows of
          hops,     \* the handlers of each request, in the order of forwarding
          settled   \* history: nothing has moved since the request was sent

raftVars == <<term, leading, leaderId>>
vars == <<raftVars, hops, settled>>

Request == Write \cup Read

\* cfg.Peers of node n: "host:port" of the other nodes' Raft addresses.
Peers(n) == {[host |-> HostOf[m], port |-> RaftPort[m]] : m \in Node \ {n}}

\* The peer IDs: what stands before the colon.
parsePeers(n) == {p.host : p \in Peers(n)}

\* Mutant: the own host with every ID.
derivePeerHTTPAddrsSelf(n) ==
  [id \in {n} \cup parsePeers(n) |-> [host |-> n, port |-> HTTPPort[n]]]

\* The HTTP address of each ID: the ID as host and the own port.
derivePeerHTTPAddrs(n) ==
  [id \in {n} \cup parsePeers(n) |-> [host |-> id, port |-> HTTPPort[n]]]

\* The nodes that listen there.
Resolve(addr) == {m \in Node : HostOf[m] = addr.host /\ HTTPPort[m] = addr.port}

\* How a handler starts, at node n.
Arrived(n) ==
  [node |-> n, stage |-> "arrived", hint |-> Nobody, proposed |-> FALSE,
   gaveUp |-> FALSE, answer |-> "none"]

Answer(w, h, a) ==
  hops' = [hops EXCEPT ![w][h].stage = "done", ![w][h].answer = a]

At(w, h, stage) == h \in DOMAIN hops[w] /\ hops[w][h].stage = stage

-----------------------------------------------------------------------------
Init ==
  /\ term = [n \in Node |-> 0] /\ leading = {} /\ leaderId = [n \in Node |-> Nobody]
  /\ hops = [w \in Request |-> << >>]
  /\ settled = [w \in Request |-> FALSE]

\* Somebody wins an election: becomeLeader.  Its voters step down, keeping the
\* leader they know of.
BecomeLeader(n, voters) ==
  LET t == term[n] + 1 IN
  /\ n \in voters /\ 2 * Cardinality(voters) > Cardinality(Node)
  /\ t <= MaxTerm /\ \A v \in voters : term[v] < t
  /\ term' = [m \in Node |-> IF m \in voters THEN t ELSE term[m]]
  /\ leading' = (leading \ voters) \cup {n}
  /\ leaderId' = [leaderId EXCEPT ![n] = n]
  /\ settled' = [w \in Request |-> FALSE]
  /\ UNCHANGED hops

\* Node n meets a higher term, its own as a candidate included, and nobody has
\* won in it: stepDown, which leaves leaderId alone.
StepDown(n, t) ==
  /\ t > term[n]
  /\ term' = [term EXCEPT ![n] = t]
  /\ leading' = leading \ {n}
  /\ settled' = [w \in Request |-> FALSE]
  /\ UNCHANGED <<leaderId, hops>>

\* Node n hears of leader l by AppendEntries.
HearOfLeader(n, l) ==
  /\ l \in leading /\ n # l /\ term[l] >= term[n]
  /\ leaderId[n] # l \/ term[n] # term[l]
  /\ term' = [term EXCEPT ![n] = term[l]]
  /\ leading' = leading \ {n}
  /\ leaderId' = [leaderId EXCEPT ![n] = l]
  /\ settled' = [w \in Request |-> FALSE]
  /\ UNCHANGED hops

-----------------------------------------------------------------------------
\* A client sends a request to node n.
Send(w, n) ==
  /\ hops[w] = << >>
  /\ hops' = [hops EXCEPT ![w] = <<Arrived(n)>>]
  /\ settled' = [settled EXCEPT ![w] = \E l \in leading : \A m \in Node : leaderId[m] = l]
  /\ UNCHANGED raftVars

\* kv.Put and kv.Delete at a leader: the entry is in its log.
Propose(w, h) ==
  /\ At(w, h, "arrived") /\ w \in Write /\ hops[w][h].node \in leading
  /\ hops' = [hops EXCEPT ![w][h].stage = "waiting", ![w][h].proposed = TRUE]
  /\ UNCHANGED <<raftVars, settled>>

\* Or the leader's log fails to append it: an error that is not forwarded, 500.
ProposeFails(w, h) ==
  /\ At(w, h, "arrived") /\ w \in Write /\ hops[w][h].node \in leading
  /\ Answer(w, h, "error")
  /\ UNCHANGED <<raftVars, settled>>

\* Mutant: a leader refuses, too.
RefuseAlways(w, h) ==
  /\ At(w, h, "arrived") /\ w \in Write
  /\ hops' = [hops EXCEPT ![w][h].stage = "refused",
                          ![w][h].hint = leaderId[hops[w][h].node]]
  /\ UNCHANGED <<raftVars, settled>>

\* Elsewhere they return ErrNotLeaderWithHint with the leader known then.
Refuse(w, h) ==
  /\ At(w, h, "arrived") /\ w \in Write /\ hops[w][h].node \notin leading
  /\ hops' = [hops EXCEPT ![w][h].stage = "refused",
                          ![w][h].hint = leaderId[hops[w][h].node]]
  /\ UNCHANGED <<raftVars, settled>>

\* The waiting handler gets a result: an entry with the number of its request is
\* applied on its node, its own entry or one with the same number (KVServer).
Succeed(w, h) ==
  /\ At(w, h, "waiting")
  /\ Answer(w, h, "ok")
  /\ UNCHANGED <<raftVars, settled>>

\* The result is a storage error, the caller is gone or the server is closed.
Fail(w, h) ==
  /\ At(w, h, "waiting")
  /\ Answer(w, h, "error")
  /\ UNCHANGED <<raftVars, settled>>

\* Mutant: a timeout at the leader is taken for a refusal.
TimeOutRefused(w, h) ==
  /\ At(w, h, "waiting")
  /\ hops' = [hops EXCEPT ![w][h].stage = "refused",
                          ![w][h].hint = leaderId[hops[w][h].node]]
  /\ UNCHANGED <<raftVars, settled>>

\* Or ErrTimeout after operationTimeout, which is not forwarded: 504.
TimeOut(w, h) ==
  /\ At(w, h, "waiting")
  /\ Answer(w, h, "timeout")
  /\ UNCHANGED <<raftVars, settled>>

\* handleGet never forwards: a value, a timeout or an error at the leader, 503
\* elsewhere.
HandleGet(w, h) ==
  /\ At(w, h, "arrived") /\ w \in Read
  /\ \E a \in IF hops[w][h].node \in leading THEN {"ok", "timeout", "error"}
                                            ELSE {"not leader"} : Answer(w, h, a)
  /\ UNCHANGED <<raftVars, settled>>

-----------------------------------------------------------------------------
\* The address of the hinted leader, if it is known.
Target(w, h) ==
  LET addrs == derivePeerHTTPAddrs(hops[w][h].node) IN
  {addrs[id] : id \in DOMAIN addrs \cap {hops[w][h].hint}}

\* tryForwardToLeader: the request goes to the leader's address.
Forward(w, h) ==
  /\ At(w, h, "refused") /\ h < MaxHops
  /\ \E addr \in Target(w, h) : \E m \in Resolve(addr) :
       hops' = [hops EXCEPT ![w] = Append([@ EXCEPT ![h].stage = "forwarding"], Arrived(m))]
  /\ UNCHANGED <<raftVars, settled>>

\* It returns false: no leader or no address known, or nobody there; 503.
DoNotForward(w, h) ==
  /\ At(w, h, "refused") /\ \A addr \in Target(w, h) : Resolve(addr) = {}
  /\ Answer(w, h, "not leader")
  /\ UNCHANGED <<raftVars, settled>>

\* Or the connection to the leader fails.
ForwardFails(w, h) ==
  /\ At(w, h, "refused") /\ \E addr \in Target(w, h) : Resolve(addr) # {}
  /\ Answer(w, h, "not leader")
  /\ UNCHANGED <<raftVars, settled>>

\* Mutant: the status of the next handler's answer is not copied, so it is 200.
RelayOK(w, h) ==
  /\ At(w, h, "forwarding") /\ At(w, h + 1, "done")
  /\ Answer(w, h, "ok")
  /\ UNCHANGED <<raftVars, settled>>

\* The answer of the next handler is copied.
Relay(w, h) ==
  /\ At(w, h, "forwarding") /\ At(w, h + 1, "done")
  /\ Answer(w, h, hops[w][h + 1].answer)
  /\ UNCHANGED <<raftVars, settled>>

\* Mutant: the HTTP client has no timeout.
GiveUpNever(w, h) == FALSE /\ UNCHANGED vars

\* The HTTP client's 10 seconds pass first: 503, while the next handler goes on.
GiveUp(w, h) ==
  /\ At(w, h, "forwarding") /\ ~At(w, h + 1, "done")
  /\ hops' = [hops EXCEPT ![w][h].stage = "done", ![w][h].answer = "not leader",
                          ![w][h].gaveUp = TRUE]
  /\ UNCHANGED <<raftVars, settled>>

Handle(w, h) ==
  \/ Propose(w, h) \/ Refuse(w, h) \/ Succeed(w, h) \/ TimeOut(w, h) \/ HandleGet(w, h)
  \/ Forward(w, h) \/ DoNotForward(w, h) \/ Relay(w, h) \/ GiveUp(w, h)

\* What may go wrong beside.
Fault(w, h) == ProposeFails(w, h) \/ Fail(w, h) \/ ForwardFails(w, h)

Next ==
  \/ \E n \in Node, voters \in SUBSET Node : BecomeLeader(n, voters)
  \/ \E n \in Node, t \in 1..MaxTerm : StepDown(n, t)
  \/ \E n, l \in Node : HearOfLeader(n, l)
  \/ \E w \in Request, n \in Node : Send(w, n)
  \/ \E w \in Request, h \in 1..MaxHops : Handle(w, h) \/ Fault(w, h)

Spec == Init /\ [][Next]_vars

\* Every handler runs, and its timers fire; no election or failure is owed.
FairSpec == Spec /\ \A w \in Request, h \in 1..MaxHops : WF_vars(Handle(w, h))

-----------------------------------------------------------------------------
\* However often a write is passed on, and although an abandoned handler goes
\* on, at most one node proposes it: only a refusal is forwarded, never a
\* timeout (tryForwardToLeader, "Check if it's a not-leader error").
ProposedOnce ==
  \A w \in Write : Cardinality({h \in DOMAIN hops[w] : hops[w][h].proposed}) <= 1

\* Whatever chain of handlers lies between, a client is told of success or of a
\* timeout only when one of them put its write into a leader's log; and one that
\* is told "not leader" can send it again without doubling it, unless a handler
\* gave up on the next one (handlePut, tryForwardToLeader, handleError).  Whether
\* success means that the write itself was committed is a question to KVServer:
\* the servers match results by request numbers, which are not unique.
AnswerTellsProposal ==
  \A w \in Write : LET all == Range(hops[w]) IN
    At(w, 1, "done") =>
      /\ hops[w][1].answer \in {"ok", "timeout"} => \E f \in all : f.proposed
      /\ hops[w][1].answer = "not leader" /\ (\A f \in all : ~f.gaveUp) =>
           \A f \in all : ~f.proposed

\* The same without the exception: a 503 that names the leader to try would
\* mean that nothing was done yet.
NotLeaderMeansNothingDone ==
  \A w \in Write :
    At(w, 1, "done") /\ hops[w][1].answer = "not leader" =>
      \A f \in Range(hops[w]) : ~f.proposed

\* A forwarded write arrives at the very node that the hint names: the host
\* before the colon of a peer's Raft address is its node ID, and all nodes
\* serve HTTP on one port (main.go, parsePeers, derivePeerHTTPAddrs).
ArrivesAtHint ==
  \A w \in Write, h \in 1..MaxHops - 1 :
    h + 1 \in DOMAIN hops[w] => hops[w][h + 1].node = hops[w][h].hint

\* Every node knows its peers by their IDs, as "we extract the hostname as the
\* peer ID" (main.go) presumes.
PeersKnown == \A n \in Node : parsePeers(n) = Node \ {n}

\* While every node knows the leader, a write reaches it in one hop at most, and
\* no handler passes it on again.
OneHopWhenSettled ==
  \A w \in Write : settled[w] =>
    /\ Len(hops[w]) <= 2
    /\ Len(hops[w]) = 2 => hops[w][2].node \in leading /\ hops[w][2].stage # "refused"

\* No handler sees a request for the second time: the header that is set "to
\* indicate this is a forwarded request (prevent infinite loops)".
NoLoop ==
  \A w \in Write, g, h \in 1..MaxHops :
    g < h /\ h \in DOMAIN hops[w] => hops[w][g].node # hops[w][h].node

\* Every request is answered, stale hints that lead in circles included: each
\* hop ends with its timeout (http_handler.go, the HTTP client's Timeout).
EveryRequestAnswered ==
  \A w \in Request : hops[w] # << >> ~> At(w, 1, "done")
=============================================================================
