----------------------------- MODULE Transport ------------------------------
(***************************************************************************)
(* internal/transport: the pool of connections to the peers, used by many  *)
(* goroutines at once, and the server for the peers' calls.                *)
(***************************************************************************)
EXTENDS Integers, FiniteSets

CONSTANTS Peer, Caller,
          Call     \* the peers' calls that may arrive

VARIABLES pool,     \* t.conns: the state of each peer's connection
          open,     \* history: the open connections to each peer
          calling,  \* the peer each caller needs a connection to, as a set
          serving,  \* the peers' calls in the handler
          started, registered, \* t.started, t.handler # nil
          forced    \* history: the server was stopped with calls in it

transportVars == <<pool, open, calling, serving, started, registered, forced>>

TransportInit ==
  /\ pool = [p \in Peer |-> "none"] /\ open = [p \in Peer |-> 0]
  /\ calling = [g \in Caller |-> {}]
  /\ serving = {} /\ started = FALSE /\ registered = FALSE /\ forced = FALSE

\* Ready, Idle and Connecting are healthy; TransientFailure and Shutdown are not.
isConnHealthy(p) == pool[p] = "healthy"

\* A goroutine sends a request.  With a healthy connection in the pool it goes
\* out, and neither the answer nor an error changes anything; else the slow path.
BeginCall(g, p) ==
  /\ calling[g] = {} /\ ~isConnHealthy(p)
  /\ calling' = [calling EXCEPT ![g] = {p}]
  /\ UNCHANGED <<pool, open, serving, started, registered, forced>>

\* Mutant: does not look again under the lock.
ConnectBlindly(g) == \E p \in calling[g] :
  /\ calling' = [calling EXCEPT ![g] = {}]
  /\ open' = [open EXCEPT ![p] = @ + 1]
  /\ pool' = [pool EXCEPT ![p] = "healthy"]
  /\ UNCHANGED <<serving, started, registered, forced>>

\* The slow path, under connMu: looks again, closes the old one, dials.
Connect(g) == \E p \in calling[g] :
  /\ calling' = [calling EXCEPT ![g] = {}]
  /\ IF isConnHealthy(p) THEN UNCHANGED <<pool, open>>
     ELSE /\ open' = [open EXCEPT ![p] = IF pool[p] = "none" THEN @ + 1 ELSE @]
          /\ pool' = [pool EXCEPT ![p] = "healthy"]
  /\ UNCHANGED <<serving, started, registered, forced>>

\* Dialling fails after the old connection was closed.
ConnectFails(g) == \E p \in calling[g] :
  /\ ~isConnHealthy(p)
  /\ calling' = [calling EXCEPT ![g] = {}]
  /\ open' = [open EXCEPT ![p] = IF pool[p] = "none" THEN @ ELSE @ - 1]
  /\ pool' = [pool EXCEPT ![p] = "none"]
  /\ UNCHANGED <<serving, started, registered, forced>>

\* The network breaks a connection.
Break(p) ==
  /\ isConnHealthy(p)
  /\ pool' = [pool EXCEPT ![p] = "unhealthy"]
  /\ UNCHANGED <<open, calling, serving, started, registered, forced>>

-----------------------------------------------------------------------------
Start ==
  /\ ~started /\ started' = TRUE
  /\ UNCHANGED <<pool, open, calling, serving, registered, forced>>

RegisterRaftHandler ==
  /\ registered' = TRUE
  /\ UNCHANGED <<pool, open, calling, serving, started, forced>>

\* A peer's call: Unavailable until the handler is registered.
Serve(r) ==
  /\ started /\ registered /\ r \notin serving
  /\ serving' = serving \cup {r}
  /\ UNCHANGED <<pool, open, calling, started, registered, forced>>

Served(r) ==
  /\ r \in serving
  /\ serving' = serving \ {r}
  /\ UNCHANGED <<pool, open, calling, started, registered, forced>>

\* Stop: no new calls; the graceful stop ends when the calls have, or is cut off
\* after 5 seconds.
StopServing ==
  /\ started /\ started' = FALSE
  /\ UNCHANGED <<pool, open, calling, serving, registered, forced>>

Stopped ==
  /\ ~started /\ serving = {}
  /\ UNCHANGED transportVars

StopForced ==
  /\ ~started /\ serving # {}
  /\ forced' = TRUE
  /\ UNCHANGED <<pool, open, calling, serving, started, registered>>

\* Finally it closes the connections of the pool.
ClosePool ==
  /\ open' = [p \in Peer |-> IF pool[p] = "none" THEN open[p] ELSE open[p] - 1]
  /\ pool' = [p \in Peer |-> "none"]
  /\ UNCHANGED <<calling, serving, started, registered, forced>>
=============================================================================
