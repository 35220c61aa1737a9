---------------------------- MODULE WebSocketHub ----------------------------
(***************************************************************************)
(* internal/server/websocket.go: clients connect and disconnect, each with *)
(* a goroutine that reads from it, while a loop broadcasts to all of them  *)
(* and Stop closes them.  Only Stop holds h.mu for more than one step.     *)
(***************************************************************************)
EXTENDS Integers, FiniteSets

CONSTANTS Client

VARIABLES handler,  \* where each client's goroutine is: HandleWebSocket up to
                    \* "dropping", handleClient from "reading" on
          conn,     \* the connection: "broken" when the peer has gone
          once,     \* closeOnce: "new", who runs it, or "done"
          closes,   \* history: how often the connection was closed
          clients,  \* h.clients
          sweep,    \* the clients that Stop still has to close
          locked,   \* Stop holds h.mu
          stopCh,   \* closed
          caster    \* broadcastLoop: its stage, the clients left, the one at work

hubVars == <<handler, conn, once, closes, clients, sweep, locked, stopCh, caster>>

HubInit ==
  /\ handler = [c \in Client |-> "idle"] /\ conn = [c \in Client |-> "none"]
  /\ once = [c \in Client |-> "new"] /\ closes = [c \in Client |-> 0]
  /\ clients = {} /\ sweep = {} /\ locked = FALSE /\ stopCh = FALSE
  /\ caster = [stage |-> "off", left |-> {}, at |-> {}]

\* A handler alone changes its stage.
Move(c, to) ==
  /\ handler' = [handler EXCEPT ![c] = to]
  /\ UNCHANGED <<conn, once, closes, clients, sweep, locked, stopCh, caster>>

-----------------------------------------------------------------------------
\* HandleWebSocket: the upgrade takes the connection away from the HTTP server.
Upgrade(c) ==
  /\ handler[c] = "request"
  /\ handler' = [handler EXCEPT ![c] = "upgraded"]
  /\ conn' = [conn EXCEPT ![c] = "open"]
  /\ UNCHANGED <<once, closes, clients, sweep, locked, stopCh, caster>>

UpgradeFails(c) == handler[c] = "request" /\ Move(c, "gone")

Register(c) ==
  /\ handler[c] = "upgraded" /\ ~locked
  /\ clients' = clients \cup {c}
  /\ handler' = [handler EXCEPT ![c] = "sending"]
  /\ UNCHANGED <<conn, once, closes, sweep, locked, stopCh, caster>>

\* The initial state is sent; then handleClient counts for the WaitGroup.
Sent(c) == handler[c] = "sending" /\ conn[c] \in {"open", "broken"} /\ Move(c, "reading")

\* A failed write looks the client up and removes it, if it is still there.
SendFails(c) ==
  /\ handler[c] = "sending" /\ ~locked
  /\ Move(c, IF c \in clients THEN "dropping" ELSE "reading")

\* ReadMessage fails: handleClient removes the client.
ReadFails(c) == handler[c] = "reading" /\ conn[c] # "open" /\ Move(c, "removing")

Disconnect(c) ==
  /\ conn[c] = "open"
  /\ conn' = [conn EXCEPT ![c] = "broken"]
  /\ UNCHANGED <<handler, once, closes, clients, sweep, locked, stopCh, caster>>

\* removeClient enters closeOnce, before it takes h.mu.
EnterOnce(c, who) ==
  /\ once[c] = "new"
  /\ once' = [once EXCEPT ![c] = who]
  /\ UNCHANGED <<handler, conn, closes, clients, sweep, locked, stopCh, caster>>

\* Mutant: leaves the client in the map.
InOnceKeep(c, who) ==
  /\ once[c] = who /\ ~locked
  /\ conn' = [conn EXCEPT ![c] = "closed"] /\ closes' = [closes EXCEPT ![c] = @ + 1]
  /\ once' = [once EXCEPT ![c] = "done"]
  /\ UNCHANGED <<handler, clients, sweep, locked, stopCh, caster>>

\* Inside it takes h.mu, deletes the client and closes the connection.
InOnce(c, who) ==
  /\ once[c] = who /\ ~locked
  /\ clients' = clients \ {c}
  /\ conn' = [conn EXCEPT ![c] = "closed"] /\ closes' = [closes EXCEPT ![c] = @ + 1]
  /\ once' = [once EXCEPT ![c] = "done"]
  /\ UNCHANGED <<handler, sweep, locked, stopCh, caster>>

\* The handler's removeClient returns when closeOnce is done.
Removed(c) ==
  /\ handler[c] \in {"dropping", "removing"} /\ once[c] = "done"
  /\ Move(c, IF handler[c] = "dropping" THEN "reading" ELSE "gone")

Handler(c) ==
  \/ Upgrade(c) \/ UpgradeFails(c) \/ Register(c) \/ Sent(c) \/ SendFails(c)
  \/ ReadFails(c) \/ Removed(c) \/ InOnce(c, "handler")
  \/ handler[c] \in {"dropping", "removing"} /\ EnterOnce(c, "handler")

-----------------------------------------------------------------------------
Cast(stage, left, at) ==
  /\ caster' = [stage |-> stage, left |-> left, at |-> at]
  /\ UNCHANGED <<handler, conn, once, closes, clients, sweep, locked, stopCh>>

\* A tick: broadcast copies the clients.
Tick == caster.stage = "wait" /\ ~locked /\ Cast("send", clients, {})

\* It begins to write to one of them.
Write == \E c \in caster.left :
  caster.stage = "send" /\ caster.at = {} /\ Cast("send", caster.left \ {c}, {c})

\* The write is done, or it fails and the client is to be removed if still there.
Written == caster.stage = "send" /\ caster.at # {} /\ Cast("send", caster.left, {})

WriteFails ==
  /\ caster.stage = "send" /\ caster.at # {} /\ ~locked
  /\ IF caster.at \subseteq clients THEN Cast("remove", caster.left, caster.at)
     ELSE Cast("send", caster.left, {})

CastRemoved ==
  /\ caster.stage = "remove" /\ \A c \in caster.at : once[c] = "done"
  /\ Cast("send", caster.left, {})

CastDone == caster.stage = "send" /\ caster.at = {} /\ caster.left = {} /\ Cast("wait", {}, {})

LoopEnds == caster.stage = "wait" /\ stopCh /\ Cast("off", {}, {})

\* The broadcast and the handler write to one connection at once: the library
\* panics.  The HTTP server recovers a handler; nobody recovers the loop.
Overlap(c) == handler[c] = "sending" /\ c \in caster.at /\ caster.stage = "send"
SendPanics(c) == Overlap(c) /\ Move(c, "gone")

Broadcaster ==
  \/ Tick \/ Write \/ Written \/ WriteFails \/ CastRemoved \/ CastDone
  \/ \E c \in caster.at : InOnce(c, "broadcast")
  \/ \E c \in caster.at : caster.stage = "remove" /\ EnterOnce(c, "broadcast")

-----------------------------------------------------------------------------
\* Stop takes h.mu and closes each client, waiting for a closeOnce that runs.
StopLocks ==
  /\ ~locked /\ locked' = TRUE /\ sweep' = clients
  /\ UNCHANGED <<handler, conn, once, closes, clients, stopCh, caster>>

\* Mutant: closes without closeOnce.
StopClosesAlways(c) ==
  /\ c \in sweep /\ once[c] \in {"new", "done"}
  /\ sweep' = sweep \ {c}
  /\ conn' = [conn EXCEPT ![c] = "closed"] /\ closes' = [closes EXCEPT ![c] = @ + 1]
  /\ UNCHANGED <<handler, once, clients, locked, stopCh, caster>>

StopCloses(c) ==
  /\ c \in sweep /\ once[c] \in {"new", "done"}
  /\ sweep' = sweep \ {c}
  /\ once' = [once EXCEPT ![c] = "done"]
  /\ IF once[c] = "done" THEN UNCHANGED <<conn, closes>>
     ELSE /\ conn' = [conn EXCEPT ![c] = "closed"]
          /\ closes' = [closes EXCEPT ![c] = @ + 1]
  /\ UNCHANGED <<handler, clients, locked, stopCh, caster>>

StopUnlocks ==
  /\ sweep = {} /\ clients' = {} /\ locked' = FALSE
  /\ UNCHANGED <<handler, conn, once, closes, sweep, stopCh, caster>>

\* Mutant: forgets to close stopCh.
StopSignalsNot == UNCHANGED hubVars

StopSignals ==
  /\ stopCh' = TRUE
  /\ UNCHANGED <<handler, conn, once, closes, clients, sweep, locked, caster>>

\* h.wg is zero: Stop returns.
AllGone ==
  caster.stage = "off" /\ \A c \in Client : handler[c] \notin {"reading", "removing"}
=============================================================================
