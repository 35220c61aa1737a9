--------------------------- MODULE ServerProcess ----------------------------
(***************************************************************************)
(* cmd/server/main.go: one process from its start to its end.  main starts *)
(* the transport, the Raft node, the key-value server, the WebSocket hub   *)
(* and the HTTP server, and stops them after a signal, while clients,      *)
(* peers and the node's own goroutines go on.                              *)
(***************************************************************************)
EXTENDS WebSocketHub, Transport

VARIABLES main,      \* the statement main is at
          raft,      \* the Raft node's goroutines run
          storeOpen

vars == <<hubVars, transportVars, main, raft, storeOpen>>

Init ==
  /\ HubInit /\ TransportInit
  /\ main = "start transport" /\ raft = FALSE /\ storeOpen = TRUE

\* main goes from one statement to the next.
Main(from, to) == main = from /\ main' = to

StartTransport ==
  /\ Main("start transport", "start raft") /\ Start
  /\ UNCHANGED <<hubVars, raft, storeOpen>>

\* net.Listen fails: logger.Fatal ends the process, the store left open.
StartFails ==
  /\ Main("start transport", "exited")
  /\ UNCHANGED <<hubVars, transportVars, raft, storeOpen>>

StartRaft ==
  /\ Main("start raft", "start hub") /\ RegisterRaftHandler
  /\ raft' = TRUE
  /\ UNCHANGED <<hubVars, storeOpen>>

\* The hub's loop, and then the HTTP server.
StartHub ==
  /\ Main("start hub", "running") /\ Cast("wait", {}, {})
  /\ UNCHANGED <<transportVars, raft, storeOpen>>

Signal ==
  /\ Main("running", "shutdown http")
  /\ UNCHANGED <<hubVars, transportVars, raft, storeOpen>>

\* Shutdown waits for the requests, not for upgraded connections, 30 seconds
\* at most.
ShutdownHTTP ==
  /\ Main("shutdown http", "hub lock")
  /\ \A c \in Client : handler[c] # "request"
  /\ UNCHANGED <<hubVars, transportVars, raft, storeOpen>>

ShutdownHTTPTimesOut ==
  /\ Main("shutdown http", "hub lock")
  /\ \E c \in Client : handler[c] = "request"
  /\ UNCHANGED <<hubVars, transportVars, raft, storeOpen>>

StopHub ==
  /\ \/ Main("hub lock", "hub close") /\ StopLocks
     \/ main = "hub close" /\ UNCHANGED main /\ \E c \in sweep : StopCloses(c)
     \/ Main("hub close", "hub signal") /\ StopUnlocks
     \/ Main("hub signal", "hub wait") /\ StopSignals
     \/ Main("hub wait", "stop raft") /\ AllGone /\ UNCHANGED hubVars
  /\ UNCHANGED <<transportVars, raft, storeOpen>>

\* Mutant: the store is closed before the transport stops.
StopRaftAndStore ==
  /\ Main("stop raft", "stop transport")
  /\ raft' = FALSE /\ storeOpen' = FALSE
  /\ UNCHANGED <<hubVars, transportVars>>

\* kvServer.Stop and raftNode.Stop: the goroutines of the WaitGroups end, those
\* that send to the peers go on.
StopRaft ==
  /\ Main("stop raft", "stop transport")
  /\ raft' = FALSE
  /\ UNCHANGED <<hubVars, transportVars, storeOpen>>

StopTransport ==
  /\ \/ Main("stop transport", "transport wait") /\ StopServing
     \/ Main("transport wait", "close pool") /\ (Stopped \/ StopForced)
     \/ Main("close pool", "close store") /\ ClosePool
  /\ UNCHANGED <<hubVars, raft, storeOpen>>

\* The deferred store.Close runs last.
CloseStore ==
  /\ Main("close store", "exited") /\ storeOpen' = FALSE
  /\ UNCHANGED <<hubVars, transportVars, raft>>

MainStep ==
  \/ StartTransport \/ StartRaft \/ StartHub \/ ShutdownHTTP \/ StopHub
  \/ StopRaft \/ StopTransport \/ CloseStore

-----------------------------------------------------------------------------
Running == main \notin {"exited", "crashed"}

\* The HTTP server takes a request of a new client until Shutdown.
Request(c) ==
  /\ main = "running" /\ handler[c] = "idle" /\ Move(c, "request")
  /\ UNCHANGED <<transportVars, main, raft, storeOpen>>

\* A panic that nobody recovers.
Crash(c) ==
  /\ Running /\ Overlap(c) /\ main' = "crashed"
  /\ UNCHANGED <<hubVars, transportVars, raft, storeOpen>>

HandlerStep(c) == Running /\ Handler(c) /\ UNCHANGED <<transportVars, main, raft, storeOpen>>

\* The peer goes away, or the handler's write panics and is recovered.
ClientStep(c) ==
  /\ Running /\ (Disconnect(c) \/ SendPanics(c))
  /\ UNCHANGED <<transportVars, main, raft, storeOpen>>

BroadcasterStep == Running /\ Broadcaster /\ UNCHANGED <<transportVars, main, raft, storeOpen>>

LoopEndsStep == Running /\ LoopEnds /\ UNCHANGED <<transportVars, main, raft, storeOpen>>

\* The Raft node's goroutines call the peers; those already started go on when
\* it has stopped.
CallerStep(g) ==
  /\ Running
  /\ \/ raft /\ \E p \in Peer : BeginCall(g, p)
     \/ Connect(g)
     \/ ConnectFails(g)
  /\ UNCHANGED <<hubVars, main, raft, storeOpen>>

PeerStep ==
  /\ Running
  /\ (\E p \in Peer : Break(p)) \/ (\E r \in Call : Serve(r) \/ Served(r))
  /\ UNCHANGED <<hubVars, main, raft, storeOpen>>

Next ==
  \/ MainStep \/ StartFails \/ Signal \/ ShutdownHTTPTimesOut
  \/ \E c \in Client : Request(c) \/ Crash(c) \/ HandlerStep(c) \/ ClientStep(c)
  \/ BroadcasterStep \/ LoopEndsStep
  \/ \E g \in Caller : CallerStep(g)
  \/ PeerStep

Spec == Init /\ [][Next]_vars

\* Goroutines run.  LoopEnds competes with Tick in a select, which chooses at
\* random: strong fairness.  Peers and clients owe nothing; the HTTP server
\* and the graceful stop have timeouts.
FairSpec ==
  /\ Spec
  /\ WF_vars(MainStep) /\ WF_vars(ShutdownHTTPTimesOut)
  /\ WF_vars(BroadcasterStep) /\ SF_vars(LoopEndsStep)
  /\ \A c \in Client : WF_vars(HandlerStep(c))

-----------------------------------------------------------------------------
\* A connection is closed once at most, though its reader, a failed broadcast
\* and Stop may all want to (websocket.go, "safely removes and closes a client
\* connection exactly once").
ClosedOnce == \A c \in Client : closes[c] <= 1

\* The map and the connections agree: outside of Stop a closed connection is not
\* in the map, and one that is read from is, unless Stop emptied the map.
MapMatchesConnections ==
  /\ ~locked => \A c \in clients : once[c] # "done"
  /\ main \in {"running", "shutdown http", "hub lock"} =>
       \A c \in Client : handler[c] = "reading" /\ once[c] = "new" => c \in clients

\* As many connections to a peer are open as the pool knows, one at most, when
\* several goroutines find none and replace broken ones (grpc_client.go,
\* getOrCreateConnection, and Stop).
PoolKnowsOpen == \A p \in Peer : open[p] = IF pool[p] = "none" THEN 0 ELSE 1

\* No connection is open when Stop has closed "all connections"
\* (grpc_server.go, Stop).
StoppedMeansClosed == main = "exited" /\ ~storeOpen => \A p \in Peer : open[p] = 0

\* A peer's call finds the storage open, unless the graceful stop was cut off
\* (main.go: the transport stops before the deferred store.Close).
ServedFromOpenStore == serving # {} /\ ~forced => storeOpen

\* Stop waits for a closeOnce that waits for h.mu, which Stop holds.
StopBlocked == locked /\ \E c \in sweep : once[c] \in {"handler", "broadcast"}

\* A client registered after Stop had closed the others, and stays.
LateClient == main = "hub wait" /\ \E c \in Client : handler[c] = "reading" /\ conn[c] = "open"

\* After a signal the process ends, and there are two ways only in which it
\* does not: Stop meets a client that is just being removed, or one that
\* registers too late (websocket.go, Stop; main.go, the shutdown).
ShutdownReturns ==
  main = "shutdown http" ~> ~Running \/ StopBlocked \/ LateClient

\* The same without the two exceptions.
ShutdownAlwaysReturns == main = "shutdown http" ~> ~Running
=============================================================================
