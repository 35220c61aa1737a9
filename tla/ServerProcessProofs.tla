------------------------ MODULE ServerProcessProofs -------------------------
(***************************************************************************)
(* The safety of one server process, for any numbers of clients, peers,    *)
(* callers and calls.                                                      *)
(***************************************************************************)
EXTENDS ServerProcess, TLAPS

-----------------------------------------------------------------------------
(* The pool of connections *)

\* The pool and what it is about.
PoolInv ==
  /\ pool \in [Peer -> {"none", "healthy", "unhealthy"}]
  /\ open \in [Peer -> Nat]
  /\ PoolKnowsOpen

\* Only four operations touch a connection.
LEMMA PoolSteps ==
  ASSUME [Next]_vars
  PROVE  \/ UNCHANGED <<pool, open>>
         \/ \E g \in Caller : Connect(g) \/ ConnectFails(g)
         \/ \E p \in Peer : Break(p)
         \/ ClosePool
<1>1. CASE MainStep
  <2>1. CASE StartTransport BY <2>1 DEF StartTransport, Start
  <2>2. CASE StartRaft BY <2>2 DEF StartRaft, RegisterRaftHandler
  <2>3. CASE StartHub BY <2>3 DEF StartHub, transportVars
  <2>4. CASE ShutdownHTTP BY <2>4 DEF ShutdownHTTP, transportVars
  <2>5. CASE StopHub BY <2>5 DEF StopHub, transportVars
  <2>6. CASE StopRaft BY <2>6 DEF StopRaft, transportVars
  <2>7. CASE StopTransport
    BY <2>7 DEF StopTransport, StopServing, Stopped, StopForced, transportVars
  <2>8. CASE CloseStore BY <2>8 DEF CloseStore, transportVars
  <2> QED BY <1>1, <2>1, <2>2, <2>3, <2>4, <2>5, <2>6, <2>7, <2>8 DEF MainStep
<1>2. CASE StartFails \/ Signal \/ ShutdownHTTPTimesOut
  BY <1>2 DEF StartFails, Signal, ShutdownHTTPTimesOut, transportVars
<1>3. CASE \E c \in Client : Request(c) \/ Crash(c) \/ HandlerStep(c) \/ ClientStep(c)
  BY <1>3 DEF Request, Crash, HandlerStep, ClientStep, transportVars
<1>4. CASE BroadcasterStep \/ LoopEndsStep
  BY <1>4 DEF BroadcasterStep, LoopEndsStep, transportVars
<1>5. CASE \E g \in Caller : CallerStep(g)
  BY <1>5 DEF CallerStep, BeginCall
<1>6. CASE PeerStep
  BY <1>6 DEF PeerStep, Serve, Served
<1>7. CASE UNCHANGED vars
  BY <1>7 DEF vars, transportVars
<1> QED BY <1>1, <1>2, <1>3, <1>4, <1>5, <1>6, <1>7 DEF Next

\* As many connections are open to a peer as the pool knows: a goroutine that
\* finds a broken connection looks again under the lock, and closes the old one
\* before it stores the new (getOrCreateConnection).
THEOREM PoolCorrect == Spec => []PoolKnowsOpen
<1>1. Init => PoolInv
  <2>1. Init => pool = [p \in Peer |-> "none"] /\ open = [p \in Peer |-> 0]
    BY Zenon DEF Init, TransportInit
  <2> QED BY <2>1 DEF PoolInv, PoolKnowsOpen
<1>2. PoolInv /\ [Next]_vars => PoolInv'
  <2> SUFFICES ASSUME PoolInv, [Next]_vars PROVE PoolInv'
    OBVIOUS
  <2>1. CASE UNCHANGED <<pool, open>>
    BY <2>1 DEF PoolInv, PoolKnowsOpen
  <2>2. CASE \E g \in Caller : Connect(g)
    BY <2>2 DEF Connect, isConnHealthy, PoolInv, PoolKnowsOpen
  <2>3. CASE \E g \in Caller : ConnectFails(g)
    <3>1. PICK g \in Caller : ConnectFails(g)
      BY <2>3
    <3>2. PICK p \in calling[g] :
            /\ open' = [open EXCEPT ![p] = IF pool[p] = "none" THEN @ ELSE @ - 1]
            /\ pool' = [pool EXCEPT ![p] = "none"]
      BY <3>1 DEF ConnectFails
    <3>3. \A q \in Peer : open'[q] = IF pool'[q] = "none" THEN 0 ELSE 1
      BY <3>2 DEF PoolInv, PoolKnowsOpen
    <3>4. pool' \in [Peer -> {"none", "healthy", "unhealthy"}] /\ DOMAIN open' = Peer
      BY <3>2 DEF PoolInv
    <3>5. open' = [q \in Peer |-> open'[q]]
      BY <3>2, <3>4 DEF PoolInv
    <3> QED BY <3>3, <3>4, <3>5 DEF PoolInv, PoolKnowsOpen
  <2>4. CASE \E p \in Peer : Break(p)
    BY <2>4 DEF Break, isConnHealthy, PoolInv, PoolKnowsOpen
  <2>5. CASE ClosePool
    BY <2>5 DEF ClosePool, PoolInv, PoolKnowsOpen
  <2> QED BY <2>1, <2>2, <2>3, <2>4, <2>5, PoolSteps
<1>3. PoolInv => PoolKnowsOpen
  BY DEF PoolInv
<1> QED BY <1>1, <1>2, <1>3, PTL DEF Spec
-----------------------------------------------------------------------------
(* The storage under the peers' calls *)

\* What main has done so far, as far as the peers' calls are concerned.
StoreInv ==
  /\ main \in {"transport wait", "close pool", "close store"} => ~started
  /\ main \in {"close pool", "close store"} \/ ~storeOpen => serving = {} \/ forced
  /\ storeOpen \/ main = "exited"

\* A peer's call never finds the storage closed, unless the graceful stop of the
\* server was cut off: no call begins when main has told the transport to stop,
\* and the storage is closed when the calls have ended (main.go, the shutdown).
THEOREM StoreCorrect == Spec => []ServedFromOpenStore
<1>1. Init => StoreInv
  BY Zenon DEF Init, TransportInit, StoreInv
<1>2. StoreInv /\ [Next]_vars => StoreInv'
  <2> SUFFICES ASSUME StoreInv, [Next]_vars PROVE StoreInv'
    OBVIOUS
  <2>1. CASE MainStep
    <3>1. CASE StartTransport
      BY <3>1 DEF StartTransport, Start, Main, StoreInv
    <3>2. CASE StartRaft
      BY <3>2 DEF StartRaft, RegisterRaftHandler, Main, StoreInv
    <3>3. CASE StartHub \/ ShutdownHTTP \/ StopRaft \/ CloseStore
      BY <3>3 DEF StartHub, ShutdownHTTP, StopRaft, CloseStore, Main, transportVars, StoreInv
    <3>4. CASE StopHub
      BY <3>4 DEF StopHub, Main, transportVars, StoreInv
    <3>5. CASE StopTransport
      <4>1. CASE Main("stop transport", "transport wait") /\ StopServing
        BY <3>5, <4>1 DEF StopTransport, StopServing, Main, StoreInv
      <4>2. CASE Main("transport wait", "close pool") /\ (Stopped \/ StopForced)
        <5>1. /\ main = "transport wait" /\ main' = "close pool"
              /\ UNCHANGED <<started, storeOpen>> /\ (serving' = {} \/ forced')
          BY Zenon, <3>5, <4>2 DEF StopTransport, Stopped, StopForced, Main, transportVars
        <5> QED BY <5>1 DEF StoreInv
      <4>3. CASE Main("close pool", "close store") /\ ClosePool
        BY <3>5, <4>3 DEF StopTransport, ClosePool, Main, StoreInv
      <4> QED BY <3>5, <4>1, <4>2, <4>3 DEF StopTransport
    <3> QED BY <2>1, <3>1, <3>2, <3>3, <3>4, <3>5 DEF MainStep
  <2>2. CASE StartFails \/ Signal \/ ShutdownHTTPTimesOut
    BY <2>2 DEF StartFails, Signal, ShutdownHTTPTimesOut, Main, transportVars, StoreInv
  <2>3. CASE \E c \in Client : Crash(c)
    <3>1. main # "exited" /\ main' = "crashed" /\ UNCHANGED <<started, serving, forced, storeOpen>>
      BY Zenon, <2>3 DEF Crash, Running, transportVars
    <3> QED BY <3>1 DEF StoreInv
  <2>4. CASE \/ \E c \in Client : Request(c) \/ HandlerStep(c) \/ ClientStep(c)
             \/ BroadcasterStep \/ LoopEndsStep \/ UNCHANGED vars
             \/ \E g \in Caller : CallerStep(g)
    <3>1. UNCHANGED <<main, started, serving, forced, storeOpen>>
      BY Zenon, <2>4 DEF Request, HandlerStep, ClientStep, BroadcasterStep, LoopEndsStep,
           CallerStep, BeginCall, Connect, ConnectFails, vars, transportVars
    <3> QED BY <3>1 DEF StoreInv
  <2>5. CASE PeerStep
    <3>1. /\ main # "exited" /\ UNCHANGED <<main, started, forced, storeOpen>>
          /\ serving' # {} /\ ~started => serving # {}
      BY <2>5 DEF PeerStep, Running, Break, Serve, Served
    <3> QED BY <3>1 DEF StoreInv
  <2> QED BY <2>1, <2>2, <2>3, <2>4, <2>5 DEF Next
<1>3. StoreInv => ServedFromOpenStore
  BY DEF StoreInv, ServedFromOpenStore
<1> QED BY <1>1, <1>2, <1>3, PTL DEF Spec
-----------------------------------------------------------------------------
(* The clients of the hub *)

\* The clients that somebody may still have in hand.
Known == clients \cup sweep \cup caster.left \cup caster.at

\* main has not yet come to the hub's Stop.
BeforeStop == main \in {"start transport", "start raft", "start hub", "running",
                        "shutdown http", "hub lock"}

HubTypes ==
  /\ once \in [Client -> {"new", "handler", "broadcast", "done"}]
  /\ closes \in [Client -> Nat]
  /\ handler \in [Client -> {"idle", "request", "upgraded", "sending", "dropping",
                            "reading", "removing", "gone"}]
  /\ Known \subseteq Client

\* closeOnce counts the closing of a connection.
OnceCounts == \A c \in Client : closes[c] = IF once[c] = "done" THEN 1 ELSE 0

\* Nobody knows a client before it is registered.
KnownAreRegistered ==
  \A c \in Client : handler[c] \in {"idle", "request", "upgraded"} =>
                      once[c] = "new" /\ c \notin Known

\* Stop closes clients under h.mu; otherwise none in the map is closed.
MapIsOpen ==
  /\ main = "hub close" => locked
  /\ ~locked => \A c \in clients : once[c] # "done"

\* Until Stop empties it, the map holds every registered client that is open.
MapIsFull ==
  BeforeStop => \A c \in Client :
    handler[c] \in {"sending", "dropping", "reading", "removing"} /\ once[c] # "done" =>
      c \in clients

HubInv == HubTypes /\ OnceCounts /\ KnownAreRegistered /\ MapIsOpen /\ MapIsFull

\* main goes on, other than into Stop: a step that leaves the hub as it is.
Onward == (BeforeStop' => BeforeStop) /\ (main' = "hub close" => main = "hub close")

\* The invariant does not mind a step that leaves the hub alone.
LEMMA HubQuiet ==
  ASSUME HubInv, Onward, UNCHANGED hubVars
  PROVE  HubInv'
BY DEF HubInv, HubTypes, OnceCounts, KnownAreRegistered, MapIsOpen, MapIsFull,
       Onward, Known, hubVars

\* Nor one of the broadcaster that keeps to the clients it may know of.
LEMMA HubCast ==
  ASSUME HubInv, Onward, caster'.left \cup caster'.at \subseteq Known,
         UNCHANGED <<handler, conn, once, closes, clients, sweep, locked, stopCh>>
  PROVE  HubInv'
BY DEF HubInv, HubTypes, OnceCounts, KnownAreRegistered, MapIsOpen, MapIsFull,
       Onward, Known

\* Nor one that moves a handler without letting it forget its registration.
LEMMA HubMove ==
  ASSUME HubInv, UNCHANGED main, NEW c \in Client,
         NEW to \in {"request", "reading", "dropping", "removing", "gone"}, Move(c, to),
         handler[c] = "idle" \/ to # "request",
         handler[c] \in {"sending", "reading", "dropping", "removing"}
           \/ to \in {"request", "gone"}
  PROVE  HubInv'
BY DEF HubInv, HubTypes, OnceCounts, KnownAreRegistered, MapIsOpen, MapIsFull,
       BeforeStop, Known, Move

\* One goroutine at most is in closeOnce, and it closes the connection once.
LEMMA HubOnce ==
  ASSUME HubInv, UNCHANGED main, NEW c \in Client, NEW who \in {"handler", "broadcast"},
         \/ InOnce(c, who)
         \/ EnterOnce(c, who) /\ handler[c] \notin {"idle", "request", "upgraded"}
  PROVE  HubInv'
<1>1. CASE InOnce(c, who)
  <2>1. once[c] = who /\ once' = [once EXCEPT ![c] = "done"]
        /\ closes' = [closes EXCEPT ![c] = @ + 1] /\ clients' = clients \ {c}
        /\ UNCHANGED <<handler, sweep, locked, caster>>
    BY Zenon, <1>1 DEF InOnce
  <2>2. HubTypes' /\ OnceCounts'
    BY <2>1 DEF HubInv, HubTypes, OnceCounts, Known
  <2>3. KnownAreRegistered'
    BY <2>1 DEF HubInv, HubTypes, KnownAreRegistered, Known
  <2>4. MapIsOpen'
    BY <2>1 DEF HubInv, HubTypes, MapIsOpen, Known
  <2>5. MapIsFull'
    BY <2>1 DEF HubInv, HubTypes, MapIsFull, BeforeStop
  <2> QED BY <2>2, <2>3, <2>4, <2>5 DEF HubInv
<1>2. CASE EnterOnce(c, who) /\ handler[c] \notin {"idle", "request", "upgraded"}
  <2>1. once[c] = "new" /\ once' = [once EXCEPT ![c] = who]
        /\ UNCHANGED <<handler, closes, clients, sweep, locked, caster>>
    BY Zenon, <1>2 DEF EnterOnce
  <2>2. HubTypes' /\ OnceCounts'
    BY <2>1 DEF HubInv, HubTypes, OnceCounts, Known
  <2>3. KnownAreRegistered'
    BY <1>2, <2>1 DEF HubInv, HubTypes, KnownAreRegistered, Known
  <2>4. MapIsOpen'
    BY <2>1 DEF HubInv, HubTypes, MapIsOpen, Known
  <2>5. MapIsFull'
    BY <2>1 DEF HubInv, HubTypes, MapIsFull, BeforeStop
  <2> QED BY <2>2, <2>3, <2>4, <2>5 DEF HubInv
<1> QED BY <1>1, <1>2

\* Stop takes the lock, closes what is in the map, and empties the map.
LEMMA HubStop ==
  ASSUME HubInv, StopHub
  PROVE  HubInv'
<1>1. CASE Main("hub lock", "hub close") /\ StopLocks
  <2>1. main' = "hub close" /\ locked' /\ sweep' = clients
        /\ UNCHANGED <<handler, once, closes, clients, caster>>
    BY Zenon, <1>1 DEF StopLocks, Main
  <2> QED BY <2>1 DEF HubInv, HubTypes, OnceCounts, KnownAreRegistered, MapIsOpen, MapIsFull,
                      BeforeStop, Known
<1>2. CASE main = "hub close" /\ UNCHANGED main /\ \E c \in sweep : StopCloses(c)
  <2>1. PICK c \in sweep : StopCloses(c)
    BY <1>2
  <2>2. main' = "hub close" /\ locked /\ locked'
    BY Zenon, <1>2, <2>1 DEF StopCloses, HubInv, MapIsOpen
  <2>3. /\ once[c] \in {"new", "done"} /\ once' = [once EXCEPT ![c] = "done"]
        /\ closes' = IF once[c] = "done" THEN closes ELSE [closes EXCEPT ![c] = @ + 1]
        /\ sweep' = sweep \ {c} /\ UNCHANGED <<handler, clients, caster>>
    BY <2>1 DEF StopCloses
  <2>4. HubTypes' /\ OnceCounts'
    BY <2>3 DEF HubInv, HubTypes, OnceCounts, Known
  <2>5. KnownAreRegistered'
    BY <2>3 DEF HubInv, HubTypes, KnownAreRegistered, Known
  <2>6. MapIsOpen' /\ MapIsFull'
    BY <2>2 DEF MapIsOpen, MapIsFull, BeforeStop
  <2> QED BY <2>4, <2>5, <2>6 DEF HubInv
<1>3. CASE Main("hub close", "hub signal") /\ StopUnlocks
  <2>1. main' = "hub signal" /\ clients' = {}
        /\ UNCHANGED <<handler, once, closes, sweep, caster>>
    BY Zenon, <1>3 DEF StopUnlocks, Main
  <2> QED BY <2>1 DEF HubInv, HubTypes, OnceCounts, KnownAreRegistered, MapIsOpen, MapIsFull,
                      BeforeStop, Known
<1>4. CASE \/ Main("hub signal", "hub wait") /\ StopSignals
           \/ Main("hub wait", "stop raft") /\ AllGone /\ UNCHANGED hubVars
  <2>1. main' \in {"hub wait", "stop raft"}
        /\ UNCHANGED <<handler, once, closes, clients, sweep, locked, caster>>
    BY <1>4 DEF StopSignals, Main, hubVars
  <2> QED BY <2>1 DEF HubInv, HubTypes, OnceCounts, KnownAreRegistered, MapIsOpen, MapIsFull,
                      BeforeStop, Known
<1> QED BY <1>1, <1>2, <1>3, <1>4 DEF StopHub

\* A handler's own steps: it registers its client before it does anything else.
LEMMA HubHandler ==
  ASSUME HubInv, UNCHANGED main, NEW c \in Client, Handler(c)
  PROVE  HubInv'
<1>1. CASE Upgrade(c)
  BY <1>1 DEF Upgrade, HubInv, HubTypes, OnceCounts, KnownAreRegistered, MapIsOpen,
              MapIsFull, BeforeStop, Known
<1>2. CASE Register(c)
  <2>1. handler[c] = "upgraded" /\ handler' = [handler EXCEPT ![c] = "sending"]
        /\ clients' = clients \cup {c} /\ UNCHANGED <<once, closes, sweep, locked, caster>>
    BY Zenon, <1>2 DEF Register
  <2>2. HubTypes' /\ OnceCounts'
    BY <2>1 DEF HubInv, HubTypes, OnceCounts, Known
  <2>3. KnownAreRegistered'
    BY <2>1 DEF HubInv, HubTypes, KnownAreRegistered, Known
  <2>4. MapIsOpen'
    BY <2>1 DEF HubInv, HubTypes, KnownAreRegistered, MapIsOpen, Known
  <2>5. MapIsFull'
    BY <2>1 DEF HubInv, HubTypes, MapIsFull, BeforeStop
  <2> QED BY <2>2, <2>3, <2>4, <2>5 DEF HubInv
<1>3. CASE UpgradeFails(c)
  BY <1>3, HubMove DEF UpgradeFails
<1>4. CASE Sent(c)
  BY <1>4, HubMove DEF Sent
<1>5. CASE SendFails(c)
  BY <1>5, HubMove DEF SendFails
<1>6. CASE ReadFails(c)
  BY <1>6, HubMove DEF ReadFails
<1>7. CASE Removed(c)
  BY <1>7, HubMove DEF Removed
<1>8. CASE \/ InOnce(c, "handler")
           \/ handler[c] \in {"dropping", "removing"} /\ EnterOnce(c, "handler")
  BY <1>8, HubOnce
<1> QED BY <1>1, <1>2, <1>3, <1>4, <1>5, <1>6, <1>7, <1>8 DEF Handler

\* The broadcaster keeps to the clients that the map held at its last tick.
LEMMA HubBroadcaster ==
  ASSUME HubInv, UNCHANGED main, Broadcaster \/ LoopEnds
  PROVE  HubInv'
<1>1. CASE \/ Tick \/ Write \/ Written \/ WriteFails \/ CastRemoved \/ CastDone \/ LoopEnds
  <2>1. caster'.left \cup caster'.at \subseteq Known
    BY <1>1 DEF Tick, Write, Written, WriteFails, CastRemoved, CastDone, LoopEnds, Cast, Known
  <2>2. UNCHANGED <<handler, conn, once, closes, clients, sweep, locked, stopCh>>
    BY Zenon, <1>1 DEF Tick, Write, Written, WriteFails, CastRemoved, CastDone, LoopEnds, Cast
  <2>3. Onward
    BY DEF Onward, BeforeStop
  <2> QED BY <2>1, <2>2, <2>3, HubCast
<1>2. CASE \/ \E c \in caster.at : InOnce(c, "broadcast")
           \/ \E c \in caster.at : caster.stage = "remove" /\ EnterOnce(c, "broadcast")
  <2>1. PICK c \in caster.at : InOnce(c, "broadcast") \/ EnterOnce(c, "broadcast")
    BY <1>2
  <2>2. c \in Client /\ handler[c] \notin {"idle", "request", "upgraded"}
    BY DEF HubInv, HubTypes, KnownAreRegistered, Known
  <2> QED BY <2>1, <2>2, HubOnce
<1> QED BY <1>1, <1>2 DEF Broadcaster

\* Every step of the process keeps the invariant of the hub.
LEMMA HubStep ==
  ASSUME HubInv, [Next]_vars
  PROVE  HubInv'
<1>1. CASE \/ StartTransport \/ StartRaft \/ ShutdownHTTP \/ StopRaft \/ StopTransport
           \/ CloseStore \/ StartFails \/ Signal \/ ShutdownHTTPTimesOut
           \/ \E c \in Client : Crash(c)
           \/ \E g \in Caller : CallerStep(g)
           \/ PeerStep \/ UNCHANGED vars
  <2>1. UNCHANGED hubVars
    BY Zenon, <1>1 DEF StartTransport, StartRaft, ShutdownHTTP, StopRaft, StopTransport,
         CloseStore, StartFails, Signal, ShutdownHTTPTimesOut, Crash, CallerStep, PeerStep, vars
  <2>2. Onward
    BY <1>1 DEF StartTransport, StartRaft, ShutdownHTTP, StopRaft, StopTransport,
         CloseStore, StartFails, Signal, ShutdownHTTPTimesOut, Crash, CallerStep, PeerStep, vars,
         Main, Onward, BeforeStop
  <2> QED BY <2>1, <2>2, HubQuiet
<1>2. CASE StartHub
  <2>1. /\ caster' = [stage |-> "wait", left |-> {}, at |-> {}]
        /\ UNCHANGED <<handler, conn, once, closes, clients, sweep, locked, stopCh>>
    BY Zenon, <1>2 DEF StartHub, Cast
  <2>2. Onward
    BY <1>2 DEF StartHub, Main, Onward, BeforeStop
  <2>3. caster'.left \cup caster'.at \subseteq Known
    BY <2>1
  <2> QED BY <2>1, <2>2, <2>3, HubCast
<1>3. CASE StopHub
  BY <1>3, HubStop
<1>4. CASE \E c \in Client : Request(c)
  BY <1>4, HubMove DEF Request
<1>5. CASE \E c \in Client : HandlerStep(c)
  BY <1>5, HubHandler DEF HandlerStep
<1>6. CASE \E c \in Client : ClientStep(c)
  <2>1. PICK c \in Client : Disconnect(c) \/ SendPanics(c)
    BY <1>6 DEF ClientStep
  <2>2. UNCHANGED main
    BY <1>6 DEF ClientStep
  <2>3. CASE Disconnect(c)
    BY <2>2, <2>3 DEF Disconnect, HubInv, HubTypes, OnceCounts, KnownAreRegistered, MapIsOpen,
                      MapIsFull, BeforeStop, Known
  <2>4. CASE SendPanics(c)
    BY <2>2, <2>4, HubMove DEF SendPanics, Overlap
  <2> QED BY <2>1, <2>3, <2>4
<1>7. CASE BroadcasterStep \/ LoopEndsStep
  BY <1>7, HubBroadcaster DEF BroadcasterStep, LoopEndsStep
<1> QED BY <1>1, <1>2, <1>3, <1>4, <1>5, <1>6, <1>7 DEF Next, MainStep

\* The invariant of the hub holds in every order in which a client's handler and
\* reader, the broadcaster and Stop come to it.
THEOREM HubCorrect == Spec => []HubInv
<1>1. Init => HubInv
  <2> SUFFICES ASSUME Init PROVE HubInv
    OBVIOUS
  <2>1. /\ handler = [c \in Client |-> "idle"] /\ once = [c \in Client |-> "new"]
        /\ closes = [c \in Client |-> 0] /\ main = "start transport" /\ clients = {}
    BY Zenon DEF Init, HubInit
  <2>2. sweep = {} /\ caster = [stage |-> "off", left |-> {}, at |-> {}]
    BY Zenon DEF Init, HubInit
  <2>3. Known = {}
    BY <2>1, <2>2 DEF Known
  <2>4. HubTypes
    BY <2>1, <2>3 DEF HubTypes
  <2>5. OnceCounts /\ KnownAreRegistered
    BY <2>1, <2>3 DEF OnceCounts, KnownAreRegistered
  <2>6. MapIsOpen /\ MapIsFull
    BY <2>1 DEF MapIsOpen, MapIsFull
  <2> QED BY <2>4, <2>5, <2>6 DEF HubInv
<1>2. HubInv /\ [Next]_vars => HubInv'
  BY HubStep
<1> QED BY <1>1, <1>2, PTL DEF Spec

\* A client's connection is closed once at most, though its handler, its reader,
\* the broadcaster and Stop may all come to it at once (removeClient, Stop).
THEOREM ClosesCorrect == Spec => []ClosedOnce
<1>1. HubInv => ClosedOnce
  BY DEF HubInv, OnceCounts, ClosedOnce
<1> QED BY <1>1, HubCorrect, PTL

\* The map of clients agrees with the connections: no closed one is in it, and
\* until Stop none that is read from is missing (HandleWebSocket, removeClient).
THEOREM MapCorrect == Spec => []MapMatchesConnections
<1>1. HubInv => MapMatchesConnections
  <2> SUFFICES ASSUME HubInv PROVE MapMatchesConnections
    OBVIOUS
  <2>1. ~locked => \A c \in clients : once[c] # "done"
    BY DEF HubInv, MapIsOpen
  <2>2. BeforeStop => \A c \in Client : handler[c] = "reading" /\ once[c] = "new" => c \in clients
    BY DEF HubInv, MapIsFull
  <2> QED BY <2>1, <2>2 DEF MapMatchesConnections, BeforeStop
<1> QED BY <1>1, HubCorrect, PTL
=============================================================================
