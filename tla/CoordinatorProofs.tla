-------------------------- MODULE CoordinatorProofs --------------------------
(***************************************************************************)
(* Theorems about the signalling system of CoordinatorClient, for every    *)
(* set of devices, pages and connections, every heartbeat and retry limit  *)
(* and every bound on faults.                                              *)
(***************************************************************************)
EXTENDS CoordinatorClient, TLAPS

USE NoneAssumption, MissedAssumption, PagesAssumption, BoundsAssumption

-----------------------------------------------------------------------------
(* The inductive invariant, in parts. *)

ServerType ==
    /\ registry \in [Devices -> Conns \cup {None}]
    /\ missed \in [Devices -> 0..MissedLimit]
    /\ sockets \in SUBSET Conns
    /\ deviceId \in [Conns -> Devices \cup {None}]
    /\ srv \in [Conns -> {"open", "closing", "closed"}]
    /\ sweeping \in SUBSET Devices

UpType == up \in [Conns -> Seq(ClientMessage)]
DownType == down \in [Conns -> Seq(ServerMessage)]

EndType ==
    /\ end \in [Conns -> {"connecting", "open", "closed"}]
    /\ cut \in SUBSET Conns
    /\ ws \in [Pages -> Conns \cup {None}]

PageType ==
    /\ state \in [Pages -> {"connecting", "open", "reconnecting", "offline", "gone"}]
    /\ attempt \in [Pages -> 0..GiveUpAfter]
    /\ timer \in [Pages -> BOOLEAN]
    /\ peers \in [Pages -> SUBSET Devices]
    /\ faults \in 0..MaxFaults /\ signals \in 0..MaxSignals

\* A register is the first message on its connection and comes once: that is
\* why a connection never has two devices and removeByConnection, which stops
\* at the first peer it finds, misses none.
RegisterFirst ==
    \A c \in Conns :
      /\ end[c] = "connecting" => deviceId[c] = None /\ up[c] = <<>>
      /\ \A i \in DOMAIN up[c] : up[c][i].type = "register" => i = 1 /\ deviceId[c] = None

\* deviceId is set while the server has the connection open and forgotten
\* with it.
HandlerState ==
    \A c \in Conns :
      /\ srv[c] = "closed" => deviceId[c] = None
      /\ srv[c] = "closing" => deviceId[c] # None

\* Nothing happens to a stale peer between the sweep's look and its eviction.
SweepKnowsPeers == \A d \in sweeping : registry[d] # None

TypeParts == ServerType /\ UpType /\ DownType /\ EndType /\ PageType
IInv == TypeParts /\ RegistryMatchesSockets /\ RegisterFirst /\ HandlerState /\ SweepKnowsPeers

LEMMA TypeSplit == TypeParts /\ scene \in Scenes <=> TypeOK
  BY DEF TypeParts, TypeOK, CoordinatorTypeOK, ServerType, UpType, DownType, EndType, PageType

-----------------------------------------------------------------------------
(* Messages and queues. *)

LEMMA MessageTypes ==
    /\ \A t \in {"heartbeat-ack", "register-rejected", "close"} : Notice(t) \in ServerMessage
    /\ \A d \in Devices : Signal(d) \in ServerMessage /\ PeerLeft(d) \in ServerMessage
    /\ \A S \in SUBSET Devices : PeerList(S) \in ServerMessage
    /\ \A d \in Devices, n \in BOOLEAN :
         [type |-> "register", deviceId |-> d, newer |-> n] \in ClientMessage
    /\ \A d \in Devices : [type |-> "heartbeat", deviceId |-> d] \in ClientMessage
    /\ \A d \in Devices : [type |-> "signal", to |-> d] \in ClientMessage
    /\ [type |-> "unregister"] \in ClientMessage
<1>1. \A t \in {"heartbeat-ack", "register-rejected", "close"} : Notice(t) \in ServerMessage
  BY DEF Notice, ServerMessage
<1>2. \A d \in Devices : Signal(d) \in ServerMessage /\ PeerLeft(d) \in ServerMessage
  BY DEF Signal, PeerLeft, ServerMessage
<1>3. \A S \in SUBSET Devices : PeerList(S) \in ServerMessage
  BY DEF PeerList, ServerMessage
<1>4. \A d \in Devices, n \in BOOLEAN :
         [type |-> "register", deviceId |-> d, newer |-> n] \in ClientMessage
  BY DEF ClientMessage
<1>5. \A d \in Devices : [type |-> "heartbeat", deviceId |-> d] \in ClientMessage
  BY DEF ClientMessage
<1>6. \A d \in Devices : [type |-> "signal", to |-> d] \in ClientMessage
  BY DEF ClientMessage
<1>7. [type |-> "unregister"] \in ClientMessage
  BY DEF ClientMessage
<1> QED
  BY <1>1, <1>2, <1>3, <1>4, <1>5, <1>6, <1>7

LEMMA RegisterFields ==
    ASSUME NEW m \in ClientMessage
    PROVE  /\ m.type = "register" => m.deviceId \in Devices /\ m.newer \in BOOLEAN
           /\ m.type = "heartbeat" => m.deviceId \in Devices
           /\ m.type = "signal" => m.to \in Devices
  BY DEF ClientMessage

LEMMA NewsFields ==
    ASSUME NEW m \in ServerMessage
    PROVE  /\ m.type = "peer-list" => m.peers \in SUBSET Devices
  BY DEF ServerMessage

LEMMA TakeType ==
    ASSUME NEW S, NEW q \in Seq(S), q # <<>>
    PROVE  /\ Head(q) \in S /\ Tail(q) \in Seq(S)
           /\ 1 \in DOMAIN q /\ Head(q) = q[1]
           /\ \A i \in DOMAIN Tail(q) : i + 1 \in DOMAIN q /\ i + 1 # 1 /\ Tail(q)[i] = q[i + 1]
  OBVIOUS

LEMMA PutType ==
    ASSUME NEW S, NEW q \in Seq(S), NEW m \in S
    PROVE  /\ Append(q, m) \in Seq(S)
           /\ \A i \in DOMAIN Append(q, m) :
                \/ i \in DOMAIN q /\ Append(q, m)[i] = q[i]
                \/ Append(q, m)[i] = m /\ (q = <<>> => i = 1)
  OBVIOUS

LEMMA EmptyType == ASSUME NEW S PROVE <<>> \in Seq(S) /\ DOMAIN <<>> = {}
  OBVIOUS

\* What a broadcast and a single message leave in the queues.
LEMMA SendType ==
    ASSUME DownType, NEW c \in Conns, NEW m \in ServerMessage, Send(c, m)
    PROVE  DownType'
  BY PutType DEF Send, DownType

LEMMA BroadcastType ==
    ASSUME DownType, NEW reg \in [Devices -> Conns \cup {None}], NEW socks,
           NEW left \in SUBSET Devices, NEW closing, Broadcast(reg, socks, left, closing)
    PROVE  DownType'
<1>1. \A c \in Conns : AfterLeft(left, socks, c) \in Seq(ServerMessage)
  BY PutType, MessageTypes DEF AfterLeft, DownType
<1>2. \A c \in Conns : PeersExcept(reg, c) \in SUBSET Devices
  BY DEF PeersExcept
<1>3. \A c \in Conns : AfterList(reg, socks, left, c) \in Seq(ServerMessage)
  BY <1>1, <1>2, PutType, MessageTypes DEF AfterList
<1>4. \A c \in Conns : Append(down[c], Notice("close")) \in Seq(ServerMessage)
  BY PutType, MessageTypes DEF DownType
<1> QED
  BY <1>3, <1>4 DEF Broadcast, DownType

-----------------------------------------------------------------------------
(* The server's handlers. *)

\* Under the invariant a connection has at most one device, so removing one
\* peer removes all.
LEMMA CleanupRemoves ==
    ASSUME ServerType, DownType, RegistryMatchesSockets,
           NEW c \in Conns, NEW closing, Cleanup(c, closing)
    PROVE  /\ registry' = [d \in Devices |-> IF registry[d] = c THEN None ELSE registry[d]]
           /\ missed' \in [Devices -> 0..MissedLimit]
           /\ sockets' = sockets \ {c}
           /\ DownType'
<1>1. CASE RegisteredBy(c) = {}
  <2>1. \A d \in Devices : registry[d] # c
    BY <1>1 DEF RegisteredBy
  <2>2. registry' = registry /\ missed' = missed /\ down' = down /\ sockets' = sockets \ {c}
    BY <1>1 DEF Cleanup
  <2> QED
    BY <2>1, <2>2 DEF ServerType, DownType
<1>2. CASE RegisteredBy(c) # {}
  <2>1. PICK d \in RegisteredBy(c) :
          /\ registry' = [registry EXCEPT ![d] = None]
          /\ missed' = [missed EXCEPT ![d] = 0]
          /\ Broadcast(registry', sockets', {d}, closing)
    BY <1>2 DEF Cleanup
  <2>2. d \in Devices /\ registry[d] = c
    BY DEF RegisteredBy
  <2>3. \A e \in Devices : registry[e] = c => e = d
    BY <2>2 DEF RegistryMatchesSockets
  <2>4. registry' = [e \in Devices |-> IF registry[e] = c THEN None ELSE registry[e]]
    BY <2>1, <2>2, <2>3 DEF ServerType
  <2>5. registry' \in [Devices -> Conns \cup {None}]
    BY <2>4 DEF ServerType
  <2>6. DownType'
    BY ZenonT(60), <2>1, <2>2, <2>5, BroadcastType
  <2>7. missed' \in [Devices -> 0..MissedLimit]
    BY <2>1, <2>2 DEF ServerType
  <2>8. sockets' = sockets \ {c}
    BY DEF Cleanup
  <2> QED
    BY <2>4, <2>6, <2>7, <2>8
<1> QED
  BY <1>1, <1>2

\* A message taken from a connection.
LEMMA HearsKeeps ==
    ASSUME IInv, NEW c \in Conns, NEW type, Hears(c, type)
    PROVE  /\ UpType' /\ Head(up[c]) \in ClientMessage /\ Head(up[c]).type = type
           /\ srv[c] # "closed" /\ end[c] # "connecting"
           /\ sweeping = {} /\ sweeping' = {} /\ end' = end /\ cut' = cut
           /\ \A s \in Conns : \A i \in DOMAIN up'[s] :
                /\ i + 1 \in DOMAIN up[s] \/ i \in DOMAIN up[s]
                /\ s = c => up'[s][i].type # "register"
                /\ s # c => i \in DOMAIN up[s] /\ up'[s][i] = up[s][i]
           /\ type = "register" => deviceId[c] = None
<1>1. up[c] \in Seq(ClientMessage) /\ up[c] # <<>>
  BY DEF Hears, IInv, TypeParts, UpType
<1>2. up' = [up EXCEPT ![c] = Tail(@)]
  BY DEF Hears
<1>3. Tail(up[c]) \in Seq(ClientMessage) /\ Head(up[c]) \in ClientMessage /\ Head(up[c]) = up[c][1] /\ 1 \in DOMAIN up[c]
  BY <1>1, TakeType
<1>4. \A i \in DOMAIN Tail(up[c]) : i + 1 \in DOMAIN up[c] /\ i + 1 # 1 /\ Tail(up[c])[i] = up[c][i + 1]
  BY <1>1, TakeType
<1>5. UpType'
  BY <1>2, <1>3 DEF IInv, TypeParts, UpType
<1>6. \A i \in DOMAIN up[c] : up[c][i].type = "register" => i = 1 /\ deviceId[c] = None
  BY DEF IInv, RegisterFirst
<1>7. up'[c] = Tail(up[c]) /\ \A s \in Conns : s # c => up'[s] = up[s]
  BY <1>2 DEF IInv, TypeParts, UpType
<1>8. \A i \in DOMAIN up'[c] : i + 1 \in DOMAIN up[c] /\ up'[c][i].type # "register"
  BY <1>4, <1>6, <1>7
<1>9. type = "register" => deviceId[c] = None
  BY <1>3, <1>6 DEF Hears
<1>10. end[c] # "connecting"
  BY <1>1 DEF IInv, RegisterFirst
<1> QED
  BY <1>3, <1>5, <1>7, <1>8, <1>9, <1>10 DEF Hears

\* A handler that leaves registry, sockets, deviceId and srv alone keeps the
\* rest of the invariant.
LEMMA QuietHandler ==
    ASSUME IInv, NEW c \in Conns, NEW type, Hears(c, type),
           UNCHANGED <<registry, sockets, deviceId, srv>>
    PROVE  /\ RegistryMatchesSockets' /\ RegisterFirst' /\ HandlerState' /\ SweepKnowsPeers'
<1>1. RegistryMatchesSockets'
  BY DEF IInv, RegistryMatchesSockets
<1>2. HandlerState'
  BY DEF IInv, HandlerState
<1>3. SweepKnowsPeers'
  BY HearsKeeps DEF SweepKnowsPeers
<1>4. \A s \in Conns : end'[s] = "connecting" => deviceId'[s] = None /\ up'[s] = <<>>
  <2> SUFFICES ASSUME NEW s \in Conns, end'[s] = "connecting"
               PROVE  deviceId'[s] = None /\ up'[s] = <<>>
    OBVIOUS
  <2>1. s # c /\ end[s] = "connecting"
    BY HearsKeeps
  <2>2. up'[s] = up[s]
    BY <2>1 DEF Hears, IInv, TypeParts, UpType
  <2> QED
    BY <2>1, <2>2 DEF IInv, RegisterFirst
<1>5. \A s \in Conns : \A i \in DOMAIN up'[s] :
        up'[s][i].type = "register" => i = 1 /\ deviceId'[s] = None
  BY HearsKeeps DEF IInv, RegisterFirst
<1> QED
  BY <1>1, <1>2, <1>3, <1>4, <1>5 DEF RegisterFirst

\* The parts of the invariant a step of the server that is not the network's
\* or a page's leaves alone.
LEMMA ServerFrame ==
    ASSUME IInv, UNCHANGED <<end, cut, pageVars>>
    PROVE  /\ EndType'
           /\ faults' \in 0..MaxFaults /\ signals' \in 0..MaxSignals => PageType'
  BY DEF IInv, TypeParts, EndType, PageType, pageVars

LEMMA HandleRejectedRegisterKeeps == 
    ASSUME IInv, NEW c \in Conns, HandleRejectedRegister(c), UNCHANGED <<pageVars, budgets>>
    PROVE  IInv'
<1>1. Hears(c, "register") /\ UNCHANGED <<registry, sockets, deviceId, srv>>
  BY DEF HandleRejectedRegister
<1>2. RegistryMatchesSockets' /\ RegisterFirst' /\ HandlerState' /\ SweepKnowsPeers'
  BY <1>1, QuietHandler
<1>3. UpType' /\ Head(up[c]) \in ClientMessage /\ Head(up[c]).type = "register" /\ sweeping' = {}
  BY <1>1, HearsKeeps
<1>4. ServerType'
  BY <1>1, <1>3, RegisterFields DEF HandleRejectedRegister, IInv, TypeParts, ServerType
<1>5. DownType'
  BY SendType, MessageTypes DEF HandleRejectedRegister, IInv, TypeParts
<1>6. EndType' /\ PageType'
  BY <1>1, ServerFrame DEF Hears, budgets, IInv, TypeParts, PageType
<1> QED
  BY <1>2, <1>3, <1>4, <1>5, <1>6 DEF IInv, TypeParts

LEMMA HandleHeartbeatKeeps == 
    ASSUME IInv, NEW c \in Conns, HandleHeartbeat(c), UNCHANGED <<pageVars, budgets>>
    PROVE  IInv'
<1>1. Hears(c, "heartbeat") /\ UNCHANGED <<registry, sockets, deviceId, srv>>
  BY DEF HandleHeartbeat
<1>2. RegistryMatchesSockets' /\ RegisterFirst' /\ HandlerState' /\ SweepKnowsPeers'
  BY <1>1, QuietHandler
<1>3. UpType' /\ Head(up[c]) \in ClientMessage /\ Head(up[c]).type = "heartbeat" /\ sweeping' = {}
  BY <1>1, HearsKeeps
<1>4. ServerType'
  BY <1>1, <1>3, RegisterFields DEF HandleHeartbeat, IInv, TypeParts, ServerType
<1>5. DownType'
  BY SendType, MessageTypes DEF HandleHeartbeat, IInv, TypeParts
<1>6. EndType' /\ PageType'
  BY <1>1, ServerFrame DEF Hears, budgets, IInv, TypeParts, PageType
<1> QED
  BY <1>2, <1>3, <1>4, <1>5, <1>6 DEF IInv, TypeParts

LEMMA HandleSignalKeeps == 
    ASSUME IInv, NEW c \in Conns, HandleSignal(c), UNCHANGED <<pageVars, budgets>>
    PROVE  IInv'
<1>1. Hears(c, "signal") /\ UNCHANGED <<registry, sockets, deviceId, srv>>
  BY DEF HandleSignal
<1>2. RegistryMatchesSockets' /\ RegisterFirst' /\ HandlerState' /\ SweepKnowsPeers'
  BY <1>1, QuietHandler
<1>3. UpType' /\ Head(up[c]) \in ClientMessage /\ Head(up[c]).type = "signal" /\ sweeping' = {}
  BY <1>1, HearsKeeps
<1>4. ServerType'
  BY <1>1, <1>3, RegisterFields DEF HandleSignal, IInv, TypeParts, ServerType
<1>5. DownType'
  <2> DEFINE target == registry[Head(up[c]).to]
  <2>1. CASE deviceId[c] # None /\ target # None /\ target \in sockets
    <3>1. target \in Conns /\ deviceId[c] \in Devices
      BY <2>1 DEF IInv, TypeParts, ServerType
    <3>2. Send(target, Signal(deviceId[c]))
      BY <2>1 DEF HandleSignal
    <3> QED
      BY <3>1, <3>2, SendType, MessageTypes DEF IInv, TypeParts
  <2>2. CASE ~(deviceId[c] # None /\ target # None /\ target \in sockets)
    BY <2>2 DEF HandleSignal, IInv, TypeParts, DownType
  <2> QED
    BY <2>1, <2>2
<1>6. EndType' /\ PageType'
  BY <1>1, ServerFrame DEF Hears, budgets, IInv, TypeParts, PageType
<1> QED
  BY <1>2, <1>3, <1>4, <1>5, <1>6 DEF IInv, TypeParts

LEMMA HandleRegisterKeeps == 
    ASSUME IInv, NEW c \in Conns, HandleRegister(c), UNCHANGED <<pageVars, budgets>>
    PROVE  IInv'
<1> DEFINE d == Head(up[c]).deviceId
           old == Existing(d, c)
           stale == old \cap sockets
<1>1. Hears(c, "register")
  BY DEF HandleRegister
<1>2. /\ UpType' /\ d \in Devices /\ sweeping = {} /\ sweeping' = {}
      /\ srv[c] # "closed" /\ end[c] # "connecting" /\ deviceId[c] = None /\ end' = end
  BY <1>1, HearsKeeps, RegisterFields
<1>3. /\ sockets' = (sockets \ old) \cup {c}
      /\ srv' = [s \in Conns |-> IF s \in stale /\ srv[s] = "open" THEN "closing" ELSE srv[s]]
      /\ deviceId' = [deviceId EXCEPT ![c] = d]
      /\ registry' = [registry EXCEPT ![d] = c]
      /\ missed' = [missed EXCEPT ![d] = 0]
      /\ Broadcast(registry', sockets', {}, stale)
  BY DEF HandleRegister, SocketsWith
<1>4. srv[c] = "open"
  BY <1>2 DEF IInv, HandlerState, TypeParts, ServerType
<1>5. c \notin sockets /\ \A e \in Devices : registry[e] # c
  BY <1>2 DEF IInv, RegistryMatchesSockets
<1>6. old = IF registry[d] = None THEN {} ELSE {registry[d]}
  BY <1>2, <1>5 DEF Existing
<1> HIDE DEF d, old, stale
<1>7. old \subseteq sockets /\ stale = old
  BY <1>2, <1>6 DEF stale, IInv, RegistryMatchesSockets
<1>8. ServerType'
  BY <1>2, <1>3 DEF IInv, TypeParts, ServerType
<1>9. DownType'
  BY <1>3, <1>8, BroadcastType DEF IInv, TypeParts, ServerType
<1>10. RegistryMatchesSockets'
  <2>1. ASSUME NEW e \in Devices, registry'[e] # None
        PROVE  /\ registry'[e] \in sockets' /\ srv'[registry'[e]] = "open"
               /\ deviceId'[registry'[e]] = e
    <3>1. CASE e = d
      <4>1. registry'[e] = c
        BY <1>2, <1>3, <3>1 DEF IInv, TypeParts, ServerType
      <4>2. c \notin stale
        BY <1>5, <1>7
      <4> QED
        BY <1>2, <1>3, <1>4, <3>1, <4>1, <4>2 DEF IInv, TypeParts, ServerType
    <3>2. CASE e # d
      <4>1. registry'[e] = registry[e] /\ registry[e] # c /\ registry[e] \in Conns
        BY <1>2, <1>3, <1>5, <2>1, <3>2 DEF IInv, TypeParts, ServerType
      <4>2. registry[e] \in sockets /\ srv[registry[e]] = "open" /\ deviceId[registry[e]] = e
        BY <2>1, <4>1 DEF IInv, RegistryMatchesSockets
      <4>3. registry[e] \notin old
        BY <1>2, <1>6, <3>2, <4>1, <4>2 DEF IInv, RegistryMatchesSockets
      <4> QED
        BY <1>2, <1>3, <1>7, <4>1, <4>2, <4>3 DEF IInv, TypeParts, ServerType
    <3> QED
      BY <3>1, <3>2
  <2>2. ASSUME NEW s \in sockets'
        PROVE  deviceId'[s] # None /\ registry'[deviceId'[s]] = s
    <3>1. CASE s = c
      BY <1>2, <1>3, <3>1 DEF IInv, TypeParts, ServerType
    <3>2. CASE s # c
      <4>1. s \in sockets /\ s \in Conns /\ s \notin old /\ deviceId'[s] = deviceId[s]
        BY <1>3, <3>2 DEF IInv, TypeParts, ServerType
      <4>2. deviceId[s] \in Devices /\ registry[deviceId[s]] = s
        BY <4>1 DEF IInv, RegistryMatchesSockets, TypeParts, ServerType
      <4>3. deviceId[s] # d
        BY <1>6, <4>1, <4>2
      <4> QED
        BY <1>3, <4>1, <4>2, <4>3 DEF IInv, TypeParts, ServerType
    <3> QED
      BY <3>1, <3>2
  <2> QED
    BY <2>1, <2>2 DEF RegistryMatchesSockets
<1>11. HandlerState'
  <2> SUFFICES ASSUME NEW s \in Conns
               PROVE  /\ srv'[s] = "closed" => deviceId'[s] = None
                      /\ srv'[s] = "closing" => deviceId'[s] # None
    BY DEF HandlerState
  <2>1. CASE s = c
    <3>1. srv'[s] = "open"
      BY <1>3, <1>4, <1>5, <1>7, <2>1
    <3> QED
      BY <3>1
  <2>2. CASE s # c
    <3>1. deviceId'[s] = deviceId[s]
      BY <1>3, <2>2 DEF IInv, TypeParts, ServerType
    <3>2. s \in stale => deviceId[s] # None
      BY <1>7 DEF IInv, RegistryMatchesSockets
    <3>3. srv'[s] = IF s \in stale /\ srv[s] = "open" THEN "closing" ELSE srv[s]
      BY <1>3
    <3>4. /\ srv[s] = "closed" => deviceId[s] = None
          /\ srv[s] = "closing" => deviceId[s] # None
      BY DEF IInv, HandlerState, TypeParts, ServerType
    <3> QED
      BY <3>1, <3>2, <3>3, <3>4
  <2> QED
    BY <2>1, <2>2
<1>12. RegisterFirst'
  <2>1. \A s \in Conns : s # c => deviceId'[s] = deviceId[s] /\ up'[s] = up[s]
    BY <1>1, <1>3 DEF Hears, IInv, TypeParts, ServerType, UpType
  <2>2. \A i \in DOMAIN up'[c] : up'[c][i].type # "register"
    BY <1>1, HearsKeeps
  <2> QED
    BY <1>2, <2>1, <2>2 DEF IInv, RegisterFirst
<1>13. SweepKnowsPeers'
  BY <1>2 DEF SweepKnowsPeers
<1>14. EndType' /\ PageType'
  BY <1>1, ServerFrame DEF Hears, budgets, IInv, TypeParts, PageType
<1> QED
  BY <1>2, <1>8, <1>9, <1>10, <1>11, <1>12, <1>13, <1>14 DEF IInv, TypeParts

\* What removing a connection's registration does to the two maps.
LEMMA CleanupMaps ==
    ASSUME IInv, NEW c \in Conns, NEW closing, Cleanup(c, closing),
           \A s \in Conns \ {c} : srv'[s] = srv[s] /\ deviceId'[s] = deviceId[s]
    PROVE  RegistryMatchesSockets'
<1>1. /\ registry' = [d \in Devices |-> IF registry[d] = c THEN None ELSE registry[d]]
      /\ sockets' = sockets \ {c}
  BY CleanupRemoves DEF IInv, TypeParts
<1>2. ASSUME NEW d \in Devices, registry'[d] # None
      PROVE  /\ registry'[d] \in sockets' /\ srv'[registry'[d]] = "open"
             /\ deviceId'[registry'[d]] = d
  <2>1. registry'[d] = registry[d] /\ registry[d] # c /\ registry[d] \in Conns
    BY <1>1, <1>2 DEF IInv, TypeParts, ServerType
  <2> QED
    BY <1>1, <1>2, <2>1 DEF IInv, RegistryMatchesSockets
<1>3. ASSUME NEW s \in sockets'
      PROVE  deviceId'[s] # None /\ registry'[deviceId'[s]] = s
  <2>1. s \in sockets /\ s # c /\ s \in Conns /\ deviceId'[s] = deviceId[s]
    BY <1>1 DEF IInv, TypeParts, ServerType
  <2>2. deviceId[s] \in Devices /\ registry[deviceId[s]] = s
    BY <2>1 DEF IInv, RegistryMatchesSockets, TypeParts, ServerType
  <2> QED
    BY <1>1, <2>1, <2>2
<1> QED
  BY <1>2, <1>3 DEF RegistryMatchesSockets

LEMMA HandleUnregisterKeeps == 
    ASSUME IInv, NEW c \in Conns, HandleUnregister(c), UNCHANGED <<pageVars, budgets>>
    PROVE  IInv'
<1>1. Hears(c, "unregister") /\ Cleanup(c, {}) /\ UNCHANGED <<deviceId, srv>>
  BY DEF HandleUnregister
<1>2. UpType' /\ sweeping' = {} /\ end' = end /\ end[c] # "connecting"
  BY <1>1, HearsKeeps
<1>3. /\ registry' = [d \in Devices |-> IF registry[d] = c THEN None ELSE registry[d]]
      /\ missed' \in [Devices -> 0..MissedLimit]
      /\ sockets' = sockets \ {c}
      /\ DownType'
  BY <1>1, CleanupRemoves DEF IInv, TypeParts
<1>4. ServerType'
  BY <1>1, <1>2, <1>3 DEF IInv, TypeParts, ServerType
<1>5. RegistryMatchesSockets'
  BY <1>1, CleanupMaps
<1>6. HandlerState' /\ SweepKnowsPeers'
  BY <1>1, <1>2 DEF IInv, HandlerState, SweepKnowsPeers
<1>7. RegisterFirst'
  <2>1. \A s \in Conns : s # c => up'[s] = up[s]
    BY <1>1 DEF Hears, IInv, TypeParts, UpType
  <2>2. \A i \in DOMAIN up'[c] : up'[c][i].type # "register"
    BY <1>1, HearsKeeps
  <2> QED
    BY <1>1, <1>2, <2>1, <2>2 DEF IInv, RegisterFirst
<1>8. EndType' /\ PageType'
  BY <1>1, ServerFrame DEF Hears, budgets, IInv, TypeParts, PageType
<1> QED
  BY <1>2, <1>3, <1>4, <1>5, <1>6, <1>7, <1>8 DEF IInv, TypeParts

LEMMA SocketClosesKeeps == 
    ASSUME IInv, NEW c \in Conns, SocketCloses(c), UNCHANGED <<pageVars, budgets>>
    PROVE  IInv'
<1>1. /\ sweeping = {} /\ sweeping' = {} /\ srv[c] # "closed" /\ up[c] = <<>>
      /\ srv' = [srv EXCEPT ![c] = "closed"]
      /\ deviceId' = [deviceId EXCEPT ![c] = None]
      /\ Cleanup(c, {})
      /\ UNCHANGED <<up, end, cut>>
  BY DEF SocketCloses
<1>2. /\ registry' = [d \in Devices |-> IF registry[d] = c THEN None ELSE registry[d]]
      /\ missed' \in [Devices -> 0..MissedLimit]
      /\ sockets' = sockets \ {c}
      /\ DownType'
  BY <1>1, CleanupRemoves DEF IInv, TypeParts
<1>3. ServerType' /\ UpType'
  BY <1>1, <1>2 DEF IInv, TypeParts, ServerType, UpType
<1>4. \A s \in Conns \ {c} : srv'[s] = srv[s] /\ deviceId'[s] = deviceId[s]
  BY <1>1 DEF IInv, TypeParts, ServerType
<1>5. RegistryMatchesSockets'
  BY <1>1, <1>4, CleanupMaps
<1>6. srv'[c] = "closed" /\ deviceId'[c] = None
  BY <1>1 DEF IInv, TypeParts, ServerType
<1>7. HandlerState' /\ SweepKnowsPeers'
  BY <1>1, <1>4, <1>6 DEF IInv, HandlerState, SweepKnowsPeers
<1>8. RegisterFirst'
  BY <1>1, <1>4, <1>6 DEF IInv, RegisterFirst
<1>9. EndType' /\ PageType'
  BY <1>1, ServerFrame DEF budgets, IInv, TypeParts, PageType
<1> QED
  BY <1>2, <1>3, <1>5, <1>7, <1>8, <1>9 DEF IInv, TypeParts

LEMMA EvictKeeps == 
    ASSUME IInv, NEW d \in Devices, Evict(d), UNCHANGED <<pageVars, budgets>>
    PROVE  IInv'
<1> DEFINE c == registry[d]
<1>1. /\ d \in sweeping /\ sweeping' = sweeping \ {d}
      /\ srv' = [srv EXCEPT ![c] = IF @ = "open" /\ c \in sockets THEN "closing" ELSE @]
      /\ Cleanup(c, {c} \cap sockets)
      /\ UNCHANGED <<deviceId, up, end, cut>>
  BY DEF Evict
<1>2. c \in Conns /\ c \in sockets /\ deviceId[c] = d
  BY <1>1 DEF IInv, SweepKnowsPeers, RegistryMatchesSockets, TypeParts, ServerType
<1> HIDE DEF c
<1>3. /\ registry' = [e \in Devices |-> IF registry[e] = c THEN None ELSE registry[e]]
      /\ missed' \in [Devices -> 0..MissedLimit]
      /\ sockets' = sockets \ {c}
      /\ DownType'
  BY <1>1, <1>2, CleanupRemoves DEF IInv, TypeParts
<1>4. ServerType' /\ UpType'
  BY <1>1, <1>2, <1>3 DEF IInv, TypeParts, ServerType, UpType
<1>5. \A s \in Conns \ {c} : srv'[s] = srv[s] /\ deviceId'[s] = deviceId[s]
  BY <1>1 DEF IInv, TypeParts, ServerType
<1>6. RegistryMatchesSockets'
  BY <1>1, <1>2, <1>5, CleanupMaps
<1>7. HandlerState'
  BY <1>1, <1>2, <1>5 DEF IInv, HandlerState, TypeParts, ServerType
<1>8. SweepKnowsPeers'
  <2>1. \A e \in Devices : registry[e] = c => e = d
    BY <1>2 DEF IInv, RegistryMatchesSockets
  <2> QED
    BY <1>1, <1>3, <2>1 DEF IInv, SweepKnowsPeers, TypeParts, ServerType
<1>9. RegisterFirst'
  BY <1>1 DEF IInv, RegisterFirst
<1>10. EndType' /\ PageType'
  BY <1>1, ServerFrame DEF budgets, IInv, TypeParts, PageType
<1> QED
  BY <1>3, <1>4, <1>6, <1>7, <1>8, <1>9, <1>10 DEF IInv, TypeParts

LEMMA AcceptKeeps == 
    ASSUME IInv, NEW c \in Conns, Accept(c), UNCHANGED <<pageVars, budgets>>
    PROVE  IInv'
<1>1. /\ sweeping = {} /\ srv[c] = "closed" /\ srv' = [srv EXCEPT ![c] = "open"]
      /\ UNCHANGED <<registry, missed, sockets, deviceId, sweeping, up, down, end, cut>>
  BY DEF Accept, wireVars
<1>2. ServerType' /\ UpType' /\ DownType'
  BY <1>1 DEF IInv, TypeParts, ServerType, UpType, DownType
<1>3. RegistryMatchesSockets'
  BY <1>1 DEF IInv, RegistryMatchesSockets, TypeParts, ServerType
<1>4. HandlerState' /\ SweepKnowsPeers' /\ RegisterFirst'
  BY <1>1 DEF IInv, HandlerState, SweepKnowsPeers, RegisterFirst, TypeParts, ServerType
<1>5. EndType' /\ PageType'
  BY <1>1, ServerFrame DEF budgets, IInv, TypeParts, PageType
<1> QED
  BY <1>2, <1>3, <1>4, <1>5 DEF IInv, TypeParts

\* A fault stays within its budget.
LEMMA FaultType == ASSUME IInv, Fault \/ UNCHANGED faults PROVE faults' \in 0..MaxFaults
  BY BoundsAssumption DEF IInv, TypeParts, PageType, Fault, Left

LEMMA SweepKeeps == ASSUME IInv, SweepStale PROVE IInv'
<1>1. /\ sweeping = {} /\ sweeping' = Stale
      /\ missed' = [d \in Devices |->
                      IF registry[d] = None \/ d \in Stale THEN missed[d] ELSE missed[d] + 1]
      /\ UNCHANGED <<registry, sockets, deviceId, srv, up, down, end, cut, pageVars, signals>>
      /\ Fault \/ UNCHANGED faults
  BY DEF SweepStale, Sweep, wireVars
<1>2. \A d \in Devices : registry[d] = None \/ d \in Stale \/ missed[d] < MissedLimit
  BY DEF Stale, IInv, TypeParts, ServerType
<1>3. \A d \in Devices : missed'[d] \in 0..MissedLimit
  BY <1>1, <1>2 DEF IInv, TypeParts, ServerType
<1>4. ServerType' /\ UpType' /\ DownType'
  BY <1>1, <1>3 DEF Stale, IInv, TypeParts, ServerType, UpType, DownType
<1>5. RegistryMatchesSockets'
  BY <1>1 DEF IInv, RegistryMatchesSockets
<1>6. HandlerState' /\ SweepKnowsPeers' /\ RegisterFirst'
  BY <1>1 DEF IInv, HandlerState, SweepKnowsPeers, RegisterFirst, Stale
<1>7. EndType' /\ PageType'
  BY <1>1, FaultType, ServerFrame DEF IInv, TypeParts, PageType
<1> QED
  BY <1>4, <1>5, <1>6, <1>7 DEF IInv, TypeParts

LEMMA RestartKeeps == ASSUME IInv, Restarts PROVE IInv'
<1>1. /\ registry' = [d \in Devices |-> None]
      /\ missed' = [d \in Devices |-> 0]
      /\ sockets' = {} /\ sweeping' = {}
      /\ deviceId' = [c \in Conns |-> None]
      /\ srv' = [c \in Conns |-> "closed"]
      /\ up' = [c \in Conns |-> <<>>]
      /\ down' = [c \in Conns |-> IF Reaches(c) THEN Append(down[c], Notice("close")) ELSE down[c]]
      /\ UNCHANGED <<end, cut, pageVars, signals>> /\ Fault
  BY DEF Restarts, Restart
<1>2. ServerType'
  BY <1>1 DEF ServerType
<1>3. UpType'
  BY <1>1, EmptyType DEF UpType
<1>4. \A c \in Conns : Append(down[c], Notice("close")) \in Seq(ServerMessage)
  BY PutType, MessageTypes DEF IInv, TypeParts, DownType
<1>5. DownType'
  BY <1>1, <1>4 DEF IInv, TypeParts, DownType
<1>6. RegistryMatchesSockets' /\ HandlerState' /\ SweepKnowsPeers'
  BY <1>1 DEF RegistryMatchesSockets, HandlerState, SweepKnowsPeers
<1>7. RegisterFirst'
  BY <1>1, EmptyType DEF RegisterFirst
<1>8. EndType' /\ PageType'
  BY <1>1, FaultType, ServerFrame DEF IInv, TypeParts, PageType
<1> QED
  BY <1>2, <1>3, <1>5, <1>6, <1>7, <1>8 DEF IInv, TypeParts

-----------------------------------------------------------------------------
(* The pages and the network. *)

\* A step that leaves the server alone keeps what is said of it.
LEMMA PageFrame ==
    ASSUME IInv, UNCHANGED serverVars
    PROVE  ServerType' /\ RegistryMatchesSockets' /\ HandlerState' /\ SweepKnowsPeers'
<1>1. UNCHANGED <<registry, missed, sockets, deviceId, srv, sweeping>>
  BY DEF serverVars
<1> QED
  BY <1>1 DEF IInv, TypeParts, ServerType, RegistryMatchesSockets, HandlerState, SweepKnowsPeers

\* What a page puts on its connection, when it is not a register.
LEMMA PostedKeeps ==
    ASSUME IInv, NEW c \in Conns, end[c] # "connecting", NEW m \in ClientMessage, m.type # "register",
           NEW said, said = Posted(c, m)
    PROVE  /\ said \in [Conns -> Seq(ClientMessage)]
           /\ \A s \in Conns :
                /\ end[s] = "connecting" => said[s] = <<>>
                /\ \A i \in DOMAIN said[s] : said[s][i].type = "register" => i = 1 /\ deviceId[s] = None
<1>1. up[c] \in Seq(ClientMessage)
  BY DEF IInv, TypeParts, UpType
<1>2. Append(up[c], m) \in Seq(ClientMessage)
  BY <1>1, PutType
<1>3. \A i \in DOMAIN Append(up[c], m) :
         Append(up[c], m)[i].type = "register" => i \in DOMAIN up[c] /\ Append(up[c], m)[i] = up[c][i]
  BY <1>1, PutType
<1>4. \A s \in Conns : said[s] = up[s] \/ (s = c /\ said[s] = Append(up[c], m))
  <2>1. said = up \/ said = [up EXCEPT ![c] = Append(@, m)]
    BY DEF Posted
  <2>2. CASE said = up
    BY <2>2
  <2>3. CASE said = [up EXCEPT ![c] = Append(@, m)]
    <3>1. said = [s \in Conns |-> IF s = c THEN Append(up[c], m) ELSE up[s]]
      BY <2>3 DEF IInv, TypeParts, UpType
    <3> QED
      BY <3>1
  <2> QED
    BY <2>1, <2>2, <2>3
<1>5. said \in [Conns -> Seq(ClientMessage)]
  BY <1>2 DEF Posted, IInv, TypeParts, UpType
<1>6. \A s \in Conns :
        /\ end[s] = "connecting" => up[s] = <<>>
        /\ \A i \in DOMAIN up[s] : up[s][i].type = "register" => i = 1 /\ deviceId[s] = None
  BY DEF IInv, RegisterFirst
<1>7. ASSUME NEW s \in Conns
      PROVE  /\ end[s] = "connecting" => said[s] = <<>>
             /\ \A i \in DOMAIN said[s] : said[s][i].type = "register" => i = 1 /\ deviceId[s] = None
  <2>1. CASE said[s] = up[s]
    BY <1>6, <2>1
  <2>2. CASE s = c /\ said[s] = Append(up[c], m)
    <3>1. \A i \in DOMAIN said[s] : said[s][i].type = "register" =>
            i \in DOMAIN up[c] /\ up[c][i].type = "register"
      BY <1>3, <2>2
    <3> QED
      BY <1>6, <2>2, <3>1
  <2> QED
    BY <1>4, <2>1, <2>2
<1> QED
  BY <1>5, <1>7

LEMMA GoodbyeKeeps ==
    ASSUME IInv, NEW p \in Pages, NEW said \in Goodbye(p)
    PROVE  /\ said \in [Conns -> Seq(ClientMessage)]
           /\ \A s \in Conns :
                /\ end[s] = "connecting" => said[s] = <<>>
                /\ \A i \in DOMAIN said[s] : said[s][i].type = "register" => i = 1 /\ deviceId[s] = None
<1>1. CASE said = up
  BY <1>1 DEF IInv, TypeParts, UpType, RegisterFirst
<1>2. CASE IsOpen(p) /\ said = Posted(ws[p], [type |-> "unregister"])
  <2>1. ws[p] \in Conns /\ end[ws[p]] # "connecting"
    BY <1>2 DEF IsOpen, IInv, TypeParts, EndType
  <2>2. [type |-> "unregister"] \in ClientMessage /\ [type |-> "unregister"].type # "register"
    BY MessageTypes
  <2> QED
    BY <1>2, <2>1, <2>2, PostedKeeps
<1> QED
  BY <1>1, <1>2 DEF Goodbye

LEMMA OpenOnKeeps ==
    ASSUME IInv, NEW p \in Pages, NEW c \in Fresh, NEW old \in Conns \cup {None}, NEW said,
           OpenOn(p, c, old, said), UNCHANGED serverVars,
           said \in [Conns -> Seq(ClientMessage)],
           \A s \in Conns :
             /\ end[s] = "connecting" => said[s] = <<>>
             /\ \A i \in DOMAIN said[s] : said[s][i].type = "register" => i = 1 /\ deviceId[s] = None
    PROVE  UpType' /\ DownType' /\ EndType' /\ RegisterFirst'
<1>1. c \in Conns /\ srv[c] = "closed"
  BY DEF Fresh, Unused
<1>2. /\ ws' = [ws EXCEPT ![p] = c]
      /\ end' = [s \in Conns |-> IF s = c THEN "connecting"
                                  ELSE IF s = old THEN "closed" ELSE end[s]]
      /\ up' = [said EXCEPT ![c] = <<>>]
      /\ down' = [s \in Conns |-> IF s \in {c, old} THEN <<>> ELSE down[s]]
      /\ cut' = cut \ {c}
  BY DEF OpenOn
<1>3. UpType'
  BY <1>1, <1>2, EmptyType DEF UpType
<1>4. DownType'
  BY <1>2, EmptyType DEF IInv, TypeParts, DownType
<1>5. EndType'
  BY <1>1, <1>2 DEF IInv, TypeParts, EndType
<1>6. deviceId[c] = None /\ deviceId' = deviceId
  BY <1>1 DEF IInv, HandlerState, TypeParts, ServerType, serverVars
<1>7. up'[c] = <<>> /\ \A s \in Conns : s # c => up'[s] = said[s]
  BY <1>1, <1>2
<1>8. RegisterFirst'
  <2>1. ASSUME NEW s \in Conns, end'[s] = "connecting" PROVE deviceId'[s] = None /\ up'[s] = <<>>
    <3>1. CASE s = c
      BY <1>6, <1>7, <3>1
    <3>2. CASE s # c
      <4>1. end[s] = "connecting"
        BY <1>2, <2>1, <3>2
      <4>2. deviceId[s] = None
        BY <4>1 DEF IInv, RegisterFirst
      <4> QED
        BY <1>6, <1>7, <3>2, <4>1, <4>2
    <3> QED
      BY <3>1, <3>2
  <2>2. ASSUME NEW s \in Conns, NEW i \in DOMAIN up'[s], up'[s][i].type = "register"
        PROVE  i = 1 /\ deviceId'[s] = None
    <3>1. s # c
      BY <1>7, <2>2, EmptyType
    <3> QED
      BY <1>6, <1>7, <2>2, <3>1
  <2> QED
    BY <2>1, <2>2 DEF RegisterFirst
<1> QED
  BY <1>3, <1>4, <1>5, <1>8

LEMMA ReloadKeeps == ASSUME IInv, NEW p \in Pages, Reload(p) PROVE IInv'
<1>s. UNCHANGED serverVars
  BY DEF Reload
<1>f. ServerType' /\ RegistryMatchesSockets' /\ HandlerState' /\ SweepKnowsPeers'
  BY <1>s, PageFrame
<1>1. PICK c \in Fresh, said \in Goodbye(p) : OpenOn(p, c, ws[p], said)
  BY DEF Reload
<1>2. ws[p] \in Conns \cup {None}
  BY DEF IInv, TypeParts, EndType
<1>3. UpType' /\ DownType' /\ EndType' /\ RegisterFirst'
  BY <1>s, <1>1, <1>2, OpenOnKeeps, GoodbyeKeeps
<1>4. faults' \in 0..MaxFaults
  BY FaultType DEF Reload
<1>5. PageType'
  BY <1>1, <1>4 DEF Reload, OpenOn, IInv, TypeParts, PageType
<1> QED
  BY <1>f, <1>3, <1>5 DEF IInv, TypeParts

LEMMA LeaveKeeps == ASSUME IInv, NEW p \in Pages, Leave(p) PROVE IInv'
<1>s. UNCHANGED serverVars
  BY DEF Leave
<1>f. ServerType' /\ RegistryMatchesSockets' /\ HandlerState' /\ SweepKnowsPeers'
  BY <1>s, PageFrame
<1>1. PICK said \in Goodbye(p) : up' = said
  BY DEF Leave
<1>2. /\ ws' = [ws EXCEPT ![p] = None]
      /\ end' = [c \in Conns |-> IF c = ws[p] THEN "closed" ELSE end[c]]
      /\ down' = [c \in Conns |-> IF c = ws[p] THEN <<>> ELSE down[c]]
      /\ cut' = cut
  BY DEF Leave
<1>3. UpType'
  BY <1>1, GoodbyeKeeps DEF UpType
<1>4. RegisterFirst'
  <2>1. \A s \in Conns : end'[s] = "connecting" => end[s] = "connecting"
    BY <1>2
  <2>2. \A s \in Conns : end[s] = "connecting" => deviceId[s] = None
    BY DEF IInv, RegisterFirst
  <2> QED
    BY <1>s, <1>1, <2>1, <2>2, GoodbyeKeeps DEF RegisterFirst, serverVars
<1>5. DownType'
  BY <1>2, EmptyType DEF IInv, TypeParts, DownType
<1>6. EndType'
  BY <1>2 DEF IInv, TypeParts, EndType
<1>7. PageType'
  BY FaultType DEF Leave, IInv, TypeParts, PageType
<1> QED
  BY <1>f, <1>3, <1>4, <1>5, <1>6, <1>7 DEF IInv, TypeParts

LEMMA ReconnectKeeps == ASSUME IInv, NEW p \in Pages, Reconnect(p) PROVE IInv'
<1>s. UNCHANGED serverVars
  BY DEF Reconnect
<1>f. ServerType' /\ RegistryMatchesSockets' /\ HandlerState' /\ SweepKnowsPeers'
  BY <1>s, PageFrame
<1>1. PICK c \in Fresh : OpenOn(p, c, None, up)
  BY DEF Reconnect
<1>2. /\ up \in [Conns -> Seq(ClientMessage)]
      /\ \A s \in Conns :
           /\ end[s] = "connecting" => up[s] = <<>>
           /\ \A i \in DOMAIN up[s] : up[s][i].type = "register" => i = 1 /\ deviceId[s] = None
  BY DEF IInv, TypeParts, UpType, RegisterFirst
<1>3. UpType' /\ DownType' /\ EndType' /\ RegisterFirst'
  BY <1>s, <1>1, <1>2, OpenOnKeeps
<1>4. PageType'
  BY <1>1 DEF Reconnect, OpenOn, budgets, IInv, TypeParts, PageType
<1> QED
  BY <1>f, <1>3, <1>4 DEF IInv, TypeParts

LEMMA OnOpenKeeps == ASSUME IInv, NEW p \in Pages, OnOpen(p) PROVE IInv'
<1> DEFINE c == ws[p]
           m == [type |-> "register", deviceId |-> DeviceOf[p], newer |-> p \in scene.newer]
<1>s. UNCHANGED serverVars
  BY DEF OnOpen
<1>f. ServerType' /\ RegistryMatchesSockets' /\ HandlerState' /\ SweepKnowsPeers'
  BY <1>s, PageFrame
<1>1. /\ c \in Conns /\ c \notin cut /\ end[c] = "connecting"
      /\ end' = [end EXCEPT ![c] = "open"]
      /\ up' = Posted(c, m)
      /\ UNCHANGED <<down, cut, ws>>
  BY DEF OnOpen, IInv, TypeParts, EndType
<1>2. m \in ClientMessage
  <2>1. DeviceOf[p] \in Devices /\ (p \in scene.newer) \in BOOLEAN
    OBVIOUS
  <2> QED
    BY <2>1, MessageTypes
<1>3. up' = [up EXCEPT ![c] = Append(@, m)]
  BY <1>1 DEF Posted
<1>4. up[c] = <<>> /\ deviceId[c] = None
  BY <1>1 DEF IInv, RegisterFirst
<1>5. Append(up[c], m) \in Seq(ClientMessage) /\ \A i \in DOMAIN Append(up[c], m) : i = 1
  BY <1>2, <1>4, EmptyType, PutType
<1>6. UpType'
  BY <1>3, <1>5 DEF IInv, TypeParts, UpType
<1>7. up'[c] = Append(up[c], m) /\ \A s \in Conns : s # c => up'[s] = up[s]
  BY <1>1, <1>3 DEF IInv, TypeParts, UpType
<1>8. RegisterFirst'
  <2>1. end'[c] = "open" /\ \A s \in Conns : s # c => end'[s] = end[s]
    BY <1>1 DEF IInv, TypeParts, EndType
  <2> QED
    BY <1>s, <1>4, <1>5, <1>7, <2>1 DEF RegisterFirst, IInv, serverVars
<1>9. DownType' /\ EndType'
  BY <1>1 DEF IInv, TypeParts, DownType, EndType
<1>10. PageType'
  BY DEF OnOpen, budgets, IInv, TypeParts, PageType
<1> QED
  BY <1>f, <1>6, <1>8, <1>9, <1>10 DEF IInv, TypeParts

LEMMA HeartbeatKeeps == ASSUME IInv, NEW p \in Pages, Heartbeat(p) PROVE IInv'
<1> DEFINE m == [type |-> "heartbeat", deviceId |-> DeviceOf[p]]
<1>s. UNCHANGED serverVars
  BY DEF Heartbeat
<1>f. ServerType' /\ RegistryMatchesSockets' /\ HandlerState' /\ SweepKnowsPeers'
  BY <1>s, PageFrame
<1>1. ws[p] \in Conns /\ end[ws[p]] # "connecting"
  BY DEF Heartbeat, IsOpen, IInv, TypeParts, EndType
<1>2. m \in ClientMessage /\ m.type # "register"
  BY MessageTypes
<1>3. up' = Posted(ws[p], m) /\ UNCHANGED <<down, end, cut, pageVars>>
  BY DEF Heartbeat
<1>4. UpType' /\ RegisterFirst'
  BY <1>s, <1>1, <1>2, <1>3, PostedKeeps DEF UpType, RegisterFirst, IInv, serverVars
<1>5. DownType' /\ EndType'
  BY <1>3 DEF IInv, TypeParts, DownType, EndType, pageVars
<1>6. PageType'
  BY <1>3 DEF Heartbeat, budgets, pageVars, IInv, TypeParts, PageType
<1> QED
  BY <1>f, <1>4, <1>5, <1>6 DEF IInv, TypeParts

LEMMA SendSignalKeeps == ASSUME IInv, NEW p \in Pages, NEW d \in Devices, SendSignal(p, d) PROVE IInv'
<1> DEFINE m == [type |-> "signal", to |-> d]
<1>s. UNCHANGED serverVars
  BY DEF SendSignal
<1>f. ServerType' /\ RegistryMatchesSockets' /\ HandlerState' /\ SweepKnowsPeers'
  BY <1>s, PageFrame
<1>1. ws[p] \in Conns /\ end[ws[p]] # "connecting"
  BY DEF SendSignal, IsOpen, IInv, TypeParts, EndType
<1>2. m \in ClientMessage /\ m.type # "register"
  BY MessageTypes
<1>3. up' = Posted(ws[p], m) /\ UNCHANGED <<down, end, cut, pageVars>>
  BY DEF SendSignal
<1>4. UpType' /\ RegisterFirst'
  BY <1>s, <1>1, <1>2, <1>3, PostedKeeps DEF UpType, RegisterFirst, IInv, serverVars
<1>5. DownType' /\ EndType'
  BY <1>3 DEF IInv, TypeParts, DownType, EndType, pageVars
<1>6. PageType'
  BY <1>3 DEF SendSignal, budgets, pageVars, IInv, TypeParts, PageType
<1> QED
  BY <1>f, <1>4, <1>5, <1>6 DEF IInv, TypeParts

LEMMA ReceivePeerListKeeps == ASSUME IInv, NEW p \in Pages, ReceivePeerList(p) PROVE IInv'
<1>1. /\ down[ws[p]] # <<>> /\ IsOpen(p) /\ down' = [down EXCEPT ![ws[p]] = Tail(@)]
      /\ UNCHANGED <<serverVars, up, end, cut, ws, state, attempt, timer, budgets>>
  BY DEF ReceivePeerList, Receives
<1>f. ServerType' /\ RegistryMatchesSockets' /\ HandlerState' /\ SweepKnowsPeers'
  BY <1>1, PageFrame
<1>2. ws[p] \in Conns /\ down[ws[p]] \in Seq(ServerMessage)
  BY <1>1 DEF IsOpen, IInv, TypeParts, EndType, DownType
<1>3. Tail(down[ws[p]]) \in Seq(ServerMessage) /\ Head(down[ws[p]]) \in ServerMessage
  BY <1>1, <1>2, TakeType
<1>4. DownType'
  BY <1>1, <1>2, <1>3 DEF IInv, TypeParts, DownType
<1>5. UpType' /\ EndType' /\ RegisterFirst'
  BY <1>1 DEF IInv, TypeParts, UpType, EndType, RegisterFirst, serverVars
<1>6. PageType'
  <2>1. Head(down[ws[p]]).peers \in SUBSET Devices
    BY <1>3, NewsFields DEF ReceivePeerList, Receives
  <2> QED
    BY <1>1, <2>1 DEF ReceivePeerList, budgets, IInv, TypeParts, PageType
<1> QED
  BY <1>f, <1>4, <1>5, <1>6 DEF IInv, TypeParts

LEMMA ReceivePeerLeftKeeps == ASSUME IInv, NEW p \in Pages, ReceivePeerLeft(p) PROVE IInv'
<1>1. /\ down[ws[p]] # <<>> /\ IsOpen(p) /\ down' = [down EXCEPT ![ws[p]] = Tail(@)]
      /\ UNCHANGED <<serverVars, up, end, cut, ws, state, attempt, timer, budgets>>
  BY DEF ReceivePeerLeft, Receives
<1>f. ServerType' /\ RegistryMatchesSockets' /\ HandlerState' /\ SweepKnowsPeers'
  BY <1>1, PageFrame
<1>2. ws[p] \in Conns /\ down[ws[p]] \in Seq(ServerMessage)
  BY <1>1 DEF IsOpen, IInv, TypeParts, EndType, DownType
<1>3. Tail(down[ws[p]]) \in Seq(ServerMessage) /\ Head(down[ws[p]]) \in ServerMessage
  BY <1>1, <1>2, TakeType
<1>4. DownType'
  BY <1>1, <1>2, <1>3 DEF IInv, TypeParts, DownType
<1>5. UpType' /\ EndType' /\ RegisterFirst'
  BY <1>1 DEF IInv, TypeParts, UpType, EndType, RegisterFirst, serverVars
<1>6. PageType'
  BY <1>1 DEF ReceivePeerLeft, budgets, IInv, TypeParts, PageType
<1> QED
  BY <1>f, <1>4, <1>5, <1>6 DEF IInv, TypeParts

LEMMA ReceiveOtherKeeps == ASSUME IInv, NEW p \in Pages, ReceiveOther(p) PROVE IInv'
<1>1. /\ down[ws[p]] # <<>> /\ IsOpen(p) /\ down' = [down EXCEPT ![ws[p]] = Tail(@)]
      /\ UNCHANGED <<serverVars, up, end, cut, ws, state, attempt, timer, budgets>>
  BY DEF ReceiveOther, Receives
<1>f. ServerType' /\ RegistryMatchesSockets' /\ HandlerState' /\ SweepKnowsPeers'
  BY <1>1, PageFrame
<1>2. ws[p] \in Conns /\ down[ws[p]] \in Seq(ServerMessage)
  BY <1>1 DEF IsOpen, IInv, TypeParts, EndType, DownType
<1>3. Tail(down[ws[p]]) \in Seq(ServerMessage) /\ Head(down[ws[p]]) \in ServerMessage
  BY <1>1, <1>2, TakeType
<1>4. DownType'
  BY <1>1, <1>2, <1>3 DEF IInv, TypeParts, DownType
<1>5. UpType' /\ EndType' /\ RegisterFirst'
  BY <1>1 DEF IInv, TypeParts, UpType, EndType, RegisterFirst, serverVars
<1>6. PageType'
  BY <1>1 DEF ReceiveOther, budgets, IInv, TypeParts, PageType
<1> QED
  BY <1>f, <1>4, <1>5, <1>6 DEF IInv, TypeParts

\* Losing the connection.
LEMMA ClosesKeeps ==
    ASSUME IInv, NEW p \in Pages, ws[p] # None, Closes(p), faults' \in 0..MaxFaults
    PROVE  IInv'
<1>s. UNCHANGED serverVars
  BY DEF Closes
<1>f. ServerType' /\ RegistryMatchesSockets' /\ HandlerState' /\ SweepKnowsPeers'
  BY <1>s, PageFrame
<1>1. /\ end' = [end EXCEPT ![ws[p]] = "closed"]
      /\ down' = [down EXCEPT ![ws[p]] = <<>>]
      /\ ws' = [ws EXCEPT ![p] = None]
      /\ UNCHANGED <<up, cut>>
  BY DEF Closes, HandleDisconnect
<1>2. ws[p] \in Conns
  BY DEF IInv, TypeParts, EndType
<1>3. UpType' /\ EndType'
  BY <1>1, <1>2 DEF IInv, TypeParts, UpType, EndType
<1>4. DownType'
  BY <1>1, <1>2, EmptyType DEF IInv, TypeParts, DownType
<1>5. RegisterFirst'
  <2>1. \A s \in Conns : end'[s] = "connecting" => end[s] = "connecting"
    BY <1>1 DEF IInv, TypeParts, EndType
  <2> QED
    BY <1>s, <1>1, <2>1 DEF IInv, RegisterFirst, serverVars
<1>6. attempt' \in [Pages -> 0..GiveUpAfter]
  <2>1. attempt[p] < GiveUpAfter => attempt[p] + 1 \in 0..GiveUpAfter
    BY DEF IInv, TypeParts, PageType
  <2>2. \/ attempt' = attempt
        \/ attempt[p] < GiveUpAfter /\ attempt' = [attempt EXCEPT ![p] = @ + 1]
    BY DEF Closes, HandleDisconnect, IInv, TypeParts, PageType
  <2> QED
    BY <2>1, <2>2 DEF IInv, TypeParts, PageType
<1>7. PageType'
  BY <1>6 DEF Closes, HandleDisconnect, IInv, TypeParts, PageType
<1> QED
  BY <1>f, <1>3, <1>4, <1>5, <1>7 DEF IInv, TypeParts

LEMMA CutKeeps == ASSUME IInv, NEW c \in Conns, Cut(c) PROVE IInv'
<1>s. UNCHANGED serverVars
  BY DEF Cut
<1>f. ServerType' /\ RegistryMatchesSockets' /\ HandlerState' /\ SweepKnowsPeers'
  BY <1>s, PageFrame
<1>1. /\ cut' = cut \cup {c} /\ UNCHANGED <<end, pageVars, signals>> /\ Fault
      /\ up' = [up EXCEPT ![c] = <<>>] /\ down' = [down EXCEPT ![c] = <<>>]
  BY DEF Cut
<1>2. UpType' /\ DownType'
  BY <1>1, EmptyType DEF IInv, TypeParts, UpType, DownType
<1>3. EndType' /\ PageType'
  BY <1>1, FaultType DEF IInv, TypeParts, EndType, PageType, pageVars
<1>4. RegisterFirst'
  <2>1. up'[c] = <<>> /\ \A s \in Conns : s # c => up'[s] = up[s]
    BY <1>1 DEF IInv, TypeParts, UpType
  <2> QED
    BY <1>s, <1>1, <2>1, EmptyType DEF IInv, RegisterFirst, serverVars
<1> QED
  BY <1>f, <1>2, <1>3, <1>4 DEF IInv, TypeParts

-----------------------------------------------------------------------------
(* The theorems. *)

LEMMA InitIInv == Init => IInv
<1> SUFFICES ASSUME Init PROVE IInv
  OBVIOUS
<1> USE DEF Init, CoordinatorInit
<1>1. ServerType /\ EndType /\ PageType
  BY DEF ServerType, EndType, PageType
<1>2. UpType /\ DownType
  BY EmptyType DEF UpType, DownType
<1>3. RegistryMatchesSockets /\ HandlerState /\ SweepKnowsPeers
  BY DEF RegistryMatchesSockets, HandlerState, SweepKnowsPeers
<1>4. RegisterFirst
  BY EmptyType DEF RegisterFirst
<1> QED
  BY <1>1, <1>2, <1>3, <1>4 DEF IInv, TypeParts

LEMMA StutterIInv == ASSUME IInv, UNCHANGED vars PROVE IInv'
<1>1. ServerType' /\ RegistryMatchesSockets' /\ HandlerState' /\ SweepKnowsPeers'
  BY PageFrame DEF vars
<1>2. UpType' /\ DownType' /\ EndType' /\ PageType'
  BY DEF vars, wireVars, pageVars, budgets, IInv, TypeParts, UpType, DownType, EndType, PageType
<1>3. RegisterFirst'
  BY DEF vars, wireVars, serverVars, IInv, RegisterFirst
<1> QED
  BY <1>1, <1>2, <1>3 DEF IInv, TypeParts

LEMMA StepIInv == IInv /\ [Step]_vars => IInv'
<1> SUFFICES ASSUME IInv, [Step]_vars PROVE IInv'
  OBVIOUS
<1>1. ASSUME NEW c \in Conns, Server(Accept(c)) PROVE IInv'
  BY <1>1, AcceptKeeps DEF Server
<1>2. ASSUME NEW c \in Conns, Server(HandleMessage(c)) PROVE IInv'
  <2>1. UNCHANGED <<pageVars, budgets>>
    BY <1>2 DEF Server
  <2>2. HandleMessage(c)
    BY <1>2 DEF Server
  <2> QED
    BY <2>1, <2>2, HandleRejectedRegisterKeeps, HandleRegisterKeeps, HandleHeartbeatKeeps,
       HandleSignalKeeps, HandleUnregisterKeeps DEF HandleMessage
<1>3. ASSUME NEW c \in Conns, Server(SocketCloses(c)) PROVE IInv'
  BY <1>3, SocketClosesKeeps DEF Server
<1>4. ASSUME NEW d \in Devices, Server(Evict(d)) PROVE IInv'
  BY <1>4, EvictKeeps DEF Server
<1>5. ASSUME NEW p \in Pages, OnClose(p) PROVE IInv'
  <2>1. faults' \in 0..MaxFaults
    BY <1>5, FaultType DEF OnClose
  <2> QED
    BY <1>5, <2>1, ClosesKeeps DEF OnClose
<1>6. ASSUME NEW p \in Pages, ConnectFails(p) PROVE IInv'
  <2>1. faults' \in 0..MaxFaults
    BY <1>6, FaultType DEF ConnectFails
  <2> QED
    BY <1>6, <2>1, ClosesKeeps DEF ConnectFails
<1>7. ASSUME NEW p \in Pages, PageStep(p) PROVE IInv'
  BY <1>5, <1>6, <1>7, ReloadKeeps, LeaveKeeps, ReconnectKeeps, OnOpenKeeps, HeartbeatKeeps,
     SendSignalKeeps, ReceivePeerListKeeps, ReceivePeerLeftKeeps, ReceiveOtherKeeps DEF PageStep
<1>8. ASSUME NEW c \in Conns, ConnStep(c) PROVE IInv'
  BY <1>1, <1>2, <1>3, <1>8, CutKeeps DEF ConnStep
<1> QED
  BY <1>4, <1>7, <1>8, SweepKeeps, RestartKeeps, StutterIInv DEF Step

LEMMA Invariant == Spec => []IInv
<1>1. [Next]_<<vars, scene>> => [Step]_vars
  BY DEF Next
<1> QED
  BY <1>1, InitIInv, StepIInv, PTL DEF Spec

LEMMA SceneStays == Spec => [](scene \in Scenes)
<1>1. Init => scene \in Scenes
  BY DEF Init
<1>2. scene \in Scenes /\ [Next]_<<vars, scene>> => (scene \in Scenes)'
  BY DEF Next
<1> QED
  BY <1>1, <1>2, PTL DEF Spec

\* The state of the server, the network and the pages is of the types the
\* code gives it: coordinator/src/server.ts, web/src/lib/coordinatorClient.ts.
THEOREM CoordinatorTypeCorrect == Spec => []TypeOK
<1>1. IInv /\ scene \in Scenes => TypeOK
  BY TypeSplit DEF IInv
<1> QED
  BY <1>1, Invariant, SceneStays, PTL

\* The registry and the sockets map of server.ts agree in every state, for
\* any number of devices, pages and connections and any faults.
THEOREM MapsAgree == Spec => []RegistryMatchesSockets
<1>1. IInv => RegistryMatchesSockets
  BY DEF IInv
<1> QED
  BY <1>1, Invariant, PTL
-----------------------------------------------------------------------------
(* What the pages learn: the last news on its way to a page is current, no *)
(* page is left connected but unseen, and signals arrive.  The inductive   *)
(* invariant says of each page, and of the server and the network:         *)

\* The page's socket is not closed.
Alive(p) == ws[p] # None => end[ws[p]] # "closed"

\* A page says goodbye only on a connection it gives up, and registers as itself.
Said(p) ==
    ws[p] # None => \A i \in DOMAIN up[ws[p]] :
        /\ up[ws[p]][i].type # "unregister"
        /\ up[ws[p]][i].type = "register" =>
             up[ws[p]][i].deviceId = DeviceOf[p] /\ up[ws[p]][i].newer = (p \in scene.newer)

\* The last news in q is the list now.
Tells(q, now) == \E i \in News(q) : q[i] = PeerList(now) /\ \A j \in News(q) : j <= i

Knows(p) ==
    Registered(p) /\ ws[p] \notin cut =>
        \/ News(down[ws[p]]) = {} /\ peers[p] = PeersExcept(registry, ws[p])
        \/ Tells(down[ws[p]], PeersExcept(registry, ws[p]))

Seen(p) ==
    p \notin scene.newer /\ IsOpen(p) /\ ws[p] \notin cut =>
        Registered(p) \/ Registering(ws[p]) \/ BeingClosed(ws[p])

PagesInv == \A p \in Pages : Alive(p) /\ Said(p) /\ Knows(p) /\ Seen(p)

\* No two pages have the same socket.
OwnSockets == \A p, q \in Pages : p # q /\ ws[p] # None => ws[p] # ws[q]

\* The server's end is open as long as a register is on its way to it.
RegisterHeard ==
    \A c \in Conns : \A i \in DOMAIN up[c] : up[c][i].type = "register" => srv[c] = "open"

NewsInv == PagesInv /\ OwnSockets /\ RegisterHeard

-----------------------------------------------------------------------------
(* Queues. *)

\* r begins with q.
Keeps(q, r) == \A i \in DOMAIN q : i \in DOMAIN r /\ r[i] = q[i]

LEMMA PutIs ==
    ASSUME NEW q \in Seq(ServerMessage), NEW m \in ServerMessage, NEW r, r = Append(q, m)
    PROVE  /\ r \in Seq(ServerMessage) /\ Keeps(q, r)
           /\ DOMAIN r = DOMAIN q \cup {Len(q) + 1} /\ r[Len(q) + 1] = m
           /\ \A i \in DOMAIN q : i <= Len(q)
  BY DEF Keeps

\* A list that is put last is what q tells.
LEMMA ListTells ==
    ASSUME NEW q \in Seq(ServerMessage), NEW now \in SUBSET Devices, NEW r, r = Append(q, PeerList(now))
    PROVE  Tells(r, now)
<1>1. PeerList(now) \in ServerMessage /\ PeerList(now).type = "peer-list"
  BY MessageTypes DEF PeerList
<1>2. /\ DOMAIN r = DOMAIN q \cup {Len(q) + 1} /\ r[Len(q) + 1] = PeerList(now)
      /\ \A i \in DOMAIN q : i <= Len(q)
  BY <1>1, PutIs
<1>3. Len(q) + 1 \in News(r)
  BY <1>1, <1>2 DEF News
<1>4. \A j \in News(r) : j <= Len(q) + 1
  BY <1>2 DEF News
<1> QED BY <1>2, <1>3, <1>4 DEF Tells

\* Nothing but what is no news is added.
SameNews(q, r) ==
    Keeps(q, r) /\ \A i \in DOMAIN r : r[i].type \in {"peer-list", "peer-left"} => i \in DOMAIN q

LEMMA SameNewsTells ==
    ASSUME NEW q, NEW r, SameNews(q, r), NEW now
    PROVE  News(r) = News(q) /\ (Tells(q, now) => Tells(r, now))
<1>1. News(r) = News(q)
  BY DEF News, SameNews, Keeps
<1>2. \A i \in News(q) : r[i] = q[i]
  BY DEF News, SameNews, Keeps
<1> QED BY <1>1, <1>2 DEF Tells

\* What is taken from the front leaves the last news the last, or was it.
LEMMA TakenNews ==
    ASSUME NEW q \in Seq(ServerMessage), q # <<>>, NEW r, r = Tail(q), NEW now, Tells(q, now)
    PROVE  \/ Tells(r, now)
           \/ News(r) = {} /\ Head(q) = PeerList(now)
<1>1. PICK k \in News(q) : q[k] = PeerList(now) /\ \A j \in News(q) : j <= k
  BY DEF Tells
<1>2. /\ k \in DOMAIN q /\ k \in Nat \ {0} /\ Head(q) = q[1] /\ Len(r) = Len(q) - 1 /\ r \in Seq(ServerMessage)
      /\ \A i \in DOMAIN r : i + 1 \in DOMAIN q /\ r[i] = q[i + 1] /\ i \in Nat \ {0}
  BY <1>1 DEF News
<1>3. \A j \in News(r) : j + 1 \in News(q) /\ j + 1 <= k /\ j \in Nat \ {0}
  BY <1>1, <1>2 DEF News
<1>4. CASE k = 1
  BY <1>1, <1>2, <1>3, <1>4
<1>5. CASE k > 1
  <2>1. k - 1 \in DOMAIN r /\ r[k - 1] = q[k]
    BY <1>2, <1>5
  <2>2. k - 1 \in News(r)
    BY <1>1, <2>1 DEF News
  <2> QED BY <1>1, <1>2, <1>3, <2>1, <2>2 DEF Tells
<1> QED BY <1>2, <1>4, <1>5

LEMMA TakenQuiet ==
    ASSUME NEW q \in Seq(ServerMessage), q # <<>>, NEW r, r = Tail(q), News(q) = {}
    PROVE  News(r) = {} /\ Head(q).type \notin {"peer-list", "peer-left"}
<1>1. /\ 1 \in DOMAIN q /\ Head(q) = q[1]
      /\ \A i \in DOMAIN r : i + 1 \in DOMAIN q /\ r[i] = q[i + 1]
  OBVIOUS
<1> QED BY <1>1 DEF News

-----------------------------------------------------------------------------
(* What the server sends. *)

LEMMA ListIs == ASSUME NEW reg, NEW c PROVE PeersExcept(reg, c) \in SUBSET Devices
  BY DEF PeersExcept

LEMMA BroadcastIs ==
    ASSUME DownType, NEW reg, NEW socks, NEW left \in SUBSET Devices, NEW closing,
           Broadcast(reg, socks, left, closing), NEW c \in Conns
    PROVE  /\ Keeps(down[c], down'[c])
           /\ \A i \in DOMAIN down'[c] : down'[c][i].type = "peer-list" =>
                 i \in DOMAIN down[c] \/ down'[c][i].peers = PeersExcept(reg, c)
           /\ Reaches(c) /\ c \notin closing /\ Listed(reg, socks, c) =>
                 Tells(down'[c], PeersExcept(reg, c))
           /\ Reaches(c) /\ c \in closing => BeingClosed(c)'
<1> DEFINE q == down[c]
           now == PeersExcept(reg, c)
           al == AfterLeft(left, socks, c)
<1>1. q \in Seq(ServerMessage) /\ now \in SUBSET Devices /\ Keeps(q, q)
  BY ListIs DEF DownType, Keeps
<1>2. PeerList(now) \in ServerMessage /\ PeerList(now).peers = now
  BY <1>1, MessageTypes DEF PeerList
<1>3. down'[c] = IF ~Reaches(c) THEN q
                 ELSE IF c \in closing THEN Append(q, Notice("close"))
                 ELSE AfterList(reg, socks, left, c)
  BY DEF Broadcast
<1>4. CASE ~Reaches(c)
  BY <1>1, <1>3, <1>4 DEF Keeps
<1>5. CASE Reaches(c) /\ c \in closing
  <2>1. PICK m \in ServerMessage : m = Notice("close") /\ m.type = "close"
    BY MessageTypes DEF Notice
  <2>2. PICK r : r = Append(q, m)
    OBVIOUS
  <2>3. /\ Keeps(q, r) /\ DOMAIN r = DOMAIN q \cup {Len(q) + 1} /\ r[Len(q) + 1] = m
    BY <1>1, <2>2, PutIs
  <2>4. down'[c] = r
    BY <1>3, <1>5, <2>1, <2>2
  <2>5. BeingClosed(c)'
    BY <2>1, <2>3, <2>4 DEF BeingClosed
  <2> QED BY <1>5, <2>1, <2>3, <2>4, <2>5
<1>6. CASE Reaches(c) /\ c \notin closing
  <2>1. /\ al \in Seq(ServerMessage) /\ Keeps(q, al)
        /\ \A i \in DOMAIN al : al[i].type = "peer-list" => i \in DOMAIN q
    <3>1. CASE left # {} /\ c \in socks
      <4>1. PICK d \in Devices : d = CHOOSE e \in left : TRUE
        BY <3>1
      <4>2. PeerLeft(d) \in ServerMessage /\ PeerLeft(d).type = "peer-left" /\ al = Append(q, PeerLeft(d))
        BY <3>1, <4>1, MessageTypes DEF AfterLeft, PeerLeft
      <4>3. /\ al \in Seq(ServerMessage) /\ Keeps(q, al)
            /\ DOMAIN al = DOMAIN q \cup {Len(q) + 1} /\ al[Len(q) + 1] = PeerLeft(d)
        BY <1>1, <4>2, PutIs
      <4> QED BY <4>2, <4>3
    <3>2. CASE ~(left # {} /\ c \in socks)
      BY <1>1, <3>2 DEF AfterLeft
    <3> QED BY <3>1, <3>2
  <2>2. CASE Listed(reg, socks, c)
    <3>1. PICK r : r = Append(al, PeerList(now))
      OBVIOUS
    <3>2. down'[c] = r
      BY <1>3, <1>6, <2>2, <3>1 DEF AfterList
    <3>3. Tells(r, now)
      BY <1>1, <2>1, <3>1, ListTells
    <3>4. /\ Keeps(al, r) /\ DOMAIN r = DOMAIN al \cup {Len(al) + 1}
          /\ r[Len(al) + 1] = PeerList(now)
      BY <1>2, <2>1, <3>1, PutIs
    <3>5. Keeps(q, r)
      BY <2>1, <3>4 DEF Keeps
    <3>6. \A i \in DOMAIN r : r[i].type = "peer-list" => i \in DOMAIN q \/ r[i].peers = now
      BY <1>2, <2>1, <3>4 DEF Keeps
    <3> QED BY <1>6, <3>2, <3>3, <3>5, <3>6
  <2>3. CASE ~Listed(reg, socks, c)
    <3>1. down'[c] = al
      BY <1>3, <1>6, <2>3 DEF AfterList
    <3> QED BY <1>6, <2>1, <2>3, <3>1
  <2> QED BY <2>2, <2>3
<1> QED BY <1>4, <1>5, <1>6

LEMMA SendIs ==
    ASSUME DownType, NEW to \in Conns, NEW m \in ServerMessage,
           m.type \notin {"peer-list", "peer-left"}, Send(to, m), NEW c \in Conns
    PROVE  SameNews(down[c], down'[c])
<1>1. down[c] \in Seq(ServerMessage)
  BY DEF DownType
<1>2. down'[c] = down[c] \/ down'[c] = Append(down[c], m)
  BY DEF Send, DownType
<1>3. CASE down'[c] = down[c]
  BY <1>3 DEF SameNews, Keeps
<1>4. CASE down'[c] = Append(down[c], m)
  <2>1. /\ Keeps(down[c], down'[c]) /\ DOMAIN down'[c] = DOMAIN down[c] \cup {Len(down[c]) + 1}
        /\ down'[c][Len(down[c]) + 1] = m
    BY <1>1, <1>4, PutIs
  <2> QED BY <2>1 DEF SameNews
<1> QED BY <1>2, <1>3, <1>4

-----------------------------------------------------------------------------
(* What a step of the server does to what is said of pages and devices.    *)

ServerEffect ==
    /\ UNCHANGED <<end, cut, ws, peers, scene>>
    /\ \A s \in Conns : \A i \in DOMAIN up'[s] : \E k \in DOMAIN up[s] : up'[s][i] = up[s][k]
    /\ \A s \in Conns : srv'[s] = "closed" => srv[s] = "closed" \/ up'[s] = <<>>
    /\ \A d \in Devices : registry'[d] # None =>
          \/ registry'[d] = registry[d]
          \/ \E s \in Conns : \E k \in DOMAIN up[s] :
                up[s][k].type = "register" /\ up[s][k].deviceId = d /\ ~up[s][k].newer
    /\ \A s \in Conns : \A i \in DOMAIN down'[s] : down'[s][i].type = "peer-list" =>
          \/ i \in DOMAIN down[s] /\ down'[s][i] = down[s][i]
          \/ down'[s][i].peers = PeersExcept(registry', s)
    /\ \A s \in Conns : \A d \in Devices :
          end[s] # "closed" /\ s \notin cut /\ registry'[d] = s =>
              \/ Tells(down'[s], PeersExcept(registry', s))
              \/ UNCHANGED registry /\ SameNews(down[s], down'[s])
    /\ \A s \in Conns : end[s] = "open" /\ s \notin cut =>
          /\ BeingClosed(s) => BeingClosed(s)'
          /\ \A i \in DOMAIN up[s] : up[s][i].type = "register" =>
                \/ Registering(s)' \/ BeingClosed(s)'
                \/ up[s][i].newer \/ registry'[up[s][i].deviceId] = s
          /\ \A d \in Devices : registry[d] = s =>
                \/ registry'[d] = s \/ BeingClosed(s)'
                \/ \E i \in DOMAIN up[s] : up[s][i].type = "unregister"

LEMMA SocketOf ==
    ASSUME IInv, NEW p \in Pages
    PROVE  /\ DeviceOf[p] \in Devices
           /\ ws[p] # None => ws[p] \in Conns
           /\ down \in [Conns -> Seq(ServerMessage)]
  BY DEF IInv, TypeParts, EndType, DownType

LEMMA ServerPages ==
    ASSUME IInv, IInv', NewsInv, ServerEffect, NEW p \in Pages
    PROVE  Alive(p)' /\ Said(p)' /\ Knows(p)' /\ Seen(p)'
<1>1. ws' = ws /\ peers' = peers /\ end' = end /\ cut' = cut /\ scene' = scene
  BY DEF ServerEffect
<1>2. Alive(p) /\ Said(p) /\ Knows(p) /\ Seen(p)
  BY DEF NewsInv, PagesInv
<1>3. DeviceOf[p] \in Devices /\ (ws[p] # None => ws[p] \in Conns)
  BY SocketOf
<1>4. Alive(p)'
  BY <1>1, <1>2 DEF Alive
<1>5. Said(p)'
  BY SMTT(30), <1>1, <1>2, <1>3 DEF Said, ServerEffect
<1>6. Knows(p)'
  <2> SUFFICES ASSUME ws[p] # None, registry'[DeviceOf[p]] = ws[p], ws[p] \notin cut
               PROVE  \/ News(down'[ws[p]]) = {} /\ peers[p] = PeersExcept(registry', ws[p])
                      \/ Tells(down'[ws[p]], PeersExcept(registry', ws[p]))
    BY <1>1 DEF Knows, Registered
  <2>1. \/ Tells(down'[ws[p]], PeersExcept(registry', ws[p]))
        \/ UNCHANGED registry /\ SameNews(down[ws[p]], down'[ws[p]])
    BY <1>2, <1>3 DEF ServerEffect, Alive
  <2>2. CASE UNCHANGED registry /\ SameNews(down[ws[p]], down'[ws[p]])
    <3>1. PICK now : now = PeersExcept(registry, ws[p])
      OBVIOUS
    <3>2. now = PeersExcept(registry', ws[p])
      BY <2>2, <3>1
    <3>3. (News(down[ws[p]]) = {} /\ peers[p] = now) \/ Tells(down[ws[p]], now)
      BY <1>2, <2>2, <3>1 DEF Knows, Registered
    <3> QED BY <2>2, <3>2, <3>3, SameNewsTells
  <2> QED BY <2>1, <2>2
<1>7. Seen(p)'
  <2> SUFFICES ASSUME p \notin scene.newer, ws[p] # None, end[ws[p]] = "open", ws[p] \notin cut
               PROVE  registry'[DeviceOf[p]] = ws[p] \/ Registering(ws[p])' \/ BeingClosed(ws[p])'
    BY <1>1 DEF Seen, IsOpen, Registered, Registering, BeingClosed
  <2>1. /\ BeingClosed(ws[p]) => BeingClosed(ws[p])'
        /\ \A i \in DOMAIN up[ws[p]] : up[ws[p]][i].type = "register" =>
              \/ Registering(ws[p])' \/ BeingClosed(ws[p])'
              \/ up[ws[p]][i].newer \/ registry'[up[ws[p]][i].deviceId] = ws[p]
        /\ registry[DeviceOf[p]] = ws[p] =>
              \/ registry'[DeviceOf[p]] = ws[p] \/ BeingClosed(ws[p])'
              \/ \E i \in DOMAIN up[ws[p]] : up[ws[p]][i].type = "unregister"
    BY <1>1, <1>3 DEF ServerEffect, BeingClosed, Registering
  <2>2. CASE BeingClosed(ws[p])
    BY <2>1, <2>2
  <2>3. CASE registry[DeviceOf[p]] = ws[p]
    BY <1>2, <2>1, <2>3 DEF Said
  <2>4. CASE Registering(ws[p])
    <3>1. PICK i \in DOMAIN up[ws[p]] : up[ws[p]][i].type = "register"
      BY <2>4 DEF Registering
    <3>2. up[ws[p]][i].deviceId = DeviceOf[p] /\ ~up[ws[p]][i].newer
      BY <1>2, <3>1 DEF Said
    <3> QED BY <2>1, <3>1, <3>2
  <2>5. BeingClosed(ws[p]) \/ registry[DeviceOf[p]] = ws[p] \/ Registering(ws[p])
    BY <1>2 DEF Seen, IsOpen, Registered
  <2> QED BY <2>2, <2>3, <2>4, <2>5
<1> QED BY <1>4, <1>5, <1>6, <1>7

LEMMA ServerKeepsNews ==
    ASSUME IInv, IInv', NewsInv, ServerEffect
    PROVE  NewsInv'
<1>1. PagesInv'
  BY ServerPages DEF PagesInv
<1>2. OwnSockets'
  BY DEF NewsInv, OwnSockets, ServerEffect
<1>3. RegisterHeard'
  <2> SUFFICES ASSUME NEW c \in Conns, NEW i \in DOMAIN up'[c], up'[c][i].type = "register"
               PROVE  srv'[c] = "open"
    BY DEF RegisterHeard
  <2>1. PICK k \in DOMAIN up[c] : up'[c][i] = up[c][k]
    BY DEF ServerEffect
  <2>2. srv[c] = "open"
    BY <2>1 DEF NewsInv, RegisterHeard
  <2>3. srv'[c] # "closed"
    <3>1. up'[c] # <<>>
      OBVIOUS
    <3> QED BY <2>2, <3>1 DEF ServerEffect
  <2>4. deviceId'[c] = None /\ (srv'[c] = "closing" => deviceId'[c] # None)
    BY DEF IInv, RegisterFirst, HandlerState
  <2>5. srv'[c] \in {"open", "closing", "closed"}
    BY DEF IInv, TypeParts, ServerType
  <2> QED BY <2>3, <2>4, <2>5
<1> QED BY <1>1, <1>2, <1>3 DEF NewsInv

-----------------------------------------------------------------------------
(* Each step of the server. *)

LEMMA KeptClose == ASSUME NEW c, Keeps(down[c], down'[c]), BeingClosed(c) PROVE BeingClosed(c)'
  BY DEF BeingClosed, Keeps

\* What is left on the way to the server when a message is taken.
LEMMA Taken ==
    ASSUME IInv, NEW c \in Conns, NEW type, Hears(c, type)
    PROVE  /\ \A s \in Conns : \A i \in DOMAIN up'[s] : \E k \in DOMAIN up[s] : up'[s][i] = up[s][k]
           /\ \A s \in Conns \ {c} : up'[s] = up[s]
           /\ \A i \in DOMAIN up[c] : up[c][i].type = "register" => up[c][i] = Head(up[c])
           /\ 1 \in DOMAIN up[c] /\ Head(up[c]) = up[c][1] /\ Head(up[c]).type = type
           /\ UNCHANGED <<end, cut>>
<1>1. up[c] \in Seq(ClientMessage) /\ up[c] # <<>>
  BY DEF Hears, IInv, TypeParts, UpType
<1>2. up'[c] = Tail(up[c]) /\ \A s \in Conns \ {c} : up'[s] = up[s]
  BY DEF Hears, IInv, TypeParts, UpType
<1>3. /\ 1 \in DOMAIN up[c] /\ Head(up[c]) = up[c][1]
      /\ \A i \in DOMAIN Tail(up[c]) : i + 1 \in DOMAIN up[c] /\ Tail(up[c])[i] = up[c][i + 1]
  BY <1>1, TakeType
<1>4. \A i \in DOMAIN up[c] : up[c][i].type = "register" => i = 1
  BY DEF IInv, RegisterFirst
<1>5. ASSUME NEW s \in Conns, NEW i \in DOMAIN up'[s] PROVE \E k \in DOMAIN up[s] : up'[s][i] = up[s][k]
  <2>1. CASE s = c
    BY <1>2, <1>3, <2>1
  <2>2. CASE s # c
    BY <1>2, <2>2
  <2> QED BY <2>1, <2>2
<1> QED BY <1>2, <1>3, <1>4, <1>5 DEF Hears

\* A handler that changes nobody's registration and sends no news.
LEMMA QuietEffect ==
    ASSUME IInv, NEW c \in Conns, NEW type, Hears(c, type), UNCHANGED <<registry, srv, ws, peers, scene>>,
           \A s \in Conns : SameNews(down[s], down'[s]),
           type = "register" => Head(up[c]).newer
    PROVE  ServerEffect
<1>1. \A s \in Conns : \A i \in DOMAIN up'[s] : \E k \in DOMAIN up[s] : up'[s][i] = up[s][k]
  BY Taken
<1>2. \A s \in Conns : \A i \in DOMAIN down'[s] : down'[s][i].type = "peer-list" =>
         i \in DOMAIN down[s] /\ down'[s][i] = down[s][i]
  BY DEF SameNews, Keeps
<1>3. ASSUME NEW s \in Conns, NEW i \in DOMAIN up[s], up[s][i].type = "register"
      PROVE  Registering(s)' \/ up[s][i].newer
  <2>1. CASE s = c
    BY <1>3, <2>1, Taken
  <2>2. CASE s # c
    BY <1>3, <2>2, Taken DEF Registering
  <2> QED BY <2>1, <2>2
<1>4. \A s \in Conns : BeingClosed(s) => BeingClosed(s)'
  BY KeptClose DEF SameNews
<1>5. UNCHANGED <<end, cut>>
  BY Taken
<1> QED BY <1>1, <1>2, <1>3, <1>4, <1>5 DEF ServerEffect

LEMMA HandleRejectedRegisterTells ==
    ASSUME IInv, NEW c \in Conns, HandleRejectedRegister(c), UNCHANGED <<pageVars, scene>>
    PROVE  ServerEffect
<1>1. PICK m \in ServerMessage : m = Notice("register-rejected") /\ m.type = "register-rejected"
  BY MessageTypes DEF Notice
<1>2. Hears(c, "register") /\ Send(c, m) /\ UNCHANGED <<registry, srv, ws, peers, scene>>
  BY <1>1 DEF HandleRejectedRegister, pageVars
<1>3. \A s \in Conns : SameNews(down[s], down'[s])
  BY <1>1, <1>2, SendIs DEF IInv, TypeParts
<1>4. Head(up[c]).newer
  BY DEF HandleRejectedRegister, Supported
<1> QED BY <1>2, <1>3, <1>4, QuietEffect

LEMMA HandleHeartbeatTells ==
    ASSUME IInv, NEW c \in Conns, HandleHeartbeat(c), UNCHANGED <<pageVars, scene>>
    PROVE  ServerEffect
<1>1. PICK m \in ServerMessage : m = Notice("heartbeat-ack") /\ m.type = "heartbeat-ack"
  BY MessageTypes DEF Notice
<1>2. Hears(c, "heartbeat") /\ Send(c, m) /\ UNCHANGED <<registry, srv, ws, peers, scene>>
  BY <1>1 DEF HandleHeartbeat, pageVars
<1>3. \A s \in Conns : SameNews(down[s], down'[s])
  BY <1>1, <1>2, SendIs DEF IInv, TypeParts
<1> QED BY <1>2, <1>3, QuietEffect

LEMMA HandleSignalTells ==
    ASSUME IInv, NEW c \in Conns, HandleSignal(c), UNCHANGED <<pageVars, scene>>
    PROVE  ServerEffect
<1> DEFINE target == registry[Head(up[c]).to]
<1>1. Hears(c, "signal") /\ UNCHANGED <<registry, srv, ws, peers, scene>>
  BY DEF HandleSignal, pageVars
<1>2. Head(up[c]) \in ClientMessage
  BY <1>1, HearsKeeps
<1>3. \A s \in Conns : SameNews(down[s], down'[s])
  <2>1. CASE deviceId[c] # None /\ target # None /\ target \in sockets
    <3>1. target \in Conns /\ deviceId[c] \in Devices
      BY <2>1 DEF IInv, TypeParts, ServerType
    <3>2. PICK m \in ServerMessage : m = Signal(deviceId[c]) /\ m.type = "signal"
      BY <3>1, MessageTypes DEF Signal
    <3>3. Send(target, m)
      BY <2>1, <3>2 DEF HandleSignal
    <3> QED BY <3>1, <3>2, <3>3, SendIs DEF IInv, TypeParts
  <2>2. CASE ~(deviceId[c] # None /\ target # None /\ target \in sockets)
    BY <2>2 DEF HandleSignal, SameNews, Keeps
  <2> QED BY <2>1, <2>2
<1> QED BY <1>1, <1>3, QuietEffect

\* What removing a registration tells everyone.
LEMMA CleanupTells ==
    ASSUME IInv, NEW c \in Conns, NEW closing, closing \subseteq {c}, Cleanup(c, closing)
    PROVE  /\ \A s \in Conns : Keeps(down[s], down'[s])
           /\ \A s \in Conns : \A i \in DOMAIN down'[s] : down'[s][i].type = "peer-list" =>
                 i \in DOMAIN down[s] \/ down'[s][i].peers = PeersExcept(registry', s)
           /\ \A s \in Conns : \A d \in Devices : end[s] # "closed" /\ s \notin cut /\ registry'[d] = s =>
                 \/ Tells(down'[s], PeersExcept(registry', s))
                 \/ UNCHANGED registry /\ SameNews(down[s], down'[s])
           /\ \A d \in Devices : registry'[d] # None => registry'[d] = registry[d]
           /\ \A d \in Devices : registry[d] \notin {None, c} => registry'[d] = registry[d]
           /\ RegisteredBy(c) # {} /\ Reaches(c) /\ c \in closing => BeingClosed(c)'
<1>1. /\ registry' = [d \in Devices |-> IF registry[d] = c THEN None ELSE registry[d]]
      /\ sockets' = sockets \ {c}
  BY CleanupRemoves DEF IInv, TypeParts
<1>2. /\ \A d \in Devices : registry'[d] # None => registry'[d] = registry[d]
      /\ \A d \in Devices : registry[d] \notin {None, c} => registry'[d] = registry[d]
  BY <1>1
<1>3. CASE RegisteredBy(c) = {}
  <2>1. UNCHANGED <<registry, down>>
    BY <1>3 DEF Cleanup
  <2> QED BY <1>2, <1>3, <2>1 DEF SameNews, Keeps
<1>4. CASE RegisteredBy(c) # {}
  <2>1. PICK e \in Devices : Broadcast(registry', sockets', {e}, closing)
    BY <1>4 DEF Cleanup, RegisteredBy
  <2>2. ASSUME NEW s \in Conns
        PROVE  /\ Keeps(down[s], down'[s])
               /\ \A i \in DOMAIN down'[s] : down'[s][i].type = "peer-list" =>
                     i \in DOMAIN down[s] \/ down'[s][i].peers = PeersExcept(registry', s)
               /\ Reaches(s) /\ s \notin closing /\ Listed(registry', sockets', s) =>
                     Tells(down'[s], PeersExcept(registry', s))
               /\ Reaches(s) /\ s \in closing => BeingClosed(s)'
    <3>1. {e} \in SUBSET Devices /\ DownType
      BY DEF IInv, TypeParts
    <3> QED BY <2>1, <3>1, BroadcastIs
  <2>3. ASSUME NEW s \in Conns, NEW d \in Devices, end[s] # "closed", s \notin cut, registry'[d] = s
        PROVE  Tells(down'[s], PeersExcept(registry', s))
    <3>1. registry[d] = s /\ s # c /\ s # None
      BY <1>1, <2>3
    <3>2. s \in sockets /\ srv[s] = "open"
      BY <3>1 DEF IInv, RegistryMatchesSockets
    <3>3. Reaches(s) /\ s \notin closing /\ Listed(registry', sockets', s)
      BY <1>1, <2>3, <3>1, <3>2 DEF Reaches, Listed
    <3> QED BY <2>2, <3>3
  <2> QED BY <1>2, <2>2, <2>3
<1> QED BY <1>3, <1>4

LEMMA HandleUnregisterTells ==
    ASSUME IInv, NEW c \in Conns, HandleUnregister(c), UNCHANGED <<pageVars, scene>>
    PROVE  ServerEffect
<1>1. /\ Hears(c, "unregister") /\ Cleanup(c, {})
      /\ UNCHANGED <<srv, ws, peers, scene>>
  BY DEF HandleUnregister, pageVars
<1>2. {} \subseteq {c}
  OBVIOUS
<1>3. ASSUME NEW s \in Conns, NEW i \in DOMAIN up[s], up[s][i].type = "register"
      PROVE  Registering(s)'
  <2>1. CASE s = c
    BY <1>1, <1>3, <2>1, Taken
  <2>2. CASE s # c
    BY <1>1, <1>3, <2>2, Taken DEF Registering
  <2> QED BY <2>1, <2>2
<1>4. ASSUME NEW s \in Conns, NEW d \in Devices, registry[d] = s
      PROVE  registry'[d] = s \/ \E i \in DOMAIN up[s] : up[s][i].type = "unregister"
  <2>1. CASE s = c
    BY <1>1, <2>1, Taken
  <2>2. CASE s # c
    BY <1>1, <1>2, <1>4, <2>2, CleanupTells
  <2> QED BY <2>1, <2>2
<1>5. \A s \in Conns : BeingClosed(s) => BeingClosed(s)'
  BY <1>1, <1>2, CleanupTells, KeptClose
<1>6. \A s \in Conns : \A i \in DOMAIN up'[s] : \E k \in DOMAIN up[s] : up'[s][i] = up[s][k]
  BY <1>1, Taken
<1>7. \A s \in Conns : \A i \in DOMAIN down'[s] : down'[s][i].type = "peer-list" =>
          \/ i \in DOMAIN down[s] /\ down'[s][i] = down[s][i]
          \/ down'[s][i].peers = PeersExcept(registry', s)
  BY <1>1, <1>2, CleanupTells DEF Keeps
<1>8. /\ \A s \in Conns : \A d \in Devices : end[s] # "closed" /\ s \notin cut /\ registry'[d] = s =>
            \/ Tells(down'[s], PeersExcept(registry', s))
            \/ UNCHANGED registry /\ SameNews(down[s], down'[s])
      /\ \A d \in Devices : registry'[d] # None => registry'[d] = registry[d]
  BY <1>1, <1>2, CleanupTells
<1>9. UNCHANGED <<end, cut>>
  BY <1>1, Taken
<1> QED BY <1>1, <1>3, <1>4, <1>5, <1>6, <1>7, <1>8, <1>9 DEF ServerEffect

LEMMA SocketClosesTells ==
    ASSUME IInv, NEW c \in Conns, SocketCloses(c), UNCHANGED <<pageVars, scene>>
    PROVE  ServerEffect
<1>1. /\ Cleanup(c, {}) /\ up[c] = <<>> /\ (end[c] = "closed" \/ c \in cut)
      /\ srv' = [srv EXCEPT ![c] = "closed"]
      /\ UNCHANGED <<up, end, cut, ws, peers, scene>>
  BY DEF SocketCloses, pageVars
<1>2. {} \subseteq {c}
  OBVIOUS
<1>3. \A s \in Conns : srv'[s] = "closed" => srv[s] = "closed" \/ up'[s] = <<>>
  BY <1>1 DEF IInv, TypeParts, ServerType
<1>4. \A s \in Conns : Registering(s) => Registering(s)'
  BY <1>1 DEF Registering
<1>5. \A s \in Conns : BeingClosed(s) => BeingClosed(s)'
  BY <1>1, <1>2, CleanupTells, KeptClose
<1>6. ASSUME NEW s \in Conns, end[s] = "open", s \notin cut, NEW d \in Devices, registry[d] = s
      PROVE  registry'[d] = s
  <2>1. s # c
    BY <1>1, <1>6
  <2> QED BY <1>1, <1>2, <1>6, <2>1, CleanupTells
<1>7. \A s \in Conns : \A i \in DOMAIN down'[s] : down'[s][i].type = "peer-list" =>
          \/ i \in DOMAIN down[s] /\ down'[s][i] = down[s][i]
          \/ down'[s][i].peers = PeersExcept(registry', s)
  BY <1>1, <1>2, CleanupTells DEF Keeps
<1>8. /\ \A s \in Conns : \A d \in Devices : end[s] # "closed" /\ s \notin cut /\ registry'[d] = s =>
            \/ Tells(down'[s], PeersExcept(registry', s))
            \/ UNCHANGED registry /\ SameNews(down[s], down'[s])
      /\ \A d \in Devices : registry'[d] # None => registry'[d] = registry[d]
  BY <1>1, <1>2, CleanupTells
<1>9. \A s \in Conns : \A i \in DOMAIN up[s] : up[s][i].type = "register" => Registering(s)'
  BY <1>1 DEF Registering
<1> QED BY <1>1, <1>3, <1>5, <1>6, <1>7, <1>8, <1>9 DEF ServerEffect

LEMMA EvictTells ==
    ASSUME IInv, NEW d \in Devices, Evict(d), UNCHANGED <<pageVars, scene>>
    PROVE  ServerEffect
<1>1. PICK c : c = registry[d]
  OBVIOUS
<1>2. /\ d \in sweeping /\ Cleanup(c, {c} \cap sockets)
      /\ srv' = [srv EXCEPT ![c] = IF @ = "open" /\ c \in sockets THEN "closing" ELSE @]
      /\ UNCHANGED <<up, end, cut, ws, peers, scene>>
  BY <1>1 DEF Evict, pageVars
<1>3. c \in Conns /\ c \in sockets /\ srv[c] = "open" /\ {c} \cap sockets \subseteq {c}
  BY <1>1, <1>2 DEF IInv, SweepKnowsPeers, RegistryMatchesSockets, TypeParts, ServerType
<1>4. \A s \in Conns : srv'[s] = "closed" => srv[s] = "closed"
  BY <1>2, <1>3 DEF IInv, TypeParts, ServerType
<1>5. \A s \in Conns : BeingClosed(s) => BeingClosed(s)'
  BY <1>2, <1>3, CleanupTells, KeptClose
<1>6. ASSUME NEW s \in Conns, end[s] = "open", s \notin cut, NEW e \in Devices, registry[e] = s
      PROVE  registry'[e] = s \/ BeingClosed(s)'
  <2>1. CASE s = c
    <3>1. RegisteredBy(c) # {} /\ Reaches(c) /\ c \in {c} \cap sockets
      BY <1>1, <1>3, <1>6, <2>1 DEF RegisteredBy, Reaches
    <3> QED BY <1>2, <1>3, <2>1, <3>1, CleanupTells
  <2>2. CASE s # c
    <3>1. registry[e] \notin {None, c}
      BY <1>6, <2>2
    <3> QED BY <1>2, <1>3, <1>6, <3>1, CleanupTells
  <2> QED BY <2>1, <2>2
<1>7. \A s \in Conns : \A i \in DOMAIN down'[s] : down'[s][i].type = "peer-list" =>
          \/ i \in DOMAIN down[s] /\ down'[s][i] = down[s][i]
          \/ down'[s][i].peers = PeersExcept(registry', s)
  BY <1>2, <1>3, CleanupTells DEF Keeps
<1>8. /\ \A s \in Conns : \A e \in Devices : end[s] # "closed" /\ s \notin cut /\ registry'[e] = s =>
            \/ Tells(down'[s], PeersExcept(registry', s))
            \/ UNCHANGED registry /\ SameNews(down[s], down'[s])
      /\ \A e \in Devices : registry'[e] # None => registry'[e] = registry[e]
  BY <1>2, <1>3, CleanupTells
<1>9. \A s \in Conns : \A i \in DOMAIN up[s] : up[s][i].type = "register" => Registering(s)'
  BY <1>2 DEF Registering
<1> QED BY <1>2, <1>4, <1>5, <1>6, <1>7, <1>8, <1>9 DEF ServerEffect

LEMMA HandleRegisterTells ==
    ASSUME IInv, IInv', NEW c \in Conns, HandleRegister(c), UNCHANGED <<pageVars, scene>>
    PROVE  ServerEffect
<1>1. PICK d, old, stale :
         d = Head(up[c]).deviceId /\ old = Existing(d, c) /\ stale = old \cap sockets
  OBVIOUS
<1>2. /\ Hears(c, "register") /\ ~Head(up[c]).newer
      /\ sockets' = (sockets \ old) \cup {c}
      /\ srv' = [s \in Conns |-> IF s \in stale /\ srv[s] = "open" THEN "closing" ELSE srv[s]]
      /\ registry' = [registry EXCEPT ![d] = c]
      /\ Broadcast(registry', sockets', {}, stale)
      /\ UNCHANGED <<ws, peers, scene>>
  BY <1>1 DEF HandleRegister, SocketsWith, Supported, pageVars
<1>3. d \in Devices /\ deviceId[c] = None
  BY <1>1, <1>2, HearsKeeps, RegisterFields
<1>4. /\ registry'[d] = c /\ \A e \in Devices \ {d} : registry'[e] = registry[e]
  BY <1>2, <1>3 DEF IInv, TypeParts, ServerType
<1>5. \A e \in Devices : registry[e] # c
  BY <1>3 DEF IInv, RegistryMatchesSockets
<1>6. ASSUME NEW s \in Conns
      PROVE  /\ Keeps(down[s], down'[s])
             /\ \A i \in DOMAIN down'[s] : down'[s][i].type = "peer-list" =>
                   i \in DOMAIN down[s] \/ down'[s][i].peers = PeersExcept(registry', s)
             /\ Reaches(s) /\ s \notin stale /\ Listed(registry', sockets', s) =>
                   Tells(down'[s], PeersExcept(registry', s))
             /\ Reaches(s) /\ s \in stale => BeingClosed(s)'
  <2>1. {} \in SUBSET Devices /\ DownType
    BY DEF IInv, TypeParts
  <2> QED BY <1>2, <2>1, BroadcastIs
<1>7. /\ \A s \in Conns : \A i \in DOMAIN up'[s] : \E k \in DOMAIN up[s] : up'[s][i] = up[s][k]
      /\ \A s \in Conns \ {c} : up'[s] = up[s]
      /\ \A i \in DOMAIN up[c] : up[c][i].type = "register" => up[c][i] = Head(up[c])
      /\ 1 \in DOMAIN up[c] /\ Head(up[c]) = up[c][1] /\ Head(up[c]).type = "register"
      /\ UNCHANGED <<end, cut>>
  BY <1>2, Taken
<1>8. ASSUME NEW s \in Conns, NEW e \in Devices, end[s] # "closed", s \notin cut, registry'[e] = s
      PROVE  Tells(down'[s], PeersExcept(registry', s))
  <2>1. s # None /\ s \in sockets' /\ srv'[s] = "open"
    BY <1>8 DEF IInv, RegistryMatchesSockets
  <2>2. srv[s] = "open" /\ s \notin stale
    BY <1>2, <2>1
  <2>3. Reaches(s) /\ Listed(registry', sockets', s)
    BY <1>8, <2>1, <2>2 DEF Reaches, Listed
  <2> QED BY <1>6, <2>2, <2>3
<1>9. ASSUME NEW s \in Conns, end[s] = "open", s \notin cut, NEW e \in Devices, registry[e] = s
      PROVE  registry'[e] = s \/ BeingClosed(s)'
  <2>1. CASE e = d
    <3>1. s # None /\ s # c /\ s \in sockets /\ srv[s] = "open"
      BY <1>5, <1>9 DEF IInv, RegistryMatchesSockets
    <3>2. s \in stale
      BY <1>1, <1>9, <2>1, <3>1 DEF Existing
    <3> QED BY <1>6, <1>9, <3>1, <3>2 DEF Reaches
  <2>2. CASE e # d
    BY <1>4, <1>9, <2>2
  <2> QED BY <2>1, <2>2
<1>10. ASSUME NEW s \in Conns, NEW i \in DOMAIN up[s], up[s][i].type = "register"
       PROVE  Registering(s)' \/ registry'[up[s][i].deviceId] = s
  <2>1. CASE s = c
    BY <1>1, <1>4, <1>7, <1>10, <2>1
  <2>2. CASE s # c
    BY <1>7, <1>10, <2>2 DEF Registering
  <2> QED BY <2>1, <2>2
<1>11. \A s \in Conns : BeingClosed(s) => BeingClosed(s)'
  BY <1>6, KeptClose
<1>12. \A e \in Devices : registry'[e] # None =>
          \/ registry'[e] = registry[e]
          \/ \E s \in Conns : \E k \in DOMAIN up[s] :
                up[s][k].type = "register" /\ up[s][k].deviceId = e /\ ~up[s][k].newer
  BY <1>1, <1>2, <1>4, <1>7
<1>13. \A s \in Conns : \A i \in DOMAIN down'[s] : down'[s][i].type = "peer-list" =>
          \/ i \in DOMAIN down[s] /\ down'[s][i] = down[s][i]
          \/ down'[s][i].peers = PeersExcept(registry', s)
  BY <1>6 DEF Keeps
<1>14. \A s \in Conns : srv'[s] = "closed" => srv[s] = "closed"
  BY <1>2
<1> QED BY <1>2, <1>7, <1>8, <1>9, <1>10, <1>11, <1>12, <1>13, <1>14 DEF ServerEffect

LEMMA AcceptTells ==
    ASSUME IInv, NEW c \in Conns, Accept(c), UNCHANGED <<pageVars, scene>>
    PROVE  ServerEffect
<1>1. srv' = [srv EXCEPT ![c] = "open"] /\ UNCHANGED <<registry, up, down, end, cut, ws, peers, scene>>
  BY DEF Accept, wireVars, pageVars
<1>2. \A s \in Conns : srv'[s] = "closed" => srv[s] = "closed"
  BY <1>1 DEF IInv, TypeParts, ServerType
<1>3. \A s \in Conns : SameNews(down[s], down'[s])
  BY <1>1 DEF SameNews, Keeps
<1>4. \A s \in Conns : BeingClosed(s) => BeingClosed(s)'
  BY <1>1 DEF BeingClosed
<1>5. \A s \in Conns : \A i \in DOMAIN up[s] : up[s][i].type = "register" => Registering(s)'
  BY <1>1 DEF Registering
<1> QED BY <1>1, <1>2, <1>3, <1>4, <1>5 DEF ServerEffect

LEMMA SweepTells ==
    ASSUME IInv, SweepStale, UNCHANGED scene
    PROVE  ServerEffect
<1>1. UNCHANGED <<registry, srv, up, down, end, cut, ws, peers, scene>>
  BY DEF SweepStale, Sweep, wireVars, pageVars
<1>2. \A s \in Conns : SameNews(down[s], down'[s])
  BY <1>1 DEF SameNews, Keeps
<1>3. \A s \in Conns : BeingClosed(s) => BeingClosed(s)'
  BY <1>1 DEF BeingClosed
<1>4. \A s \in Conns : \A i \in DOMAIN up[s] : up[s][i].type = "register" => Registering(s)'
  BY <1>1 DEF Registering
<1> QED BY <1>1, <1>2, <1>3, <1>4 DEF ServerEffect

LEMMA RestartTells ==
    ASSUME IInv, NewsInv, Restarts, UNCHANGED scene
    PROVE  ServerEffect
<1>1. /\ registry' = [d \in Devices |-> None]
      /\ srv' = [s \in Conns |-> "closed"]
      /\ up' = [s \in Conns |-> <<>>]
      /\ down' = [s \in Conns |-> IF Reaches(s) THEN Append(down[s], Notice("close")) ELSE down[s]]
      /\ UNCHANGED <<end, cut, ws, peers, scene>>
  BY DEF Restarts, Restart, pageVars
<1>2. \A s \in Conns : up'[s] = <<>> /\ DOMAIN up'[s] = {}
  BY <1>1
<1>3. ASSUME NEW s \in Conns
      PROVE  /\ Keeps(down[s], down'[s])
             /\ \A i \in DOMAIN down'[s] : down'[s][i].type = "peer-list" => i \in DOMAIN down[s]
             /\ Reaches(s) => BeingClosed(s)'
  <2>1. PICK m \in ServerMessage : m = Notice("close") /\ m.type = "close"
    BY MessageTypes DEF Notice
  <2>2. down[s] \in Seq(ServerMessage)
    BY DEF IInv, TypeParts, DownType
  <2>3. PICK r : r = Append(down[s], m)
    OBVIOUS
  <2>4. Keeps(down[s], r) /\ DOMAIN r = DOMAIN down[s] \cup {Len(down[s]) + 1} /\ r[Len(down[s]) + 1] = m
    BY <2>2, <2>3, PutIs
  <2>5. down'[s] = IF Reaches(s) THEN r ELSE down[s]
    BY <1>1, <2>1, <2>3
  <2>6. CASE Reaches(s)
    BY <2>1, <2>4, <2>5, <2>6 DEF BeingClosed
  <2>7. CASE ~Reaches(s)
    BY <2>5, <2>7 DEF Keeps
  <2> QED BY <2>6, <2>7
<1>4. \A s \in Conns : BeingClosed(s) => BeingClosed(s)'
  BY <1>3, KeptClose
<1>5. ASSUME NEW s \in Conns, end[s] = "open", s \notin cut, NEW i \in DOMAIN up[s],
             up[s][i].type = "register"
      PROVE  BeingClosed(s)'
  <2>1. srv[s] = "open"
    BY <1>5 DEF NewsInv, RegisterHeard
  <2> QED BY <1>3, <1>5, <2>1 DEF Reaches
<1>6. ASSUME NEW s \in Conns, end[s] = "open", s \notin cut, NEW d \in Devices, registry[d] = s
      PROVE  BeingClosed(s)'
  <2>1. srv[s] = "open"
    BY <1>6 DEF IInv, RegistryMatchesSockets
  <2> QED BY <1>3, <1>6, <2>1 DEF Reaches
<1>7. \A d \in Devices : registry'[d] = None
  BY <1>1
<1>8. \A s \in Conns : \A i \in DOMAIN down'[s] : down'[s][i].type = "peer-list" =>
          i \in DOMAIN down[s] /\ down'[s][i] = down[s][i]
  BY <1>3 DEF Keeps
<1>9. UNCHANGED <<end, cut, ws, peers, scene>>
  BY <1>1
<1> QED BY <1>2, <1>4, <1>5, <1>6, <1>7, <1>8, <1>9 DEF ServerEffect

-----------------------------------------------------------------------------
(* What a step of a page does to what is said of pages and devices.        *)

\* Nothing of page q or of its connection changes.
SameFor(q) ==
    /\ ws'[q] = ws[q] /\ peers'[q] = peers[q]
    /\ ws[q] # None =>
         /\ up'[ws[q]] = up[ws[q]] /\ down'[ws[q]] = down[ws[q]] /\ end'[ws[q]] = end[ws[q]]
         /\ ws[q] \in cut' <=> ws[q] \in cut

LEMMA SamePage ==
    ASSUME NEW q \in Pages, SameFor(q), UNCHANGED <<registry, scene>>,
           Alive(q), Said(q), Knows(q), Seen(q)
    PROVE  Alive(q)' /\ Said(q)' /\ Knows(q)' /\ Seen(q)'
<1>1. CASE ws[q] = None
  BY <1>1 DEF SameFor, Alive, Said, Knows, Seen, Registered, IsOpen
<1>2. CASE ws[q] # None
  <2>1. /\ ws'[q] = ws[q] /\ peers'[q] = peers[q]
        /\ up'[ws[q]] = up[ws[q]] /\ down'[ws[q]] = down[ws[q]] /\ end'[ws[q]] = end[ws[q]]
        /\ ws[q] \in cut' <=> ws[q] \in cut
    BY <1>2 DEF SameFor
  <2>2. Alive(q)' /\ Said(q)'
    BY <2>1 DEF Alive, Said
  <2>3. Knows(q)'
    BY <2>1 DEF Knows, Registered
  <2>4. Seen(q)'
    BY <2>1 DEF Seen, Registered, IsOpen, Registering, BeingClosed
  <2> QED BY <2>2, <2>3, <2>4
<1> QED BY <1>1, <1>2

PageEffect(p) ==
    /\ UNCHANGED <<registry, srv, scene>>
    /\ \A q \in Pages \ {p} : SameFor(q)
    /\ ws'[p] \in {None, ws[p]} \/ (\A q \in Pages : ws[q] # ws'[p])
    /\ \A s \in Conns : \A i \in DOMAIN up'[s] : up'[s][i].type = "register" =>
          \/ \E k \in DOMAIN up[s] : up'[s][i] = up[s][k]
          \/ /\ srv[s] = "open" /\ up'[s][i].deviceId = DeviceOf[p]
             /\ p \in scene.newer => up'[s][i].newer
    /\ \A s \in Conns : \A i \in DOMAIN down'[s] : \E k \in DOMAIN down[s] : down'[s][i] = down[s][k]
    /\ \/ peers'[p] \subseteq peers[p]
       \/ \E s \in Conns : \E k \in DOMAIN down[s] :
             down[s][k].type = "peer-list" /\ peers'[p] = down[s][k].peers

LEMMA PageKeepsNews ==
    ASSUME NewsInv, NEW p \in Pages, PageEffect(p), Alive(p)', Said(p)', Knows(p)', Seen(p)'
    PROVE  NewsInv'
<1>1. PagesInv'
  <2> SUFFICES ASSUME NEW q \in Pages PROVE Alive(q)' /\ Said(q)' /\ Knows(q)' /\ Seen(q)'
    BY DEF PagesInv
  <2>1. CASE q = p
    BY <2>1
  <2>2. CASE q # p
    <3>1. SameFor(q) /\ UNCHANGED <<registry, scene>>
      BY <2>2 DEF PageEffect
    <3>2. Alive(q) /\ Said(q) /\ Knows(q) /\ Seen(q)
      BY DEF NewsInv, PagesInv
    <3> QED BY <3>1, <3>2, SamePage
  <2> QED BY <2>1, <2>2
<1>2. OwnSockets'
  <2> SUFFICES ASSUME NEW q \in Pages, NEW r \in Pages, q # r, ws'[q] # None PROVE ws'[q] # ws'[r]
    BY DEF OwnSockets
  <2>1. \A s \in Pages : s = p \/ ws'[s] = ws[s]
    BY DEF PageEffect, SameFor
  <2>2. ws[q] # None => ws[q] # ws[r]
    BY DEF NewsInv, OwnSockets
  <2>3. ws[r] # None => ws[q] # ws[r]
    BY DEF NewsInv, OwnSockets
  <2>4. ws'[p] \in {None, ws[p]} \/ \A u \in Pages : ws[u] # ws'[p]
    BY DEF PageEffect
  <2> QED BY <2>1, <2>2, <2>3, <2>4
<1>3. RegisterHeard'
  BY DEF NewsInv, RegisterHeard, PageEffect
<1> QED BY <1>1, <1>2, <1>3 DEF NewsInv

\* A page that touches only its own connection and unused ones.
LEMMA OthersSame ==
    ASSUME IInv, NewsInv, NEW p \in Pages,
           \A q \in Pages \ {p} : ws'[q] = ws[q] /\ peers'[q] = peers[q],
           \A s \in Conns : s # ws[p] /\ IsCurrent(s) =>
              /\ up'[s] = up[s] /\ down'[s] = down[s] /\ end'[s] = end[s]
              /\ s \in cut' <=> s \in cut
    PROVE  \A q \in Pages \ {p} : SameFor(q)
<1> SUFFICES ASSUME NEW q \in Pages \ {p} PROVE SameFor(q)
  OBVIOUS
<1>1. ws[q] # None => ws[q] \in Conns /\ ws[q] # ws[p] /\ IsCurrent(ws[q])
  BY SocketOf DEF NewsInv, OwnSockets, IsCurrent
<1> QED BY <1>1 DEF SameFor

\* A page without a socket.
LEMMA Alone ==
    ASSUME NEW p \in Pages, ws'[p] = None
    PROVE  Alive(p)' /\ Said(p)' /\ Knows(p)' /\ Seen(p)'
  BY DEF Alive, Said, Knows, Seen, Registered, IsOpen

-----------------------------------------------------------------------------
(* Each step of a page. *)

\* What is in the queues once a page has sent m.
LEMMA PostedIs ==
    ASSUME IInv, NEW c \in Conns, NEW m \in ClientMessage, NEW said, said = Posted(c, m)
    PROVE  /\ \A s \in Conns \ {c} : said[s] = up[s]
           /\ \A i \in DOMAIN up[c] : i \in DOMAIN said[c] /\ said[c][i] = up[c][i]
           /\ \A i \in DOMAIN said[c] : (i \in DOMAIN up[c] /\ said[c][i] = up[c][i]) \/ said[c][i] = m
           /\ c \notin cut => \E i \in DOMAIN said[c] : said[c][i] = m
<1>1. up[c] \in Seq(ClientMessage)
  BY DEF IInv, TypeParts, UpType
<1>2. PICK r : r = Append(up[c], m)
  OBVIOUS
<1>3. /\ DOMAIN r = DOMAIN up[c] \cup {Len(up[c]) + 1} /\ r[Len(up[c]) + 1] = m
      /\ \A i \in DOMAIN up[c] : r[i] = up[c][i]
  BY <1>1, <1>2
<1>4. CASE c \in cut
  BY <1>4 DEF Posted
<1>5. CASE c \notin cut
  <2>1. said[c] = r /\ \A s \in Conns \ {c} : said[s] = up[s]
    BY <1>2, <1>5 DEF Posted, IInv, TypeParts, UpType
  <2> QED BY <1>3, <2>1
<1> QED BY <1>4, <1>5

LEMMA GoodbyeIs ==
    ASSUME IInv, NEW p \in Pages, NEW said \in Goodbye(p)
    PROVE  /\ \A s \in Conns : s # ws[p] => said[s] = up[s]
           /\ \A s \in Conns : \A i \in DOMAIN said[s] : said[s][i].type = "register" =>
                 i \in DOMAIN up[s] /\ said[s][i] = up[s][i]
<1>1. CASE said = up
  BY <1>1
<1>2. CASE IsOpen(p) /\ said = Posted(ws[p], [type |-> "unregister"])
  <2>1. PICK m \in ClientMessage : m = [type |-> "unregister"] /\ m.type = "unregister"
    BY MessageTypes
  <2>2. ws[p] \in Conns /\ said = Posted(ws[p], m)
    BY <1>2, <2>1, SocketOf DEF IsOpen
  <2>3. /\ \A s \in Conns \ {ws[p]} : said[s] = up[s]
        /\ \A i \in DOMAIN said[ws[p]] :
              (i \in DOMAIN up[ws[p]] /\ said[ws[p]][i] = up[ws[p]][i]) \/ said[ws[p]][i] = m
    BY <2>2, PostedIs
  <2> QED BY <2>1, <2>2, <2>3
<1> QED BY <1>1, <1>2 DEF Goodbye

LEMMA OpenOnNews ==
    ASSUME IInv, NewsInv, NEW p \in Pages, NEW c \in Fresh, NEW old \in {None, ws[p]}, NEW said,
           OpenOn(p, c, old, said), UNCHANGED <<serverVars, scene>>,
           \A s \in Conns : s # ws[p] => said[s] = up[s],
           \A s \in Conns : \A i \in DOMAIN said[s] : said[s][i].type = "register" =>
              i \in DOMAIN up[s] /\ said[s][i] = up[s][i],
           said \in [Conns -> Seq(ClientMessage)],
           peers' \in {peers, [peers EXCEPT ![p] = {}]}
    PROVE  NewsInv'
<1>1. c \in Conns /\ srv[c] = "closed" /\ ~IsCurrent(c)
  BY DEF Fresh, Unused
<1>2. /\ ws'[p] = c /\ \A q \in Pages \ {p} : ws'[q] = ws[q]
      /\ up'[c] = <<>> /\ down'[c] = <<>> /\ end'[c] = "connecting"
      /\ \A s \in Conns \ {c} : up'[s] = said[s]
      /\ \A s \in Conns \ {c} : down'[s] = down[s] \/ down'[s] = <<>>
      /\ \A s \in Conns : s # c /\ s # ws[p] => down'[s] = down[s] /\ end'[s] = end[s]
      /\ \A s \in Conns : s # c => (s \in cut' <=> s \in cut)
  BY <1>1 DEF OpenOn, IInv, TypeParts, EndType
<1>3. c # None
  BY <1>1
<1>4. UNCHANGED <<registry, srv, scene>> /\ registry[DeviceOf[p]] # c
  BY <1>1, <1>3, SocketOf DEF serverVars, IInv, RegistryMatchesSockets
<1>5. /\ peers'[p] \subseteq peers[p] /\ \A q \in Pages \ {p} : peers'[q] = peers[q]
  BY DEF IInv, TypeParts, PageType
<1>6. \A q \in Pages \ {p} : SameFor(q)
  BY <1>1, <1>2, <1>5, OthersSame
<1>7. DOMAIN <<>> = {}
  OBVIOUS
<1>8. PageEffect(p)
  <2>1. \A s \in Conns : \A i \in DOMAIN up'[s] : up'[s][i].type = "register" =>
           \E k \in DOMAIN up[s] : up'[s][i] = up[s][k]
    BY <1>2, <1>7
  <2>2. \A s \in Conns : \A i \in DOMAIN down'[s] : \E k \in DOMAIN down[s] : down'[s][i] = down[s][k]
    BY <1>2, <1>7
  <2> QED BY <1>1, <1>2, <1>4, <1>5, <1>6, <2>1, <2>2 DEF PageEffect, IsCurrent
<1>9. Alive(p)' /\ Said(p)' /\ Knows(p)' /\ Seen(p)'
  BY <1>2, <1>4, <1>7 DEF Alive, Said, Knows, Seen, Registered, IsOpen
<1> QED BY <1>8, <1>9, PageKeepsNews

LEMMA ReloadNews ==
    ASSUME IInv, NewsInv, NEW p \in Pages, Reload(p), UNCHANGED scene PROVE NewsInv'
<1>1. PICK c \in Fresh, said \in Goodbye(p) : OpenOn(p, c, ws[p], said)
  BY DEF Reload
<1>2. /\ \A s \in Conns : s # ws[p] => said[s] = up[s]
      /\ \A s \in Conns : \A i \in DOMAIN said[s] : said[s][i].type = "register" =>
            i \in DOMAIN up[s] /\ said[s][i] = up[s][i]
  BY GoodbyeIs
<1>3. said \in [Conns -> Seq(ClientMessage)]
  BY GoodbyeKeeps
<1>4. peers' \in {peers, [peers EXCEPT ![p] = {}]} /\ UNCHANGED <<serverVars, scene>>
  BY DEF Reload
<1> QED BY <1>1, <1>2, <1>3, <1>4, OpenOnNews

LEMMA ReconnectNews ==
    ASSUME IInv, NewsInv, NEW p \in Pages, Reconnect(p), UNCHANGED scene PROVE NewsInv'
<1>1. PICK c \in Fresh : OpenOn(p, c, None, up)
  BY DEF Reconnect
<1>2. up \in [Conns -> Seq(ClientMessage)]
  BY DEF IInv, TypeParts, UpType
<1>3. peers' \in {peers, [peers EXCEPT ![p] = {}]} /\ UNCHANGED <<serverVars, scene>>
  BY DEF Reconnect
<1> QED BY <1>1, <1>2, <1>3, OpenOnNews

\* A page that loses or gives up its connection.
LEMMA DropNews ==
    ASSUME IInv, NewsInv, NEW p \in Pages, UNCHANGED <<serverVars, cut, scene>>,
           ws' = [ws EXCEPT ![p] = None], peers' = [peers EXCEPT ![p] = {}],
           \A s \in Conns : s # ws[p] => up'[s] = up[s] /\ down'[s] = down[s] /\ end'[s] = end[s],
           \A s \in Conns : down'[s] = down[s] \/ down'[s] = <<>>,
           \A s \in Conns : \A i \in DOMAIN up'[s] : up'[s][i].type = "register" =>
              i \in DOMAIN up[s] /\ up'[s][i] = up[s][i]
    PROVE  NewsInv'
<1>1. /\ ws'[p] = None /\ peers'[p] = {}
      /\ \A q \in Pages \ {p} : ws'[q] = ws[q] /\ peers'[q] = peers[q]
  BY DEF IInv, TypeParts, EndType, PageType
<1>2. \A q \in Pages \ {p} : SameFor(q)
  BY <1>1, OthersSame
<1>3. UNCHANGED <<registry, srv, scene>>
  BY DEF serverVars
<1>4. \A s \in Conns : \A i \in DOMAIN down'[s] : \E k \in DOMAIN down[s] : down'[s][i] = down[s][k]
  <2>1. DOMAIN <<>> = {}
    OBVIOUS
  <2> QED BY <2>1
<1>5. PageEffect(p)
  BY <1>1, <1>2, <1>3, <1>4 DEF PageEffect
<1> QED BY <1>1, <1>5, Alone, PageKeepsNews

LEMMA LeaveNews ==
    ASSUME IInv, NewsInv, NEW p \in Pages, Leave(p), UNCHANGED scene PROVE NewsInv'
<1>1. PICK said \in Goodbye(p) : up' = said
  BY DEF Leave
<1>2. /\ ws' = [ws EXCEPT ![p] = None] /\ peers' = [peers EXCEPT ![p] = {}]
      /\ UNCHANGED <<serverVars, cut, scene>>
      /\ end' = [c \in Conns |-> IF c = ws[p] THEN "closed" ELSE end[c]]
      /\ down' = [c \in Conns |-> IF c = ws[p] THEN <<>> ELSE down[c]]
  BY DEF Leave
<1>3. \A s \in Conns : s # ws[p] => up'[s] = up[s] /\ down'[s] = down[s] /\ end'[s] = end[s]
  BY <1>1, <1>2, GoodbyeIs
<1>4. \A s \in Conns : down'[s] = down[s] \/ down'[s] = <<>>
  BY <1>2
<1>5. \A s \in Conns : \A i \in DOMAIN up'[s] : up'[s][i].type = "register" =>
         i \in DOMAIN up[s] /\ up'[s][i] = up[s][i]
  BY <1>1, GoodbyeIs
<1> QED BY <1>2, <1>3, <1>4, <1>5, DropNews

LEMMA ClosesNews ==
    ASSUME IInv, NewsInv, NEW p \in Pages, ws[p] # None, Closes(p), UNCHANGED scene PROVE NewsInv'
<1>1. /\ ws' = [ws EXCEPT ![p] = None] /\ peers' = [peers EXCEPT ![p] = {}]
      /\ UNCHANGED <<serverVars, up, cut, scene>>
      /\ end' = [end EXCEPT ![ws[p]] = "closed"]
      /\ down' = [down EXCEPT ![ws[p]] = <<>>]
  BY DEF Closes, HandleDisconnect
<1>2. \A s \in Conns : s # ws[p] => up'[s] = up[s] /\ down'[s] = down[s] /\ end'[s] = end[s]
  BY <1>1 DEF IInv, TypeParts, EndType, DownType
<1>3. \A s \in Conns : down'[s] = down[s] \/ down'[s] = <<>>
  BY <1>1 DEF IInv, TypeParts, DownType
<1> QED BY <1>1, <1>2, <1>3, DropNews

\* A page that sends m.
LEMMA PostNews ==
    ASSUME IInv, NewsInv, NEW p \in Pages, ws[p] # None, NEW m \in ClientMessage,
           up' = Posted(ws[p], m), UNCHANGED <<serverVars, down, cut, ws, peers, scene>>,
           \A s \in Conns : s # ws[p] => end'[s] = end[s],
           end'[ws[p]] # "closed", m.type # "unregister",
           m.type = "register" => /\ srv[ws[p]] = "open" /\ m.deviceId = DeviceOf[p]
                                  /\ m.newer = (p \in scene.newer),
           \/ end'[ws[p]] = end[ws[p]]
           \/ m.type = "register" /\ ws[p] \notin cut
    PROVE  NewsInv'
<1> DEFINE c == ws[p]
<1>1. c \in Conns /\ UNCHANGED <<registry, srv, scene>>
  BY SocketOf DEF serverVars
<1>2. /\ \A s \in Conns \ {c} : up'[s] = up[s]
      /\ \A i \in DOMAIN up[c] : i \in DOMAIN up'[c] /\ up'[c][i] = up[c][i]
      /\ \A i \in DOMAIN up'[c] : (i \in DOMAIN up[c] /\ up'[c][i] = up[c][i]) \/ up'[c][i] = m
      /\ c \notin cut => \E i \in DOMAIN up'[c] : up'[c][i] = m
  BY <1>1, PostedIs
<1>3. \A q \in Pages \ {p} : SameFor(q)
  BY <1>1, <1>2, OthersSame
<1>4. Alive(p) /\ Said(p) /\ Knows(p) /\ Seen(p)
  BY DEF NewsInv, PagesInv
<1>5. PageEffect(p)
  <2>1. ASSUME NEW s \in Conns, NEW i \in DOMAIN up'[s], up'[s][i].type = "register"
        PROVE  \/ \E k \in DOMAIN up[s] : up'[s][i] = up[s][k]
               \/ /\ srv[s] = "open" /\ up'[s][i].deviceId = DeviceOf[p]
                  /\ p \in scene.newer => up'[s][i].newer
    <3>1. CASE s = c
      BY <1>2, <2>1, <3>1
    <3>2. CASE s # c
      BY <1>2, <3>2
    <3> QED BY <3>1, <3>2
  <2> QED BY <1>1, <1>3, <2>1 DEF PageEffect
<1>6. Alive(p)' /\ Knows(p)'
  BY <1>1, <1>4 DEF Alive, Knows, Registered
<1>7. Said(p)'
  <2> SUFFICES ASSUME NEW i \in DOMAIN up'[c]
               PROVE  /\ up'[c][i].type # "unregister"
                      /\ up'[c][i].type = "register" =>
                           up'[c][i].deviceId = DeviceOf[p] /\ up'[c][i].newer = (p \in scene.newer)
    BY DEF Said
  <2>1. CASE i \in DOMAIN up[c] /\ up'[c][i] = up[c][i]
    BY <1>4, <2>1 DEF Said
  <2>2. CASE up'[c][i] = m
    BY <2>2
  <2> QED BY <1>2, <2>1, <2>2
<1>8. Seen(p)'
  <2> SUFFICES ASSUME p \notin scene.newer, end'[c] = "open", c \notin cut
               PROVE  registry[DeviceOf[p]] = c \/ Registering(c)' \/ BeingClosed(c)'
    BY <1>1 DEF Seen, IsOpen, Registered, Registering, BeingClosed
  <2>1. CASE end'[c] = end[c]
    <3>1. registry[DeviceOf[p]] = c \/ Registering(c) \/ BeingClosed(c)
      BY <1>4, <2>1 DEF Seen, IsOpen, Registered
    <3>2. Registering(c) => Registering(c)'
      BY <1>2 DEF Registering
    <3>3. BeingClosed(c) => BeingClosed(c)'
      BY DEF BeingClosed
    <3> QED BY <3>1, <3>2, <3>3
  <2>2. CASE m.type = "register"
    BY <1>2, <2>2 DEF Registering
  <2> QED BY <2>1, <2>2
<1> QED BY <1>5, <1>6, <1>7, <1>8, PageKeepsNews

LEMMA OnOpenNews ==
    ASSUME IInv, NewsInv, NEW p \in Pages, OnOpen(p), UNCHANGED scene PROVE NewsInv'
<1> DEFINE reg == [type |-> "register", deviceId |-> DeviceOf[p], newer |-> p \in scene.newer]
<1>1. DeviceOf[p] \in Devices /\ (p \in scene.newer) \in BOOLEAN
  BY SocketOf
<1>2. reg \in ClientMessage
  BY <1>1, MessageTypes
<1>3. PICK m \in ClientMessage : m = reg
  BY <1>2
<1>4. m.type = "register" /\ m.deviceId = DeviceOf[p] /\ m.newer = (p \in scene.newer)
  BY <1>3
<1>5. /\ ws[p] # None /\ ws[p] \notin cut /\ srv[ws[p]] = "open"
      /\ end' = [end EXCEPT ![ws[p]] = "open"]
      /\ up' = Posted(ws[p], m)
      /\ UNCHANGED <<serverVars, down, cut, ws, peers, scene>>
  BY <1>3 DEF OnOpen
<1>6. end'[ws[p]] = "open" /\ \A s \in Conns : s # ws[p] => end'[s] = end[s]
  BY <1>5, SocketOf DEF IInv, TypeParts, EndType
<1> QED BY <1>4, <1>5, <1>6, PostNews

LEMMA HeartbeatNews ==
    ASSUME IInv, NewsInv, NEW p \in Pages, Heartbeat(p), UNCHANGED scene PROVE NewsInv'
<1>1. DeviceOf[p] \in Devices
  BY SocketOf
<1>2. PICK m \in ClientMessage : m = [type |-> "heartbeat", deviceId |-> DeviceOf[p]] /\ m.type = "heartbeat"
  BY <1>1, MessageTypes
<1>3. /\ ws[p] # None /\ end[ws[p]] = "open" /\ up' = Posted(ws[p], m)
      /\ UNCHANGED <<serverVars, down, end, cut, ws, peers, scene>>
  BY <1>2 DEF Heartbeat, IsOpen, pageVars
<1>4. /\ \A s \in Conns : s # ws[p] => end'[s] = end[s]
      /\ end'[ws[p]] # "closed" /\ end'[ws[p]] = end[ws[p]]
  BY <1>3
<1> QED BY <1>2, <1>3, <1>4, PostNews

LEMMA SendSignalNews ==
    ASSUME IInv, NewsInv, NEW p \in Pages, NEW d \in Devices, SendSignal(p, d), UNCHANGED scene
    PROVE  NewsInv'
<1>1. PICK m \in ClientMessage : m = [type |-> "signal", to |-> d] /\ m.type = "signal"
  BY MessageTypes
<1>2. /\ ws[p] # None /\ end[ws[p]] = "open" /\ up' = Posted(ws[p], m)
      /\ UNCHANGED <<serverVars, down, end, cut, ws, peers, scene>>
  BY <1>1 DEF SendSignal, IsOpen, pageVars
<1>3. /\ \A s \in Conns : s # ws[p] => end'[s] = end[s]
      /\ end'[ws[p]] # "closed" /\ end'[ws[p]] = end[ws[p]]
  BY <1>2
<1> QED BY <1>1, <1>2, <1>3, PostNews

\* A page that takes message m from its connection.
LEMMA ReceiveNews ==
    ASSUME IInv, NewsInv, NEW p \in Pages, IsOpen(p), down[ws[p]] # <<>>,
           NEW m, m = Head(down[ws[p]]), m.type # "close",
           down' = [down EXCEPT ![ws[p]] = Tail(@)],
           UNCHANGED <<serverVars, up, end, cut, ws, scene>>,
           \A q \in Pages \ {p} : peers'[q] = peers[q],
           m.type = "peer-list" => peers'[p] = m.peers,
           m.type # "peer-list" => peers'[p] \subseteq peers[p],
           m.type \notin {"peer-list", "peer-left"} => peers'[p] = peers[p]
    PROVE  NewsInv'
<1> DEFINE c == ws[p]
           q == down[c]
<1>1. c \in Conns /\ c # None /\ q \in Seq(ServerMessage) /\ UNCHANGED <<registry, srv, scene>>
  BY SocketOf DEF IsOpen, serverVars, IInv, TypeParts, DownType
<1>2. down'[c] = Tail(q) /\ \A s \in Conns \ {c} : down'[s] = down[s]
  BY <1>1 DEF IInv, TypeParts, DownType
<1>3. /\ 1 \in DOMAIN q /\ m = q[1]
      /\ \A i \in DOMAIN Tail(q) : i + 1 \in DOMAIN q /\ Tail(q)[i] = q[i + 1]
      /\ \A i \in DOMAIN q : i # 1 => i - 1 \in DOMAIN Tail(q) /\ Tail(q)[i - 1] = q[i]
  <2>1. 1 \in DOMAIN q /\ m = q[1]
    BY <1>1
  <2>2. \A i \in DOMAIN Tail(q) : i + 1 \in DOMAIN q /\ Tail(q)[i] = q[i + 1]
    BY <1>1
  <2>3. \A i \in DOMAIN q : i # 1 => i - 1 \in DOMAIN Tail(q) /\ Tail(q)[i - 1] = q[i]
    BY <1>1
  <2> QED BY <2>1, <2>2, <2>3
<1>4. \A o \in Pages \ {p} : SameFor(o)
  BY <1>1, <1>2, OthersSame
<1>5. Alive(p) /\ Said(p) /\ Knows(p) /\ Seen(p)
  BY DEF NewsInv, PagesInv
<1>6. PageEffect(p)
  <2>1. ASSUME NEW s \in Conns, NEW i \in DOMAIN down'[s] PROVE \E k \in DOMAIN down[s] : down'[s][i] = down[s][k]
    <3>1. CASE s = c
      BY <1>2, <1>3, <2>1, <3>1
    <3>2. CASE s # c
      BY <1>2, <3>2
    <3> QED BY <3>1, <3>2
  <2>2. \/ peers'[p] \subseteq peers[p]
        \/ \E s \in Conns : \E k \in DOMAIN down[s] :
              down[s][k].type = "peer-list" /\ peers'[p] = down[s][k].peers
    BY <1>1, <1>3
  <2> QED BY <1>1, <1>4, <2>1, <2>2 DEF PageEffect
<1>7. Alive(p)' /\ Said(p)'
  BY <1>1, <1>5 DEF Alive, Said
<1>8. Knows(p)'
  <2> SUFFICES ASSUME NEW now \in SUBSET Devices, now = PeersExcept(registry, c), Registered(p), c \notin cut
               PROVE  (News(Tail(q)) = {} /\ peers'[p] = now) \/ Tells(Tail(q), now)
    BY <1>1, <1>2, ListIs DEF Knows, Registered
  <2>1. (News(q) = {} /\ peers[p] = now) \/ Tells(q, now)
    BY <1>5 DEF Knows
  <2>2. PICK r : r = Tail(q)
    OBVIOUS
  <2>3. CASE News(q) = {} /\ peers[p] = now
    <3>1. News(r) = {} /\ m.type \notin {"peer-list", "peer-left"}
      BY <1>1, <2>2, <2>3, TakenQuiet
    <3> QED BY <2>2, <2>3, <3>1
  <2>4. CASE Tells(q, now)
    <3>1. Tells(r, now) \/ (News(r) = {} /\ m = PeerList(now))
      BY <1>1, <2>2, <2>4, TakenNews
    <3>2. PeerList(now).type = "peer-list" /\ PeerList(now).peers = now
      BY DEF PeerList
    <3> QED BY <2>2, <3>1, <3>2
  <2> QED BY <2>1, <2>3, <2>4
<1>9. Seen(p)'
  <2>1. BeingClosed(c) => BeingClosed(c)'
    BY <1>2, <1>3 DEF BeingClosed
  <2>2. Registering(c)' <=> Registering(c)
    BY DEF Registering
  <2> QED BY <1>1, <1>5, <2>1, <2>2 DEF Seen, IsOpen, Registered, Registering, BeingClosed
<1> QED BY <1>6, <1>7, <1>8, <1>9, PageKeepsNews

LEMMA ReceivePeerListNews ==
    ASSUME IInv, NewsInv, NEW p \in Pages, ReceivePeerList(p), UNCHANGED scene PROVE NewsInv'
<1>1. PICK m : m = Head(down[ws[p]])
  OBVIOUS
<1>2. /\ IsOpen(p) /\ down[ws[p]] # <<>> /\ m.type = "peer-list"
      /\ down' = [down EXCEPT ![ws[p]] = Tail(@)]
      /\ UNCHANGED <<serverVars, up, end, cut, ws, scene>>
  BY <1>1 DEF ReceivePeerList, Receives
<1>3. peers'[p] = m.peers /\ \A q \in Pages \ {p} : peers'[q] = peers[q]
  BY <1>1 DEF ReceivePeerList, IInv, TypeParts, PageType
<1> QED BY <1>1, <1>2, <1>3, ReceiveNews

LEMMA ReceivePeerLeftNews ==
    ASSUME IInv, NewsInv, NEW p \in Pages, ReceivePeerLeft(p), UNCHANGED scene PROVE NewsInv'
<1>1. PICK m : m = Head(down[ws[p]])
  OBVIOUS
<1>2. /\ IsOpen(p) /\ down[ws[p]] # <<>> /\ m.type = "peer-left"
      /\ down' = [down EXCEPT ![ws[p]] = Tail(@)]
      /\ UNCHANGED <<serverVars, up, end, cut, ws, scene>>
  BY <1>1 DEF ReceivePeerLeft, Receives
<1>3. peers'[p] \subseteq peers[p] /\ \A q \in Pages \ {p} : peers'[q] = peers[q]
  BY DEF ReceivePeerLeft, IInv, TypeParts, PageType
<1> QED BY <1>1, <1>2, <1>3, ReceiveNews

LEMMA ReceiveOtherNews ==
    ASSUME IInv, NewsInv, NEW p \in Pages, ReceiveOther(p), UNCHANGED scene PROVE NewsInv'
<1>1. PICK m : m = Head(down[ws[p]])
  OBVIOUS
<1>2. /\ IsOpen(p) /\ down[ws[p]] # <<>> /\ m.type \in {"signal", "register-rejected", "heartbeat-ack"}
      /\ down' = [down EXCEPT ![ws[p]] = Tail(@)]
      /\ UNCHANGED <<serverVars, up, end, cut, ws, peers, scene>>
  BY <1>1 DEF ReceiveOther, Receives
<1> QED BY <1>1, <1>2, ReceiveNews

LEMMA CutNews ==
    ASSUME IInv, NewsInv, NEW c \in Conns, Cut(c), UNCHANGED scene PROVE NewsInv'
<1>1. /\ cut' = cut \cup {c} /\ UNCHANGED <<registry, srv, end, ws, peers, scene>>
      /\ up' = [up EXCEPT ![c] = <<>>] /\ down' = [down EXCEPT ![c] = <<>>]
  BY DEF Cut, serverVars, pageVars
<1>2. /\ up'[c] = <<>> /\ down'[c] = <<>> /\ DOMAIN <<>> = {}
      /\ \A s \in Conns \ {c} : up'[s] = up[s] /\ down'[s] = down[s]
  BY <1>1 DEF IInv, TypeParts, UpType, DownType
<1>3. PagesInv'
  <2> SUFFICES ASSUME NEW p \in Pages PROVE Alive(p)' /\ Said(p)' /\ Knows(p)' /\ Seen(p)'
    BY DEF PagesInv
  <2>1. Alive(p) /\ Said(p) /\ Knows(p) /\ Seen(p)
    BY DEF NewsInv, PagesInv
  <2>2. CASE ws[p] = c
    BY <1>1, <1>2, <2>1, <2>2 DEF Alive, Said, Knows, Seen, Registered, IsOpen
  <2>3. CASE ws[p] # c
    <3>1. SameFor(p)
      BY <1>1, <1>2, <2>3, SocketOf DEF SameFor
    <3> QED BY <1>1, <2>1, <3>1, SamePage
  <2> QED BY <2>2, <2>3
<1>4. OwnSockets'
  BY <1>1 DEF NewsInv, OwnSockets
<1>5. RegisterHeard'
  BY <1>1, <1>2 DEF NewsInv, RegisterHeard
<1> QED BY <1>3, <1>4, <1>5 DEF NewsInv

-----------------------------------------------------------------------------
(* The theorems. *)

LEMMA InitNews == Init => NewsInv
<1> SUFFICES ASSUME Init PROVE NewsInv
  OBVIOUS
<1>1. DOMAIN <<>> = {}
  OBVIOUS
<1>2. /\ \A p \in Pages : ws[p] = None /\ peers[p] = {}
      /\ \A c \in Conns : up[c] = <<>> /\ down[c] = <<>>
      /\ \A d \in Devices : registry[d] = None
  BY DEF Init, CoordinatorInit
<1>3. PagesInv
  BY <1>2 DEF PagesInv, Alive, Said, Knows, Seen, Registered, IsOpen
<1>4. OwnSockets /\ RegisterHeard
  BY <1>1, <1>2 DEF OwnSockets, RegisterHeard
<1> QED BY <1>3, <1>4 DEF NewsInv

LEMMA StutterNews == ASSUME NewsInv, UNCHANGED <<vars, scene>> PROVE NewsInv'
<1>1. UNCHANGED <<registry, srv, up, down, end, cut, ws, peers, scene>>
  BY DEF vars, serverVars, wireVars, pageVars
<1>2. PagesInv'
  BY <1>1 DEF NewsInv, PagesInv, Alive, Said, Knows, Seen, Registered, IsOpen, Registering, BeingClosed
<1>3. OwnSockets' /\ RegisterHeard'
  BY <1>1 DEF NewsInv, OwnSockets, RegisterHeard
<1> QED BY <1>2, <1>3 DEF NewsInv

LEMMA StepNews == IInv /\ IInv' /\ NewsInv /\ [Next]_<<vars, scene>> => NewsInv'
<1> SUFFICES ASSUME IInv, IInv', NewsInv, Step, UNCHANGED scene PROVE NewsInv'
  BY StutterNews DEF Next
<1>1. ASSUME NEW c \in Conns, ConnStep(c) PROVE NewsInv'
  <2>1. CASE Server(Accept(c))
    BY <2>1, AcceptTells, ServerKeepsNews DEF Server
  <2>2. CASE Server(HandleMessage(c))
    <3>1. HandleMessage(c) /\ UNCHANGED <<pageVars, scene>>
      BY <2>2 DEF Server
    <3>2. ServerEffect
      BY <3>1, HandleRejectedRegisterTells, HandleRegisterTells, HandleHeartbeatTells,
         HandleSignalTells, HandleUnregisterTells DEF HandleMessage
    <3> QED BY <3>2, ServerKeepsNews
  <2>3. CASE Server(SocketCloses(c))
    BY <2>3, SocketClosesTells, ServerKeepsNews DEF Server
  <2> QED BY <1>1, <2>1, <2>2, <2>3, CutNews DEF ConnStep
<1>2. ASSUME NEW p \in Pages, PageStep(p) PROVE NewsInv'
  <2>1. CASE OnClose(p) \/ ConnectFails(p)
    BY <2>1, ClosesNews DEF OnClose, ConnectFails
  <2>2. CASE \E d \in Devices : SendSignal(p, d)
    BY <2>2, SendSignalNews
  <2> QED
    BY <1>2, <2>1, <2>2, ReloadNews, LeaveNews, ReconnectNews, OnOpenNews, HeartbeatNews,
       ReceivePeerListNews, ReceivePeerLeftNews, ReceiveOtherNews DEF PageStep
<1>3. ASSUME NEW d \in Devices, Server(Evict(d)) PROVE NewsInv'
  BY <1>3, EvictTells, ServerKeepsNews DEF Server
<1>4. SweepStale \/ Restarts => NewsInv'
  BY SweepTells, RestartTells, ServerKeepsNews
<1> QED BY <1>1, <1>2, <1>3, <1>4 DEF Step

LEMMA NewsInvariant == Spec => [](IInv /\ NewsInv)
<1>1. Init => IInv /\ NewsInv
  BY InitIInv, InitNews
<1>2. [Next]_<<vars, scene>> => [Step]_vars
  BY DEF Next
<1>3. (IInv /\ NewsInv) /\ [Next]_<<vars, scene>> => (IInv /\ NewsInv)'
  BY <1>2, StepIInv, StepNews
<1> QED BY <1>1, <1>3, PTL DEF Spec

\* What a registered page of coordinatorClient.ts shows, or will when it has
\* read what is on its way, is who is registered now: server.ts never lets the
\* last list or departure it sent a page become stale, whatever order joins,
\* replacements, departures, evictions, restarts and reconnects come in.
THEOREM NewsStaysCurrent == Spec => []NewsIsCurrent
<1>1. NewsInv => NewsIsCurrent
  BY DEF NewsInv, PagesInv, Knows, Tells, NewsIsCurrent
<1> QED BY <1>1, NewsInvariant, PTL

\* A page whose connection is open and works, and whose version the server
\* knows, is registered, has its register on the way, or has the close frame
\* on the way that makes coordinatorClient.ts connect again.
THEOREM NobodyIsOrphaned == Spec => []NoSilentOrphan
<1>1. NewsInv => NoSilentOrphan
  BY DEF NewsInv, PagesInv, Seen, NoSilentOrphan
<1> QED BY <1>1, NewsInvariant, PTL

-----------------------------------------------------------------------------
(* Signals.                                                                *)

\* Nothing is taken from the way to the server on connection c.
Untaken(c) == \A i \in DOMAIN up[c] : i \in DOMAIN up'[c]

LEMMA PostedUntaken ==
    ASSUME IInv, NEW s \in Conns, NEW m \in ClientMessage, NEW said, said = Posted(s, m), NEW c \in Conns
    PROVE  \A i \in DOMAIN up[c] : i \in DOMAIN said[c]
<1>1. CASE c = s
  BY <1>1, PostedIs
<1>2. CASE c # s
  BY <1>2, PostedIs
<1> QED BY <1>1, <1>2

LEMMA GoodbyeUntaken ==
    ASSUME IInv, NEW p \in Pages, NEW said \in Goodbye(p), NEW c \in Conns
    PROVE  \A i \in DOMAIN up[c] : i \in DOMAIN said[c]
<1>1. CASE said = up
  BY <1>1
<1>2. CASE IsOpen(p) /\ said = Posted(ws[p], [type |-> "unregister"])
  <2>1. PICK m \in ClientMessage : m = [type |-> "unregister"]
    BY MessageTypes
  <2> QED BY <1>2, <2>1, SocketOf, PostedUntaken DEF IsOpen
<1> QED BY <1>1, <1>2 DEF Goodbye

\* A new connection is on a socket nobody uses.
LEMMA OpenUntaken ==
    ASSUME IInv, NEW p \in Pages, NEW s \in Fresh, NEW old, NEW said \in [Conns -> Seq(ClientMessage)],
           OpenOn(p, s, old, said), NEW c \in Conns, IsCurrent(c),
           \A i \in DOMAIN up[c] : i \in DOMAIN said[c]
    PROVE  Untaken(c)
<1>1. s \in Conns /\ s # c
  BY DEF Fresh, Unused
<1>2. up'[c] = said[c]
  BY <1>1 DEF OpenOn
<1> QED BY <1>2 DEF Untaken

\* No page and no fault takes anything from a page's connection that neither is
\* cut nor closed by it.
LEMMA OnlyServerTakes ==
    ASSUME IInv, Step, NEW c \in Conns, IsCurrent(c), c \notin cut', srv'[c] # "closed",
           ~Untaken(c)
    PROVE  HandleMessage(c)
<1>1. ASSUME NEW s \in Conns, Server(HandleMessage(s)) PROVE s = c /\ HandleMessage(c)
  <2>1. HandleMessage(s)
    BY <1>1 DEF Server
  <2>2. PICK type : Hears(s, type)
    BY <2>1 DEF HandleMessage, HandleRejectedRegister, HandleRegister, HandleHeartbeat,
                HandleSignal, HandleUnregister
  <2>3. s # c => up'[c] = up[c]
    BY <2>2, Taken
  <2> QED BY <2>1, <2>3 DEF Untaken
<1>2. ASSUME NEW s \in Conns, Cut(s) PROVE FALSE
  <2>1. cut' = cut \cup {s} /\ up' = [up EXCEPT ![s] = <<>>]
    BY <1>2 DEF Cut
  <2>2. s # c
    BY <2>1
  <2>3. up'[c] = up[c]
    BY <2>1, <2>2 DEF IInv, TypeParts, UpType
  <2> QED BY <2>3 DEF Untaken
<1>3. ASSUME NEW s \in Conns, Server(Accept(s)) \/ Server(SocketCloses(s)) PROVE FALSE
  BY <1>3 DEF Server, Accept, SocketCloses, wireVars, Untaken
<1>4. ASSUME NEW p \in Pages, PageStep(p) PROVE FALSE
  <2>1. CASE Reload(p)
    <3>1. PICK s \in Fresh, said \in Goodbye(p) : OpenOn(p, s, ws[p], said)
      BY <2>1 DEF Reload
    <3>2. said \in [Conns -> Seq(ClientMessage)]
      BY <3>1, GoodbyeKeeps
    <3> QED BY <3>1, <3>2, GoodbyeUntaken, OpenUntaken
  <2>2. CASE Leave(p)
    <3>1. up' \in Goodbye(p)
      BY <2>2 DEF Leave
    <3>2. PICK said \in Goodbye(p) : said = up'
      BY <3>1
    <3> QED BY <3>2, GoodbyeUntaken DEF Untaken
  <2>3. CASE Reconnect(p)
    <3>1. PICK s \in Fresh : OpenOn(p, s, None, up)
      BY <2>3 DEF Reconnect
    <3>2. up \in [Conns -> Seq(ClientMessage)] /\ \A i \in DOMAIN up[c] : i \in DOMAIN up[c]
      BY DEF IInv, TypeParts, UpType
    <3> QED BY <3>1, <3>2, OpenUntaken
  <2>4. ASSUME ws[p] # None, NEW m \in ClientMessage, up' = Posted(ws[p], m) PROVE FALSE
    <3>1. PICK said : said = up'
      OBVIOUS
    <3> QED BY <2>4, <3>1, SocketOf, PostedUntaken DEF Untaken
  <2>5. CASE OnOpen(p)
    <3>1. DeviceOf[p] \in Devices /\ (p \in scene.newer) \in BOOLEAN
      BY SocketOf
    <3>2. PICK m \in ClientMessage :
            m = [type |-> "register", deviceId |-> DeviceOf[p], newer |-> p \in scene.newer]
      BY <3>1, MessageTypes
    <3> QED BY <2>4, <2>5, <3>2 DEF OnOpen
  <2>6. CASE Heartbeat(p)
    <3>1. PICK m \in ClientMessage : m = [type |-> "heartbeat", deviceId |-> DeviceOf[p]]
      BY SocketOf, MessageTypes
    <3> QED BY <2>4, <2>6, <3>1 DEF Heartbeat, IsOpen
  <2>7. CASE \E d \in Devices : SendSignal(p, d)
    <3>1. PICK d \in Devices : SendSignal(p, d)
      BY <2>7
    <3>2. PICK m \in ClientMessage : m = [type |-> "signal", to |-> d]
      BY MessageTypes
    <3> QED BY <2>4, <3>1, <3>2 DEF SendSignal, IsOpen
  <2>8. CASE ReceivePeerList(p) \/ ReceivePeerLeft(p) \/ ReceiveOther(p) \/ OnClose(p) \/ ConnectFails(p)
    BY <2>8 DEF ReceivePeerList, ReceivePeerLeft, ReceiveOther, Receives, OnClose, ConnectFails,
                Closes, Untaken
  <2> QED BY <1>4, <2>1, <2>2, <2>3, <2>5, <2>6, <2>7, <2>8 DEF PageStep
<1>5. ASSUME NEW d \in Devices, Server(Evict(d)) PROVE FALSE
  BY <1>5 DEF Server, Evict, Untaken
<1>6. ~SweepStale
  BY DEF SweepStale, Sweep, wireVars, Untaken
<1>7. ~Restarts
  BY DEF Restarts, Restart
<1> QED BY <1>1, <1>2, <1>3, <1>4, <1>5, <1>6, <1>7 DEF Step, ConnStep

\* server.ts passes a signal it takes from a registered page's connection on to
\* the connection the device it is for is registered with, under the sender's
\* id: the registry and the sockets map, which it looks the two up in, and the
\* connection's own deviceId agree at every moment a signal can come.
THEOREM SignalsAlwaysArrive == Spec => SignalsArrive
<1> DEFINE Arrives(p, q) ==
         /\ ws[p] # None /\ up[ws[p]] # <<>>
         /\ Head(up[ws[p]]) = [type |-> "signal", to |-> DeviceOf[q]]
         /\ up'[ws[p]] = Tail(up[ws[p]]) /\ ws[p] \notin cut' /\ srv'[ws[p]] # "closed"
         /\ Registered(p) /\ Registered(q) /\ IsOpen(q) /\ ws[q] \notin cut
         => down'[ws[q]] = Append(down[ws[q]], Signal(DeviceOf[p]))
<1>1. ASSUME IInv, [Next]_<<vars, scene>>, NEW p \in Pages, NEW q \in Pages PROVE Arrives(p, q)
  <2> DEFINE c == ws[p]
  <2> SUFFICES ASSUME c # None, up[c] # <<>>, Head(up[c]) = [type |-> "signal", to |-> DeviceOf[q]],
                      up'[c] = Tail(up[c]), c \notin cut', srv'[c] # "closed",
                      registry[DeviceOf[p]] = c, ws[q] # None, registry[DeviceOf[q]] = ws[q],
                      end[ws[q]] = "open", ws[q] \notin cut
               PROVE  down'[ws[q]] = Append(down[ws[q]], Signal(DeviceOf[p]))
    BY DEF Registered, IsOpen
  <2>1. c \in Conns /\ IsCurrent(c) /\ ws[q] \in Conns /\ DeviceOf[p] \in Devices /\ DeviceOf[q] \in Devices
    BY <1>1, SocketOf DEF IsCurrent
  <2>2. ~Untaken(c)
    <3>1. up[c] \in Seq(ClientMessage)
      BY <1>1, <2>1 DEF IInv, TypeParts, UpType
    <3>2. Len(up[c]) \in DOMAIN up[c] /\ Len(up[c]) \notin DOMAIN Tail(up[c])
      BY <3>1
    <3> QED BY <3>2 DEF Untaken
  <2>3. up' # up
    BY <2>2 DEF Untaken
  <2>4. Step
    BY <1>1, <2>3 DEF Next, vars, wireVars
  <2>5. HandleMessage(c)
    BY <1>1, <2>1, <2>2, <2>4, OnlyServerTakes
  <2>6. PICK m : m = Head(up[c])
    OBVIOUS
  <2>7. m.type = "signal" /\ m.to = DeviceOf[q]
    BY <2>6
  <2>8. HandleSignal(c)
    BY <2>5, <2>6, <2>7 DEF HandleMessage, HandleRejectedRegister, HandleRegister, HandleHeartbeat,
                            HandleUnregister, Hears
  <2>9. deviceId[c] = DeviceOf[p] /\ ws[q] \in sockets /\ srv[ws[q]] = "open"
    BY <1>1, <2>1 DEF IInv, RegistryMatchesSockets
  <2>10. deviceId[c] # None
    BY <2>1, <2>9
  <2>11. Send(ws[q], Signal(DeviceOf[p]))
    BY <2>6, <2>7, <2>8, <2>9, <2>10 DEF HandleSignal
  <2>12. Reaches(ws[q])
    BY <2>9 DEF Reaches
  <2> QED BY <1>1, <2>1, <2>11, <2>12 DEF Send, IInv, TypeParts, DownType
<1>2. IInv /\ [Next]_<<vars, scene>> => [\A p, q \in Pages : Arrives(p, q)]_vars
  BY <1>1
<1> QED BY <1>2, NewsInvariant, PTL DEF Spec, SignalsArrive
=============================================================================
