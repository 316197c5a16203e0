----------------------------- MODULE Coordinator -----------------------------
(***************************************************************************)
(* The coordinator's WebSocket server: coordinator/src/server.ts and the   *)
(* peerRegistry.ts it keeps.  It runs on one thread, so an action is one   *)
(* event handler; only the sweep, which evicts several peers in one run,   *)
(* is a loop of steps during which no other handler runs.                  *)
(*                                                                         *)
(* A connection is an element of Conns.  Its two ends close independently  *)
(* and the network may cut it without either end noticing.  Once both ends *)
(* are closed the element stands for a new connection.                     *)
(*                                                                         *)
(* A definition called a mutated form is one a mistake in the code would   *)
(* give.  It stands before the definition it varies and nothing uses it.   *)
(***************************************************************************)
EXTENDS Naturals, Sequences, FiniteSets

CONSTANTS
    Devices,      \* device ids
    Conns,        \* connections
    None,         \* no connection, no device
    MissedLimit   \* HEARTBEAT_TIMEOUT_MS in sweep intervals

ASSUME NoneAssumption == None \notin Conns /\ None \notin Devices
ASSUME MissedAssumption == MissedLimit \in Nat

VARIABLES
    \* the server
    registry,   \* peers: the connection each device is registered with
    missed,     \* sweeps since its lastHeartbeatAt
    sockets,    \* the keys of the sockets map
    deviceId,   \* the variable of that name of each connection's handler
    srv,        \* readyState of the server's end
    sweeping,   \* stale peers the running sweep has still to evict
    \* the network
    up, down,   \* messages on their way to the server, to the client
    end,        \* readyState of the client's end
    cut         \* connections that carry nothing any more

serverVars == <<registry, missed, sockets, deviceId, srv, sweeping>>
wireVars == <<up, down, end, cut>>

ClientMessage ==
    [type : {"register"}, deviceId : Devices, newer : BOOLEAN]
      \cup [type : {"heartbeat"}, deviceId : Devices]
      \cup [type : {"signal"}, to : Devices]
      \cup [type : {"unregister"}]
ServerMessage ==
    [type : {"peer-list"}, peers : SUBSET Devices]
      \cup [type : {"peer-left", "signal"}, from : Devices]
      \cup [type : {"heartbeat-ack", "register-rejected", "close"}]

PeerList(peers) == [type |-> "peer-list", peers |-> peers]
PeerLeft(d) == [type |-> "peer-left", from |-> d]
Signal(d) == [type |-> "signal", from |-> d]
Notice(type) == [type |-> type]

-----------------------------------------------------------------------------
(* Sending.  A message reaches a client's queue if the server's end is     *)
(* open, which send() checks, and the other end is still there.            *)
Reaches(c) == srv[c] = "open" /\ end[c] # "closed" /\ c \notin cut

Send(c, m) ==
    down' = IF Reaches(c) THEN [down EXCEPT ![c] = Append(@, m)] ELSE down

(* What a connection is told of registry reg: every peer but itself.       *)
PeersExcept(reg, c) == {d \in Devices : reg[d] \notin {None, c}}
Listed(reg, socks, c) == c \in socks /\ \E d \in Devices : reg[d] = c

(* broadcastPeerListToAll; left is {} or the peer broadcastPeerLeftToAll   *)
(* has named first, closing {} or the connection being closed.             *)
AfterLeft(left, socks, c) ==
    IF left # {} /\ c \in socks
      THEN Append(down[c], PeerLeft(CHOOSE d \in left : TRUE)) ELSE down[c]
AfterList(reg, socks, left, c) ==
    IF Listed(reg, socks, c)
      THEN Append(AfterLeft(left, socks, c), PeerList(PeersExcept(reg, c)))
      ELSE AfterLeft(left, socks, c)
(* Mutated form: only the connection that registered gets the list.        *)
BroadcastToNewcomer(reg, socks, left, closing) ==
    down' = [c \in Conns |->
               IF ~Reaches(c) THEN down[c]
               ELSE IF c \in closing THEN Append(down[c], Notice("close"))
               ELSE IF c \in sockets THEN down[c]
               ELSE AfterList(reg, socks, left, c)]
Broadcast(reg, socks, left, closing) ==
    down' = [c \in Conns |->
               IF ~Reaches(c) THEN down[c]
               ELSE IF c \in closing THEN Append(down[c], Notice("close"))
               ELSE AfterList(reg, socks, left, c)]

-----------------------------------------------------------------------------
(* wss.on("connection")                                                    *)
Accept(c) ==
    /\ sweeping = {}
    /\ end[c] = "connecting" /\ srv[c] = "closed" /\ c \notin cut /\ down[c] = <<>>
    /\ srv' = [srv EXCEPT ![c] = "open"]
    /\ UNCHANGED <<registry, missed, sockets, deviceId, sweeping, wireVars>>

(* The message handler: it goes on hearing a connection it has closed      *)
(* until the client's end closes too.                                      *)
Hears(c, type) ==
    /\ sweeping = {}
    /\ srv[c] # "closed" /\ up[c] # <<>> /\ Head(up[c]).type = type
    /\ up' = [up EXCEPT ![c] = Tail(@)]
    /\ UNCHANGED <<sweeping, end, cut>>

(* msg.protocolVersion is not higher than the server's.                    *)
Supported(msg) == ~msg.newer

HandleRejectedRegister(c) ==
    /\ Hears(c, "register") /\ ~Supported(Head(up[c]))
    /\ Send(c, Notice("register-rejected"))
    /\ UNCHANGED <<registry, missed, sockets, deviceId, srv>>

(* The connection another registration of the same device is replaced on.  *)
Existing(d, c) == {registry[d]} \ {None, c}

(* Mutated form: the replaced connection keeps its place in the map.       *)
KeepsSocket(d, c) == sockets \cup {c}
SocketsWith(d, c) == (sockets \ Existing(d, c)) \cup {c}

HandleRegister(c) ==
    /\ Hears(c, "register") /\ Supported(Head(up[c]))
    /\ LET d == Head(up[c]).deviceId
           old == Existing(d, c)
           stale == old \cap sockets
       IN /\ sockets' = SocketsWith(d, c)
          /\ srv' = [s \in Conns |->
                       IF s \in stale /\ srv[s] = "open" THEN "closing" ELSE srv[s]]
          /\ deviceId' = [deviceId EXCEPT ![c] = d]
          /\ registry' = [registry EXCEPT ![d] = c]
          /\ missed' = [missed EXCEPT ![d] = 0]
          /\ Broadcast(registry', sockets', {}, stale)

(* Mutated form: a heartbeat is taken for everyone's.                      *)
HeartbeatTouchesAll(c) ==
    /\ Hears(c, "heartbeat")
    /\ missed' = [d \in Devices |-> 0]
    /\ Send(c, Notice("heartbeat-ack"))
    /\ UNCHANGED <<registry, sockets, deviceId, srv>>
HandleHeartbeat(c) ==
    /\ Hears(c, "heartbeat")
    /\ LET d == Head(up[c]).deviceId
       IN missed' = IF registry[d] = None THEN missed ELSE [missed EXCEPT ![d] = 0]
    /\ Send(c, Notice("heartbeat-ack"))
    /\ UNCHANGED <<registry, sockets, deviceId, srv>>

(* Mutated form: the signal keeps the name of the peer it is for.          *)
HandleSignalMislabelled(c) ==
    /\ Hears(c, "signal")
    /\ LET target == registry[Head(up[c]).to]
       IN IF deviceId[c] # None /\ target # None /\ target \in sockets
            THEN Send(target, Signal(Head(up[c]).to)) ELSE UNCHANGED down
    /\ UNCHANGED <<registry, missed, sockets, deviceId, srv>>
HandleSignal(c) ==
    /\ Hears(c, "signal")
    /\ LET target == registry[Head(up[c]).to]
       IN IF deviceId[c] # None /\ target # None /\ target \in sockets
            THEN Send(target, Signal(deviceId[c])) ELSE UNCHANGED down
    /\ UNCHANGED <<registry, missed, sockets, deviceId, srv>>

(* cleanupConnection.  removeByConnection removes the first peer it finds  *)
(* on the connection; closing is as in Broadcast.                          *)
RegisteredBy(c) == {d \in Devices : registry[d] = c}

(* Mutated form: the peer is found by the handler's device id.             *)
CleanupByDevice(c, closing) ==
    /\ sockets' = sockets \ {c}
    /\ IF deviceId[c] = None \/ registry[deviceId[c]] = None
         THEN UNCHANGED <<registry, missed, down>>
         ELSE /\ registry' = [registry EXCEPT ![deviceId[c]] = None]
              /\ missed' = [missed EXCEPT ![deviceId[c]] = 0]
              /\ Broadcast(registry', sockets', {deviceId[c]}, closing)
Cleanup(c, closing) ==
    /\ sockets' = sockets \ {c}
    /\ IF RegisteredBy(c) = {}
         THEN UNCHANGED <<registry, missed, down>>
         ELSE \E d \in RegisteredBy(c) :
                /\ registry' = [registry EXCEPT ![d] = None]
                /\ missed' = [missed EXCEPT ![d] = 0]
                /\ Broadcast(registry', sockets', {d}, closing)

HandleUnregister(c) ==
    /\ Hears(c, "unregister")
    /\ Cleanup(c, {})
    /\ UNCHANGED <<deviceId, srv>>

(* ws.on("close") and ws.on("error"): the client's end has closed and all  *)
(* it sent has been heard, or the connection is cut and a timeout of the   *)
(* socket tells.                                                           *)
SocketCloses(c) ==
    /\ sweeping = {}
    /\ srv[c] # "closed" /\ up[c] = <<>> /\ (end[c] = "closed" \/ c \in cut)
    /\ srv' = [srv EXCEPT ![c] = "closed"]
    /\ deviceId' = [deviceId EXCEPT ![c] = None]
    /\ Cleanup(c, {})
    /\ UNCHANGED <<sweeping, up, end, cut>>

-----------------------------------------------------------------------------
(* sweepStalePeers: every interval, whoever has not been heard of for more *)
(* than MissedLimit intervals is closed and cleaned up.                    *)
(* Mutated form: one interval too many.                                    *)
StaleTooLate == {d \in Devices : registry[d] # None /\ missed[d] > MissedLimit}
Stale == {d \in Devices : registry[d] # None /\ missed[d] >= MissedLimit}

Sweep ==
    /\ sweeping = {}
    /\ sweeping' = Stale
    /\ missed' = [d \in Devices |->
                    IF registry[d] = None \/ d \in Stale THEN missed[d] ELSE missed[d] + 1]
    /\ UNCHANGED <<registry, sockets, deviceId, srv, wireVars>>

Evict(d) ==
    /\ d \in sweeping /\ sweeping' = sweeping \ {d}
    /\ LET c == registry[d]
       IN /\ srv' = [srv EXCEPT ![c] = IF @ = "open" /\ c \in sockets THEN "closing" ELSE @]
          /\ Cleanup(c, {c} \cap sockets)
    /\ UNCHANGED <<deviceId, up, end, cut>>

(* The coordinator's process ends and another takes its place with nothing *)
(* registered; the operating system closes the connections it held.        *)
Restart ==
    /\ registry' = [d \in Devices |-> None]
    /\ missed' = [d \in Devices |-> 0]
    /\ sockets' = {} /\ sweeping' = {}
    /\ deviceId' = [c \in Conns |-> None]
    /\ srv' = [c \in Conns |-> "closed"]
    /\ up' = [c \in Conns |-> <<>>]
    /\ down' = [c \in Conns |-> IF Reaches(c) THEN Append(down[c], Notice("close"))
                                              ELSE down[c]]
    /\ UNCHANGED <<end, cut>>

CoordinatorInit ==
    /\ registry = [d \in Devices |-> None]
    /\ missed = [d \in Devices |-> 0]
    /\ sockets = {} /\ sweeping = {}
    /\ deviceId = [c \in Conns |-> None]
    /\ srv = [c \in Conns |-> "closed"]
    /\ up = [c \in Conns |-> <<>>] /\ down = [c \in Conns |-> <<>>]
    /\ end = [c \in Conns |-> "closed"] /\ cut = {}

HandleMessage(c) ==
    \/ HandleRejectedRegister(c) \/ HandleRegister(c) \/ HandleHeartbeat(c)
    \/ HandleSignal(c) \/ HandleUnregister(c)

-----------------------------------------------------------------------------
CoordinatorTypeOK ==
    /\ registry \in [Devices -> Conns \cup {None}]
    /\ missed \in [Devices -> 0..MissedLimit]
    /\ sockets \in SUBSET Conns
    /\ deviceId \in [Conns -> Devices \cup {None}]
    /\ srv \in [Conns -> {"open", "closing", "closed"}]
    /\ sweeping \in SUBSET Devices
    /\ up \in [Conns -> Seq(ClientMessage)]
    /\ down \in [Conns -> Seq(ServerMessage)]
    /\ end \in [Conns -> {"connecting", "open", "closed"}]
    /\ cut \in SUBSET Conns
=============================================================================
