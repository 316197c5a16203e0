-------------------------- MODULE CoordinatorClient --------------------------
(***************************************************************************)
(* The pages that use the coordinator: web/src/lib/coordinatorClient.ts as *)
(* App.tsx uses it, and with Coordinator the whole signalling system.      *)
(*                                                                         *)
(* A page has one CoordinatorClient, made when App.tsx is mounted.  Two    *)
(* pages of the same browser have the same device id.                      *)
(***************************************************************************)
EXTENDS Coordinator

CONSTANTS
    Pages,        \* the pages that are ever opened
    DeviceOf,     \* the device id each finds in its localStorage
    Scenes,       \* what the pages are: see scene
    GiveUpAfter,  \* RECONNECT_ATTEMPTS_BEFORE_GIVING_UP
    MaxFaults,    \* bound: reloads, departures, failures, late heartbeats, signals
    MaxSignals    \* bound: how many of these may be signals the pages send

ASSUME PagesAssumption ==
    /\ DeviceOf \in [Pages -> Devices]
    /\ Scenes \subseteq [newer : SUBSET Pages, closing : SUBSET Pages]
ASSUME BoundsAssumption == GiveUpAfter \in Nat /\ MaxFaults \in Nat /\ MaxSignals \in Nat

VARIABLES
    ws,       \* this.ws, None if there is no socket or it has closed
    state,    \* ConnectionState, or "gone" when the page is closed
    attempt,  \* reconnectAttempt
    timer,    \* the reconnect timer is running
    peers,    \* the peers the page shows
    scene,    \* the pages that register with a higher protocolVersion, and those
              \* whose closing is not counted as a fault; it does not change
    faults, signals

pageVars == <<ws, state, attempt, timer, peers>>
budgets == <<faults, signals>>
vars == <<serverVars, wireVars, pageVars, budgets>>

(* A fault and a signal are paid for from the same budget.                 *)
Left == faults + signals < MaxFaults
Fault == Left /\ faults' = faults + 1

IsCurrent(c) == \E p \in Pages : ws[p] = c
(* The element that stands for the next connection; all are alike.         *)
Unused(c) == end[c] = "closed" /\ srv[c] = "closed" /\ ~IsCurrent(c)
Fresh == IF \E c \in Conns : Unused(c) THEN {CHOOSE c \in Conns : Unused(c)} ELSE {}
IsOpen(p) == ws[p] # None /\ end[ws[p]] = "open"

(* What the client puts on a connection that is not cut.                   *)
Posted(c, m) == IF c \in cut THEN up ELSE [up EXCEPT ![c] = Append(@, m)]

-----------------------------------------------------------------------------
(* open(): a new WebSocket on connection c.  The page's previous one, old, *)
(* is closed in the same action, and said is what it sent before that.     *)
OpenOn(p, c, old, said) ==
    /\ ws' = [ws EXCEPT ![p] = c]
    /\ timer' = [timer EXCEPT ![p] = FALSE]
    /\ end' = [s \in Conns |-> IF s = c THEN "connecting"
                               ELSE IF s = old THEN "closed" ELSE end[s]]
    /\ up' = [said EXCEPT ![c] = <<>>]
    /\ down' = [s \in Conns |-> IF s \in {c, old} THEN <<>> ELSE down[s]]
    /\ cut' = cut \ {c}

(* What disconnect() sends when App.tsx is unmounted; a page that is       *)
(* reloaded or closed just loses its socket.                               *)
Goodbye(p) ==
    {up} \cup IF IsOpen(p) THEN {Posted(ws[p], [type |-> "unregister"])} ELSE {}

(* The page is opened or reloaded, or App.tsx mounted again: a new client. *)
Reload(p) ==
    /\ Fault
    /\ \E c \in Fresh, said \in Goodbye(p) : OpenOn(p, c, ws[p], said)
    /\ state' = [state EXCEPT ![p] = "connecting"]
    /\ attempt' = [attempt EXCEPT ![p] = 0]
    /\ peers' = [peers EXCEPT ![p] = {}]
    /\ UNCHANGED <<serverVars, signals>>

(* The page is closed.                                                     *)
Leave(p) ==
    /\ state[p] # "gone"
    /\ \/ p \in scene.closing /\ UNCHANGED faults
       \/ p \notin scene.closing /\ Fault
    /\ \E said \in Goodbye(p) : up' = said
    /\ ws' = [ws EXCEPT ![p] = None]
    /\ timer' = [timer EXCEPT ![p] = FALSE]
    /\ end' = [c \in Conns |-> IF c = ws[p] THEN "closed" ELSE end[c]]
    /\ down' = [c \in Conns |-> IF c = ws[p] THEN <<>> ELSE down[c]]
    /\ state' = [state EXCEPT ![p] = "gone"]
    /\ attempt' = [attempt EXCEPT ![p] = 0]
    /\ peers' = [peers EXCEPT ![p] = {}]
    /\ UNCHANGED <<serverVars, cut, signals>>

(* The reconnect timer fires, or connect() is called for the first time.   *)
Reconnect(p) ==
    /\ timer[p]
    /\ \E c \in Fresh : OpenOn(p, c, None, up)
    /\ state' = [state EXCEPT ![p] = IF attempt[p] = 0 THEN "connecting" ELSE "reconnecting"]
    /\ UNCHANGED <<serverVars, attempt, peers, budgets>>

(* ws.onopen                                                               *)
OnOpen(p) ==
    LET c == ws[p] IN
    /\ c # None /\ c \notin cut
    /\ end[c] = "connecting" /\ srv[c] = "open"
    /\ end' = [end EXCEPT ![c] = "open"]
    /\ attempt' = [attempt EXCEPT ![p] = 0]
    /\ up' = Posted(c, [type |-> "register", deviceId |-> DeviceOf[p], newer |-> p \in scene.newer])
    /\ state' = [state EXCEPT ![p] = "open"]
    /\ UNCHANGED <<serverVars, down, cut, ws, timer, peers, budgets>>

(* The interval timer started in onopen; one heartbeat on its way at once. *)
Heartbeat(p) ==
    /\ IsOpen(p)
    /\ \A i \in DOMAIN up[ws[p]] : up[ws[p]][i].type # "heartbeat"
    /\ \A i \in DOMAIN down[ws[p]] : down[ws[p]][i].type # "heartbeat-ack"
    /\ up' = Posted(ws[p], [type |-> "heartbeat", deviceId |-> DeviceOf[p]])
    /\ UNCHANGED <<serverVars, down, end, cut, pageVars, budgets>>

(* send(): connectToPeer signals a peer the page shows.                    *)
SendSignal(p, d) ==
    /\ IsOpen(p) /\ d \in peers[p]
    /\ Left /\ signals < MaxSignals /\ signals' = signals + 1
    /\ up' = Posted(ws[p], [type |-> "signal", to |-> d])
    /\ UNCHANGED <<serverVars, down, end, cut, pageVars, faults>>

-----------------------------------------------------------------------------
(* ws.onmessage                                                            *)
Receives(p, type) ==
    /\ IsOpen(p) /\ down[ws[p]] # <<>> /\ Head(down[ws[p]]).type = type
    /\ down' = [down EXCEPT ![ws[p]] = Tail(@)]
    /\ UNCHANGED <<serverVars, up, end, cut, ws, state, attempt, timer, budgets>>

ReceivePeerList(p) ==
    /\ Receives(p, "peer-list")
    /\ peers' = [peers EXCEPT ![p] = Head(down[ws[p]]).peers]

ReceivePeerLeft(p) ==
    /\ Receives(p, "peer-left")
    /\ peers' = [peers EXCEPT ![p] = @ \ {Head(down[ws[p]]).from}]

(* A signal goes to connectToPeer, a rejection to the console and an       *)
(* acknowledgement nowhere.                                                *)
ReceiveOther(p) ==
    /\ \E type \in {"signal", "register-rejected", "heartbeat-ack"} : Receives(p, type)
    /\ UNCHANGED peers

(* Mutated form: the reconnect timer is not started.                       *)
DisconnectWithoutTimer(p) ==
    /\ ws' = [ws EXCEPT ![p] = None]
    /\ peers' = [peers EXCEPT ![p] = {}]
    /\ state' = [state EXCEPT ![p] = IF attempt[p] >= GiveUpAfter THEN "offline"
                                                                 ELSE "reconnecting"]
    /\ UNCHANGED <<timer, attempt>>
(* handleDisconnect of a client that disconnect() has not stopped.         *)
HandleDisconnect(p) ==
    /\ ws' = [ws EXCEPT ![p] = None]
    /\ peers' = [peers EXCEPT ![p] = {}]
    /\ IF attempt[p] >= GiveUpAfter
         THEN /\ state' = [state EXCEPT ![p] = "offline"]
              /\ UNCHANGED <<timer, attempt>>
         ELSE /\ state' = [state EXCEPT ![p] = "reconnecting"]
              /\ timer' = [timer EXCEPT ![p] = TRUE]
              /\ attempt' = [attempt EXCEPT ![p] = @ + 1]

(* ws.onclose: the server's close frame arrives, a cut connection times    *)
(* out, or a connection attempt fails.                                     *)
Closes(p) ==
    /\ end' = [end EXCEPT ![ws[p]] = "closed"]
    /\ down' = [down EXCEPT ![ws[p]] = <<>>]
    /\ HandleDisconnect(p)
    /\ UNCHANGED <<serverVars, up, cut, signals>>

OnClose(p) ==
    /\ ws[p] # None
    /\ \/ ws[p] \in cut
       \/ down[ws[p]] # <<>> /\ Head(down[ws[p]]).type = "close"
    /\ Closes(p)
    /\ UNCHANGED faults

ConnectFails(p) ==
    /\ ws[p] # None /\ end[ws[p]] = "connecting"
    /\ Closes(p)
    /\ Fault

-----------------------------------------------------------------------------
(* The network stops carrying a connection; what was on its way is lost.   *)
Cut(c) ==
    /\ Fault
    /\ srv[c] # "closed" /\ c \notin cut
    /\ cut' = cut \cup {c}
    /\ up' = [up EXCEPT ![c] = <<>>] /\ down' = [down EXCEPT ![c] = <<>>]
    /\ UNCHANGED <<serverVars, end, pageVars, signals>>

(* A sweep.  A page that is there is only evicted if its heartbeats are    *)
(* that late, which is a fault.                                            *)
Punctual(d) == \E p \in Pages : ws[p] = registry[d] /\ ws[p] \notin cut
SweepStale ==
    /\ Sweep
    /\ IF \E d \in Stale : Punctual(d) THEN Fault ELSE UNCHANGED faults
    /\ UNCHANGED <<pageVars, signals>>

Restarts == Restart /\ Fault /\ UNCHANGED <<pageVars, signals>>

Server(A) == A /\ UNCHANGED <<pageVars, budgets>>

(* A page about to open its first socket is like one whose timer is due.   *)
Init ==
    /\ CoordinatorInit
    /\ ws = [p \in Pages |-> None]
    /\ state = [p \in Pages |-> "connecting"]
    /\ attempt = [p \in Pages |-> 0]
    /\ timer = [p \in Pages |-> TRUE]
    /\ peers = [p \in Pages |-> {}]
    /\ scene \in Scenes
    /\ faults = 0 /\ signals = 0

ConnStep(c) ==
    \/ Server(Accept(c)) \/ Server(HandleMessage(c)) \/ Server(SocketCloses(c))
    \/ Cut(c)

PageStep(p) ==
    \/ Reload(p) \/ Leave(p) \/ Reconnect(p) \/ OnOpen(p) \/ Heartbeat(p)
    \/ ReceivePeerList(p) \/ ReceivePeerLeft(p) \/ ReceiveOther(p)
    \/ OnClose(p) \/ ConnectFails(p)
    \/ \E d \in Devices : SendSignal(p, d)

Step ==
    \/ \E c \in Conns : ConnStep(c)
    \/ \E p \in Pages : PageStep(p)
    \/ \E d \in Devices : Server(Evict(d))
    \/ SweepStale \/ Restarts

Next == Step /\ UNCHANGED scene

Spec == Init /\ [][Next]_<<vars, scene>>

(* Fairness: both event loops run, timers fire, and what is on its way     *)
(* over a connection that is not cut arrives.  A reconnect that is due is  *)
(* strongly fair because Conns is a small pool: the code never waits for a *)
(* free connection.  Of a cut connection the client learns, because it     *)
(* goes on sending; the server only after it has closed its own end, by    *)
(* the timeout of that handshake.                                          *)
FairConn(c) ==
    /\ WF_vars(Server(Accept(c))) /\ WF_vars(Server(HandleMessage(c)))
    /\ WF_vars((c \notin cut \/ srv[c] = "closing") /\ Server(SocketCloses(c)))
FairPage(p) ==
    /\ SF_vars(Reconnect(p)) /\ WF_vars(OnOpen(p)) /\ WF_vars(Heartbeat(p))
    /\ WF_vars(ReceivePeerList(p) \/ ReceivePeerLeft(p) \/ ReceiveOther(p) \/ OnClose(p))
FairSpec ==
    /\ Spec
    /\ \A c \in Conns : FairConn(c)
    /\ \A p \in Pages : FairPage(p)
    /\ WF_vars(SweepStale) /\ WF_vars(\E d \in Devices : Server(Evict(d)))

-----------------------------------------------------------------------------
(* The state of the server, the network and the pages is of the types the  *)
(* code gives it.                                                          *)
TypeOK ==
    /\ CoordinatorTypeOK
    /\ ws \in [Pages -> Conns \cup {None}]
    /\ state \in [Pages -> {"connecting", "open", "reconnecting", "offline", "gone"}]
    /\ attempt \in [Pages -> 0..GiveUpAfter]
    /\ timer \in [Pages -> BOOLEAN]
    /\ peers \in [Pages -> SUBSET Devices]
    /\ scene \in Scenes
    /\ faults \in 0..MaxFaults /\ signals \in 0..MaxSignals

(* The registry and the sockets map always agree: a registered device has  *)
(* one open connection with a socket, and every socket is some registered  *)
(* device's.  The two maps are updated apart, in four handlers.            *)
RegistryMatchesSockets ==
    /\ \A d \in Devices : registry[d] # None =>
         /\ registry[d] \in sockets /\ srv[registry[d]] = "open"
         /\ deviceId[registry[d]] = d
    /\ \A c \in sockets : deviceId[c] # None /\ registry[deviceId[c]] = c

(* What a registered page shows, or will once it has read what is on its   *)
(* way, is who is registered now: the last list sent to it is current and  *)
(* no peer-left follows it.                                                *)
News(q) == {i \in DOMAIN q : q[i].type \in {"peer-list", "peer-left"}}
Registered(p) == ws[p] # None /\ registry[DeviceOf[p]] = ws[p]
NewsIsCurrent ==
    \A p \in Pages : Registered(p) /\ ws[p] \notin cut =>
      LET q == down[ws[p]]
          now == PeersExcept(registry, ws[p])
      IN \/ News(q) = {} /\ peers[p] = now
         \/ \E i \in News(q) : q[i] = PeerList(now) /\ \A j \in News(q) : j <= i

(* A page that shows itself connected is registered, is about to be, or is *)
(* about to learn that it is not: no handler leaves an open connection     *)
(* behind whose page the others cannot see.                                *)
Registering(c) == \E i \in DOMAIN up[c] : up[c][i].type = "register"
BeingClosed(c) == \E i \in DOMAIN down[c] : down[c][i].type = "close"
NoSilentOrphan ==
    \A p \in Pages \ scene.newer : IsOpen(p) /\ ws[p] \notin cut =>
      Registered(p) \/ Registering(ws[p]) \/ BeingClosed(ws[p])

(* When nothing more goes wrong every page comes to rest, and those that   *)
(* are connected, and of a version the server knows, show exactly the      *)
(* other registered devices.                                               *)
AtRest(p) ==
    \/ state[p] \in {"offline", "gone"}
    \/ state[p] = "open" /\ p \in scene.newer
    \/ state[p] = "open" /\ Registered(p) /\ peers[p] = PeersExcept(registry, ws[p])
Settles == <>[](\A p \in Pages : AtRest(p))

(* A device whose connection the network has cut without either end being  *)
(* told does not stay registered on it, nor does its socket.               *)
SilentIsEvicted == <>[](cut \cap sockets = {})

(* A signal is passed on: when the server takes one from the connection a  *)
(* registered page uses, and a page of the device it is for is registered  *)
(* on a working connection, that page gets it, under the sender's id.      *)
SignalsArrive ==
    [][\A p, q \in Pages :
         /\ ws[p] # None /\ up[ws[p]] # <<>>
         /\ Head(up[ws[p]]) = [type |-> "signal", to |-> DeviceOf[q]]
         /\ up'[ws[p]] = Tail(up[ws[p]]) /\ ws[p] \notin cut' /\ srv'[ws[p]] # "closed"
         /\ Registered(p) /\ Registered(q) /\ IsOpen(q) /\ ws[q] \notin cut
         => down'[ws[q]] = Append(down[ws[q]], Signal(DeviceOf[p]))]_vars

-----------------------------------------------------------------------------
(* What the documentation says and the code does not do.                   *)

(* server.ts:112 takes the connection a new registration replaces to be a  *)
(* stale one: it is not the one a page of that device is using.            *)
ReplacedIsStale ==
    [][\A d \in Devices :
         registry[d] # None /\ registry'[d] \notin {None, registry[d]}
           => ~\E p \in Pages : ws[p] = registry[d] /\ IsOpen(p)]_vars
=============================================================================
