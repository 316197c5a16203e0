------------------------------- MODULE Election -------------------------------
(***************************************************************************)
(* How laptops find or become the coordinator: coordinator/src/election.ts *)
(* and the part of server.ts that binds the port.                          *)
(*                                                                         *)
(* A laptop here is one run of the program, the desktop app or the cli;    *)
(* several may run on one host, and the port belongs to the host.  Every   *)
(* run uses the same port number, so the comparison of ports in the "down" *)
(* handler never tells two records apart and is left out.                  *)
(*                                                                         *)
(* mDNS is external: a record is published and withdrawn, a browser tells  *)
(* its owner of every record it sees come ("up") and of every one it had   *)
(* seen that is gone ("down"), in any order and with any delay.  All       *)
(* records have the one name 'Anydrop Coordinator' (mdns.ts 52); here each *)
(* run has a record of its own, that of its host.                          *)
(*                                                                         *)
(* A definition called a mutated form is one a mistake in the code would   *)
(* give.  It stands before the definition it varies and nothing uses it.   *)
(***************************************************************************)
EXTENDS Naturals, FiniteSets

CONSTANTS
    Laptops,       \* runs of the program
    Hosts,         \* machines
    HostOf,        \* the machine of each run
    NumAddresses,  \* the addresses a host binds, in the order of listBindAddresses
    Lossy,         \* a probe may hear nothing although a record is published
    None           \* no coordinator

ASSUME HostAssumption == HostOf \in [Laptops -> Hosts]
ASSUME AddressAssumption == NumAddresses \in Nat \ {0}
ASSUME NoneIsNoLaptop == None \notin Laptops
ASSUME LocalhostIsNoHost == "localhost" \notin Hosts \cup {None}
ASSUME NoneIsNoHost == None \notin Hosts

VARIABLES
    phase,      \* the await runElection or attemptFailover is in
    watching,   \* the continuous watch has been started
    heard,      \* the records its browser has seen come and not go
    role, epoch, tracked,
    notified,   \* lastNotifiedHost
    claim,      \* nextEpoch of tryBecomeCoordinator
    next,       \* the address startCoordinatorServer listens on next
    refused,    \* one of its listens has failed
    port,       \* the run that listens on each address of a host
    published   \* the epoch in the record of each run, 0 without a record

vars == <<phase, watching, heard, role, epoch, tracked, notified, claim, next,
          refused, port, published>>

Addresses == 1..NumAddresses
Phases == {"off", "probe", "bind", "recheck", "idle", "jitter", "gone"}

Init ==
    /\ phase = [l \in Laptops |-> "off"]
    /\ watching = [l \in Laptops |-> FALSE]
    /\ heard = [l \in Laptops |-> {}]
    /\ role = [l \in Laptops |-> "client"]
    /\ epoch = [l \in Laptops |-> 0]
    /\ tracked = [l \in Laptops |-> None]
    /\ notified = [l \in Laptops |-> None]
    /\ claim = [l \in Laptops |-> 0]
    /\ next = [l \in Laptops |-> 1]
    /\ refused = [l \in Laptops |-> FALSE]
    /\ port = [h \in Hosts |-> [k \in Addresses |-> None]]
    /\ published = [l \in Laptops |-> 0]

-----------------------------------------------------------------------------
Advertised == {l \in Laptops : published[l] > 0}
Visible(l) == Advertised \ {l}

(* attemptingFailover: from the "down" event to the finally block.         *)
AttemptingFailover(l) ==
    watching[l] /\ phase[l] \in {"jitter", "bind", "recheck"}

(* The host the page beside this laptop should connect to.                 *)
CoordinatorHost(l) ==
    IF role[l] = "coordinator" THEN "localhost"
    ELSE IF tracked[l] = None THEN None ELSE HostOf[tracked[l]]

NotifyIfHostChanged(l) == notified' = [notified EXCEPT ![l] = CoordinatorHost(l)']

(* What is found becomes the coordinator this laptop follows.              *)
Track(l, r) ==
    /\ tracked' = [tracked EXCEPT ![l] = r]
    /\ epoch' = [epoch EXCEPT ![l] = published[r]]

SettlesUntold(l) ==  \* mutated form: only runElection's caller looks
    /\ phase' = [phase EXCEPT ![l] = "idle"]
    /\ watching' = [watching EXCEPT ![l] = TRUE]
    /\ IF watching[l] THEN UNCHANGED notified ELSE NotifyIfHostChanged(l)

(* The end of the initial probe or of a failover.  The first time the      *)
(* watch starts here, with a browser that has seen nothing yet.            *)
Settles(l) ==
    /\ phase' = [phase EXCEPT ![l] = "idle"]
    /\ watching' = [watching EXCEPT ![l] = TRUE]
    /\ NotifyIfHostChanged(l)

-----------------------------------------------------------------------------
Start(l) ==
    /\ phase[l] = "off"
    /\ phase' = [phase EXCEPT ![l] = "probe"]
    /\ UNCHANGED <<watching, heard, role, epoch, tracked, notified, claim, next,
                   refused, port, published>>

(* A probe is answered, the first one or the one after a failed bind.      *)
ProbeAnswered(l) ==
    /\ phase[l] \in {"probe", "recheck"}
    /\ \E r \in Visible(l) : Track(l, r)
    /\ UNCHANGED role
    /\ Settles(l)
    /\ UNCHANGED <<heard, claim, next, refused, port, published>>

Silence(l) == Lossy \/ Visible(l) = {}

(* tryBecomeCoordinator is called: the server listens on each address in   *)
(* turn, and goes on when one of them is refused.                          *)
BeginBind(l, e) ==
    /\ phase' = [phase EXCEPT ![l] = "bind"]
    /\ claim' = [claim EXCEPT ![l] = e]
    /\ refused' = [refused EXCEPT ![l] = FALSE]
    /\ UNCHANGED <<watching, heard, role, epoch, tracked, notified, next, port,
                   published>>

ProbeSilent(l) == phase[l] = "probe" /\ Silence(l) /\ BeginBind(l, 1)

RecheckForgets(l) ==  \* mutated form: tracked becomes what the recheck found
    /\ phase[l] = "recheck"
    /\ Silence(l)
    /\ tracked' = [tracked EXCEPT ![l] = None]
    /\ UNCHANGED <<role, epoch>>
    /\ Settles(l)
    /\ UNCHANGED <<heard, claim, next, refused, port, published>>

(* Nothing answers the probe after a failed bind: it is not tried again.   *)
RecheckSilent(l) ==
    /\ phase[l] = "recheck"
    /\ Silence(l)
    /\ UNCHANGED <<role, epoch, tracked>>
    /\ Settles(l)
    /\ UNCHANGED <<heard, claim, next, refused, port, published>>

-----------------------------------------------------------------------------
(* One listen() of startCoordinatorServer.                                 *)
Free(l) == port[HostOf[l]][next[l]] = None

Listen(l) ==
    port' = IF Free(l) THEN [port EXCEPT ![HostOf[l]][next[l]] = l] ELSE port

BeyondLast(l) == next[l] > NumAddresses  \* mutated form of LastAddress
LastAddress(l) == next[l] = NumAddresses

MoreAddresses(l) ==
    /\ phase[l] = "bind" /\ ~LastAddress(l)
    /\ Listen(l)
    /\ next' = [next EXCEPT ![l] = @ + 1]
    /\ refused' = [refused EXCEPT ![l] = @ \/ ~Free(l)]
    /\ UNCHANGED <<phase, watching, heard, role, epoch, tracked, notified, claim,
                   published>>

(* The promise of startCoordinatorServer resolves when every listen has    *)
(* succeeded.                                                              *)
SomeListening(l) ==  \* mutated form: the first "listening" event resolves it
    Free(l) \/ \E k \in Addresses : port[HostOf[l]][k] = l
AllListening(l) == Free(l) /\ ~refused[l]

BecomeCoordinator(l) ==
    /\ phase[l] = "bind" /\ LastAddress(l) /\ AllListening(l)
    /\ Listen(l)
    /\ next' = [next EXCEPT ![l] = 1]
    /\ role' = [role EXCEPT ![l] = "coordinator"]
    /\ epoch' = [epoch EXCEPT ![l] = claim[l]]
    /\ published' = [published EXCEPT ![l] = claim[l]]
    /\ UNCHANGED tracked
    /\ Settles(l)
    /\ UNCHANGED <<heard, claim, refused>>

(* The addresses that were bound stay bound.                               *)
BindFails(l) ==
    /\ phase[l] = "bind" /\ LastAddress(l) /\ ~AllListening(l)
    /\ Listen(l)
    /\ next' = [next EXCEPT ![l] = 1]
    /\ phase' = [phase EXCEPT ![l] = "recheck"]
    /\ UNCHANGED <<watching, heard, role, epoch, tracked, notified, claim, refused,
                   published>>

-----------------------------------------------------------------------------
(* The continuous watch.                                                   *)
UpFollows(l, r) ==  \* mutated form: a coordinator follows what it hears
    /\ Track(l, r)
    /\ NotifyIfHostChanged(l)

FollowIfClient(l, r) ==
    \/ role[l] = "coordinator" /\ UNCHANGED <<tracked, epoch, notified>>
    \/ role[l] = "client" /\ Track(l, r) /\ NotifyIfHostChanged(l)

Up(l) ==
    /\ watching[l]
    /\ UNCHANGED role
    /\ \E r \in Visible(l) \ heard[l] :
         /\ heard' = [heard EXCEPT ![l] = @ \cup {r}]
         /\ FollowIfClient(l, r)
    /\ UNCHANGED <<phase, watching, claim, next, refused, port, published>>

StartsOnOthers(l, r) ==  \* mutated form: the comparison with tracked inverted
    role[l] = "client" /\ ~AttemptingFailover(l) /\ r # tracked[l]
StartsFailover(l, r) == role[l] = "client" /\ ~AttemptingFailover(l)

Down(l) ==
    /\ watching[l]
    /\ \E r \in heard[l] \ Advertised :
         /\ heard' = [heard EXCEPT ![l] = @ \ {r}]
         /\ phase' = [phase EXCEPT ![l] = IF StartsFailover(l, r) THEN "jitter" ELSE @]
    /\ UNCHANGED <<watching, role, epoch, tracked, notified, claim, next, refused,
                   port, published>>

JitterEnds(l) == phase[l] = "jitter" /\ BeginBind(l, epoch[l] + 1)

(* stop(): the sockets are closed and the record is withdrawn.  A program  *)
(* that dies without it withdraws nothing, and is not modelled.            *)
Leave(l) ==
    /\ phase[l] \notin {"off", "gone"}
    /\ phase' = [phase EXCEPT ![l] = "gone"]
    /\ watching' = [watching EXCEPT ![l] = FALSE]
    /\ heard' = [heard EXCEPT ![l] = {}]
    /\ role' = [role EXCEPT ![l] = "client"]
    /\ port' = [h \in Hosts |-> [k \in Addresses |->
                  IF port[h][k] = l THEN None ELSE port[h][k]]]
    /\ published' = [published EXCEPT ![l] = 0]
    /\ UNCHANGED <<epoch, tracked, notified, claim, next, refused>>

Step(l) ==
    \/ ProbeAnswered(l) \/ ProbeSilent(l) \/ RecheckSilent(l)
    \/ MoreAddresses(l) \/ BecomeCoordinator(l) \/ BindFails(l)
    \/ Up(l) \/ Down(l) \/ JitterEnds(l)

Next == \E l \in Laptops : Start(l) \/ Step(l) \/ Leave(l)

Spec == Init /\ [][Next]_vars

(* Timers fire, probes end, listens complete, and a browser reports every  *)
(* record in the end.  Whether a laptop is started or left is its user's.  *)
Fairness == \A l \in Laptops :
    /\ WF_vars(ProbeAnswered(l) \/ ProbeSilent(l) \/ RecheckSilent(l))
    /\ WF_vars(MoreAddresses(l) \/ BecomeCoordinator(l) \/ BindFails(l))
    /\ WF_vars(Up(l))
    /\ WF_vars(Down(l))
    /\ WF_vars(JitterEnds(l))

FairSpec == Spec /\ Fairness

-----------------------------------------------------------------------------
(* The values the variables take.                                          *)
TypeOK ==
    /\ phase \in [Laptops -> Phases]
    /\ watching \in [Laptops -> BOOLEAN]
    /\ heard \in [Laptops -> SUBSET Laptops]
    /\ role \in [Laptops -> {"client", "coordinator"}]
    /\ epoch \in [Laptops -> Nat]
    /\ tracked \in [Laptops -> Laptops \cup {None}]
    /\ notified \in [Laptops -> Hosts \cup {None, "localhost"}]
    /\ claim \in [Laptops -> Nat]
    /\ next \in [Laptops -> Addresses]
    /\ refused \in [Laptops -> BOOLEAN]
    /\ port \in [Hosts -> [Addresses -> Laptops \cup {None}]]
    /\ published \in [Laptops -> Nat]

(* First bind wins, on one host: of the runs there at most one is the      *)
(* coordinator, even when they bind the host's addresses at the same time  *)
(* and each gets some of them.                                             *)
OneCoordinatorPerHost ==
    \A l, m \in Laptops :
      role[l] = "coordinator" /\ role[m] = "coordinator" /\ HostOf[l] = HostOf[m]
        => l = m

(* The epoch a coordinator announces over mDNS stays the one it reports    *)
(* itself, whatever records of others its watch goes on hearing.           *)
AdvertisedIsTrue ==
    \A l \in Laptops :
      /\ role[l] = "coordinator" => published[l] = epoch[l] /\ epoch[l] > 0
      /\ role[l] = "client" => published[l] = 0

(* onHostChange has told the page of the host coordinatorHost() answers,   *)
(* through every race of watch, failover and recheck.                      *)
PageFollowsHost ==
    \A l \in Laptops : watching[l] => notified[l] = CoordinatorHost(l)

(* A laptop alone on its host that has seen the record of the coordinator  *)
(* it follows, and then loses that record, takes its place or follows      *)
(* another one.                                                            *)
Lost(l) ==
    /\ watching[l] /\ role[l] = "client" /\ ~AttemptingFailover(l)
    /\ tracked[l] \in heard[l] \ Advertised
LossIsRepaired ==
    \A l \in Laptops :
      (\A m \in Laptops \ {l} : HostOf[m] # HostOf[l]) =>
        (Lost(l) ~> (\/ role[l] = "coordinator" \/ phase[l] = "gone"
                     \/ tracked[l] \in Advertised))

(* What each run promises the program around it (HostChanges): once the    *)
(* promise of runElection has settled, the host it gives changes only to   *)
(* another one that is there, never back to none, and no more once the     *)
(* laptop has become the coordinator, whatever its watch, its failover and *)
(* the probe after a failed bind find in between.                          *)
StatusOf(l) ==
    IF phase[l] = "gone" THEN "ended" ELSE IF watching[l] THEN "watching" ELSE "starting"
Told(l) == INSTANCE HostChanges WITH status <- StatusOf(l), host <- notified[l]
ShellsAreTold ==
    /\ \A l \in Laptops : Told(l)!Init
    /\ [][\A l \in Laptops : [Told(l)!Next]_<<StatusOf(l), notified[l]>>]_vars

(* After a loss a laptop looks for a coordinator again, and one that finds *)
(* a winner follows it: it does not go on to bind.                         *)
JoinsTheWinner ==
    [][\A l \in Laptops :
         phase[l] = "jitter" /\ phase'[l] = "bind" => tracked[l] \notin Advertised]_vars
=============================================================================
