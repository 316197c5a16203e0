---------------------------- MODULE ElectionProofs ----------------------------
(***************************************************************************)
(* What holds of Election for any number of laptops, hosts and addresses.  *)
(*                                                                         *)
(* That one host has one coordinator is not inductive: it holds because a  *)
(* coordinator listens on every address, because a laptop that is binding  *)
(* and was never refused listens on all it has tried, and because it tries *)
(* all of them from the first on.  IInv adds these facts.                  *)
(***************************************************************************)
EXTENDS Election, TLAPS

(* A coordinator is past every await and listens on all its addresses.     *)
Listening ==
    \A l \in Laptops : role[l] = "coordinator" =>
      phase[l] = "idle" /\ \A k \in Addresses : port[HostOf[l]][k] = l

(* A laptop binds the addresses in order; unless it is refused it gets     *)
(* all it has tried.                                                       *)
Binding ==
    \A l \in Laptops :
      /\ phase[l] \notin {"bind", "gone"} => next[l] = 1
      /\ phase[l] = "bind" =>
           /\ claim[l] > 0
           /\ ~refused[l] => \A k \in Addresses : k < next[l] => port[HostOf[l]][k] = l

(* A run that has not come through its first probe, or is over, watches    *)
(* nothing.                                                                *)
Watching == \A l \in Laptops : watching[l] => phase[l] \notin {"off", "probe", "gone"}

IInv ==
    /\ TypeOK /\ Listening /\ Binding /\ Watching
    /\ AdvertisedIsTrue /\ PageFollowsHost

USE HostAssumption, AddressAssumption, NoneIsNoLaptop DEF Addresses, Phases

LEMMA InitEstablishes == Init => IInv
BY DEF Init, IInv, TypeOK, Listening, Binding, Watching, AdvertisedIsTrue,
       PageFollowsHost

(* A listen takes nothing from another laptop, and what it is given is the *)
(* address it tried.                                                       *)
LEMMA ListenTakesFree ==
    ASSUME TypeOK, NEW l \in Laptops, Listen(l)
    PROVE  /\ port' \in [Hosts -> [Addresses -> Laptops \cup {None}]]
           /\ \A h \in Hosts, k \in Addresses :
                port[h][k] # None => port'[h][k] = port[h][k]
           /\ Free(l) => port'[HostOf[l]][next[l]] = l
BY DEF TypeOK, Listen, Free

(* So what others hold of their ports is kept by any listen.               *)
LEMMA HeldStays ==
    ASSUME TypeOK, NEW l \in Laptops, Listen(l),
           NEW m \in Laptops, NEW k \in Addresses, port[HostOf[m]][k] = m
    PROVE  port'[HostOf[m]][k] = m
<1>1. HostOf[m] \in Hosts /\ m # None
  OBVIOUS
<1>2. port[HostOf[m]][k] # None
  BY <1>1
<1> QED BY <1>1, <1>2, ListenTakesFree

LEMMA TypeStep ==
    ASSUME IInv, NEW l \in Laptops, Start(l) \/ Step(l) \/ Leave(l)
    PROVE  TypeOK'
<1> USE DEF IInv, TypeOK
<1>1. CASE Start(l)
  BY <1>1 DEF Start
<1>2. CASE ProbeAnswered(l)
  BY SMTT(30), <1>2 DEF ProbeAnswered, Visible, Advertised, Track, Settles, NotifyIfHostChanged,
              CoordinatorHost
<1>3. CASE ProbeSilent(l)
  BY <1>3 DEF ProbeSilent, BeginBind
<1>4. CASE RecheckSilent(l)
  BY <1>4 DEF RecheckSilent, Settles, NotifyIfHostChanged, CoordinatorHost
<1>5. CASE MoreAddresses(l)
  <2>1. next[l] + 1 \in Addresses
    BY <1>5 DEF MoreAddresses, LastAddress
  <2>2. port' \in [Hosts -> [Addresses -> Laptops \cup {None}]]
    BY <1>5, ListenTakesFree DEF MoreAddresses
  <2> QED BY <1>5, <2>1, <2>2 DEF MoreAddresses
<1>6. CASE BecomeCoordinator(l)
  <2>1. port' \in [Hosts -> [Addresses -> Laptops \cup {None}]]
    BY <1>6, ListenTakesFree DEF BecomeCoordinator
  <2> QED BY <1>6, <2>1 DEF BecomeCoordinator, Settles, NotifyIfHostChanged, CoordinatorHost
<1>7. CASE BindFails(l)
  <2>1. port' \in [Hosts -> [Addresses -> Laptops \cup {None}]]
    BY <1>7, ListenTakesFree DEF BindFails
  <2> QED BY <1>7, <2>1 DEF BindFails
<1>8. CASE Up(l)
  <2>1. PICK r \in Laptops :
          /\ heard' = [heard EXCEPT ![l] = @ \cup {r}]
          /\ FollowIfClient(l, r)
    BY <1>8 DEF Up, Visible, Advertised
  <2>2. CASE role[l] = "coordinator" /\ UNCHANGED <<tracked, epoch, notified>>
    BY <1>8, <2>1, <2>2 DEF Up
  <2>3. CASE role[l] = "client" /\ Track(l, r) /\ NotifyIfHostChanged(l)
    BY <1>8, <2>1, <2>3 DEF Up, Track, NotifyIfHostChanged, CoordinatorHost
  <2> QED BY <2>1, <2>2, <2>3 DEF FollowIfClient
<1>9. CASE Down(l)
  BY <1>9 DEF Down
<1>10. CASE JitterEnds(l)
  BY <1>10 DEF JitterEnds, BeginBind
<1>11. CASE Leave(l)
  BY <1>11 DEF Leave
<1> QED BY <1>1, <1>2, <1>3, <1>4, <1>5, <1>6, <1>7, <1>8, <1>9, <1>10, <1>11 DEF Step

LEMMA ListeningStep ==
    ASSUME IInv, NEW l \in Laptops, Start(l) \/ Step(l) \/ Leave(l)
    PROVE  Listening'
<1> USE DEF IInv, TypeOK, Listening
<1>1. CASE Start(l)
  BY <1>1 DEF Start
<1>2. CASE ProbeAnswered(l)
  BY <1>2 DEF ProbeAnswered, Settles
<1>3. CASE ProbeSilent(l)
  BY <1>3 DEF ProbeSilent, BeginBind
<1>4. CASE RecheckSilent(l)
  BY <1>4 DEF RecheckSilent, Settles
<1>5. CASE MoreAddresses(l)
  <2>1. \A m \in Laptops, k \in Addresses :
          port[HostOf[m]][k] = m => port'[HostOf[m]][k] = m
    BY <1>5, HeldStays DEF MoreAddresses
  <2>2. UNCHANGED <<phase, role>>
    BY <1>5 DEF MoreAddresses
  <2> QED BY <2>1, <2>2
<1>6. CASE BecomeCoordinator(l)
  <2>1. \A k \in Addresses : port'[HostOf[l]][k] = l
    <3> SUFFICES ASSUME NEW k \in Addresses PROVE port'[HostOf[l]][k] = l
      OBVIOUS
    <3>1. CASE k = next[l]
      BY <1>6, <3>1, ListenTakesFree DEF BecomeCoordinator, AllListening
    <3>2. CASE k # next[l]
      <4>1. port[HostOf[l]][k] = l
        BY <1>6, <3>2 DEF BecomeCoordinator, AllListening, LastAddress, Binding
      <4>2. Listen(l)
        BY <1>6 DEF BecomeCoordinator
      <4> QED BY <4>1, <4>2, HeldStays
    <3> QED BY <3>1, <3>2
  <2>2. phase' = [phase EXCEPT ![l] = "idle"] /\ role' = [role EXCEPT ![l] = "coordinator"]
    BY <1>6 DEF BecomeCoordinator, Settles
  <2>3. \A m \in Laptops, k \in Addresses :
          port[HostOf[m]][k] = m => port'[HostOf[m]][k] = m
    BY <1>6, HeldStays DEF BecomeCoordinator
  <2> SUFFICES ASSUME NEW m \in Laptops, role'[m] = "coordinator"
               PROVE  phase'[m] = "idle" /\ \A k \in Addresses : port'[HostOf[m]][k] = m
    BY DEF Listening
  <2>4. CASE m = l
    BY <2>1, <2>2, <2>4
  <2>5. CASE m # l
    <3>1. role[m] = "coordinator" /\ phase'[m] = phase[m]
      BY <2>2, <2>5
    <3> QED BY <2>3, <3>1
  <2> QED BY <2>4, <2>5
<1>7. CASE BindFails(l)
  <2>1. \A m \in Laptops, k \in Addresses :
          port[HostOf[m]][k] = m => port'[HostOf[m]][k] = m
    BY <1>7, HeldStays DEF BindFails
  <2>2. /\ phase' = [phase EXCEPT ![l] = "recheck"] /\ role' = role
        /\ phase[l] = "bind"
    BY <1>7 DEF BindFails
  <2> SUFFICES ASSUME NEW m \in Laptops, role'[m] = "coordinator"
               PROVE  phase'[m] = "idle" /\ \A k \in Addresses : port'[HostOf[m]][k] = m
    BY DEF Listening
  <2>3. role[m] = "coordinator" /\ phase[m] = "idle"
    BY <2>2
  <2>4. m # l
    BY <2>2, <2>3
  <2>5. phase'[m] = phase[m]
    BY <2>2, <2>4
  <2> QED BY <2>1, <2>3, <2>5
<1>8. CASE Up(l)
  BY <1>8 DEF Up
<1>9. CASE Down(l)
  BY SMTT(30), <1>9 DEF Down, StartsFailover
<1>10. CASE JitterEnds(l)
  BY <1>10 DEF JitterEnds, BeginBind
<1>11. CASE Leave(l)
  BY <1>11 DEF Leave
<1> QED BY <1>1, <1>2, <1>3, <1>4, <1>5, <1>6, <1>7, <1>8, <1>9, <1>10, <1>11 DEF Step

LEMMA BindingStep ==
    ASSUME IInv, NEW l \in Laptops, Start(l) \/ Step(l) \/ Leave(l)
    PROVE  Binding'
<1> USE DEF IInv, TypeOK, Binding
<1>1. CASE Start(l)
  BY <1>1 DEF Start
<1>2. CASE ProbeAnswered(l)
  BY <1>2 DEF ProbeAnswered, Settles
<1>3. CASE ProbeSilent(l)
  BY <1>3 DEF ProbeSilent, BeginBind
<1>4. CASE RecheckSilent(l)
  BY <1>4 DEF RecheckSilent, Settles
<1>5. CASE MoreAddresses(l)
  <2>1. \A m \in Laptops, k \in Addresses :
          port[HostOf[m]][k] = m => port'[HostOf[m]][k] = m
    BY <1>5, HeldStays DEF MoreAddresses
  <2>2. Free(l) => port'[HostOf[l]][next[l]] = l
    BY <1>5, ListenTakesFree DEF MoreAddresses
  <2>3. /\ next' = [next EXCEPT ![l] = @ + 1]
        /\ refused' = [refused EXCEPT ![l] = @ \/ ~Free(l)]
        /\ UNCHANGED <<phase, claim>>
    BY <1>5 DEF MoreAddresses
  <2>4. ASSUME ~refused'[l], NEW k \in Addresses, k < next'[l]
        PROVE  port'[HostOf[l]][k] = l
    <3>1. ~refused[l] /\ Free(l) /\ phase[l] = "bind"
      BY ZenonT(60), <1>5, <2>3, <2>4 DEF MoreAddresses
    <3>2. next'[l] = next[l] + 1 /\ next[l] \in Nat /\ k \in Nat
      BY <2>3
    <3>3. CASE k < next[l]
      BY <2>1, <3>1, <3>3
    <3>4. CASE k = next[l]
      BY <2>2, <3>1, <3>4
    <3> QED BY <2>4, <3>2, <3>3, <3>4
  <2>5. \A m \in Laptops \ {l} : next'[m] = next[m] /\ refused'[m] = refused[m]
    BY <2>3
  <2>6. phase[l] = "bind"
    BY <1>5 DEF MoreAddresses
  <2> SUFFICES ASSUME NEW m \in Laptops
               PROVE  /\ phase'[m] \notin {"bind", "gone"} => next'[m] = 1
                      /\ phase'[m] = "bind" =>
                           /\ claim'[m] > 0
                           /\ ~refused'[m] => \A k \in Addresses :
                                k < next'[m] => port'[HostOf[m]][k] = m
    BY DEF Binding
  <2>7. phase' = phase /\ claim' = claim
    BY <2>3
  <2>8. CASE m = l
    BY <2>4, <2>6, <2>7, <2>8
  <2>9. CASE m # l
    BY <2>1, <2>5, <2>7, <2>9
  <2> QED BY <2>8, <2>9
<1>6. CASE BecomeCoordinator(l)
  <2>1. \A m \in Laptops, k \in Addresses :
          port[HostOf[m]][k] = m => port'[HostOf[m]][k] = m
    BY <1>6, HeldStays DEF BecomeCoordinator
  <2> QED BY ZenonT(60), <1>6, <2>1 DEF BecomeCoordinator, Settles
<1>7. CASE BindFails(l)
  <2>1. \A m \in Laptops, k \in Addresses :
          port[HostOf[m]][k] = m => port'[HostOf[m]][k] = m
    BY <1>7, HeldStays DEF BindFails
  <2> QED BY <1>7, <2>1 DEF BindFails
<1>8. CASE Up(l)
  BY <1>8 DEF Up
<1>9. CASE Down(l)
  <2>1. watching[l] /\ phase' = [phase EXCEPT ![l] = phase'[l]]
    BY <1>9 DEF Down
  <2>2. phase'[l] = phase[l] \/ (phase'[l] = "jitter" /\ phase[l] \notin {"bind", "gone"})
    BY <1>9 DEF Down, StartsFailover, AttemptingFailover, Watching
  <2> QED BY <1>9, <2>1, <2>2 DEF Down
<1>10. CASE JitterEnds(l)
  BY <1>10 DEF JitterEnds, BeginBind
<1>11. CASE Leave(l)
  BY <1>11 DEF Leave
<1> QED BY <1>1, <1>2, <1>3, <1>4, <1>5, <1>6, <1>7, <1>8, <1>9, <1>10, <1>11 DEF Step

LEMMA WatchingStep ==
    ASSUME IInv, NEW l \in Laptops, Start(l) \/ Step(l) \/ Leave(l)
    PROVE  Watching'
<1> USE DEF IInv, TypeOK, Watching
<1>1. CASE Start(l)
  BY <1>1 DEF Start
<1>2. CASE ProbeAnswered(l)
  BY <1>2 DEF ProbeAnswered, Settles
<1>3. CASE ProbeSilent(l)
  BY <1>3 DEF ProbeSilent, BeginBind
<1>4. CASE RecheckSilent(l)
  BY <1>4 DEF RecheckSilent, Settles
<1>5. CASE MoreAddresses(l)
  BY <1>5 DEF MoreAddresses
<1>6. CASE BecomeCoordinator(l)
  BY <1>6 DEF BecomeCoordinator, Settles
<1>7. CASE BindFails(l)
  BY <1>7 DEF BindFails
<1>8. CASE Up(l)
  BY <1>8 DEF Up
<1>9. CASE Down(l)
  BY <1>9 DEF Down
<1>10. CASE JitterEnds(l)
  BY <1>10 DEF JitterEnds, BeginBind
<1>11. CASE Leave(l)
  BY <1>11 DEF Leave
<1> QED BY <1>1, <1>2, <1>3, <1>4, <1>5, <1>6, <1>7, <1>8, <1>9, <1>10, <1>11 DEF Step

LEMMA AdvertisedStep ==
    ASSUME IInv, NEW l \in Laptops, Start(l) \/ Step(l) \/ Leave(l)
    PROVE  AdvertisedIsTrue'
<1> USE DEF IInv, TypeOK, AdvertisedIsTrue
<1>1. CASE Start(l)
  BY <1>1 DEF Start
<1>2. CASE ProbeAnswered(l)
  BY <1>2 DEF ProbeAnswered, Track, Listening
<1>3. CASE ProbeSilent(l)
  BY <1>3 DEF ProbeSilent, BeginBind
<1>4. CASE RecheckSilent(l)
  BY <1>4 DEF RecheckSilent
<1>5. CASE MoreAddresses(l)
  BY <1>5 DEF MoreAddresses
<1>6. CASE BecomeCoordinator(l)
  BY <1>6 DEF BecomeCoordinator, Binding
<1>7. CASE BindFails(l)
  BY <1>7 DEF BindFails
<1>8. CASE Up(l)
  BY <1>8 DEF Up, FollowIfClient, Track
<1>9. CASE Down(l)
  BY <1>9 DEF Down
<1>10. CASE JitterEnds(l)
  BY <1>10 DEF JitterEnds, BeginBind
<1>11. CASE Leave(l)
  BY <1>11 DEF Leave
<1> QED BY <1>1, <1>2, <1>3, <1>4, <1>5, <1>6, <1>7, <1>8, <1>9, <1>10, <1>11 DEF Step

LEMMA PageStep ==
    ASSUME IInv, NEW l \in Laptops, Start(l) \/ Step(l) \/ Leave(l)
    PROVE  PageFollowsHost'
<1> USE DEF IInv, TypeOK, PageFollowsHost, CoordinatorHost
<1>1. CASE Start(l)
  BY <1>1 DEF Start
<1>2. CASE ProbeAnswered(l)
  BY <1>2 DEF ProbeAnswered, Track, Settles, NotifyIfHostChanged
<1>3. CASE ProbeSilent(l)
  BY <1>3 DEF ProbeSilent, BeginBind
<1>4. CASE RecheckSilent(l)
  BY <1>4 DEF RecheckSilent, Settles, NotifyIfHostChanged
<1>5. CASE MoreAddresses(l)
  BY <1>5 DEF MoreAddresses
<1>6. CASE BecomeCoordinator(l)
  BY <1>6 DEF BecomeCoordinator, Settles, NotifyIfHostChanged
<1>7. CASE BindFails(l)
  BY <1>7 DEF BindFails
<1>8. CASE Up(l)
  BY <1>8 DEF Up, FollowIfClient, Track, NotifyIfHostChanged
<1>9. CASE Down(l)
  BY <1>9 DEF Down
<1>10. CASE JitterEnds(l)
  BY <1>10 DEF JitterEnds, BeginBind
<1>11. CASE Leave(l)
  BY <1>11 DEF Leave
<1> QED BY <1>1, <1>2, <1>3, <1>4, <1>5, <1>6, <1>7, <1>8, <1>9, <1>10, <1>11 DEF Step

LEMMA StutterPreserves == IInv /\ UNCHANGED vars => IInv'
BY DEF vars, IInv, TypeOK, Listening, Binding, Watching, AdvertisedIsTrue,
       PageFollowsHost, CoordinatorHost

LEMMA IInvHolds == Spec => []IInv
<1>1. IInv /\ [Next]_vars => IInv'
  <2> SUFFICES ASSUME IInv, [Next]_vars PROVE IInv'
    OBVIOUS
  <2>1. CASE UNCHANGED vars
    BY <2>1, StutterPreserves
  <2>2. ASSUME NEW l \in Laptops, Start(l) \/ Step(l) \/ Leave(l) PROVE IInv'
    BY <2>2, TypeStep, ListeningStep, BindingStep, WatchingStep, AdvertisedStep,
       PageStep DEF IInv
  <2> QED BY <2>1, <2>2 DEF Next
<1> QED BY InitEstablishes, <1>1, PTL DEF Spec

(* The variables keep their types: no address past the last is tried.      *)
THEOREM ElectionTypeCorrect == Spec => []TypeOK
<1>1. IInv => TypeOK
  BY DEF IInv
<1> QED BY IInvHolds, <1>1, PTL

(* First bind wins on every host, however many runs and addresses there    *)
(* are: two coordinators of one host would listen on the same address.     *)
THEOREM FirstBindWins == Spec => []OneCoordinatorPerHost
<1>1. IInv => OneCoordinatorPerHost
  <2>1. 1 \in Addresses
    OBVIOUS
  <2> QED BY <2>1 DEF IInv, Listening, OneCoordinatorPerHost
<1> QED BY IInvHolds, <1>1, PTL

(* A coordinator's record always carries its own epoch, and a run that is  *)
(* no coordinator has no record.                                           *)
THEOREM RecordsAreTrue == Spec => []AdvertisedIsTrue
<1>1. IInv => AdvertisedIsTrue
  BY DEF IInv
<1> QED BY IInvHolds, <1>1, PTL

(* The page of a watching laptop has been told its coordinator's host.     *)
THEOREM PageIsTold == Spec => []PageFollowsHost
<1>1. IInv => PageFollowsHost
  BY DEF IInv
<1> QED BY IInvHolds, <1>1, PTL

-----------------------------------------------------------------------------
(* Every run keeps the promise of HostChanges.                             *)

(* What a step does to the status and the host of the run it is a step of. *)
ToldNothing(l) == StatusOf(l)' = StatusOf(l) /\ notified'[l] = notified[l]
ToldReturn(l) == StatusOf(l) = "starting" /\ StatusOf(l)' = "watching"
ToldChange(l) ==
    /\ StatusOf(l) = "watching" /\ StatusOf(l)' = "watching"
    /\ notified[l] # "localhost" /\ notified'[l] # None
ToldEnd(l) == StatusOf(l) # "ended" /\ StatusOf(l)' = "ended" /\ notified'[l] = notified[l]
IsTold(l) == ToldNothing(l) \/ ToldReturn(l) \/ ToldChange(l) \/ ToldEnd(l)

LEMMA ClientHost ==
    ASSUME IInv, NEW l \in Laptops, watching[l], role[l] = "client"
    PROVE  notified[l] # "localhost"
<1>1. notified[l] = CoordinatorHost(l)
  BY DEF IInv, PageFollowsHost
<1>2. CoordinatorHost(l) \in Hosts \cup {None}
  BY DEF IInv, TypeOK, CoordinatorHost
<1> QED BY <1>1, <1>2, LocalhostIsNoHost

(* The end of a probe or a failover of a run that is not the coordinator.  *)
LEMMA SettlesTells ==
    ASSUME IInv, NEW l \in Laptops, phase[l] \in {"probe", "recheck", "bind"}, Settles(l),
           \/ CoordinatorHost(l)' # None
           \/ watching[l] => CoordinatorHost(l)' = notified[l]
    PROVE  IsTold(l)
<1>1. /\ phase[l] # "gone" /\ phase'[l] # "gone" /\ watching'[l]
      /\ notified'[l] = CoordinatorHost(l)'
  BY DEF Settles, NotifyIfHostChanged, IInv, TypeOK
<1>2. role[l] = "client"
  BY DEF IInv, Listening, TypeOK
<1>3. CASE ~watching[l]
  BY <1>1, <1>3 DEF IsTold, ToldReturn, StatusOf
<1>4. CASE watching[l]
  <2>1. notified[l] # "localhost"
    BY <1>2, <1>4, ClientHost
  <2> QED BY <1>1, <1>4, <2>1 DEF IsTold, ToldNothing, ToldChange, StatusOf
<1> QED BY <1>3, <1>4

LEMMA StepTells ==
    ASSUME IInv, NEW l \in Laptops, Start(l) \/ Step(l) \/ Leave(l)
    PROVE  IsTold(l)
<1> USE DEF IInv, TypeOK
<1>1. CASE Start(l)
  BY <1>1 DEF Start, IsTold, ToldNothing, StatusOf
<1>2. CASE ProbeAnswered(l)
  <2>1. CoordinatorHost(l)' # None
    BY <1>2, NoneIsNoHost DEF ProbeAnswered, Visible, Advertised, Track, CoordinatorHost, Listening
  <2> QED BY <1>2, <2>1, SettlesTells DEF ProbeAnswered
<1>3. CASE ProbeSilent(l)
  BY <1>3 DEF ProbeSilent, BeginBind, IsTold, ToldNothing, StatusOf
<1>4. CASE RecheckSilent(l)
  <2>1. watching[l] => CoordinatorHost(l)' = notified[l]
    BY <1>4 DEF RecheckSilent, CoordinatorHost, PageFollowsHost
  <2> QED BY <1>4, <2>1, SettlesTells DEF RecheckSilent
<1>5. CASE MoreAddresses(l)
  BY <1>5 DEF MoreAddresses, IsTold, ToldNothing, StatusOf
<1>6. CASE BecomeCoordinator(l)
  <2>1. CoordinatorHost(l)' # None
    BY <1>6, LocalhostIsNoHost DEF BecomeCoordinator, CoordinatorHost
  <2> QED BY <1>6, <2>1, SettlesTells DEF BecomeCoordinator
<1>7. CASE BindFails(l)
  BY <1>7 DEF BindFails, IsTold, ToldNothing, StatusOf
<1>8. CASE Up(l)
  <2>1. PICK r \in Laptops : FollowIfClient(l, r)
    BY <1>8 DEF Up, Visible, Advertised
  <2>2. phase' = phase /\ watching' = watching /\ watching[l] /\ phase[l] # "gone" /\ role' = role
    BY <1>8 DEF Up, Watching
  <2>3. CASE UNCHANGED notified
    BY <2>2, <2>3 DEF IsTold, ToldNothing, StatusOf
  <2>4. CASE role[l] = "client" /\ Track(l, r) /\ NotifyIfHostChanged(l)
    <3>1. notified'[l] # None
      BY <2>2, <2>4, NoneIsNoHost DEF Track, NotifyIfHostChanged, CoordinatorHost
    <3>2. notified[l] # "localhost"
      BY <2>2, <2>4, ClientHost
    <3> QED BY <2>2, <3>1, <3>2 DEF IsTold, ToldChange, StatusOf
  <2> QED BY <2>1, <2>3, <2>4 DEF FollowIfClient
<1>9. CASE Down(l)
  <2>1. /\ watching[l] /\ phase[l] # "gone" /\ phase'[l] # "gone"
        /\ UNCHANGED <<watching, notified>>
    BY <1>9 DEF Down, Watching
  <2> QED BY <2>1 DEF IsTold, ToldNothing, StatusOf
<1>10. CASE JitterEnds(l)
  BY <1>10 DEF JitterEnds, BeginBind, IsTold, ToldNothing, StatusOf
<1>11. CASE Leave(l)
  BY <1>11 DEF Leave, IsTold, ToldEnd, StatusOf
<1> QED BY <1>1, <1>2, <1>3, <1>4, <1>5, <1>6, <1>7, <1>8, <1>9, <1>10, <1>11 DEF Step

(* A step of one run tells the others nothing.                             *)
LEMMA OthersAreTold ==
    ASSUME IInv, NEW l \in Laptops, Start(l) \/ Step(l) \/ Leave(l), NEW m \in Laptops \ {l}
    PROVE  ToldNothing(m)
<1> SUFFICES /\ phase'[m] = phase[m] /\ watching'[m] = watching[m]
             /\ notified'[m] = notified[m]
  BY DEF ToldNothing, StatusOf
<1> USE DEF IInv, TypeOK, Start, Step, Leave, ProbeAnswered, ProbeSilent, RecheckSilent, BeginBind,
        MoreAddresses, BecomeCoordinator, BindFails, Up, FollowIfClient, Down, JitterEnds,
        Settles, NotifyIfHostChanged
<1>1. phase'[m] = phase[m]
  OBVIOUS
<1>2. watching'[m] = watching[m]
  OBVIOUS
<1>3. notified'[m] = notified[m]
  OBVIOUS
<1> QED BY <1>1, <1>2, <1>3

(* A run is told what HostChanges allows.                                  *)
LEMMA ToldIsAllowed ==
    ASSUME TypeOK, TypeOK', NEW l \in Laptops, IsTold(l)
    PROVE  [Told(l)!Next]_<<StatusOf(l), notified[l]>>
<1>1. notified[l] \in Hosts \cup {None, "localhost"} /\ notified'[l] \in Hosts \cup {None, "localhost"}
  BY DEF TypeOK
<1>2. CASE ToldNothing(l)
  BY <1>2 DEF ToldNothing
<1>3. CASE ToldReturn(l)
  BY <1>1, <1>3 DEF ToldReturn, Told!Next, Told!Returns
<1>4. CASE ToldChange(l)
  BY <1>1, <1>4 DEF ToldChange, Told!Next, Told!Changes
<1>5. CASE ToldEnd(l)
  BY <1>5 DEF ToldEnd, Told!Next, Told!Ends
<1> QED BY <1>2, <1>3, <1>4, <1>5 DEF IsTold

(* The election implements, for every run of it, what the shell relies on: *)
(* the host changes only to another one that is there, and no more once    *)
(* the laptop is the coordinator.                                          *)
THEOREM ShellsAreToldAlways == Spec => ShellsAreTold
<1>1. Init => \A l \in Laptops : Told(l)!Init
  BY DEF Init, Told!Init, StatusOf
<1>2. IInv /\ IInv' /\ [Next]_vars
        => [\A l \in Laptops : [Told(l)!Next]_<<StatusOf(l), notified[l]>>]_vars
  <2> SUFFICES ASSUME IInv, IInv', NEW l \in Laptops, Start(l) \/ Step(l) \/ Leave(l),
                      NEW m \in Laptops
               PROVE  [Told(m)!Next]_<<StatusOf(m), notified[m]>>
    BY DEF Next
  <2>1. IsTold(m)
    BY StepTells, OthersAreTold DEF IsTold
  <2> QED BY <2>1, ToldIsAllowed DEF IInv
<1> QED BY <1>1, <1>2, IInvHolds, PTL DEF Spec, ShellsAreTold
=============================================================================
