------------------------- MODULE DesktopShellProofs -------------------------
(***************************************************************************)
(* Theorems about DesktopShell, for any hosts and any number of changes of *)
(* the coordinator.                                                        *)
(*                                                                         *)
(* Neither property is inductive.  That the window follows is the end of a *)
(* chain: the last host sent to it is the coordinator's, and a page that   *)
(* has received all that was sent, and missed nothing, is at that host or  *)
(* on its way there.  That a phone finds the coordinator rests on where    *)
(* each thing it remembers has come from.                                  *)
(***************************************************************************)
EXTENDS DesktopShell, SequenceTheorems, TLAPS

Starting == {"certs", "election", "phone", "ca"}
AnyHost == Hosts \cup {"localhost", None}

(***************************************************************************)
(* Where the startup is, and what it has made so far.                      *)
(***************************************************************************)
StartupInv ==
    /\ main \in Starting => page = NoPage /\ ipc = <<>> /\ qr = NoQr /\ ~turned
    /\ main \in {"certs", "election"} => ~handle
    /\ main \in {"phone", "ca"} => handle
    /\ main = "quit" => page = NoPage /\ ipc = <<>>
    /\ ~handle => status = "starting" /\ host = None
    /\ handle => status = IF main = "quit" THEN "ended" ELSE "watching"

(***************************************************************************)
(* A document in the window always has a ?host=, which is what its client  *)
(* connects to, and a place it is going to if it is being left.            *)
(***************************************************************************)
PageInv ==
    /\ page \in [phase : {"none", "loading", "ready", "leaving"}, host : AnyHost,
                 next : AnyHost, client : AnyHost]
    /\ main = "up" => page.phase # "none" /\ page.host # None
    /\ page.phase = "leaving" => page.next # None
    /\ page.phase = "ready" => page.client = page.host

(***************************************************************************)
(* The last host sent to the window is the coordinator's; when it has been *)
(* received, and not missed, it is where the page is going.                *)
(***************************************************************************)
Aim == IF page.phase = "leaving" THEN page.next ELSE page.host
SentInv ==
    main = "up" /\ handle /\ host # None =>
        IF ipc # <<>> THEN ipc[Len(ipc)] = host ELSE missed \/ Aim = host

(***************************************************************************)
(* Until the coordinator changes, what the QR code says, and what a phone  *)
(* remembers that nobody has typed, is the coordinator.                    *)
(***************************************************************************)
QrInv == qr.origin # None /\ ~turned => qr.host = QrCoordinatorHost
PhoneInv ==
    /\ ~phone.typed /\ qr.origin = None =>
          phone.fromQr = None /\ phone.manualHost = None /\ phone.client \in {None, "anydrop.local"}
    /\ ~phone.typed /\ ~turned /\ host # None =>
          /\ {phone.fromQr, phone.manualHost} \subseteq {None, QrCoordinatorHost}
          /\ phone.client \in {None, "anydrop.local", QrCoordinatorHost}

IInv == TypeOK /\ StartupInv /\ PageInv /\ SentInv /\ QrInv /\ PhoneInv

USE ShellHosts, ShellBounds

LEMMA InitEstablishes == Init => IInv
<1> SUFFICES ASSUME Init PROVE IInv
  OBVIOUS
<1> USE DEF Init, Watch!Init, NoQr, NoPage
<1>1. TypeOK
  <2>1. <<>> \in Seq(Hosts \cup {"localhost"})
    OBVIOUS
  <2>2. /\ phone \in [fromQr : Hosts \cup {None}, manualHost : Hosts \cup {None},
                      client : Hosts \cup {None, "anydrop.local"}, typed : BOOLEAN]
        /\ changes \in 0 .. MaxChanges
    OBVIOUS
  <2>3. missed \in BOOLEAN /\ turned \in BOOLEAN /\ handle \in BOOLEAN
    OBVIOUS
  <2> QED BY <2>1, <2>2, <2>3 DEF TypeOK
<1>2. StartupInv /\ SentInv /\ QrInv
  BY DEF StartupInv, SentInv, QrInv, Starting
<1>3. PageInv
  BY DEF PageInv, AnyHost
<1>4. PhoneInv
  BY DEF PhoneInv
<1> QED BY <1>1, <1>2, <1>3, <1>4 DEF IInv

-----------------------------------------------------------------------------
(* Every action keeps the types. *)

LEMMA WindowHostType == ASSUME IInv PROVE WindowHost \in Hosts \cup {"localhost"}
  BY DEF IInv, TypeOK, WindowHost

LEMMA QrHostType == ASSUME IInv PROVE QrCoordinatorHost \in Hosts \cup {None}
  BY DEF IInv, TypeOK, QrCoordinatorHost

\* What is sent to the window and received comes from the election.
LEMMA QueueType ==
    ASSUME IInv, ipc # <<>>
    PROVE  Head(ipc) \in Hosts \cup {"localhost"} /\ Tail(ipc) \in Seq(Hosts \cup {"localhost"})
  BY DEF IInv, TypeOK

\* The page of a phone keeps its type whatever it opens.
LEMMA OpensType ==
    ASSUME IInv, NEW q \in Hosts \cup {None}, NEW r \in Hosts \cup {None}, NEW t \in BOOLEAN,
           Opens(q, r, t)
    PROVE  phone' \in [fromQr : Hosts \cup {None}, manualHost : Hosts \cup {None},
                       client : Hosts \cup {None, "anydrop.local"}, typed : BOOLEAN]
  BY DEF Opens, ResolveCoordinatorUrl

LEMMA TypeStep == ASSUME IInv, Next PROVE TypeOK'
<1> USE DEF IInv, TypeOK
<1>1. CASE ReadCerts \/ StartPhoneServer
  BY <1>1, WindowHostType DEF ReadCerts, StartPhoneServer, Awaits, CreateWindow, Loading, electionVars,
     historyVars, NoQr
<1>2. CASE StartCoordinator
  BY <1>2 DEF StartCoordinator, Watch!Returns, windowVars, historyVars
<1>3. CASE StartCaServer
  BY <1>3, WindowHostType, QrHostType DEF StartCaServer, CreateWindow, Loading, electionVars,
     historyVars
<1>4. CASE OnHostChange
  <2>1. status' \in {"starting", "watching", "ended"} /\ host' \in Hosts \cup {"localhost"}
    BY <1>4 DEF OnHostChange, Watch!Changes
  <2>2. ipc' \in Seq(Hosts \cup {"localhost"})
    BY <1>4, <2>1 DEF OnHostChange
  <2>3. changes' \in 0 .. MaxChanges
    BY <1>4 DEF OnHostChange
  <2>4. turned' \in BOOLEAN /\ missed' \in BOOLEAN
    BY <1>4 DEF OnHostChange
  <2> QED BY <1>4, <2>1, <2>2, <2>3, <2>4 DEF OnHostChange, mainVars
<1>5. CASE WindowAllClosed
  BY <1>5 DEF WindowAllClosed, Watch!Ends, electionVars, historyVars, NoPage
<1>6. CASE ReceiveHost
  <2>1. UNCHANGED <<electionVars, mainVars, phone, changes, turned, manualHost>>
    BY <1>6 DEF ReceiveHost, HostChanged
  <2>2. ipc' \in Seq(Hosts \cup {"localhost"})
    BY <1>6, QueueType DEF ReceiveHost
  <2>3. missed' \in BOOLEAN
    BY <1>6 DEF ReceiveHost, Misses
  <2>4. /\ page'.phase \in {"none", "loading", "ready", "leaving"}
        /\ {page'.host, page'.next, page'.client} \subseteq Hosts \cup {"localhost", None}
    <3>1. CASE UNCHANGED page
      BY <3>1
    <3>2. CASE Leaves(Head(ipc))
      BY <1>6, <3>2, QueueType DEF ReceiveHost, Leaves, PageInv, AnyHost
    <3> QED BY <1>6, <3>1, <3>2 DEF ReceiveHost, HostChanged
  <2> QED BY <2>1, <2>2, <2>3, <2>4 DEF electionVars, mainVars
<1>7. CASE Navigates
  BY <1>7 DEF Navigates, Loading, electionVars, mainVars, historyVars
<1>8. CASE Mounts
  BY <1>8 DEF Mounts, ResolveCoordinatorUrl, PageInv, StartupInv, Starting, NoPage, electionVars,
     mainVars, historyVars
<1>9. CASE Reloads
  BY <1>9 DEF Reloads, Leaves, PageInv, electionVars, mainVars, historyVars
<1>10. CASE ScansQr
  <2>1. (IF qr.host # None THEN qr.host ELSE qr.origin) \in Hosts
    BY <1>10 DEF ScansQr, NoQr
  <2>2. phone.manualHost \in Hosts \cup {None}
    OBVIOUS
  <2> QED BY ZenonT(60), <1>10, <2>1, <2>2, OpensType DEF ScansQr, electionVars, mainVars, windowVars, historyVars
<1>11. CASE Visits
  BY <1>11, OpensType DEF Visits, electionVars, mainVars, windowVars, historyVars
<1>12. ASSUME NEW h \in Hosts, ConnectsTo(h) PROVE TypeOK'
  <2>1. (phone.typed \/ phone.fromQr = None) \in BOOLEAN
    OBVIOUS
  <2>2. phone.fromQr \in Hosts \cup {None}
    OBVIOUS
  <2>3. Opens(phone.fromQr, h, phone.typed \/ phone.fromQr = None)
    BY <1>12 DEF ConnectsTo
  <2>4. phone' \in [fromQr : Hosts \cup {None}, manualHost : Hosts \cup {None},
                    client : Hosts \cup {None, "anydrop.local"}, typed : BOOLEAN]
    BY <2>1, <2>2, <2>3, OpensType
  <2> QED BY <1>12, <2>4 DEF ConnectsTo, electionVars, mainVars, windowVars, historyVars
<1> QED
  BY <1>1, <1>2, <1>3, <1>4, <1>5, <1>6, <1>7, <1>8, <1>9, <1>10, <1>11, <1>12
  DEF Next, Startup, Page, User

-----------------------------------------------------------------------------
(* Every action keeps the rest of the invariant. *)

LEMMA StartupStep == ASSUME IInv, Next PROVE StartupInv'
<1> USE DEF IInv, TypeOK, StartupInv, Starting
<1>1. CASE ReadCerts \/ StartPhoneServer
  BY <1>1 DEF ReadCerts, StartPhoneServer, Awaits, CreateWindow, electionVars, historyVars
<1>2. CASE StartCoordinator
  BY <1>2 DEF StartCoordinator, Watch!Returns, windowVars, historyVars
<1>3. CASE StartCaServer
  BY <1>3 DEF StartCaServer, CreateWindow, electionVars, historyVars
<1>4. CASE OnHostChange
  BY <1>4 DEF OnHostChange, Watch!Changes, mainVars
<1>5. CASE WindowAllClosed
  BY <1>5 DEF WindowAllClosed, Watch!Ends, electionVars, historyVars
<1>6. CASE ReceiveHost
  <2>1. main = "up"
    BY <1>6 DEF ReceiveHost
  <2> QED BY <1>6, <2>1 DEF ReceiveHost, electionVars, mainVars
<1>7. CASE Navigates \/ Mounts \/ Reloads
  <2>1. main = "up"
    BY <1>7 DEF Navigates, Mounts, Reloads, NoPage
  <2> QED BY <1>7, <2>1 DEF Navigates, Mounts, Reloads, electionVars, mainVars, historyVars
<1>8. CASE ScansQr \/ Visits \/ \E h \in Hosts : ConnectsTo(h)
  <2>1. UNCHANGED <<electionVars, mainVars, windowVars, historyVars>>
    BY <1>8 DEF ScansQr, Visits, ConnectsTo
  <2> QED BY <2>1 DEF electionVars, mainVars, windowVars, historyVars
<1> QED BY <1>1, <1>2, <1>3, <1>4, <1>5, <1>6, <1>7, <1>8 DEF Next, Startup, Page, User

\* The document in the window is replaced, left or mounted, never half of it.
LEMMA LoadingPage ==
    ASSUME NEW h \in Hosts \cup {"localhost"}, page' = Loading(h) PROVE PageInv'
  BY DEF PageInv, AnyHost, Loading

LEMMA LeavingPage ==
    ASSUME IInv, page.phase \in {"ready", "leaving"}, NEW h \in AnyHost \ {None}, Leaves(h),
           main' = main
    PROVE  PageInv'
  BY DEF IInv, PageInv, AnyHost, Leaves

LEMMA PageStep == ASSUME IInv, Next PROVE PageInv'
<1> USE DEF IInv
<1>1. CASE page' = page /\ main' = main
  BY <1>1 DEF PageInv
<1>2. CASE page' = page /\ main' \in Starting
  BY <1>2 DEF PageInv, Starting
<1>3. ASSUME NEW q, CreateWindow(q) PROVE PageInv'
  BY <1>3, WindowHostType, LoadingPage DEF CreateWindow
<1>4. CASE ReadCerts \/ StartPhoneServer
  BY <1>2, <1>3, <1>4 DEF ReadCerts, StartPhoneServer, Awaits, Starting
<1>5. CASE StartCoordinator
  BY <1>2, <1>5 DEF StartCoordinator, windowVars, Starting
<1>6. CASE StartCaServer
  BY <1>3, <1>6 DEF StartCaServer
<1>7. CASE OnHostChange
  BY <1>1, <1>7 DEF OnHostChange, mainVars
<1>8. CASE WindowAllClosed
  BY <1>8 DEF WindowAllClosed, NoPage, PageInv, AnyHost
<1>9. CASE ReceiveHost
  <2>1. main' = main /\ main = "up"
    BY <1>9 DEF ReceiveHost, mainVars, TypeOK, StartupInv, Starting
  <2>2. CASE UNCHANGED page
    BY <1>1, <2>1, <2>2
  <2>3. CASE page.phase # "loading" /\ Leaves(Head(ipc))
    <3>1. page.phase \in {"ready", "leaving"}
      BY <2>1, <2>3 DEF PageInv
    <3>2. Head(ipc) \in AnyHost \ {None}
      BY <1>9, QueueType DEF ReceiveHost, AnyHost
    <3> QED BY <2>1, <2>3, <3>1, <3>2, LeavingPage
  <2> QED BY <1>9, <2>2, <2>3 DEF ReceiveHost, HostChanged
<1>10. CASE Navigates
  <2>1. page.next \in Hosts \cup {"localhost"}
    BY <1>10 DEF Navigates, PageInv, AnyHost
  <2> QED BY <1>10, <2>1, LoadingPage DEF Navigates
<1>11. CASE Mounts
  <2>1. main = "up" /\ main' = main /\ page.host # None
    BY <1>11 DEF Mounts, mainVars, TypeOK, StartupInv, Starting, NoPage, PageInv
  <2> QED BY <1>11, <2>1 DEF Mounts, ResolveCoordinatorUrl, PageInv
<1>12. CASE Reloads
  <2>1. main = "up" /\ main' = main /\ page.host \in AnyHost \ {None}
    BY <1>12 DEF Reloads, mainVars, TypeOK, StartupInv, Starting, NoPage, PageInv
  <2> QED BY <1>12, <2>1, LeavingPage DEF Reloads
<1>13. CASE ScansQr \/ Visits \/ \E h \in Hosts : ConnectsTo(h)
  BY <1>1, <1>13 DEF ScansQr, Visits, ConnectsTo, mainVars, windowVars
<1> QED
  BY <1>4, <1>5, <1>6, <1>7, <1>8, <1>9, <1>10, <1>11, <1>12, <1>13 DEF Next, Startup, Page, User

\* What is left of the hosts under way ends with the same one.
LEMMA LastStays ==
    ASSUME NEW S, NEW q \in Seq(S), q # <<>>
    PROVE  IF Tail(q) # <<>> THEN Tail(q)[Len(Tail(q))] = q[Len(q)] ELSE q[Len(q)] = Head(q)
<1>1. Len(q) \in Nat \ {0}
  OBVIOUS
<1>2. CASE Len(q) = 1
  <2>1. Tail(q) \in Seq(S) /\ Len(Tail(q)) = 0
    BY <1>1, <1>2
  <2>2. Tail(q) = <<>>
    BY <2>1, EmptySeq
  <2> QED BY <1>2, <2>2
<1>3. CASE Len(q) > 1
  <2>1. Len(Tail(q)) = Len(q) - 1 /\ Tail(q) # <<>>
    BY <1>1, <1>3
  <2>2. Tail(q)[Len(q) - 1] = q[Len(q)]
    BY <1>1, <1>3
  <2> QED BY <2>1, <2>2
<1> QED BY <1>1, <1>2, <1>3

LEMMA SentStep == ASSUME IInv, Next PROVE SentInv'
<1> USE DEF IInv
<1>1. CASE main' # "up"
  BY <1>1 DEF SentInv
<1>2. CASE UNCHANGED <<main, handle, host, ipc, missed>> /\ (main = "up" => Aim' = Aim)
  BY <1>2 DEF SentInv
<1>3. ASSUME NEW q, CreateWindow(q), main \in Starting, UNCHANGED <<handle, host, ipc>>
      PROVE  SentInv'
  BY <1>3 DEF SentInv, CreateWindow, Loading, WindowHost, Aim, StartupInv
<1>4. CASE ReadCerts \/ StartPhoneServer
  BY <1>1, <1>3, <1>4 DEF ReadCerts, StartPhoneServer, Awaits, Starting, electionVars
<1>5. CASE StartCoordinator
  BY <1>1, <1>5 DEF StartCoordinator
<1>6. CASE StartCaServer
  BY <1>3, <1>6 DEF StartCaServer, Starting, electionVars
<1>7. CASE OnHostChange
  <2>1. CASE main # "up"
    BY <1>1, <1>7, <2>1 DEF OnHostChange, mainVars
  <2>2. CASE main = "up"
    <3>1. ipc' = Append(ipc, host') /\ ipc \in Seq(Hosts \cup {"localhost"})
      BY <1>7, <2>2 DEF OnHostChange, TypeOK
    <3>2. ipc' # <<>> /\ ipc'[Len(ipc')] = host'
      BY <3>1
    <3> QED BY <3>2 DEF SentInv
  <2> QED BY <2>1, <2>2
<1>8. CASE WindowAllClosed
  BY <1>1, <1>8 DEF WindowAllClosed
<1>9. CASE ReceiveHost
  <2>1. /\ UNCHANGED <<main, handle, host>> /\ ipc # <<>> /\ ipc' = Tail(ipc)
        /\ missed' = Misses(Head(ipc)) /\ main = "up"
    BY <1>9 DEF ReceiveHost, electionVars, mainVars, TypeOK, StartupInv, Starting
  <2>2. IF ipc' # <<>> THEN ipc'[Len(ipc')] = ipc[Len(ipc)] ELSE ipc[Len(ipc)] = Head(ipc)
    BY <2>1, LastStays DEF TypeOK
  <2>3. missed' \/ Aim' = Head(ipc)
    <3>1. CASE page.phase = "loading"
      BY <1>9, <2>1, <3>1 DEF ReceiveHost, Misses, Aim
    <3>2. CASE page.phase # "loading" /\ Head(ipc) # page.host
      BY <1>9, <3>2 DEF ReceiveHost, HostChanged, Leaves, Aim, PageInv
    <3>3. CASE page.phase # "loading" /\ Head(ipc) = page.host
      BY <1>9, <2>1, <3>3 DEF ReceiveHost, HostChanged, Misses, Aim
    <3> QED BY <3>1, <3>2, <3>3
  <2> QED BY <2>1, <2>2, <2>3 DEF SentInv
<1>10. CASE Navigates
  BY <1>2, <1>10 DEF Navigates, Loading, Aim, electionVars, mainVars, historyVars
<1>11. CASE Mounts
  BY <1>2, <1>11 DEF Mounts, Aim, PageInv, electionVars, mainVars, historyVars
<1>12. CASE Reloads
  BY <1>2, <1>12 DEF Reloads, Leaves, Aim, PageInv, electionVars, mainVars, historyVars
<1>13. CASE ScansQr \/ Visits \/ \E h \in Hosts : ConnectsTo(h)
  BY <1>2, <1>13 DEF ScansQr, Visits, ConnectsTo, Aim, electionVars, mainVars, windowVars, historyVars
<1> QED
  BY <1>4, <1>5, <1>6, <1>7, <1>8, <1>9, <1>10, <1>11, <1>12, <1>13 DEF Next, Startup, Page, User

LEMMA QrStep == ASSUME IInv, Next PROVE QrInv'
<1> USE DEF IInv, QrInv
<1>1. CASE UNCHANGED <<qr, host, turned>>
  BY <1>1 DEF QrCoordinatorHost
<1>2. CASE qr' = NoQr
  BY <1>2 DEF NoQr
<1>3. CASE ReadCerts \/ StartPhoneServer
  BY <1>1, <1>2, <1>3 DEF ReadCerts, StartPhoneServer, Awaits, CreateWindow, electionVars, historyVars
<1>4. CASE StartCoordinator
  BY <1>4 DEF StartCoordinator, StartupInv, Starting, NoQr
<1>5. CASE StartCaServer
  BY <1>2, <1>5 DEF StartCaServer, CreateWindow, electionVars, QrCoordinatorHost
<1>6. CASE OnHostChange
  <2>1. CASE main = "up"
    BY <1>6, <2>1 DEF OnHostChange
  <2>2. CASE main # "up"
    <3>1. main \in Starting
      BY <1>6, <2>2 DEF OnHostChange, Watch!Changes, StartupInv, TypeOK, Starting
    <3> QED BY <1>2, <1>6, <3>1 DEF OnHostChange, StartupInv, mainVars
  <2> QED BY <2>1, <2>2
<1>7. CASE WindowAllClosed
  BY <1>7 DEF WindowAllClosed, Watch!Ends, electionVars, historyVars, QrCoordinatorHost
<1>8. CASE ReceiveHost \/ Navigates \/ Mounts \/ Reloads \/ ScansQr \/ Visits \/ \E h \in Hosts : ConnectsTo(h)
  BY <1>1, <1>8 DEF ReceiveHost, Navigates, Mounts, Reloads, ScansQr, Visits, ConnectsTo,
     electionVars, mainVars, historyVars
<1> QED BY <1>3, <1>4, <1>5, <1>6, <1>7, <1>8 DEF Next, Startup, Page, User

LEMMA PhoneStep == ASSUME IInv, Next PROVE PhoneInv'
<1> USE DEF IInv, PhoneInv
<1>1. CASE UNCHANGED <<qr, host, turned, phone>>
  BY <1>1 DEF QrCoordinatorHost
<1>2. CASE main \in Starting /\ UNCHANGED phone
  BY <1>2 DEF StartupInv, NoQr
<1>3. CASE ReadCerts \/ StartPhoneServer
  BY <1>2, <1>3 DEF ReadCerts, StartPhoneServer, Awaits, Starting
<1>4. CASE StartCoordinator \/ StartCaServer
  BY <1>2, <1>4 DEF StartCoordinator, StartCaServer, Starting
<1>5. CASE OnHostChange
  <2>1. CASE main = "up"
    BY <1>5, <2>1 DEF OnHostChange, mainVars
  <2>2. CASE main # "up"
    <3>1. main \in Starting
      BY <1>5, <2>2 DEF OnHostChange, Watch!Changes, StartupInv, TypeOK, Starting
    <3> QED BY <1>2, <1>5, <3>1 DEF OnHostChange
  <2> QED BY <2>1, <2>2
<1>6. CASE WindowAllClosed
  BY <1>1, <1>6 DEF WindowAllClosed, Watch!Ends, electionVars, historyVars
<1>7. CASE ReceiveHost \/ Navigates \/ Mounts \/ Reloads
  BY <1>1, <1>7 DEF ReceiveHost, Navigates, Mounts, Reloads, electionVars, mainVars, historyVars
<1>8. CASE ScansQr
  <2>1. UNCHANGED <<qr, host, turned>> /\ qr.origin # None
    BY <1>8 DEF ScansQr, electionVars, mainVars, historyVars
  <2>2. ~turned /\ host # None => QrCoordinatorHost = qr.host /\ qr.host # None
    BY <2>1 DEF QrInv, TypeOK, QrCoordinatorHost
  <2> QED BY <1>8, <2>1, <2>2 DEF ScansQr, Opens, ResolveCoordinatorUrl, QrCoordinatorHost
<1>9. CASE Visits
  <2>1. UNCHANGED <<qr, host, turned>>
    BY <1>9 DEF Visits, electionVars, mainVars, historyVars
  <2> QED BY <1>9, <2>1 DEF Visits, Opens, ResolveCoordinatorUrl, QrCoordinatorHost
<1>10. ASSUME NEW h \in Hosts, ConnectsTo(h) PROVE PhoneInv'
  <2>1. UNCHANGED <<qr, host, turned>>
    BY <1>10 DEF ConnectsTo, electionVars, mainVars, historyVars
  <2>2. ~phone'.typed => ~phone.typed /\ phone.fromQr # None
    BY <1>10 DEF ConnectsTo, Opens
  <2>3. ~phone'.typed => phone'.fromQr = phone.fromQr /\ phone'.manualHost = phone.fromQr
                        /\ phone'.client = phone.fromQr
    BY <1>10, <2>2 DEF ConnectsTo, Opens, ResolveCoordinatorUrl
  <2> QED BY <2>1, <2>2, <2>3 DEF QrCoordinatorHost
<1> QED
  BY <1>3, <1>4, <1>5, <1>6, <1>7, <1>8, <1>9, <1>10 DEF Next, Startup, Page, User

LEMMA StutterStep == ASSUME IInv, UNCHANGED vars PROVE IInv'
  BY DEF IInv, TypeOK, StartupInv, PageInv, SentInv, QrInv, PhoneInv, Aim, QrCoordinatorHost, vars,
     electionVars, mainVars, windowVars, historyVars

LEMMA Invariance == Spec => []IInv
<1>1. IInv /\ [Next]_vars => IInv'
  <2> SUFFICES ASSUME IInv, [Next]_vars PROVE IInv'
    OBVIOUS
  <2>1. CASE Next
    <3>1. TypeOK' /\ StartupInv' /\ PageInv' /\ SentInv' /\ QrInv' /\ PhoneInv'
      BY <2>1, TypeStep, StartupStep, PageStep, SentStep, QrStep, PhoneStep
    <3> QED BY <3>1 DEF IInv
  <2>2. CASE UNCHANGED vars
    BY <2>2, StutterStep
  <2> QED BY <2>1, <2>2
<1> QED BY <1>1, InitEstablishes, PTL DEF Spec

-----------------------------------------------------------------------------
(* The theorems. *)

\* The state of the shell always has its type: the QR code names this laptop or
\* nothing, a page and a phone are always at an address there is, and nothing but a
\* host the election has answered is sent to the window (main.cjs 248-313).
THEOREM ShellTypeCorrect == Spec => []TypeOK
<1>1. IInv => TypeOK
  BY DEF IInv
<1> QED BY <1>1, Invariance, PTL

\* When nothing is under way, the page in the window connects to the host the
\* election answers, whatever changed while the servers started, was reloaded or
\* typed, for any hosts and any number of changes (App.tsx 56-63, main.cjs 272-276).
THEOREM WindowAlwaysFollows == Spec => []WindowFollows
<1>1. IInv => WindowFollows
  <2> SUFFICES ASSUME IInv, page.phase = "ready", ipc = <<>>, ~missed, handle, host # None
               PROVE  page.client = host
    BY DEF WindowFollows
  <2>1. main = "up"
    BY DEF IInv, TypeOK, StartupInv, Starting, NoPage
  <2>2. Aim = host /\ Aim = page.host
    BY <2>1 DEF IInv, SentInv, Aim
  <2> QED BY <2>2 DEF IInv, PageInv
<1> QED BY <1>1, Invariance, PTL

\* A phone that has scanned the code finds the coordinator until that changes, also
\* when it comes back to the page by its plain address (main.cjs 278-283).
THEOREM PhonesFindCoordinator == Spec => []PhoneFindsCoordinator
<1>1. IInv => PhoneFindsCoordinator
  BY DEF IInv, PhoneInv, PhoneFindsCoordinator, QrCoordinatorHost
<1> QED BY <1>1, Invariance, PTL
=============================================================================
