---------------------------- MODULE DesktopShell ----------------------------
(***************************************************************************)
(* The desktop app around an election: the startup, the window and the end *)
(* of desktop/electron/main.cjs; the bridge of preload.cjs; and how the    *)
(* page in the window finds its coordinator (web/src/App.tsx,              *)
(* web/src/lib/discovery.ts) and which QR code it shows.                   *)
(*                                                                         *)
(* What the election does is left to HostChanges.  An action is what the   *)
(* main process or the page does between two awaits, or an event of the    *)
(* browser.  On macOS the app outlives its window; that is left out.       *)
(*                                                                         *)
(* A definition called a mutated form is one a mistake in the code would   *)
(* give.  It stands before the definition it varies and nothing uses it.   *)
(***************************************************************************)
EXTENDS Integers, Sequences

CONSTANTS
    Hosts,        \* the addresses a coordinator may have on the LAN
    Own,          \* this laptop's own
    None,
    MaxChanges    \* bound: how often the coordinator changes

ASSUME ShellHosts == Own \in Hosts /\ None \notin Hosts /\ "localhost" \notin Hosts \cup {None}
ASSUME ShellBounds == MaxChanges \in Nat

VARIABLES
    status, host,  \* the election: see HostChanges
    main,          \* where the startup of the main process is
    handle,        \* coordinatorHandle is set
    qr,            \* the query parameters qrOrigin and qrHost of the window
    page,          \* the document in the window, and where it is going
    ipc,           \* the hosts sent to the window and not yet received
    manualHost,    \* what the window's localStorage remembers
    phone,         \* the page of a phone, with its localStorage
    changes,       \* how often the coordinator has changed
    missed,        \* history: the page missed the last host that was sent
    turned         \* history: the coordinator changed after the QR code was made

electionVars == <<status, host>>
mainVars == <<main, handle, qr>>
windowVars == <<page, ipc, manualHost>>
historyVars == <<changes, missed, turned>>
vars == <<electionVars, mainVars, windowVars, phone, historyVars>>

Watch == INSTANCE HostChanges

NoQr == [origin |-> None, host |-> None]
NoPage == [phase |-> "none", host |-> None, next |-> None, client |-> None]

Init ==
    /\ Watch!Init
    /\ main = "certs" /\ handle = FALSE /\ qr = NoQr
    /\ page = NoPage /\ ipc = <<>>
    /\ manualHost \in Hosts \cup {"localhost", None}
    /\ phone = [fromQr |-> None, manualHost |-> None, client |-> None, typed |-> FALSE]
    /\ changes = 0 /\ missed = FALSE /\ turned = FALSE

-----------------------------------------------------------------------------
(* The main process. *)

\* The document the page becomes when h is its ?host= parameter.
Loading(h) == [phase |-> "loading", host |-> h, next |-> None, client |-> None]

\* createWindow asks the election once more: the coordinator may have changed while
\* the servers started.
WindowHost == IF handle /\ host # None THEN host ELSE "localhost"

CreateWindow(q) == main' = "up" /\ qr' = q /\ page' = Loading(WindowHost)

\* mutated form of Awaits: what throws ends the startup.
AwaitsOrEnds(place, then) ==
    /\ main = place
    /\ main' \in {then, "failed"} /\ UNCHANGED <<qr, page>>
    /\ UNCHANGED <<electionVars, handle, ipc, manualHost, phone, historyVars>>

\* An await of the startup ends and the next one begins; or it throws, and the
\* window is created with what there is.
Awaits(place, then) ==
    /\ main = place
    /\ \/ main' = then /\ UNCHANGED <<qr, page>>
       \/ CreateWindow(NoQr)
    /\ UNCHANGED <<electionVars, handle, ipc, manualHost, phone, historyVars>>

ReadCerts == Awaits("certs", "election")
StartPhoneServer == Awaits("phone", "ca")

StartCoordinator ==
    /\ main = "election" /\ main' = "phone"
    /\ Watch!Returns
    /\ handle' = TRUE
    /\ UNCHANGED <<qr, windowVars, phone, historyVars>>

\* mutated form of QrCoordinatorHost: the window's host.
SameAsWindow == host

\* qrCoordinatorHost: localhost is another host to a phone.
QrCoordinatorHost == IF host = "localhost" THEN Own ELSE host

\* The last await of the startup, which then looks for a LAN address.
StartCaServer ==
    /\ main = "ca"
    /\ CreateWindow([origin |-> Own, host |-> QrCoordinatorHost]) \/ CreateWindow(NoQr)
    /\ UNCHANGED <<electionVars, handle, ipc, manualHost, phone, historyVars>>

\* onHostChange: the host is sent to the window, if there is one.
OnHostChange ==
    /\ changes < MaxChanges /\ changes' = changes + 1
    /\ Watch!Changes
    /\ IF main = "up" THEN ipc' = Append(ipc, host') /\ turned' = TRUE
                      ELSE UNCHANGED <<ipc, turned>>
    /\ UNCHANGED <<mainVars, page, manualHost, phone, missed>>

\* window-all-closed: the election is stopped and the app quits.
WindowAllClosed ==
    /\ main = "up" /\ main' = "quit"
    /\ IF handle THEN Watch!Ends ELSE UNCHANGED electionVars
    /\ page' = NoPage /\ ipc' = <<>>
    /\ UNCHANGED <<handle, qr, manualHost, phone, historyVars>>

-----------------------------------------------------------------------------
(* The page in the window. *)

Leaves(h) == page' = [page EXCEPT !.phase = "leaving", !.next = h]

\* mutated form of HostChanged: only localStorage is rewritten.
HostRemembered(h) ==
    IF h # page.host THEN Leaves(page.host) /\ manualHost' = h ELSE UNCHANGED <<page, manualHost>>

\* The listener of coordinator-host-changed compares with the ?host= the document
\* was loaded with, and rewrites it.
HostChanged(h) ==
    /\ IF h # page.host THEN Leaves(h) ELSE UNCHANGED page
    /\ UNCHANGED manualHost

\* A document that is only loading has no listener yet.  One that is being left
\* still has, which ignores a change back to the host it was loaded with.
Misses(h) ==
    \/ page.phase = "loading" /\ h # page.host
    \/ page.phase = "leaving" /\ h = page.host /\ h # page.next

ReceiveHost ==
    /\ ipc # <<>> /\ ipc' = Tail(ipc)
    /\ IF page.phase = "loading" THEN UNCHANGED <<page, manualHost>> ELSE HostChanged(Head(ipc))
    /\ missed' = Misses(Head(ipc))
    /\ UNCHANGED <<electionVars, mainVars, phone, changes, turned>>

\* The browser replaces the document.
Navigates ==
    /\ page.phase = "leaving"
    /\ page' = Loading(page.next)
    /\ UNCHANGED <<electionVars, mainVars, ipc, manualHost, phone, historyVars>>

\* mutated form of ResolveCoordinatorUrl: what is remembered comes first.
RememberedFirst(fromQr, remembered) ==
    IF remembered # None THEN remembered ELSE IF fromQr # None THEN fromQr ELSE "anydrop.local"

\* resolveCoordinatorUrl
ResolveCoordinatorUrl(fromQr, remembered) ==
    IF fromQr # None THEN fromQr ELSE IF remembered # None THEN remembered ELSE "anydrop.local"

\* App is mounted: its client gets its host, and a ?host= is remembered.
Mounts ==
    /\ page.phase = "loading"
    /\ page' = [page EXCEPT !.phase = "ready",
                            !.client = ResolveCoordinatorUrl(page.host, manualHost)]
    /\ manualHost' = page.host
    /\ UNCHANGED <<electionVars, mainVars, ipc, phone, historyVars>>

\* The user reloads the page, or enters a host when it is offline, which reloads it.
Reloads ==
    /\ page.phase = "ready"
    /\ manualHost' \in {manualHost} \cup Hosts
    /\ Leaves(page.host)
    /\ UNCHANGED <<electionVars, mainVars, ipc, phone, historyVars>>

-----------------------------------------------------------------------------
(* The page on a phone.  Its history variable typed says that its user entered a
   host that counts. *)

Opens(fromQr, remembered, typed) ==
    phone' = [fromQr |-> fromQr, client |-> ResolveCoordinatorUrl(fromQr, remembered),
              manualHost |-> IF fromQr # None THEN fromQr ELSE remembered, typed |-> typed]

\* QrPairingPanel shows a code and the phone scans it.  (Without qrOrigin the code is
\* one of the file the window was loaded from.)
ScansQr ==
    /\ page.phase = "ready" /\ qr.origin # None
    /\ Opens(IF qr.host # None THEN qr.host ELSE qr.origin, phone.manualHost, FALSE)
    /\ UNCHANGED <<electionVars, mainVars, windowVars, historyVars>>

\* The phone opens the page by its plain address.
Visits ==
    /\ Opens(None, phone.manualHost, phone.typed)
    /\ UNCHANGED <<electionVars, mainVars, windowVars, historyVars>>

\* Its user enters a host, and the page is reloaded.
ConnectsTo(h) ==
    /\ phone.client # None
    /\ Opens(phone.fromQr, h, phone.typed \/ phone.fromQr = None)
    /\ UNCHANGED <<electionVars, mainVars, windowVars, historyVars>>

-----------------------------------------------------------------------------
Startup == ReadCerts \/ StartCoordinator \/ StartPhoneServer \/ StartCaServer
Page == ReceiveHost \/ Navigates \/ Mounts
User == Reloads \/ WindowAllClosed \/ ScansQr \/ Visits \/ \E h \in Hosts : ConnectsTo(h)

Next == Startup \/ OnHostChange \/ Page \/ User

Spec == Init /\ [][Next]_vars

(***************************************************************************)
(* What the startup awaits ends or throws, messages arrive and documents   *)
(* load.  Nobody promises that a coordinator changes or a user acts.       *)
(***************************************************************************)
FairSpec == Spec /\ WF_vars(Startup) /\ WF_vars(Page)

-----------------------------------------------------------------------------
(* Properties. *)

TypeOK ==
    /\ status \in {"starting", "watching", "ended"}
    /\ host \in Hosts \cup {"localhost", None}
    /\ main \in {"certs", "election", "phone", "ca", "up", "quit"} /\ handle \in BOOLEAN
    /\ qr \in {NoQr} \cup [origin : {Own}, host : Hosts \cup {None}]
    /\ page.phase \in {"none", "loading", "ready", "leaving"}
    /\ {page.host, page.next, page.client} \subseteq Hosts \cup {"localhost", None}
    /\ ipc \in Seq(Hosts \cup {"localhost"})
    /\ manualHost \in Hosts \cup {"localhost", None}
    /\ phone \in [fromQr : Hosts \cup {None}, manualHost : Hosts \cup {None},
                  client : Hosts \cup {None, "anydrop.local"}, typed : BOOLEAN]
    /\ changes \in 0 .. MaxChanges /\ {missed, turned} \subseteq BOOLEAN

\* The window follows the coordinator: when nothing is under way its page connects to
\* the host the election answers, whatever changed while the servers started, was
\* reloaded or entered meanwhile (App.tsx 56-63, main.cjs 272-276).  Only a change that
\* is announced while the page loads, or back while it is being left, may be lost.
WindowFollows ==
    page.phase = "ready" /\ ipc = <<>> /\ ~missed /\ handle /\ host # None => page.client = host

\* A phone that has scanned the code, and keeps the page or comes back to it by its
\* plain address, finds the coordinator until that changes: "the QR must always point
\* at a real LAN address, never localhost" (main.cjs 278-279).
PhoneFindsCoordinator ==
    phone.client \notin {None, "anydrop.local"} /\ ~phone.typed /\ ~turned /\ host # None =>
        phone.client = (IF host = "localhost" THEN Own ELSE host)

\* The window comes, whichever part of the startup fails, and its page comes back
\* after every change of the coordinator, until it is closed.
WindowComes == []<>(page.phase = "ready" \/ main = "quit")
=============================================================================
