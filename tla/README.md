# AnyDrop in TLA+

AnyDrop moves files between devices of one LAN. Laptops elect a *coordinator*,
a WebSocket server that keeps a list of peers and relays WebRTC signalling;
the file itself goes from browser to browser over a data channel. This
directory holds a model of the program in TLA+, configurations that check it
with TLC, and theorems about it that TLAPS checks. Paths below are relative to
the repository; `PROJECT.json` maps every definition to its lines.

## 1. The system

| Component | State | Operations | Talks to |
|---|---|---|---|
| Transfer session, `transfer-engine/src/transferSession.ts` with `messageBus.ts`, `hash.ts`, `resume.ts` | two calls, `sendFile` and `receiveFile`: chunk index, `receivedIndices`, `chunkHashes`, `processingQueue`, the flags of a cancel; a resume entry in localStorage | offer, accept, chunk frames, complete, verified, abort; checkpoint every n chunks; local and remote cancel; timeouts | the data channel, a disk writer, the resume store, the page |
| Disk writers, `transfer-engine/src/diskWriters` | a stream, a database connection, a handle or a map; what is on disk | `open`, `writeChunk`, `finalize`, `abort` | called by `receiveFile`, chosen by `pickWriter` |
| Coordinator server, `coordinator/src/server.ts`, `peerRegistry.ts` | `registry`, `sockets`, per connection a `deviceId` | register, heartbeat, signal, unregister, close, sweep | clients over WebSocket |
| Coordinator client, `web/src/lib/coordinatorClient.ts` | socket, connection state, backoff counter, timer | connect, disconnect, send, message and close handlers | the server; `App.tsx` |
| Election, `coordinator/src/election.ts`, `mdns.ts` | `role`, `epoch`, `tracked`, `attemptingFailover`, `lastNotifiedHost` | probe, bind, advertise, watch, fail over, stop | mDNS, the OS's ports, `startCoordinatorServer`, the desktop window |
| Connection setup, `transfer-engine/src/connection.ts` | per call an `RTCPeerConnection`, `remoteDescriptionSet`, `pendingCandidates`, a subscription to the peer's signals | offer, answer, candidates, the channel's opening | the relay; the page's listener for offers |
| Pairing, `transfer-engine/src/pairing.ts`, `web/src/lib/peerSession.ts` | a trust store on each side, a PIN, attempts left | request, three verifications, result | the data channel, two humans, the page |
| Chunk arithmetic, `transfer-engine/src/chunking.ts` | none | `totalChunksFor`, `chunkBounds`, `computeFileId` | called by the session |
| Page, `web/src/App.tsx` | one PIN dialog, one dialog for an incoming file, a map of abort controllers, a client | send, cancel, the listener for offers, reload | all of the above |
| Desktop shell, `desktop/electron/main.cjs`, `preload.cjs`; discovery, `web/src/lib/discovery.ts`, `QrPairingPanel.tsx` | `coordinatorHandle`, the window, `lanOrigin`, `qrCoordinatorHost`; `?host=` and `manualHost` of each page | startup, host changes, navigation, the QR code, the end | the election, the page in its window, a phone |

**What is hard.** All of the code is single-threaded and asynchronous, so the
hazards are the awaits: a control message is handled while frames are still
being written and hashed; a cancel of either side, a timeout and a completion
race; the page dies between a write and the checkpoint that lists it; a
connection is replaced while messages of the old one are in flight and its
`close` comes later; a half-open connection says nothing; laptops that lost
their coordinator race to replace it while mDNS events keep arriving; sessions
of one page share its dialogs and controllers, and its connection calls share
the signals of a peer; a window is told of a new host while its page loads.
`PROJECT.json` lists each hazard at its line, with the property that would
notice it or the reason there is none.

**What makes it correct.** A transfer reported complete has delivered the
sender's bytes, whatever attempts it resumed from; a cancel or failure ends
both calls. A call connects to the call that answered it; a dialog on the
screen has somebody who waits for it, and pairing leaves both sides of one mind.
The server's two maps agree, every page ends up showing exactly
who is registered, and no page believes itself connected while nobody sees it.
A host has at most one coordinator, a lost one is replaced, the page is told
where it is, and windows and phones connect to it.

## 2. The modules

| Module | Models | Checked by |
|---|---|---|
| `Transfer` | abstract: what the two users of a transfer may be told, and when | implemented by `TransferSession` |
| `DiskWriter` | what the four writers keep on disk after each operation, a torn write and a crash | as part of `TransferSession` |
| `TransferSession` | `sendFile` and `receiveFile`, the channel between them, the resume entry, the users | `MCTransfer` |
| `TransferSessionProofs`, `TransferRefinement` | theorems about it; that it implements `Transfer` | TLAPS |
| `Chunking`, `ChunkingProofs` | `totalChunksFor`, `buildFileMeta`, `chunkBounds`, `readChunk`; theorems about them | `MCTransfer` (an assumption), TLAPS |
| `Connection` | `connectToPeer` calls of several pages, the listener that starts one for an offer | `MCConnection` |
| `ConnectionProofs` | theorems about it | TLAPS |
| `Pairing` | `sendFileToPeer`, `listenForNextIncomingTransfer`, the trust stores, what `App.tsx` shares between sessions | `MCPairing` |
| `PairingProofs` | theorems about it | TLAPS |
| `Coordinator` | `handleConnection`, the registry, broadcasts, the sweep, a restart; the wires | as part of `CoordinatorClient` |
| `CoordinatorClient` | the pages and their clients, the faults, the composed system | `MCCoordinator` |
| `CoordinatorProofs` | theorems about the composed system | TLAPS |
| `Election` | `runElection`, `attemptFailover`, binding the port address by address | `MCElection` |
| `HostChanges` | abstract: what an election tells the program around it | implemented by `Election` |
| `ElectionProofs` | theorems about `Election`; that it implements `HostChanges` | TLAPS |
| `DesktopShell` | `main.cjs` around an election, the bridge, the page's host, the QR code and the phone that scans it | `MCDesktop` |
| `DesktopShellProofs` | theorems about it | TLAPS |

An action is the code one party runs between two awaits that really wait: for a
message, a timer, a human, the disk or a digest. Variables keep the names of
the source where TLA+ has room for them; where a local variable is the place in
an async function, `spc`, `rpc`, `phase` name the await it is in.

**TransferSession.** `spc` and `rpc` are the awaits of the two calls;
`queue`/`qStage` is `processingQueue` (one frame is being written, then
hashed); `lTask`, `aTask` and `vTask` are the three handlers that run beside
it, the local cancel, the sender's cancel and the verification. A chunk's
content is the version of the file it was cut from, and its hash is that
version; so a file is delivered intact if every chunk has the version the
sender read. `StartTransfer` is the user sending the file again, perhaps
changed, over a new channel; `store` and `disk` survive, the rest starts anew.
The channel is reliable and ordered until `LinkFails`; `ReceiverCrash` leaves
what `Restarted` says the writer keeps.

**Coordinator and CoordinatorClient.** A connection is an element of `Conns`
with two ends (`srv`, `end`), two queues (`up`, `down`) and possibly `cut`, a
half-open connection. The handlers of `server.ts` are `HandleRegister`,
`HandleHeartbeat`, `HandleSignal`, `HandleUnregister` and `SocketCloses`, each
with the broadcasts it sends; the sweep is a loop of `Evict` steps during which
no handler runs. Time is the number of sweeps since the last heartbeat
(`missed`). A client is its socket, state, backoff counter and timer; `Reload`
is what `App.tsx` does when the page is loaded again: a new client object with
the same device id (changing the nickname does not make one). `scene` says
which pages are of a newer version and which are closed at no cost; it never
changes. A connection both of whose ends are closed
is used again for a new one, so three elements do for two pages.

**Election.** One element of `Laptops` per run of the program; `HostOf` says on
which machine. `startCoordinatorServer` listens on a host's addresses one after
the other, so two runs can each get some. A record is published with the epoch
(`published`), a browser's `Up` and `Down` come with any delay, and with
`Lossy` a probe may miss what is there. All runs use the same port number, so
the comparison of ports in the `down` handler is left out: it never fails. What
the desktop app sees of an election is `HostChanges`; `Told(l)` is its instance
for run `l`.

**Connection.** A call is a record: the state of one `connectToPeer` and of the
`RTCPeerConnection` it owns, whose `ops` is the browser's operations chain. One
action is one operation with what the code does when its promise settles, or the
dispatch of one signal to every subscribed handler of a page. Signals carry the
sender and not the call, so a call left behind by a lost signal or a reload
hears those of its successors. One candidate is gathered for each local
description and sent right behind it; a candidate of another call's description
is ignored or refused as the browser does, and a refusal ends the handler that
was adding it. Losing a signal, reloading a page, and sending to a
peer while anything else goes on with it are counted as faults.

**Pairing.** A session begins when both ends of a channel are open. `send` and
`recv` are the places of the two functions, `toS` and `toR` the messages under
way, closes included. `pinModal`, `incomingConfirm` and `abortControllers` belong
to the page and hold the session that set them last. Of the transfer there are the
places where `sendFile` waits or looks whether it is cancelled: the answer to its
offer (`offer`, 30 seconds), the loop (`send`), `waitForBufferDrain` (`drain`), the
hash (`hash`) and the verdict (`verdict`, 30 seconds). A cancel of either side is
acted on at once only where the code races it; in the loop it sets a flag
(`sCancel`, `sRemote`) that the next look finds, in `drain` that look comes after the
wait, and from `hash` on nobody looks. `drain` has no timeout and no way out once
the channel is closed. `chunks` counts what the loop has left; a frame that is
sent is not a message here. `Send` is one file per route, so two sessions of a route
have one file id.

Three history variables say what a session was spared. `undisturbed`: no other
session shared a page with it while it ran, the two devices remembered the same trust
when it began, neither forgot and neither page was reloaded. `unrivalled`: the same,
but for sessions with third devices, which may share its pages. `sole`: the
sessions with its file had ended before it and none has begun since. `Unstable`
bounds which page is reloaded and whose store forgets.

**DesktopShell.** `main` is the await the startup is in. `ipc` holds the hosts sent
to the window; the document in it is loading, ready or being left (`page`), and
only one that is not loading has a listener. `missed`, `turned` and `phone.typed` are
history variables for the conditions of two properties. `Watch` is an
instance of `HostChanges`: the shell is composed with any election that
implements it.

**Refinement.** `TransferSession!KeepsPromise` maps the two calls to what their
users have been told; `Election!ShellsAreTold` maps each run to the host it
reports. TLC checks both, and TLAPS proves both for all values of the
constants.

## 3. The runs

| Run | Bounds | Shows |
|---|---|---|
| `transfer_resume` | 3 chunks, 2 versions, 2 attempts, checkpoint each chunk, Tauri and IndexedDB, symmetry | `CompleteMeansVerified`, `DeliveredIntact`, `CheckpointDurable` (the resume entry lists only chunks that are on disk with the hashed bytes), `VerificationSeesAll`, `TerminalEventIsFinal`, `KeepsPromise` (the refinement), `TypeOK` with crashes, link failures, timeouts and both cancels |
| `transfer_live` | 3 chunks, checkpoint every 2, 1 attempt, high water 2, FSA, IndexedDB, Tauri; fairness | `SenderEnds`, `ReceiverEnds`, `CancelEnds`, `BufferBounded`, `DeliveredIntact` |
| `transfer_holes` | 2 chunks, 2 attempts, FSA | violates `DeliveredIntact` (finding 1) |
| `transfer_cancel_send` | 3 chunks, 1 attempt; fairness | violates `CancelEndsSend` (finding 2) |
| `coordinator_safe` | 2 devices, 2 pages, 3 connections, 2 faults, 1 signal, symmetry | `RegistryMatchesSockets`, `NewsIsCurrent`, `NoSilentOrphan`, `SignalsArrive` (relayed to the current connection under the right id), `TypeOK` |
| `coordinator_live` | the same, 1 fault, no signal, each page known or of a newer version; fairness | `Settles`, `SilentIsEvicted` |
| `coordinator_replaced` | the same, 2 faults | violates `ReplacedIsStale` (finding 3) |
| `election` | 4 runs on 3 hosts, 2 addresses, lossy probes; fairness | `OneCoordinatorPerHost`, `AdvertisedIsTrue`, `PageFollowsHost`, `LossIsRepaired`, `ShellsAreTold` (the refinement), `TypeOK` |
| `election_winner` | 3 laptops, 1 address, no loss | violates `JoinsTheWinner` (finding 4) |
| `connection` | 3 devices, two of which send to the third, 2 files, 1 fault, symmetry | `AnswersOwnOffer`, `OpenIsHeard`, `NoStuckSend`, `TypeOK` |
| `pairing` | 3 devices, 3 routes, 2 sessions, 2 PINs, 1 chunk, 1 fault at one of the devices; fairness | `DialogBelongs`, `PinIsKeptUp`, `TrustIsMutual` (both trust or neither, but while the verdict is under way), `CancelFindsTransfer`, `SessionsEnd` (but for the two waits on a closed channel), `TypeOK` |
| `desktop` | 3 hosts, 3 changes of the coordinator; fairness | `WindowFollows`, `PhoneFindsCoordinator`, `WindowComes`, `TypeOK` |

**Why these bounds.** Three chunks and two attempts are the least in which a
resume can start in the middle of a file and in which a stale entry meets a
changed file, and fill the channel above its high water mark; a checkpoint lags
behind the writes by the awaits between them, in `transfer_live` by a chunk more.
A fault of the signalling system is a reload, a departure, a failed connection,
a cut, a restart or a late heartbeat;
two of them let a replacement and the loss of one of the connections overlap.
In `coordinator_live` one page may be of a version the server does not know;
closing the other is then not counted (`scene.closing`), so that
its connection can also be cut: a page that is there reconnects and replaces
the lost connection, one that is gone leaves it to the sweep.
`MissedLimit` and `GiveUpAfter` of 1 keep the counters small and both branches
reachable: no code depends on their size. Elements of `Conns` are reused, so
the number of reconnects is not bounded by it. Four runs on three hosts give
a shared host, two rivals for a failover, and a chain of successors; nothing
in `Election` is bounded, since every run starts and leaves once. Two sends make
every overlap of two calls, in one direction and to one page; with the fault
one of them may be what an earlier page or a lost signal left behind. Two
sessions of three routes meet in both roles of a page, with the same file and with
different ones; two PINs instead of three have a last attempt and one that
is not; one chunk has every place of the loop. The fault is at a device that has
both roles, its peer being the one that has sessions with the third. Three changes of host let one be missed and the next two put it right, or
return to where it began.

**Symmetry** is used for the two versions of the file, for the two
devices with their pages and the connections, and for the two senders of
`connection`, in runs without liveness only. Connections are alike although
`Fresh` chooses one: `OpenOn` overwrites what its last use left before anything
reads it.

**Deadlock** is not checked: users may do nothing more, and laptops leave.

**Fairness.** `TransferSession`: weak fairness of everything one device's code
does, one formula per device, since its event loop runs what is ready; timers,
disk and digests answer. Users, faults and the network's failures are not
fair. `CoordinatorClient`: the same for server and pages, per connection and
page. The reconnect of a page is strongly fair only because `Conns` is a pool.
The client learns that a connection is cut because it goes on sending; the
server does not, except after it has itself begun to close it: it has only
the sweep, which is what `SilentIsEvicted` is about. `Election`: timers and
probes end and a browser in the end reports every record that has come or
gone; nobody promises that a laptop is started. `Pairing`: both pages run, messages
arrive, the buffer of an open channel drains, and a human answers a dialog that
stays on the screen; nobody has to send, cancel or reload. A sender that drains and a
receiver in the transfer have no step once the channel is closed, and `SessionsEnd`
counts both as ended (`Ended`): it is the same wait as in finding 2, and the one that
`SenderEnds` and `ReceiverEnds` except. One formula for all steps of sessions is enough, since
`MaxSessions` bounds how many can keep each other waiting. `DesktopShell`: what the
startup awaits ends or throws, ipc arrives and documents load; nobody promises
that a coordinator changes or a user acts. `Connection` states safety only:
`NoStuckSend` says of a state in which nothing is left to happen that the send
has its channel.

## 4. What disagrees with the documents

1. *A resumed transfer can deliver a file with a hole* (`transfer_holes`). The
   File System Access writer keeps chunks in a swap file that `abort()` and a
   crash discard, while checkpoints already list them. The next attempt skips
   them, matches the saved hashes and reports complete.
2. *A blocked send cannot be cancelled* (`transfer_cancel_send`). A send that waits
   for its buffer to drain when the channel dies waits for ever.
3. *An old registration replaces a newer one* (`coordinator_replaced`). `server.ts`
   takes every second registration for the newer one; messages of two
   connections are not ordered.
4. *Two coordinators for good* (`election_winner`). `attemptFailover` binds
   after its jitter without probing again or looking at `tracked`. The port
   belongs to a machine, so the bind succeeds beside the winner on another.

*Newer versions are turned away.* `docs/protocol.md` 144-150 says that a coordinator
that sees a higher `protocolVersion` MUST still accept the connection and relay its
signals, and that `register-rejected` is not used in v1. `server.ts` 105-107 answers
`register-rejected` and registers nothing. The model follows the code
(`HandleRejectedRegister`), so a page of a newer version never comes into a list
and no signal of it is relayed; in `coordinator_live` such a page is there, and what
`Settles` says of it is that it stays turned away or offline. No property asks for
that: it is what the document forbids.

*Loss is seen by mDNS only.* `docs/election.md` section 3 has a lost coordinator
detected by the close of the WebSocket or a missed heartbeat. `election.ts` 114-118
starts a failover on the mDNS *down* alone, which `stop()` causes by withdrawing the
record; a coordinator that dies withdraws nothing.

Met while modelling and described here only: `pickWriter` falls back to
`MemoryDiskWriter`, whose `finalize()` saves nothing; `abort()` of the
IndexedDB writer deletes its rows and the checkpoint saved after it lists them
still; a frame that arrives while a local cancel awaits `writer.abort()` turns
the cancel into a failure; a cancel during the wait for the verdict is ignored;
a receiver whose channel has closed cannot be cancelled, and hears of the close
by no other way; two tabs of one browser replace each other's registration for
ever; signals of a replaced connection are still relayed; `protocol.md` has anything
before `register` ignored while heartbeats are answered; a client that has given
up never tries again; `security.md` has an expired partial file deleted (nothing
deletes it) and trust renewed by use (it is not).

Of connections and sessions: two devices that send each other a file at once
roll back each other's offers and both wait for ever; so may two sends to one
peer, which a busy tile allows by taking drops; a lost offer or answer leaves
`connectToPeer` waiting, still subscribed; a dialog that another session
replaces is never answered, and its session ends at the other device only, by its
timeout; a receiver that no longer trusts a sender who trusts it waits for a
pair-request that never comes; `retry()` of the client is never called.

Of the desktop: a host entered by hand on a page with `?host=` is ignored and
overwritten by the reload that was to use it; `qrCoordinatorHost` is computed once at startup,
so after a failover the code leads phones to the old coordinator; without a LAN
address the panel offers a code of the `file:` page; a change announced while the page
loads is lost, and one back to the old host while the page is being left is
ignored; `win` is not cleared when the window closes, so a late change is sent
to a destroyed window.

## 5. What is proved

The theorems hold for every value of the constants: any number of chunks,
versions, devices, pages, connections, sends, sessions, faults, hosts,
addresses. They assume only the named `ASSUME`s of the modules (`None` is no
device, limits are natural numbers, a low mark below the high one), which TLC
evaluates in every run; one theorem, `DeliveredIsIntact`, has a hypothesis of
its own. Every safety property the passing runs check is a theorem.

*TransferSessionProofs.* `TypeCorrect` is inductive as it stands once the sizes
of the indices are in it. `CompleteIsVerified`: a sender's *complete* means that
every chunk's hash is that of the source. The invariant (`VerifiedInv`) follows
the claim back through the channel: a positive verdict on its way means that all
hashes match now, a verification in progress holds the hash of this attempt's
source, everything in transit or queued was read from it; so a frame that is
still processed after the verdict can only write the hash that is there.
`LastEventIsFinal` rests on *a terminal event means settled*.
`ResumeFromChunkCorrect` says what the resume offset is, by the least element of
a set of naturals.

What is delivered needs `DeliveryInv`, in two halves. `SendingInv` is about the
wire: frames are below the sender's place, nothing is sent before the accept,
every chunk the sender has passed is in transit, queued or received
(`SentIsHeld`), one it skipped was received before (`SkippedIsReceived`),
*complete* is the last message, and so a verification has every chunk:
`NoChunkMissing`, which is `VerificationSeesAll`. `KeepingInv` is about the
disk: a received chunk was hashed and, for a writer that writes in place, is on
disk with the hashed bytes, as is every chunk of the resume entry;
`CheckpointsAreDurable` is the second half for Tauri. The hard step is a crash,
which may come between a write and its checkpoint. `DeliveredIsIntact` follows
for IndexedDB and Tauri over any number of attempts, and with FSA for one
attempt: a swap file is intact only if the attempt that delivers it began it,
which is finding 1. The memory writer is in neither case, because its `finalize`
saves nothing. `BufferIsBounded` says that no more frames wait in the channel
than the high water mark allows.

*TransferRefinement.* `TransferImplemented` is `Spec => KeepsPromise`. What one
user is told rests on what the other did, so the invariant (`CauseInv`) follows
each outcome back to its cause: an abort or a reject on the wire, a flag or a
handler that remembers a cancel, a finalize under way. Each action is then a
step of `Transfer` or a stutter.

*ChunkingProofs.* For every file and chunk size, `ChunksCutExactly`: each byte
is in exactly one chunk; `ChunksAreNotEmpty`: none is empty, and an empty file
has none.

*ConnectionProofs.* `General` holds of every call: no operation adds a candidate
before there is a remote description, a call describes only itself, and the
number in a description, waiting, applied or on the wire, is that of a call
there is. With it comes `ConnectionTypeCorrect`. The other three theorems are
about a send that nothing disturbed, whatever calls a lost signal or a reload
has left behind: `AnswersAreOwn`, `OpenStaysHeard`, `NoSendIsStuck`. None is
inductive, because an answer does not say what it answers and a candidate does
not say whose it is: the handlers apply what comes. `SendsInv` says what can
come. Such a send is either joined, open at both ends with each other's
descriptions, or it negotiates: at first the wire holds at most its offer, and
none of the peer's calls has touched that (`Offering`). Then (`Exchanging`) each
of the peer's calls is untouched, answering, done answering, or gave up on a
candidate that was not for it, and one answers for certain (`PeerSide`); every
answer on its way is to this offer and has its candidate right behind it
(`AnswersBack`); and the caller waits for its first answer with the candidate in
the right place or has agreed on one (`CallerSide`). The candidates' places are
what shows that none is lost, and so that a send that has nothing left to happen
is open. `MCConnection` was used to check `SendsInv` as an invariant before it
was proved.

*PairingProofs.* `PairingTypeCorrect` and `DialogsBelong` rest on each dialog and
controller of a page belonging to a session in the place that shows or owns it
(`DialogInv`, `ControllerInv`). `CancelAlwaysFinds` says two things: that any
controller that is found is of a call with that file which is still at work, which is
`ControllerInv` and holds whatever sessions there are; and that the last session of a
file keeps its own, while sessions with other files come and go in either direction.
The second needs that the sessions of that file before it had ended (`SoleInv`,
`CancelInv`): one that overlaps does replace or forget the controller, and nothing is
claimed of that. `PinStaysUp` and `TrustStaysMutual` need what a
session passes through while it pairs, `Stage`: for each place of the sender the
places the receiver can be in, the message between them and the attempts both
count; after it the receiver is past pairing as well (`Settled`). `Mutual` is the
trust of both at each of them; `PairInv` says both of every unrivalled session. That
is enough for the trust, because a session with a third device writes no entry
about these two; the dialog needs an undisturbed one, because it may take the dialog
(`Shown`). `AloneInv` says that all sessions that `Interferes` counts are over.
`TrustStaysMutual` is thereby about both directions, sender and receiver, and
speaks of sessions whose devices agreed when they began, with neither page reloaded,
no entry forgotten and no second session between the same two: a reload between the
receiver's verdict and the sender's storing it does leave them apart.

*CoordinatorProofs.* `MapsAgree` is `RegistryMatchesSockets`. It is not
inductive: it needs that a connection's `deviceId` is set only while its handler
lives (`HandlerState`), that `register` is the first message of a connection and
comes once (`RegisterFirst`), without which one connection could serve two
devices, and that the running sweep has found only registered peers
(`SweepKnowsPeers`). `CoordinatorTypeCorrect` comes with it. `NewsStaysCurrent`
and `NobodyIsOrphaned` are about the pages, which see the server through queues.
`PagesInv` says of each page whose connection is open and not cut that it is
registered, has its `register` on its way, or is being closed by the server
(`Seen`), and, if it is registered, that its list or the last one on its way to
it is the registry (`Knows`); `OwnSockets` that no two pages share a connection,
although connections are used again; `RegisterHeard` that the server listens
wherever a `register` is on its way. `SignalsAlwaysArrive` is an action property of the same
invariant: a relayed signal goes to the connection the registry has.

*ElectionProofs.* `FirstBindWins` is `OneCoordinatorPerHost`; the invariant says
that a coordinator listens on all addresses and that a laptop that is binding
and was not refused listens on all it has tried, in order from the first.
`RecordsAreTrue`, `PageIsTold` and `ElectionTypeCorrect` share it.
`ShellsAreToldAlways` is the refinement of `HostChanges`, from the same
invariant: that the page knows the host is what makes a report a change.

*DesktopShellProofs.* `ShellTypeCorrect`, `WindowAlwaysFollows`,
`PhonesFindCoordinator`. The invariant says what the startup has made at each of
its awaits (`StartupInv`), that a document in the window has a host and a
document being left a destination (`PageInv`), that the last host sent to a
window is the coordinator's, and that where the page is going agrees with it
once it has arrived and was not missed (`SentInv`), and what the code and the
phone remember until the coordinator changes (`QrInv`, `PhoneInv`).

*Model-checked only.* What must eventually happen (`SenderEnds`, `ReceiverEnds`,
`CancelEnds`, `Settles`, `SilentIsEvicted`, `LossIsRepaired`, `SessionsEnd`,
`WindowComes`): liveness under fairness is beyond the proof system. Nothing
is claimed of `DeliveredIntact` for FSA over several attempts: `transfer_holes`
refutes it.

## 6. What is not modelled

- The join of the three stages of a send: `Connection` ends with an open channel,
  `Pairing` begins with one and has of the transfer the places and the messages that
  end it, and `TransferSession` begins with an open, trusted channel. What passes from one to the
  next is that state only; their product is beyond TLC.
- The queue of several files and the marks of busy tiles in `App.tsx`; more than
  one file per route.
- Overlapping receiving calls: an attempt starts when the receiver's last one
  has ended or is stuck on a closed channel (`ReceiverQuiescent`), although
  nothing in `App.tsx` waits for that; two calls that write one file are not modelled.
- Bytes: SHA-256 (taken as injective), JSON and framing.
- Expiry of the resume entry, which removes it as if it had never been: a
  transfer that starts at 0.
- `mDNS`, WebSocket, WebRTC and the file APIs, except as the code uses them.
  A library that fails differently (for instance `ws` repeating a bind error on
  an emitter without listener) is outside the models.
- Differences between the address lists two runs on one host see; a bind that fails
  for another reason than a run on the same host (`Election!Free`), as another program
  or an address that is gone.
- A coordinator that dies without `stop()`: its record stays until mDNS drops it, and
  `LossIsRepaired` speaks of the loss of the record. All records have the one name
  'Anydrop Coordinator' (`mdns.ts` 52); the model gives each run a record of its own
  and leaves out what mDNS does about the conflict.
- Connections from addresses that are not private, which `server.ts` 54-59 closes
  before any handler sees them.
- Rejections of the storage while a transfer is wound up: `writer.abort()`
  (`transferSession.ts` 332, 350, 378) and `saveCheckpoint()` (312, 351). They lead
  to `finish(reject)`, an end without an event, or to a failing queue, which a
  failing write does in the model as well. In `Pairing` the receiver's writer does
  not fail.
- `channel.onerror` before a channel is open (`connection.ts` 92, 103), whose
  rejection ends the call.
- A start of the coordinator that throws in the desktop shell (`main.cjs` 305): the
  window comes up in the same state as when the certificates cannot be read.
- `CheckpointDurable` is about the writer that writes in place, `TauriFsWriter`, which
  is in the repository but returned by no `pickWriter`. What the writers a page gets
  keep is in `DeliveredIntact` and `transfer_holes`.
- Rendering, the updater, the certificate verifier, what the static servers serve:
  I/O around libraries, without state of the protocol.
- macOS, where closing the window stops the election and leaves the app running.

## 7. Plan

| Order | Module | Content | To check and prove |
|---|---|---|---|
| done | `DiskWriter`, `TransferSession`, `Coordinator`, `CoordinatorClient`, `Election` | sections 2 to 5 | |
| done | `Transfer`, `TransferRefinement`, `Chunking`, `Connection`, `Pairing`, `HostChanges`, `DesktopShell` | sections 2 to 5 | |
| done | `DesktopShellProofs`, `PairingProofs`, `ConnectionProofs`; more of `CoordinatorProofs`, `TransferSessionProofs` | section 5 | every safety property of the passing runs |
| 1 | `Paired`, `PairingProofs` | abstract: what the two users of a session are told and may conclude | that `Pairing` implements it |
| 2 | `Joined`, `ConnectionProofs` | abstract: a send gets one channel, or none | that `Connection` implements it, from `SendsInv` |
| 3 | `TransferSession` | overlapping receiving calls of one file | what two calls can do to one disk and one resume entry |
