------------------------------ MODULE Pairing ------------------------------
(***************************************************************************)
(* Sessions between devices: sendFileToPeer and                            *)
(* listenForNextIncomingTransfer of web/src/lib/peerSession.ts with the    *)
(* trust kept by transfer-engine/src/pairing.ts, and what web/src/App.tsx  *)
(* gives all sessions of a page to share: one PIN dialog, one dialog for   *)
(* an incoming file, and one AbortController per file id.                  *)
(*                                                                         *)
(* A session begins when both ends of its channel are open (Connection).   *)
(* Of the transfer there are the places where sendFile waits or looks      *)
(* whether it is cancelled, and the messages that end it; the data are     *)
(* those of TransferSession.                                               *)
(* Every route has one file, so that two sessions on a route have the same *)
(* file id.  An action is what one page does between two awaits that wait  *)
(* for a message, a timer or a human.                                      *)
(*                                                                         *)
(* A definition called a mutated form is one a mistake in the code would   *)
(* give.  It stands before the definition it varies and nothing uses it.   *)
(***************************************************************************)
EXTENDS Integers, Sequences

CONSTANTS
    Device,       \* the devices, one page each
    Routes,       \* the <<sender, receiver>> pairs of sessions
    InitialTrust, \* what the pairing stores may hold at first
    MaxAttempts,  \* how many PINs may be tried
    MaxChunks,    \* bound: how many chunks a file has
    MaxSessions,  \* bound: how many sessions there are
    Unstable,     \* bound: the devices whose page is reloaded and whose store forgets
    MaxFaults     \* bound: pages reloaded and trust forgotten

ASSUME PairingRoutes == \A r \in Routes : r \in Device \X Device /\ r[1] # r[2]
ASSUME TrustAssumption == InitialTrust \subseteq [Device -> SUBSET Device]
ASSUME PairingBounds ==
    /\ MaxAttempts \in Nat \ {0}
    /\ MaxChunks \in Nat /\ MaxSessions \in Nat /\ MaxFaults \in Nat

VARIABLES
    sessions,         \* the sessions, in the order they began
    trust,            \* the pairing store of each device
    pinModal,         \* the PIN dialog of each page
    incomingConfirm,  \* the session each page asks its human about, or 0
    abortControllers, \* the session whose controller each page has for a file id
    faults

appVars == <<pinModal, incomingConfirm, abortControllers>>
vars == <<sessions, trust, appVars, faults>>

NoModal == [mode |-> "none", of |-> 0]

\* send and recv are where the two functions are, sTries and rTries the attempts
\* they have left, chunks those sendFile has left, sRemote and rAborted what a
\* transfer-abort has set, toR and toS the messages under way.  The last three are
\* history variables, read by the properties only (see Disturb).
NewSession(from, to) ==
    [from |-> from, to |-> to, send |-> "connected", recv |-> "connected",
     sTries |-> MaxAttempts, rTries |-> MaxAttempts, chunks |-> MaxChunks,
     sCancel |-> FALSE, rCancel |-> FALSE, sRemote |-> FALSE, rAborted |-> FALSE,
     toR |-> <<>>, toS |-> <<>>, sOpen |-> TRUE, rOpen |-> TRUE,
     undisturbed |-> TRUE, unrivalled |-> TRUE, sole |-> TRUE]

\* In "send" the loop looks whether it is cancelled, in "drain" it waits for the
\* buffer, in "hash" for the hash of the file, in "verdict" for the receiver's.
SendPlaces == {"connected", "prompt", "result", "offer", "send", "drain", "hash", "verdict",
               "ended", "gone"}
RecvPlaces == {"connected", "request", "verify", "offer", "confirm", "pick", "transfer", "ended", "gone"}
Over == {"ended", "gone"}

FileIds == Device \X Device

\* mutated form of ComputeFileId: the two devices in no order.
UnorderedFileId(from, to) == CHOOSE f \in FileIds : f \in {<<from, to>>, <<to, from>>}

\* computeFileId: the ids of both devices are part of it, in this order.
ComputeFileId(from, to) == <<from, to>>
FileId(i) == ComputeFileId(sessions[i].from, sessions[i].to)

Init ==
    /\ sessions = <<>>
    /\ trust \in InitialTrust
    /\ pinModal = [d \in Device |-> NoModal]
    /\ incomingConfirm = [d \in Device |-> 0]
    /\ abortControllers = [d \in Device |-> [f \in FileIds |-> 0]]
    /\ faults = 0

-----------------------------------------------------------------------------
(* The channel: what was sent before a close arrives before it. *)

ToReceiver(s, m) == IF s.rOpen THEN [s EXCEPT !.toR = Append(@, m)] ELSE s
ToSender(s, m) == IF s.sOpen THEN [s EXCEPT !.toS = Append(@, m)] ELSE s

SenderCloses(s) ==
    LET told == IF s.sOpen THEN ToReceiver(s, [type |-> "close"]) ELSE s
    IN [told EXCEPT !.sOpen = FALSE, !.toS = <<>>]
ReceiverCloses(s) ==
    LET told == IF s.rOpen THEN ToSender(s, [type |-> "close"]) ELSE s
    IN [told EXCEPT !.rOpen = FALSE, !.toR = <<>>]

SenderHears(i, type) ==
    sessions[i].sOpen /\ sessions[i].toS # <<>> /\ Head(sessions[i].toS).type = type
ReceiverHears(i, type) ==
    sessions[i].rOpen /\ sessions[i].toR # <<>> /\ Head(sessions[i].toR).type = type
SenderTook(i) == [sessions[i] EXCEPT !.toS = Tail(@)]
ReceiverTook(i) == [sessions[i] EXCEPT !.toR = Tail(@)]

Becomes(i, s) == sessions' = [sessions EXCEPT ![i] = s]

-----------------------------------------------------------------------------
(* The dialogs and controllers of the page of device d. *)

SetPinModal(d, modal) == pinModal' = [pinModal EXCEPT ![d] = modal]
SetController(d, f, i) == abortControllers' = [abortControllers EXCEPT ![d][f] = i]

\* What a call knows is gone with it.
SenderForgets(s) == [s EXCEPT !.sTries = 0, !.chunks = 0, !.sCancel = FALSE, !.sRemote = FALSE]
ReceiverForgets(s) == [s EXCEPT !.rTries = 0, !.rCancel = FALSE, !.rAborted = FALSE]

\* sendFileToPeer returns or throws: it has closed the channel, and the finally of
\* handleSendFiles forgets the controller that is there for the file id.
SenderEnds(i, s) ==
    /\ Becomes(i, SenderCloses([SenderForgets(s) EXCEPT !.send = "ended"]))
    /\ SetController(s.from, FileId(i), 0)

\* listenForNextIncomingTransfer returns or throws; the controller is forgotten if
\* the file's meta had come.
ReceiverEnds(i, s) ==
    /\ Becomes(i, ReceiverCloses([ReceiverForgets(s) EXCEPT !.recv = "ended"]))
    /\ IF s.recv \in {"confirm", "pick", "transfer"}
       THEN SetController(s.to, FileId(i), 0) ELSE UNCHANGED abortControllers

-----------------------------------------------------------------------------
(* sendFileToPeer, and sendFile from the offer on *)

\* promptForPin: the page's PIN dialog is now this session's.
PromptForPin(i, s) ==
    /\ Becomes(i, [s EXCEPT !.send = "prompt"])
    /\ SetPinModal(s.from, [mode |-> "enter", of |-> i])
    /\ UNCHANGED abortControllers

\* sendFile: the offer; a signal that is aborted already is acted on at once.
SendOffer(i, s) ==
    /\ UNCHANGED pinModal
    /\ LET offered == [ToReceiver(s, [type |-> "offer"]) EXCEPT !.send = "offer"]
       IN IF ~s.sOpen THEN SenderEnds(i, s)
          ELSE IF s.sCancel THEN SenderEnds(i, ToReceiver(offered, [type |-> "abort"]))
          ELSE Becomes(i, offered) /\ UNCHANGED abortControllers

SenderConnected(i) ==
    /\ sessions[i].send = "connected"
    /\ LET s == sessions[i]
       IN IF s.to \in trust[s.from] THEN SendOffer(i, s)
          ELSE IF ~s.sOpen THEN SenderEnds(i, s) /\ UNCHANGED pinModal
          ELSE PromptForPin(i, ToReceiver(s, [type |-> "pair-request"]))
    /\ UNCHANGED <<trust, incomingConfirm, faults>>

\* The human types the PIN the other device shows, whichever session it is for, or
\* another one.
ShownPins(d) == IF pinModal[d].mode = "show" THEN {pinModal[d].of} ELSE {}

SubmitPin(d) ==
    /\ pinModal[d].mode = "enter"
    /\ SetPinModal(d, NoModal)
    /\ LET i == pinModal[d].of
           s == sessions[i]
       IN \E pin \in ShownPins(s.to) \cup {0} :
             IF s.sOpen
             THEN /\ Becomes(i, [ToReceiver(s, [type |-> "pair-verify", pin |-> pin]) EXCEPT !.send = "result"])
                  /\ UNCHANGED abortControllers
             ELSE SenderEnds(i, s)
    /\ UNCHANGED <<trust, incomingConfirm, faults>>

\* mutated forms of MoreTries.
OneTryFewer(s) == s.sTries > 1
OneTryMore(s) == s.sTries >= 0

\* The loop of attempts goes on.
MoreTries(s) == s.sTries > 0

\* The next attempt, the error when there is none left, or the file.
SenderGetsResult(i) ==
    /\ sessions[i].send = "result" /\ SenderHears(i, "pair-result")
    /\ LET s == [SenderTook(i) EXCEPT !.sTries = @ - 1]
           ok == Head(sessions[i].toS).ok
       IN /\ trust' = IF ok THEN [trust EXCEPT ![s.from] = @ \cup {s.to}] ELSE trust
          /\ IF ok THEN SendOffer(i, s)
             ELSE IF MoreTries(s) THEN PromptForPin(i, s)
             ELSE SenderEnds(i, s) /\ UNCHANGED pinModal
    /\ UNCHANGED <<incomingConfirm, faults>>

SenderGetsAccept(i) ==
    /\ sessions[i].send = "offer" /\ SenderHears(i, "accept")
    /\ Becomes(i, [SenderTook(i) EXCEPT !.send = "send"])
    /\ UNCHANGED <<trust, appVars, faults>>

\* bailIfCancelled: the receiver is told, unless it was the one to cancel.
Stopped(s) == s.sCancel \/ s.sRemote
Bails(i, s) ==
    SenderEnds(i, IF s.sOpen /\ ~s.sRemote THEN ToReceiver(s, [type |-> "abort"]) ELSE s)

\* A frame goes out, which throws on a closed channel; a chunk the receiver has is
\* only hashed.
SendChunk(i, s) ==
    \/ ~s.sOpen /\ SenderEnds(i, s)
    \/ Becomes(i, [s EXCEPT !.send = "send", !.chunks = @ - 1]) /\ UNCHANGED abortControllers

\* The loop over the chunks.
SenderLoops(i) ==
    /\ sessions[i].send = "send"
    /\ LET s == sessions[i]
       IN IF Stopped(s) THEN Bails(i, s)
          ELSE IF s.chunks = 0 THEN Becomes(i, [s EXCEPT !.send = "hash"]) /\ UNCHANGED abortControllers
          ELSE \/ Becomes(i, [s EXCEPT !.send = "drain"]) /\ UNCHANGED abortControllers
               \/ SendChunk(i, s)
    /\ UNCHANGED <<trust, pinModal, incomingConfirm, faults>>

\* waitForBufferDrain returns once the buffer has room, which that of a closed
\* channel never has; nothing else ends the wait.
SenderDrains(i) ==
    /\ sessions[i].send = "drain" /\ sessions[i].sOpen
    /\ LET s == sessions[i] IN IF Stopped(s) THEN Bails(i, s) ELSE SendChunk(i, s)
    /\ UNCHANGED <<trust, pinModal, incomingConfirm, faults>>

SenderCompletes(i) ==
    /\ sessions[i].send = "hash"
    /\ LET s == sessions[i]
       IN IF s.sOpen
          THEN /\ Becomes(i, [ToReceiver(s, [type |-> "complete"]) EXCEPT !.send = "verdict"])
               /\ UNCHANGED abortControllers
          ELSE SenderEnds(i, s)
    /\ UNCHANGED <<trust, pinModal, incomingConfirm, faults>>

\* transfer-abort while the loop or the hash is awaited.
SenderNotesAbort(i) ==
    /\ sessions[i].send \in {"send", "drain", "hash"} /\ SenderHears(i, "abort")
    /\ Becomes(i, [SenderTook(i) EXCEPT !.sRemote = TRUE])
    /\ UNCHANGED <<trust, appVars, faults>>

\* What waitForControl waits for, or a message that ends the wait.
SenderIsTold(i) ==
    /\ \/ sessions[i].send = "offer" /\ SenderHears(i, "reject")
       \/ sessions[i].send = "verdict" /\ SenderHears(i, "verified")
       \/ sessions[i].send \in {"offer", "verdict"} /\ SenderHears(i, "abort")
    /\ SenderEnds(i, SenderTook(i))
    /\ UNCHANGED <<trust, pinModal, incomingConfirm, faults>>

\* The 30 seconds of waitForControl are over.
SenderGivesUp(i) ==
    /\ sessions[i].send \in {"offer", "verdict"}
    /\ SenderEnds(i, sessions[i])
    /\ UNCHANGED <<trust, pinModal, incomingConfirm, faults>>

-----------------------------------------------------------------------------
(* listenForNextIncomingTransfer *)

ReceiverConnected(i) ==
    /\ sessions[i].recv = "connected"
    /\ LET s == sessions[i]
       IN Becomes(i, [s EXCEPT !.recv = IF s.from \in trust[s.to] THEN "offer" ELSE "request"])
    /\ UNCHANGED <<trust, appVars, faults>>

ReceiverGetsRequest(i) ==
    /\ sessions[i].recv = "request" /\ ReceiverHears(i, "pair-request")
    /\ Becomes(i, [ReceiverTook(i) EXCEPT !.recv = "verify"])
    /\ SetPinModal(sessions[i].to, [mode |-> "show", of |-> i])
    /\ UNCHANGED <<trust, incomingConfirm, abortControllers, faults>>

\* mutated form of TriesLeft.
OneTryLess(s) == s.rTries > 2

\* This is not the last attempt.
TriesLeft(s) == s.rTries > 1

\* mutated form of HidePin.
HidePinWhenRight(d, ok) == IF ok THEN SetPinModal(d, NoModal) ELSE UNCHANGED pinModal

\* hidePin closes whatever PIN dialog the page shows, whether the PIN was right or
\* not.
HidePin(d, ok) == SetPinModal(d, NoModal)

\* mutated form of TrustOfReceiver: the id is the page's own.
TrustOfSelf(s) == [trust EXCEPT ![s.to] = @ \cup {s.to}]

\* pairingStore.trust
TrustOfReceiver(s) == [trust EXCEPT ![s.to] = @ \cup {s.from}]

\* The PIN is right, wrong with attempts left, or wrong for the last time.
ReceiverGetsVerify(i) ==
    /\ sessions[i].recv = "verify" /\ ReceiverHears(i, "pair-verify")
    /\ LET ok == Head(sessions[i].toR).pin = i
           s == [ToSender(ReceiverTook(i), [type |-> "pair-result", ok |-> ok]) EXCEPT !.rTries = @ - 1]
       IN IF ok THEN /\ HidePin(s.to, ok)
                     /\ trust' = TrustOfReceiver(s)
                     /\ Becomes(i, [s EXCEPT !.recv = "offer"]) /\ UNCHANGED abortControllers
          ELSE /\ UNCHANGED trust
               /\ IF TriesLeft(sessions[i])
                  THEN Becomes(i, s) /\ UNCHANGED <<pinModal, abortControllers>>
                  ELSE HidePin(s.to, ok) /\ ReceiverEnds(i, s)
    /\ UNCHANGED <<incomingConfirm, faults>>

\* confirmTransfer: the page's dialog is now this session's.
ReceiverGetsOffer(i) ==
    /\ sessions[i].recv = "offer" /\ ReceiverHears(i, "offer")
    /\ LET s == ReceiverTook(i)
       IN /\ Becomes(i, [s EXCEPT !.recv = "confirm"])
          /\ incomingConfirm' = [incomingConfirm EXCEPT ![s.to] = i]
          /\ SetController(s.to, FileId(i), i)
    /\ UNCHANGED <<trust, pinModal, faults>>

\* The bus discards what nobody waits for.
ReceiverIgnores(i) ==
    /\ \/ sessions[i].recv = "request" /\ (ReceiverHears(i, "offer") \/ ReceiverHears(i, "abort"))
       \/ sessions[i].recv = "offer" /\ (ReceiverHears(i, "pair-request") \/ ReceiverHears(i, "pair-verify"))
    /\ Becomes(i, ReceiverTook(i))
    /\ UNCHANGED <<trust, appVars, faults>>

\* transfer-abort: seen after the dialog at first, and at once in the transfer.
ReceiverGetsAbort(i) ==
    /\ sessions[i].recv \in {"confirm", "pick", "transfer"} /\ ReceiverHears(i, "abort")
    /\ IF sessions[i].recv = "transfer" THEN ReceiverEnds(i, ReceiverTook(i))
       ELSE Becomes(i, [ReceiverTook(i) EXCEPT !.rAborted = TRUE]) /\ UNCHANGED abortControllers
    /\ UNCHANGED <<trust, pinModal, incomingConfirm, faults>>

Decide(d) ==
    /\ incomingConfirm[d] # 0
    /\ incomingConfirm' = [incomingConfirm EXCEPT ![d] = 0]
    /\ LET i == incomingConfirm[d]
           s == sessions[i]
       IN \E accept \in BOOLEAN :
             IF accept THEN Becomes(i, [s EXCEPT !.recv = "pick"]) /\ UNCHANGED abortControllers
             ELSE IF s.rAborted \/ ~s.rOpen THEN ReceiverEnds(i, s)
             ELSE ReceiverEnds(i, ToSender(s, [type |-> "reject"]))
    /\ UNCHANGED <<trust, pinModal, faults>>

\* pickWriter is done and the writer open: accept, unless the sender has gone; a
\* cancel that came before is acted on now.
Picked(i) ==
    /\ sessions[i].recv = "pick"
    /\ LET s == sessions[i]
       IN IF s.rAborted \/ ~s.rOpen THEN ReceiverEnds(i, s)
          ELSE LET accepted == [ToSender(s, [type |-> "accept"]) EXCEPT !.recv = "transfer"]
               IN IF s.rCancel THEN ReceiverEnds(i, ToSender(accepted, [type |-> "abort"]))
                  ELSE Becomes(i, accepted) /\ UNCHANGED abortControllers
    /\ UNCHANGED <<trust, pinModal, incomingConfirm, faults>>

\* transfer-complete: the verdict goes back.
ReceiverFinishes(i) ==
    /\ sessions[i].recv = "transfer" /\ ReceiverHears(i, "complete")
    /\ ReceiverEnds(i, ToSender(ReceiverTook(i), [type |-> "verified"]))
    /\ UNCHANGED <<trust, pinModal, incomingConfirm, faults>>

\* An end learns that the other has closed; no handler is installed for that.
SenderGetsClose(i) ==
    /\ sessions[i].sOpen /\ SenderHears(i, "close")
    /\ Becomes(i, [sessions[i] EXCEPT !.sOpen = FALSE, !.toS = <<>>])
    /\ UNCHANGED <<trust, appVars, faults>>
ReceiverGetsClose(i) ==
    /\ sessions[i].rOpen /\ ReceiverHears(i, "close")
    /\ Becomes(i, [sessions[i] EXCEPT !.rOpen = FALSE, !.toR = <<>>])
    /\ UNCHANGED <<trust, appVars, faults>>

-----------------------------------------------------------------------------
(* The users. *)

Shares(i, from, to) == {sessions[i].from, sessions[i].to} \cap {from, to} # {}
Unfinished(i) == sessions[i].send \notin Over \/ sessions[i].recv \notin Over

\* The call is over, or it waits for what a closed channel never brings.
SenderDone(s) == s.send \in Over \/ (s.send = "drain" /\ ~s.sOpen)
ReceiverDone(s) == s.recv \in Over \/ (s.recv = "transfer" /\ ~s.rOpen)
Ended(i) == SenderDone(sessions[i]) /\ ReceiverDone(sessions[i])

\* The history of a session: it is undisturbed when the two devices remembered the
\* same trust, no other session shared a page with it and neither page was
\* reloaded; unrivalled when those other sessions were with third devices; and sole
\* when the sessions with its file had ended before it and none has begun since.
\* Disturb records what happens to the pages of D, to the sessions between D and E,
\* and to the files of the routes R.
Disturb(D, E, R) ==
    [i \in DOMAIN sessions |->
        LET s == sessions[i]
            pages == {s.from, s.to}
        IN [s EXCEPT !.undisturbed = @ /\ pages \cap D = {},
                     !.unrivalled = @ /\ (pages \cap D = {} \/ ~(pages \subseteq D \cup E)),
                     !.sole = @ /\ <<s.from, s.to>> \notin R]]

Agreed(from, to) == from \in trust[to] <=> to \in trust[from]
Alone(from, to) ==
    Agreed(from, to) /\ \A i \in DOMAIN sessions : Shares(i, from, to) => ~Unfinished(i)
Unrivalled(from, to) ==
    /\ Agreed(from, to)
    /\ \A i \in DOMAIN sessions : {sessions[i].from, sessions[i].to} = {from, to} => ~Unfinished(i)
Sole(from, to) ==
    \A i \in DOMAIN sessions : sessions[i].from = from /\ sessions[i].to = to => Ended(i)

\* handleSendFiles, up to an open channel.  A tile that is busy takes no click, but
\* files may be dropped on it.
Send(from, to) ==
    /\ Len(sessions) < MaxSessions
    /\ sessions' = Append(Disturb({from, to}, {}, {<<from, to>>}),
                          [NewSession(from, to) EXCEPT !.undisturbed = Alone(from, to),
                                                       !.unrivalled = Unrivalled(from, to),
                                                       !.sole = Sole(from, to)])
    /\ SetController(from, ComputeFileId(from, to), Len(sessions) + 1)
    /\ UNCHANGED <<trust, pinModal, incomingConfirm, faults>>

\* handleCancelTransfer, of a file whose row shows progress: the controller that is
\* there for its id is aborted.
Runs(i, d) ==
    \/ sessions[i].from = d /\ sessions[i].send \in {"send", "drain", "hash", "verdict"}
    \/ sessions[i].to = d /\ sessions[i].recv = "transfer"

\* Only the wait for the answer to the offer is raced against the signal; elsewhere
\* sendFile finds it aborted at its next look, and looks no more once it hashes.
Aborts(i, d) ==
    LET s == sessions[i] IN
    IF s.from = d
    THEN IF s.send = "offer" THEN Bails(i, s)
         ELSE IF s.send \in {"hash", "verdict"} THEN UNCHANGED <<sessions, abortControllers>>
         ELSE Becomes(i, [s EXCEPT !.sCancel = TRUE]) /\ UNCHANGED abortControllers
    ELSE IF s.recv = "transfer" /\ s.rOpen
    THEN ReceiverEnds(i, ToSender(s, [type |-> "abort"]))
    ELSE Becomes(i, [s EXCEPT !.rCancel = TRUE]) /\ UNCHANGED abortControllers

CancelTransfer(d) ==
    /\ \E i \in DOMAIN sessions :
          /\ Runs(i, d)
          /\ abortControllers[d][FileId(i)] # 0
          /\ Aborts(abortControllers[d][FileId(i)], d)
    /\ UNCHANGED <<trust, pinModal, incomingConfirm, faults>>

\* The page of d is reloaded: only the pairing store is left.
Gone(s, d) ==
    IF s.from = d THEN SenderCloses([SenderForgets(s) EXCEPT !.send = IF @ = "ended" THEN @ ELSE "gone"])
    ELSE IF s.to = d THEN ReceiverCloses([ReceiverForgets(s) EXCEPT !.recv = IF @ = "ended" THEN @ ELSE "gone"])
    ELSE s

Reload(d) ==
    /\ d \in Unstable
    /\ faults < MaxFaults /\ faults' = faults + 1
    /\ \E i \in DOMAIN sessions : Shares(i, d, d) /\ Unfinished(i)
    /\ sessions' = [i \in DOMAIN sessions |-> Gone(Disturb({d}, Device, {})[i], d)]
    /\ SetPinModal(d, NoModal)
    /\ incomingConfirm' = [incomingConfirm EXCEPT ![d] = 0]
    /\ abortControllers' = [abortControllers EXCEPT ![d] = [f \in FileIds |-> 0]]
    /\ UNCHANGED trust

\* An entry is older than a day, or the site's data are cleared.
Forget(d, e) ==
    /\ d \in Unstable
    /\ faults < MaxFaults /\ faults' = faults + 1
    /\ e \in trust[d]
    /\ trust' = [trust EXCEPT ![d] = @ \ {e}]
    /\ sessions' = Disturb({d}, {e}, {})
    /\ UNCHANGED appVars

-----------------------------------------------------------------------------
SenderStep(i) ==
    \/ SenderConnected(i) \/ SenderGetsResult(i) \/ SenderGetsAccept(i)
    \/ SenderLoops(i) \/ SenderDrains(i) \/ SenderCompletes(i) \/ SenderNotesAbort(i)
    \/ SenderIsTold(i) \/ SenderGivesUp(i) \/ SenderGetsClose(i)

ReceiverStep(i) ==
    \/ ReceiverConnected(i) \/ ReceiverGetsRequest(i) \/ ReceiverGetsVerify(i)
    \/ ReceiverGetsOffer(i) \/ ReceiverIgnores(i) \/ ReceiverGetsAbort(i)
    \/ Picked(i) \/ ReceiverFinishes(i) \/ ReceiverGetsClose(i)

Answers == \E d \in Device : SubmitPin(d) \/ Decide(d)

Next ==
    \/ \E i \in DOMAIN sessions : SenderStep(i) \/ ReceiverStep(i)
    \/ Answers
    \/ \E d \in Device : CancelTransfer(d) \/ Reload(d) \/ \E e \in Device : Forget(d, e)
    \/ \E r \in Routes : Send(r[1], r[2])

Spec == Init /\ [][Next]_vars

(***************************************************************************)
(* Both pages run, messages arrive, the buffer of an open channel drains,  *)
(* and a human answers a dialog that stays on the screen.                  *)
(***************************************************************************)
FairSpec ==
    /\ Spec
    /\ WF_vars(\E i \in DOMAIN sessions : SenderStep(i) \/ ReceiverStep(i))
    /\ WF_vars(Answers)
-----------------------------------------------------------------------------
(* Properties. *)

Message ==
    [type : {"pair-request", "offer", "abort", "close", "accept", "reject", "complete", "verified"}]
        \cup [type : {"pair-verify"}, pin : Nat] \cup [type : {"pair-result"}, ok : BOOLEAN]
Session ==
    [from : Device, to : Device, send : SendPlaces, recv : RecvPlaces,
     sTries : 0 .. MaxAttempts, rTries : 0 .. MaxAttempts, chunks : 0 .. MaxChunks,
     sCancel : BOOLEAN, rCancel : BOOLEAN, sRemote : BOOLEAN, rAborted : BOOLEAN,
     toR : Seq(Message), toS : Seq(Message), sOpen : BOOLEAN, rOpen : BOOLEAN,
     undisturbed : BOOLEAN, unrivalled : BOOLEAN, sole : BOOLEAN]

\* Whoever asks for a PIN, or for the verdict on one, has attempts left, and a
\* sender that waits for room has a chunk to send.
TypeOK ==
    /\ sessions \in Seq(Session)
    /\ \A i \in DOMAIN sessions :
          /\ sessions[i].send \in {"prompt", "result"} => sessions[i].sTries > 0
          /\ sessions[i].recv \in {"request", "verify"} => sessions[i].rTries > 0
          /\ sessions[i].send = "drain" => sessions[i].chunks > 0
    /\ trust \in [Device -> SUBSET Device]
    /\ pinModal \in [Device -> [mode : {"none", "enter", "show"}, of : 0 .. MaxSessions]]
    /\ incomingConfirm \in [Device -> 0 .. MaxSessions]
    /\ abortControllers \in [Device -> [FileIds -> 0 .. MaxSessions]]
    /\ faults \in Nat

\* A dialog on the screen is one somebody waits for: none is left over from a
\* session that has gone on or ended, even when several share the page and each
\* opens and closes the one dialog there is (App.tsx 126-129, 163-170).
DialogBelongs ==
    \A d \in Device :
        /\ LET i == pinModal[d].of
           IN /\ pinModal[d].mode = "show" => sessions[i].to = d /\ sessions[i].recv = "verify"
              /\ pinModal[d].mode = "enter" => sessions[i].from = d /\ sessions[i].send = "prompt"
        /\ incomingConfirm[d] # 0 =>
              sessions[incomingConfirm[d]].to = d /\ sessions[incomingConfirm[d]].recv = "confirm"

\* "Show this PIN to the human and keep it up until pairing resolves"
\* (peerSession.ts 131): whoever is asked for a PIN finds it on the other screen.
PinIsKeptUp ==
    \A i \in DOMAIN sessions :
        LET s == sessions[i]
        IN s.undisturbed /\ s.send = "prompt" /\ s.recv # "connected" /\ s.toR = <<>> =>
              pinModal[s.to] = [mode |-> "show", of |-> i]

\* The two devices come to trust each other together, so that the next file finds
\* them agreed: each trusts the other or neither does, but for the time the verdict
\* that the receiver has acted on is under way to the sender (peerSession.ts 115,
\* 175-182), whatever other devices pair with either of them meanwhile.
TrustIsMutual ==
    \A i \in DOMAIN sessions :
        LET s == sessions[i]
        IN s.unrivalled =>
              \/ Agreed(s.from, s.to)
              \/ /\ s.from \in trust[s.to] /\ s.send = "result"
                 /\ s.toS = <<[type |-> "pair-result", ok |-> TRUE]>>

\* Cancel buttons find controllers by file id, and calls forget them by it (App.tsx
\* 109, 137, 181).  The file's last session keeps its controller while it is at work,
\* when the ones before it had ended; and whatever sessions there were, the controller
\* that is found is that of a call with this file that is still at work.
AtWork(i, d) ==
    \/ sessions[i].from = d /\ sessions[i].send \notin Over
    \/ sessions[i].to = d /\ sessions[i].recv \in {"confirm", "pick", "transfer"}
CancelFindsTransfer ==
    /\ \A i \in DOMAIN sessions : \A d \in Device :
          Runs(i, d) /\ sessions[i].sole => abortControllers[d][FileId(i)] = i
    /\ \A d \in Device : \A f \in FileIds :
          LET i == abortControllers[d][f]
          IN i # 0 => FileId(i) = f /\ AtWork(i, d)

\* A session that nothing disturbs ends at both devices, with the file, a refusal, a
\* cancel or a wrong PIN.  Two waits have no end once the channel is closed: that of a
\* sender for its buffer and that of a receiver in a transfer.
SessionsEnd == []<>(\A i \in DOMAIN sessions : sessions[i].undisturbed => Ended(i))
=============================================================================
