----------------------------- MODULE Connection -----------------------------
(***************************************************************************)
(* connectToPeer of transfer-engine/src/connection.ts, run by several      *)
(* pages at once: the negotiation of a peer connection over the signals    *)
(* the coordinator relays, and the listener of web/src/App.tsx that starts *)
(* a call of it for every offer.                                           *)
(*                                                                         *)
(* A call owns one RTCPeerConnection, which runs the operations asked of   *)
(* it one after the other.  An action is one such operation together with  *)
(* what the code does when its promise settles, the dispatch of one signal *)
(* to every subscribed handler of a page, or an event of the browser.      *)
(* Signals say whom they are from, not which call they belong to.          *)
(*                                                                         *)
(* A definition called a mutated form is one a mistake in the code would   *)
(* give.  It stands before the definition it varies and nothing uses it.   *)
(***************************************************************************)
EXTENDS Integers, Sequences, FiniteSets

CONSTANTS
    Device,      \* the devices, one page each
    Routes,      \* the <<sender, receiver>> pairs of the files that are sent
    MaxSends,    \* bound: how many files are sent
    MaxFaults    \* bound: signals lost, pages reloaded, files sent while another is

ASSUME RoutesAssumption == \A r \in Routes : r \in Device \X Device /\ r[1] # r[2]
ASSUME ConnectionBounds == MaxSends \in Nat /\ MaxFaults \in Nat

VARIABLES
    calls,      \* the calls of connectToPeer, in the order they were made
    wire,       \* the signals under way from one page to another
    faults      \* how many faults there have been

vars == <<calls, wire, faults>>

Pair == Device \X Device

\* Session descriptions are told apart by who made them and what they answer; a
\* candidate by the description it was gathered for.
NoDesc == [kind |-> "none", by |-> 0, to |-> 0]
OfferOf(i) == [kind |-> "offer", by |-> i, to |-> 0]
AnswerOf(i, offer) == [kind |-> "answer", by |-> i, to |-> offer.by]
Candidate(desc) == [kind |-> "ice-candidate", of |-> desc]

\* connectToPeer, up to the first await.  sig, pend and cur are the negotiation
\* of the RTCPeerConnection: its signaling state, the offer it is about, and the
\* two descriptions last agreed on.
NewCall(page, peer, initiator) ==
    [page |-> page, peer |-> peer, initiator |-> initiator,
     state |-> "connecting", subscribed |-> TRUE,
     remoteDescriptionSet |-> FALSE, pendingCandidates |-> <<>>,
     ops |-> IF initiator THEN <<[op |-> "createOffer"]>> ELSE <<>>,
     sig |-> "stable", pend |-> NoDesc, cur |-> [local |-> NoDesc, remote |-> NoDesc],
     added |-> {}, undisturbed |-> TRUE]

Init ==
    /\ calls = <<>>
    /\ wire = [p \in Pair |-> <<>>]
    /\ faults = 0

-----------------------------------------------------------------------------
(* The handler of signals, up to its first await. *)

Enqueue(c, operation) == [c EXCEPT !.ops = Append(@, operation)]
SetRemote(c, desc) == Enqueue(c, [op |-> "setRemote", desc |-> desc])

\* The candidate is added once the remote description is there; then says which
\* handler goes on when it has been.
AddCandidate(c, candidate, then) ==
    Enqueue(c, [op |-> "addCandidate", of |-> candidate.of, then |-> then])

\* mutated form of HandleSignal: no candidate waits.
AddAtOnce(c, s) ==
    IF s.kind # "ice-candidate" THEN SetRemote(c, s) ELSE AddCandidate(c, s, "done")

\* A candidate waits until the remote description is there.
HandleSignal(c, s) ==
    IF s.kind # "ice-candidate" THEN SetRemote(c, s)
    ELSE IF c.remoteDescriptionSet THEN AddCandidate(c, s, "done")
    ELSE [c EXCEPT !.pendingCandidates = Append(@, s)]

\* mutated form of Hears: signals of every peer.
HearsAll(c, from, to) == c.page = to /\ c.subscribed

\* Signals are told apart by the peer they are from.
Hears(c, from, to) == c.page = to /\ c.peer = from /\ c.subscribed

\* The page's own listener: every offer starts a call that also gets the offer,
\* since its handler joins the set that is being iterated.
Listening(s, from, to) ==
    IF s.kind = "offer" THEN <<HandleSignal(NewCall(to, from, FALSE), s)>> ELSE <<>>

Dispatch(s, from, to) ==
    [i \in DOMAIN calls |->
        IF Hears(calls[i], from, to) THEN HandleSignal(calls[i], s) ELSE calls[i]]
    \o Listening(s, from, to)

Deliver(from, to) ==
    /\ wire[<<from, to>>] # <<>>
    /\ calls' = Dispatch(Head(wire[<<from, to>>]), from, to)
    /\ wire' = [wire EXCEPT ![<<from, to>>] = Tail(@)]
    /\ UNCHANGED faults

-----------------------------------------------------------------------------
(* The operations of the peer connection, each with its continuation. *)

\* mutated form of DrainPendingCandidates.
NoDrain(c, then) == IF then = "offer" THEN Enqueue(c, [op |-> "createAnswer"]) ELSE c

\* drainPendingCandidates and what follows it in the handler of an offer or of an
\* answer.
DrainPendingCandidates(c, then) ==
    IF c.pendingCandidates # <<>>
    THEN AddCandidate([c EXCEPT !.pendingCandidates = Tail(@)], Head(c.pendingCandidates), then)
    ELSE IF then = "offer" THEN Enqueue(c, [op |-> "createAnswer"])
    ELSE c

LocalOffer(c, desc) ==
    [c EXCEPT !.sig = "have-local-offer", !.pend = desc]
LocalAnswer(c, desc) ==
    [c EXCEPT !.sig = "stable", !.pend = NoDesc,
              !.cur = [local |-> desc, remote |-> c.pend]]

\* setRemoteDescription: an offer made meanwhile by this end is rolled back.
RemoteOffer(c, desc) ==
    [c EXCEPT !.sig = "have-remote-offer", !.pend = desc]
RemoteAnswer(c, desc) ==
    [c EXCEPT !.sig = "stable", !.pend = NoDesc,
              !.cur = [local |-> c.pend, remote |-> desc]]

RemoteDescriptions(c) ==
    {c.cur.remote} \cup (IF c.sig = "have-remote-offer" THEN {c.pend} ELSE {})

\* The first operation of call i settles: the call goes on as c, and sends.
Settles(i, c, sent) ==
    /\ calls' = [calls EXCEPT ![i] = c]
    /\ wire' = [wire EXCEPT ![<<c.page, c.peer>>] = @ \o sent]
    /\ UNCHANGED faults

\* The operation rejects: connectToPeer does if this was its own offer; a handler
\* of signals ends where it is, and nothing else.
Rejected(c, own) == IF own THEN [c EXCEPT !.state = "rejected"] ELSE c

FirstIs(i, op) == calls[i].ops # <<>> /\ Head(calls[i].ops).op = op
Popped(i) == [calls[i] EXCEPT !.ops = Tail(@)]

CreateOffer(i) ==
    /\ FirstIs(i, "createOffer")
    /\ Settles(i, Enqueue(Popped(i), [op |-> "setLocal", desc |-> OfferOf(i)]), <<>>)

CreateAnswer(i) ==
    /\ FirstIs(i, "createAnswer")
    /\ Settles(i, IF calls[i].sig = "have-remote-offer"
                  THEN Enqueue(Popped(i), [op |-> "setLocal", desc |-> AnswerOf(i, calls[i].pend)])
                  ELSE Popped(i), <<>>)

\* What was set is sent to the peer, and the candidate gathered for it after it.
SetLocalDescription(i) ==
    /\ FirstIs(i, "setLocal")
    /\ LET c == Popped(i)
           desc == Head(calls[i].ops).desc
       IN IF desc.kind = "offer"
          THEN IF c.sig = "stable" THEN Settles(i, LocalOffer(c, desc), <<desc, Candidate(desc)>>)
                                   ELSE Settles(i, Rejected(c, TRUE), <<>>)
          ELSE IF c.sig = "have-remote-offer" /\ desc.to = c.pend.by
               THEN Settles(i, LocalAnswer(c, desc), <<desc, Candidate(desc)>>)
               ELSE Settles(i, Rejected(c, FALSE), <<>>)

SetRemoteDescription(i) ==
    /\ FirstIs(i, "setRemote")
    /\ LET c == Popped(i)
           desc == Head(calls[i].ops).desc
           known(d) == [d EXCEPT !.remoteDescriptionSet = TRUE]
       IN IF desc.kind = "offer"
          THEN Settles(i, DrainPendingCandidates(known(RemoteOffer(c, desc)), "offer"), <<>>)
          ELSE IF c.sig = "have-local-offer"
          THEN Settles(i, DrainPendingCandidates(known(RemoteAnswer(c, desc)), "answer"), <<>>)
          ELSE Settles(i, Rejected(c, FALSE), <<>>)

\* A candidate of another call is ignored or refused, depending on the browser; a
\* refusal ends the handler that was draining.
AddIceCandidate(i) ==
    /\ FirstIs(i, "addCandidate")
    /\ LET c == Popped(i)
           o == Head(calls[i].ops)
           goesOn(d) == IF o.then = "done" THEN d ELSE DrainPendingCandidates(d, o.then)
       IN IF o.of \in RemoteDescriptions(c)
          THEN Settles(i, goesOn([c EXCEPT !.added = @ \cup {o.of}]), <<>>)
          ELSE Settles(i, goesOn(c), <<>>) \/ Settles(i, Rejected(c, FALSE), <<>>)

PcStep(i) ==
    \/ CreateOffer(i) \/ CreateAnswer(i)
    \/ SetLocalDescription(i) \/ SetRemoteDescription(i) \/ AddIceCandidate(i)

-----------------------------------------------------------------------------
(* The data channel. *)

Alive(i) == calls[i].state # "gone"

\* The two ends have each other's descriptions.
Agree(i, j) ==
    /\ Alive(i) /\ Alive(j) /\ calls[i].cur.local # NoDesc
    /\ calls[i].cur.local = calls[j].cur.remote
    /\ calls[i].cur.remote = calls[j].cur.local

\* One candidate is enough: the other end learns of the way from the check.
Reachable(i, j) ==
    /\ Agree(i, j)
    /\ calls[i].cur.remote \in calls[i].added \/ calls[j].cur.remote \in calls[j].added

\* mutated form of OnOpen: the handler stays.
StaysSubscribed(c) == [c EXCEPT !.state = IF @ = "connecting" THEN "open" ELSE @]

\* onOpen
OnOpen(c) ==
    [c EXCEPT !.subscribed = FALSE, !.state = IF @ = "connecting" THEN "open" ELSE @]

\* An initiator's own channel opens; a listening call waits for that of the other
\* end, which an initiator does not.
CanOpen(i) ==
    /\ calls[i].subscribed
    /\ \E j \in DOMAIN calls : Reachable(i, j) /\ (calls[i].initiator \/ calls[j].initiator)

ChannelOpens(i) ==
    /\ CanOpen(i)
    /\ calls' = [calls EXCEPT ![i] = OnOpen(@)]
    /\ UNCHANGED <<wire, faults>>

-----------------------------------------------------------------------------
(* The users and the network. *)

Between(c, from, to) == {c.page, c.peer} = {from, to}

\* Calls between the two devices that something else happens to before both ends
\* are open; undisturbed is a history variable, read by the properties only.
OpenAtBothEnds(i) ==
    /\ calls[i].state = "open"
    /\ \E j \in DOMAIN calls : Agree(i, j) /\ calls[j].state = "open" /\ ~calls[j].initiator

Disturbed(from, to) ==
    [i \in DOMAIN calls |->
        IF Between(calls[i], from, to) /\ ~OpenAtBothEnds(i)
        THEN [calls[i] EXCEPT !.undisturbed = FALSE] ELSE calls[i]]

\* Nothing is under way between the two, and the peer is not waiting for an answer.
\* Calls that an earlier page or a lost signal left behind may still listen.
Quiet(from, to) ==
    /\ wire[<<from, to>>] = <<>> /\ wire[<<to, from>>] = <<>>
    /\ \A i \in DOMAIN calls :
          Between(calls[i], from, to) =>
              calls[i].ops = <<>> /\ (calls[i].page = to /\ calls[i].initiator => ~calls[i].subscribed)

\* sendFileToPeer.  A queue of files sends one at a time, but a file dropped on a
\* tile that is busy starts a second queue.
Send(from, to) ==
    /\ Cardinality({i \in DOMAIN calls : calls[i].initiator}) < MaxSends
    /\ faults' = IF Quiet(from, to) THEN faults ELSE faults + 1
    /\ faults' <= MaxFaults
    /\ calls' = Append(Disturbed(from, to),
                       [NewCall(from, to, TRUE) EXCEPT !.undisturbed = Quiet(from, to)])
    /\ UNCHANGED wire

\* The coordinator drops a signal.
LoseSignal(from, to) ==
    /\ faults < MaxFaults /\ wire[<<from, to>>] # <<>>
    /\ faults' = faults + 1
    /\ wire' = [wire EXCEPT ![<<from, to>>] = Tail(@)]
    /\ calls' = Disturbed(from, to)

\* A page is reloaded: its calls are gone, its signals are not.
Reload(d) ==
    /\ faults < MaxFaults /\ \E i \in DOMAIN calls : calls[i].page = d /\ Alive(i)
    /\ faults' = faults + 1
    /\ calls' = [i \in DOMAIN calls |->
                    IF calls[i].page = d
                    THEN [calls[i] EXCEPT !.state = "gone", !.subscribed = FALSE, !.ops = <<>>,
                                          !.undisturbed = FALSE]
                    ELSE IF calls[i].peer = d THEN [calls[i] EXCEPT !.undisturbed = FALSE]
                    ELSE calls[i]]
    /\ UNCHANGED wire

-----------------------------------------------------------------------------
CallStep(i) == PcStep(i) \/ ChannelOpens(i)

SystemStep ==
    \/ \E i \in DOMAIN calls : CallStep(i)
    \/ \E p \in Pair : Deliver(p[1], p[2])

UserStep == \E r \in Routes : Send(r[1], r[2])
Fault == (\E p \in Pair : LoseSignal(p[1], p[2])) \/ (\E d \in Device : Reload(d))

Next == SystemStep \/ UserStep \/ Fault

Spec == Init /\ [][Next]_vars

-----------------------------------------------------------------------------
(* Properties. *)

Description ==
    [kind : {"none", "offer"}, by : Nat, to : {0}] \cup [kind : {"answer"}, by : Nat, to : Nat]
Signal == Description \cup [kind : {"ice-candidate"}, of : Description]
Operation ==
    [op : {"createOffer", "createAnswer"}] \cup [op : {"setLocal", "setRemote"}, desc : Description]
        \cup [op : {"addCandidate"}, of : Description, then : {"done", "offer", "answer"}]
Call ==
    [page : Device, peer : Device, initiator : BOOLEAN,
     state : {"connecting", "open", "rejected", "gone"}, subscribed : BOOLEAN,
     remoteDescriptionSet : BOOLEAN, pendingCandidates : Seq(Signal), ops : Seq(Operation),
     sig : {"stable", "have-local-offer", "have-remote-offer"}, pend : Description,
     cur : [local : Description, remote : Description],
     added : SUBSET Description, undisturbed : BOOLEAN]

\* A candidate is added only to a connection that has a remote description.
TypeOK ==
    /\ calls \in Seq(Call) /\ wire \in [Pair -> Seq(Signal)]
    /\ faults \in Nat
    /\ \A i \in DOMAIN calls :
          /\ calls[i].sig = "stable" <=> calls[i].pend = NoDesc
          /\ ~calls[i].remoteDescriptionSet =>
                \A n \in DOMAIN calls[i].ops : calls[i].ops[n].op # "addCandidate"

Undisturbed(i) == calls[i].initiator /\ calls[i].undisturbed

\* The answer a call accepts is one to its own offer, although answers do not say
\* what they answer (connection.ts 56-62) and several calls of a page, to this
\* peer and to others, listen to the same signals.
AnswersOwnOffer ==
    \A i \in DOMAIN calls :
        Undisturbed(i) /\ calls[i].cur.remote # NoDesc =>
            calls[i].cur.remote.kind = "answer" /\ calls[i].cur.remote.to = i

\* The channel sendFileToPeer gets is one a listening call of the peer has the
\* other end of, and that stays so whatever the two devices send next: the end
\* that is open no longer listens to signals (connection.ts 84-87).
OpenIsHeard ==
    \A i \in DOMAIN calls :
        Undisturbed(i) /\ calls[i].state = "open" =>
            \E j \in DOMAIN calls :
                Agree(i, j) /\ ~calls[j].initiator /\ calls[j].page = calls[i].peer

\* Once all that was sent has arrived and every promise has settled, a send that
\* nothing disturbed has its channel, open at both ends: neither candidates that
\* came before the remote description (connection.ts 72-77) nor calls that an
\* earlier page or a lost signal left listening keep it waiting for good.
Settled ==
    /\ \A p \in Pair : wire[p] = <<>>
    /\ \A i \in DOMAIN calls : calls[i].ops = <<>> /\ ~CanOpen(i)
NoStuckSend ==
    Settled => \A i \in DOMAIN calls : Undisturbed(i) => OpenAtBothEnds(i)
=============================================================================
