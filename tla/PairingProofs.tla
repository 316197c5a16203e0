---------------------------- MODULE PairingProofs ----------------------------
(***************************************************************************)
(* Theorems about Pairing, for any devices, routes and initial trust, and  *)
(* any number of attempts, sessions and faults.                            *)
(*                                                                         *)
(* Three arguments meet in the invariant.  A dialog or a controller always *)
(* names a session that is at work.  The sessions that could disturb one   *)
(* whose history says that nothing does are over.  And while a session     *)
(* without a rival between the same two devices is pairing, the places and *)
(* attempts of both ends, what is under way and the dialog are in one of a *)
(* few combinations, which Stage lists; once it has paired, the receiver   *)
(* is past it too.                                                         *)
(***************************************************************************)
EXTENDS Pairing, SequenceTheorems, TLAPS

(***************************************************************************)
(* Dialogs and controllers name sessions that are there.                   *)
(***************************************************************************)
PinBelongs(d) ==
    LET i == pinModal[d].of
    IN /\ pinModal[d].mode = "show" =>
             i \in DOMAIN sessions /\ sessions[i].to = d /\ sessions[i].recv = "verify"
       /\ pinModal[d].mode = "enter" =>
             i \in DOMAIN sessions /\ sessions[i].from = d /\ sessions[i].send = "prompt"
AskBelongs(d) ==
    LET i == incomingConfirm[d]
    IN i # 0 => i \in DOMAIN sessions /\ sessions[i].to = d /\ sessions[i].recv = "confirm"
DialogInv == \A d \in Device : PinBelongs(d) /\ AskBelongs(d)

ControllerInv ==
    \A d \in Device : \A f \in FileIds :
        LET i == abortControllers[d][f]
        IN i # 0 => i \in DOMAIN sessions /\ FileId(i) = f /\ AtWork(i, d)

(***************************************************************************)
(* A session whose file had no other session at work when it began, and    *)
(* none since, keeps its controller: at the sender as long as it is at     *)
(* work, and at the receiver from the dialog on.                           *)
(***************************************************************************)
Receiving == {"confirm", "pick", "transfer"}
SoleInv ==
    \A i, j \in DOMAIN sessions :
        i # j /\ sessions[i].sole /\ sessions[j].from = sessions[i].from /\ sessions[j].to = sessions[i].to
            => Ended(j)
CancelInv ==
    \A i \in DOMAIN sessions :
        sessions[i].sole =>
            /\ sessions[i].send \notin Over => abortControllers[sessions[i].from][FileId(i)] = i
            /\ sessions[i].recv \in Receiving => abortControllers[sessions[i].to][FileId(i)] = i

(***************************************************************************)
(* Every session that shares a page with an undisturbed one is over, and   *)
(* so is every one between the devices of an unrivalled one.               *)
(***************************************************************************)
Rivals(i, s) == {sessions[i].from, sessions[i].to} = {s.from, s.to}
Interferes(i, s) ==
    \/ s.undisturbed /\ Shares(i, s.from, s.to)
    \/ s.unrivalled /\ Rivals(i, s)
AloneInv ==
    \A i, j \in DOMAIN sessions : i # j /\ Interferes(i, sessions[j]) => ~Unfinished(i)

(***************************************************************************)
(* Where an unrivalled session is while it is pairing.  Its dialog is on   *)
(* the receiver's screen unless another session takes the page's dialog.   *)
(***************************************************************************)
Trusted(s) == s.from \in trust[s.to]
Shown(i, s) == s.undisturbed => pinModal[s.to] = [mode |-> "show", of |-> i]
Request == [type |-> "pair-request"]
Verify(p) == [type |-> "pair-verify", pin |-> p]
Result(b) == [type |-> "pair-result", ok |-> b]
Close == [type |-> "close"]

Fresh(s) ==
    /\ s.send = "connected" /\ s.recv \in {"connected", "request", "offer"}
    /\ s.toR = <<>> /\ s.toS = <<>> /\ s.sTries = s.rTries /\ s.rOpen
    /\ s.to \in trust[s.from] <=> Trusted(s)
    /\ s.recv = "request" => ~Trusted(s)
    /\ s.recv = "offer" => Trusted(s)

Asked(s) ==
    /\ s.recv \in {"connected", "request"} /\ ~Trusted(s)
    /\ s.toS = <<>> /\ s.sTries = s.rTries /\ s.rOpen
    /\ \/ s.send = "prompt" /\ s.toR = <<Request>>
       \/ s.send = "result" /\ \E p \in 0 .. MaxSessions : s.toR = <<Request, Verify(p)>>

Waits(i, s) ==
    /\ s.send = "prompt" /\ s.recv = "verify" /\ Shown(i, s) /\ ~Trusted(s)
    /\ s.toR = <<>> /\ s.toS = <<>> /\ s.sTries = s.rTries /\ s.rOpen

Typed(i, s) ==
    /\ s.send = "result" /\ s.recv = "verify" /\ Shown(i, s) /\ ~Trusted(s)
    /\ s.toS = <<>> /\ s.sTries = s.rTries /\ s.rOpen
    /\ \E p \in 0 .. MaxSessions : s.toR = <<Verify(p)>>

Wrong(i, s) ==
    /\ s.send = "result" /\ s.recv = "verify" /\ Shown(i, s) /\ ~Trusted(s) /\ s.rOpen
    /\ s.toR = <<>> /\ s.toS = <<Result(FALSE)>> /\ s.sTries = s.rTries + 1

WrongAtLast(s) ==
    /\ s.send = "result" /\ s.recv = "ended" /\ s.sTries = 1 /\ ~Trusted(s)
    /\ s.toR = <<>> /\ ~s.rOpen /\ s.toS = <<Result(FALSE), Close>>

Right(s) ==
    /\ s.send = "result" /\ s.recv = "offer" /\ s.toR = <<>> /\ Trusted(s) /\ s.rOpen
    /\ s.toS = <<Result(TRUE)>>

Pairs(s) == s.send \in {"connected", "prompt", "result"}

\* The receiver of a session whose sender no longer pairs does not pair either.
Settled(s) ==
    /\ s.recv \notin {"request", "verify"}
    /\ s.recv = "connected" => Trusted(s)

Stage(i, s) ==
    IF Pairs(s)
    THEN /\ s.sOpen
         /\ \/ Fresh(s) \/ Asked(s) \/ Waits(i, s) \/ Typed(i, s)
            \/ Wrong(i, s) \/ WrongAtLast(s) \/ Right(s)
    ELSE Settled(s)

\* Each trusts the other or neither does, unless a verdict is awaited.
Mutual(s) ==
    \/ s.to \in trust[s.from] <=> Trusted(s)
    \/ s.send = "result" /\ Trusted(s)

PairInv ==
    \A i \in DOMAIN sessions :
        sessions[i].unrivalled => Stage(i, sessions[i]) /\ Mutual(sessions[i])

(***************************************************************************)
(* A session is between two devices, its calls begin with attempts, and    *)
(* one that nothing disturbs has no rival.                                 *)
(***************************************************************************)
Apart ==
    /\ Len(sessions) <= MaxSessions
    /\ \A i \in DOMAIN sessions :
          /\ sessions[i].from # sessions[i].to
          /\ sessions[i].send = "connected" => sessions[i].sTries > 0
          /\ sessions[i].recv = "connected" => sessions[i].rTries > 0
          /\ sessions[i].undisturbed => sessions[i].unrivalled

IInv ==
    /\ TypeOK /\ Apart /\ DialogInv /\ ControllerInv /\ SoleInv /\ CancelInv /\ AloneInv
    /\ PairInv

USE PairingRoutes, TrustAssumption, PairingBounds

-----------------------------------------------------------------------------
(* A session on its channel. *)

SessionsOK ==
    /\ sessions \in Seq(Session)
    /\ \A i \in DOMAIN sessions :
          /\ sessions[i].send \in {"prompt", "result"} => sessions[i].sTries > 0
          /\ sessions[i].recv \in {"request", "verify"} => sessions[i].rTries > 0
          /\ sessions[i].send = "drain" => sessions[i].chunks > 0

\* The type of what the pages keep, the controllers left aside.
PagesOK ==
    /\ trust \in [Device -> SUBSET Device]
    /\ pinModal \in [Device -> [mode : {"none", "enter", "show"}, of : 0 .. MaxSessions]]
    /\ incomingConfirm \in [Device -> 0 .. MaxSessions]
    /\ faults \in Nat
ControllersOK == abortControllers \in [Device -> [FileIds -> 0 .. MaxSessions]]

LEMMA TypeParts == TypeOK <=> SessionsOK /\ PagesOK /\ ControllersOK
  BY DEF TypeOK, SessionsOK, PagesOK, ControllersOK

LEMMA MessageTypes ==
    /\ \A k \in {"pair-request", "offer", "abort", "close", "accept", "reject", "complete", "verified"} :
          [type |-> k] \in Message
    /\ \A p \in Nat : [type |-> "pair-verify", pin |-> p] \in Message
    /\ \A b \in BOOLEAN : [type |-> "pair-result", ok |-> b] \in Message
  BY DEF Message

\* What identifies a session and its history never change.
SameSession(s, t) ==
    /\ t.from = s.from /\ t.to = s.to
    /\ t.undisturbed = s.undisturbed /\ t.unrivalled = s.unrivalled /\ t.sole = s.sole
Follows(s, t) ==
    t \in Session /\ SameSession(s, t) /\ (t.sOpen => s.sOpen) /\ (t.rOpen => s.rOpen)

\* Where the two calls of a session are, and what they have left to do.
SamePlaces(s, t) ==
    /\ t.send = s.send /\ t.recv = s.recv /\ t.sTries = s.sTries /\ t.rTries = s.rTries
    /\ t.chunks = s.chunks

\* What is under way, and which ends are open.
SameChannel(s, t) ==
    t.toR = s.toR /\ t.toS = s.toS /\ t.sOpen = s.sOpen /\ t.rOpen = s.rOpen

LEMMA SendingIs ==
    ASSUME NEW s \in Session, NEW m \in Message
    PROVE  /\ Follows(s, ToReceiver(s, m)) /\ SamePlaces(s, ToReceiver(s, m))
           /\ ToReceiver(s, m).toR = IF s.rOpen THEN Append(s.toR, m) ELSE s.toR
           /\ ToReceiver(s, m).toS = s.toS
           /\ ToReceiver(s, m).sOpen = s.sOpen /\ ToReceiver(s, m).rOpen = s.rOpen
<1>1. s.toR \in Seq(Message) /\ Append(s.toR, m) \in Seq(Message)
  BY DEF Session, SameSession
<1>2. ToReceiver(s, m) = IF s.rOpen THEN [s EXCEPT !.toR = Append(s.toR, m)] ELSE s
  BY DEF ToReceiver, Session
<1>3. ASSUME NEW q \in Seq(Message), NEW t, t = [s EXCEPT !.toR = q]
      PROVE  /\ Follows(s, t) /\ SamePlaces(s, t) /\ t.toR = q
             /\ t.toS = s.toS /\ t.sOpen = s.sOpen /\ t.rOpen = s.rOpen
  BY <1>3 DEF Session, Follows, SameSession, SamePlaces
<1>4. Follows(s, s) /\ SamePlaces(s, s)
  BY DEF Follows, SameSession, SamePlaces
<1>5. CASE s.rOpen
  <2>1. ToReceiver(s, m) = [s EXCEPT !.toR = Append(s.toR, m)]
    BY <1>2, <1>5
  <2>2. Follows(s, ToReceiver(s, m)) /\ SamePlaces(s, ToReceiver(s, m))
    BY <1>1, <1>3, <2>1
  <2>3. /\ ToReceiver(s, m).toR = Append(s.toR, m) /\ ToReceiver(s, m).toS = s.toS
        /\ ToReceiver(s, m).sOpen = s.sOpen /\ ToReceiver(s, m).rOpen = s.rOpen
    BY <1>1, <1>3, <2>1
  <2> QED BY <1>5, <2>2, <2>3
<1>6. CASE ~s.rOpen
  BY <1>2, <1>4, <1>6
<1> QED BY <1>5, <1>6

LEMMA AnsweringIs ==
    ASSUME NEW s \in Session, NEW m \in Message
    PROVE  /\ Follows(s, ToSender(s, m)) /\ SamePlaces(s, ToSender(s, m))
           /\ ToSender(s, m).toS = IF s.sOpen THEN Append(s.toS, m) ELSE s.toS
           /\ ToSender(s, m).toR = s.toR
           /\ ToSender(s, m).sOpen = s.sOpen /\ ToSender(s, m).rOpen = s.rOpen
<1>1. s.toS \in Seq(Message) /\ Append(s.toS, m) \in Seq(Message)
  BY DEF Session
<1>2. ToSender(s, m) = IF s.sOpen THEN [s EXCEPT !.toS = Append(s.toS, m)] ELSE s
  BY DEF ToSender, Session
<1>3. ASSUME NEW q \in Seq(Message), NEW t, t = [s EXCEPT !.toS = q]
      PROVE  /\ Follows(s, t) /\ SamePlaces(s, t) /\ t.toS = q
             /\ t.toR = s.toR /\ t.sOpen = s.sOpen /\ t.rOpen = s.rOpen
  BY <1>3 DEF Session, Follows, SameSession, SamePlaces
<1>4. Follows(s, s) /\ SamePlaces(s, s)
  BY DEF Follows, SameSession, SamePlaces
<1>5. CASE s.sOpen
  <2>1. ToSender(s, m) = [s EXCEPT !.toS = Append(s.toS, m)]
    BY <1>2, <1>5
  <2>2. Follows(s, ToSender(s, m)) /\ SamePlaces(s, ToSender(s, m))
    BY <1>1, <1>3, <2>1
  <2>3. /\ ToSender(s, m).toS = Append(s.toS, m) /\ ToSender(s, m).toR = s.toR
        /\ ToSender(s, m).sOpen = s.sOpen /\ ToSender(s, m).rOpen = s.rOpen
    BY <1>1, <1>3, <2>1
  <2> QED BY <1>5, <2>2, <2>3
<1>6. CASE ~s.sOpen
  BY <1>2, <1>4, <1>6
<1> QED BY <1>5, <1>6

LEMMA SenderClosesIs ==
    ASSUME NEW s \in Session
    PROVE  Follows(s, SenderCloses(s)) /\ SamePlaces(s, SenderCloses(s))
<1> DEFINE c == ToReceiver(s, [type |-> "close"])
           u == IF s.sOpen THEN c ELSE s
<1>1. Follows(s, u) /\ SamePlaces(s, u)
  <2>1. Follows(s, c) /\ SamePlaces(s, c)
    BY MessageTypes, SendingIs
  <2> QED BY <2>1 DEF Follows, SameSession, SamePlaces
<1>2. SenderCloses(s) = [u EXCEPT !.sOpen = FALSE, !.toS = <<>>]
  BY DEF SenderCloses
<1> HIDE DEF u, c
<1>3. u \in Session /\ <<>> \in Seq(Message)
  BY <1>1, EmptySeq DEF Follows, SameSession
<1>4. SenderCloses(s) \in Session
  BY <1>2, <1>3 DEF Session
<1>5. SamePlaces(u, SenderCloses(s))
  BY <1>2, <1>3 DEF SamePlaces, Session
<1>6. SameSession(u, SenderCloses(s))
  BY <1>2, <1>3 DEF Session, SameSession
<1>7. ~SenderCloses(s).sOpen /\ SenderCloses(s).rOpen = u.rOpen
  BY <1>2, <1>3 DEF Session
<1> QED BY <1>1, <1>4, <1>5, <1>6, <1>7 DEF Follows, SameSession, SamePlaces

LEMMA ReceiverClosesIs ==
    ASSUME NEW s \in Session
    PROVE  /\ Follows(s, ReceiverCloses(s)) /\ SamePlaces(s, ReceiverCloses(s))
           /\ ReceiverCloses(s).toS = IF s.rOpen /\ s.sOpen THEN Append(s.toS, Close) ELSE s.toS
           /\ ReceiverCloses(s).toR = <<>>
           /\ ReceiverCloses(s).sOpen = s.sOpen /\ ~ReceiverCloses(s).rOpen
<1> DEFINE c == ToSender(s, Close)
           u == IF s.rOpen THEN c ELSE s
<1>1. /\ Follows(s, u) /\ SamePlaces(s, u) /\ u.sOpen = s.sOpen
      /\ u.toS = IF s.rOpen /\ s.sOpen THEN Append(s.toS, Close) ELSE s.toS
  <2>1. /\ Follows(s, c) /\ SamePlaces(s, c) /\ c.sOpen = s.sOpen
        /\ c.toS = IF s.sOpen THEN Append(s.toS, Close) ELSE s.toS
    BY MessageTypes, AnsweringIs DEF Close
  <2> QED BY <2>1 DEF Follows, SameSession, SamePlaces
<1>2. ReceiverCloses(s) = [u EXCEPT !.rOpen = FALSE, !.toR = <<>>]
  BY DEF ReceiverCloses, Close
<1> HIDE DEF u, c
<1>3. u \in Session /\ <<>> \in Seq(Message)
  BY <1>1, EmptySeq DEF Follows, SameSession
<1>4. ReceiverCloses(s) \in Session
  BY <1>2, <1>3 DEF Session
<1>5. SamePlaces(u, ReceiverCloses(s))
  BY <1>2, <1>3 DEF SamePlaces, Session
<1>6. SameSession(u, ReceiverCloses(s))
  BY <1>2, <1>3 DEF Session, SameSession
<1>7. /\ ReceiverCloses(s).toS = u.toS /\ ReceiverCloses(s).toR = <<>>
      /\ ReceiverCloses(s).sOpen = u.sOpen /\ ~ReceiverCloses(s).rOpen
  BY <1>2, <1>3 DEF Session
<1> QED BY <1>1, <1>4, <1>5, <1>6, <1>7 DEF Follows, SameSession, SamePlaces

\* Messages that are taken from the channel were sent on it.
LEMMA TakingIs ==
    ASSUME IInv, NEW i \in DOMAIN sessions
    PROVE  /\ sessions[i] \in Session
           /\ sessions[i].toS # <<>> =>
                 /\ Head(sessions[i].toS) \in Message /\ SenderTook(i) \in Session
                 /\ SenderTook(i) = [sessions[i] EXCEPT !.toS = Tail(sessions[i].toS)]
           /\ sessions[i].toR # <<>> =>
                 /\ Head(sessions[i].toR) \in Message /\ ReceiverTook(i) \in Session
                 /\ ReceiverTook(i) = [sessions[i] EXCEPT !.toR = Tail(sessions[i].toR)]
<1>1. sessions[i] \in Session
  BY DEF IInv, TypeOK
<1>2. sessions[i].toS \in Seq(Message) /\ sessions[i].toR \in Seq(Message)
  BY <1>1 DEF Session
<1>3. ASSUME NEW q \in Seq(Message), q # <<>> PROVE Head(q) \in Message /\ Tail(q) \in Seq(Message)
  BY <1>3
<1>4. ASSUME NEW q \in Seq(Message), NEW t,
             t = [sessions[i] EXCEPT !.toS = q] \/ t = [sessions[i] EXCEPT !.toR = q]
      PROVE  t \in Session
  BY ZenonT(40), <1>1, <1>4 DEF Session
<1>5. /\ SenderTook(i) = [sessions[i] EXCEPT !.toS = Tail(sessions[i].toS)]
      /\ ReceiverTook(i) = [sessions[i] EXCEPT !.toR = Tail(sessions[i].toR)]
  BY DEF SenderTook, ReceiverTook
<1> QED BY <1>1, <1>2, <1>3, <1>4, <1>5

-----------------------------------------------------------------------------
(* One session moves on. *)

\* Session i becomes t: it is still the same session, whoever asks for a PIN has
\* attempts left, and a call that is over, or waits for ever, stays so.
Moves(i, t) ==
    /\ i \in DOMAIN sessions /\ Becomes(i, t) /\ Follows(sessions[i], t)
    /\ t.send \in {"connected", "prompt", "result"} => t.sTries > 0
    /\ t.recv \in {"connected", "request", "verify"} => t.rTries > 0
    /\ t.send = "drain" => t.chunks > 0
    /\ SenderDone(sessions[i]) => t.send = sessions[i].send
    /\ ReceiverDone(sessions[i]) => t.recv = sessions[i].recv

LEMMA MovedSessions ==
    ASSUME IInv, NEW i, NEW t, Moves(i, t)
    PROVE  /\ sessions' \in Seq(Session) /\ Len(sessions') = Len(sessions)
           /\ DOMAIN sessions' = DOMAIN sessions
           /\ \A j \in DOMAIN sessions :
                 /\ sessions'[j] = IF j = i THEN t ELSE sessions[j]
                 /\ SameSession(sessions[j], sessions'[j])
<1>1. sessions \in Seq(Session) /\ i \in DOMAIN sessions /\ t \in Session
  BY DEF IInv, TypeOK, Moves, Follows, SameSession
<1>2. /\ sessions' \in Seq(Session) /\ Len(sessions') = Len(sessions)
      /\ DOMAIN sessions' = DOMAIN sessions
  BY <1>1 DEF Moves, Becomes
<1>3. \A j \in DOMAIN sessions : sessions'[j] = IF j = i THEN t ELSE sessions[j]
  BY <1>1 DEF Moves, Becomes
<1> QED BY <1>2, <1>3 DEF Moves, Follows, SameSession

LEMMA MovedFiles ==
    ASSUME IInv, NEW i, NEW t, Moves(i, t), NEW j \in DOMAIN sessions
    PROVE  FileId(j)' = FileId(j)
  BY MovedSessions DEF FileId, ComputeFileId, SameSession

LEMMA MovedType ==
    ASSUME IInv, NEW i, NEW t, Moves(i, t)
    PROVE  SessionsOK' /\ Apart'
<1>1. SessionsOK'
  <2>1. \A j \in DOMAIN sessions :
            /\ sessions'[j].send \in {"prompt", "result"} => sessions'[j].sTries > 0
            /\ sessions'[j].recv \in {"request", "verify"} => sessions'[j].rTries > 0
            /\ sessions'[j].send = "drain" => sessions'[j].chunks > 0
    <3> SUFFICES ASSUME NEW j \in DOMAIN sessions
                 PROVE  /\ sessions'[j].send \in {"prompt", "result"} => sessions'[j].sTries > 0
                        /\ sessions'[j].recv \in {"request", "verify"} => sessions'[j].rTries > 0
                        /\ sessions'[j].send = "drain" => sessions'[j].chunks > 0
      OBVIOUS
    <3>1. CASE j = i
      BY <3>1, MovedSessions DEF Moves
    <3>2. CASE j # i
      BY <3>2, MovedSessions DEF IInv, TypeOK
    <3> QED BY <3>1, <3>2
  <2> QED BY <2>1, MovedSessions DEF SessionsOK
<1>2. Apart'
  BY MovedSessions DEF IInv, Apart, Moves, SameSession
<1> QED BY <1>1, <1>2

\* A session that is over, or whose calls wait for ever, stays so.
LEMMA MovedOver ==
    ASSUME IInv, NEW i, NEW t, Moves(i, t), NEW j \in DOMAIN sessions
    PROVE  (~Unfinished(j) => ~Unfinished(j)') /\ (Ended(j) => Ended(j)')
<1>1. CASE j # i
  <2>1. sessions'[j] = sessions[j]
    BY <1>1, MovedSessions
  <2> QED BY <2>1 DEF Unfinished, Ended
<1>2. CASE j = i
  <2>1. sessions'[j] = t
    BY <1>2, MovedSessions
  <2>2. (t.sOpen => sessions[j].sOpen) /\ (t.rOpen => sessions[j].rOpen)
    BY <1>2 DEF Moves, Follows
  <2>3. SenderDone(sessions[j]) => t.send = sessions[j].send /\ SenderDone(t)
    BY <1>2, <2>2 DEF Moves, SenderDone
  <2>4. ReceiverDone(sessions[j]) => t.recv = sessions[j].recv /\ ReceiverDone(t)
    BY <1>2, <2>2 DEF Moves, ReceiverDone
  <2>5. Ended(j) => Ended(j)'
    BY <2>1, <2>3, <2>4 DEF Ended
  <2>6. ~Unfinished(j) => ~Unfinished(j)'
    BY <2>1, <2>3, <2>4 DEF Unfinished, SenderDone, ReceiverDone
  <2> QED BY <2>5, <2>6
<1> QED BY <1>1, <1>2

LEMMA MovedAlone ==
    ASSUME IInv, NEW i, NEW t, Moves(i, t)
    PROVE  AloneInv' /\ SoleInv'
<1>1. AloneInv'
  <2> SUFFICES ASSUME NEW k \in DOMAIN sessions', NEW j \in DOMAIN sessions',
                      k # j, Interferes(k, sessions[j])'
               PROVE  ~Unfinished(k)'
    BY DEF AloneInv
  <2>1. k \in DOMAIN sessions /\ j \in DOMAIN sessions
    BY MovedSessions
  <2>2. SameSession(sessions[j], sessions'[j]) /\ SameSession(sessions[k], sessions'[k])
    BY <2>1, MovedSessions
  <2>3. Interferes(k, sessions[j])
    BY <2>2 DEF Interferes, Shares, Rivals, SameSession
  <2>4. ~Unfinished(k)
    BY <2>1, <2>3 DEF IInv, AloneInv
  <2> QED BY <2>1, <2>4, MovedOver
<1>2. SoleInv'
  <2> SUFFICES ASSUME NEW k \in DOMAIN sessions', NEW j \in DOMAIN sessions', k # j, sessions'[k].sole,
                      sessions'[j].from = sessions'[k].from, sessions'[j].to = sessions'[k].to
               PROVE  Ended(j)'
    BY DEF SoleInv
  <2>1. k \in DOMAIN sessions /\ j \in DOMAIN sessions
    BY MovedSessions
  <2>2. SameSession(sessions[j], sessions'[j]) /\ SameSession(sessions[k], sessions'[k])
    BY <2>1, MovedSessions
  <2>3. Ended(j)
    BY <2>1, <2>2 DEF IInv, SoleInv, SameSession
  <2> QED BY <2>1, <2>3, MovedOver
<1> QED BY <1>1, <1>2

LEMMA MovedPin ==
    ASSUME IInv, NEW i, NEW t, Moves(i, t), NEW d \in Device, pinModal'[d] = pinModal[d],
           pinModal[d].of = i /\ pinModal[d].mode = "show" => t.recv = "verify",
           pinModal[d].of = i /\ pinModal[d].mode = "enter" => t.send = "prompt"
    PROVE  PinBelongs(d)'
<1>1. PinBelongs(d) /\ pinModal[d] \in [mode : {"none", "enter", "show"}, of : 0 .. MaxSessions]
  BY DEF IInv, TypeOK, DialogInv
<1>2. CASE pinModal[d].of # i
  BY <1>1, <1>2, MovedSessions DEF PinBelongs
<1>3. CASE pinModal[d].of = i
  <2>1. i \in DOMAIN sessions => sessions'[i] = t /\ SameSession(sessions[i], t)
    BY MovedSessions DEF Moves, Follows
  <2> QED BY <1>1, <1>3, <2>1, MovedSessions DEF PinBelongs, SameSession
<1> QED BY <1>2, <1>3

LEMMA MovedAsk ==
    ASSUME IInv, NEW i, NEW t, Moves(i, t), NEW d \in Device, incomingConfirm'[d] = incomingConfirm[d],
           incomingConfirm[d] # i \/ t.recv = "confirm"
    PROVE  AskBelongs(d)'
<1>1. AskBelongs(d)
  BY DEF IInv, DialogInv
<1>2. CASE incomingConfirm[d] # i
  BY <1>1, <1>2, MovedSessions DEF AskBelongs
<1>3. CASE incomingConfirm[d] = i
  <2>1. i \in DOMAIN sessions => sessions'[i] = t /\ SameSession(sessions[i], t)
    BY MovedSessions DEF Moves, Follows
  <2> QED BY <1>1, <1>3, <2>1, MovedSessions DEF AskBelongs, SameSession
<1> QED BY <1>2, <1>3

\* The dialogs of session i are those of its own pages and places.
LEMMA PinsAt ==
    ASSUME IInv, NEW i, NEW d \in Device
    PROVE  /\ pinModal[d].of = i /\ pinModal[d].mode = "show" =>
                 i \in DOMAIN sessions /\ sessions[i].to = d /\ sessions[i].recv = "verify"
           /\ pinModal[d].of = i /\ pinModal[d].mode = "enter" =>
                 i \in DOMAIN sessions /\ sessions[i].from = d /\ sessions[i].send = "prompt"
  BY DEF IInv, DialogInv, PinBelongs

LEMMA AsksAt ==
    ASSUME IInv, NEW i \in DOMAIN sessions, NEW d \in Device, incomingConfirm[d] = i
    PROVE  sessions[i].to = d /\ sessions[i].recv = "confirm"
<1>1. i # 0
  BY DEF IInv, TypeOK
<1> QED BY <1>1 DEF IInv, DialogInv, AskBelongs

LEMMA MovedDialogs ==
    ASSUME IInv, NEW i, NEW t, Moves(i, t), UNCHANGED <<pinModal, incomingConfirm>>,
           sessions[i].send = "prompt" => t.send = "prompt",
           sessions[i].recv = "verify" => t.recv = "verify",
           sessions[i].recv = "confirm" => t.recv = "confirm"
    PROVE  DialogInv'
<1> SUFFICES ASSUME NEW d \in Device PROVE PinBelongs(d)' /\ AskBelongs(d)'
  BY DEF DialogInv
<1>1. i \in DOMAIN sessions
  BY DEF Moves
<1>2. PinBelongs(d)'
  <2>1. pinModal[d].of = i /\ pinModal[d].mode = "show" => t.recv = "verify"
    BY PinsAt
  <2>2. pinModal[d].of = i /\ pinModal[d].mode = "enter" => t.send = "prompt"
    BY PinsAt
  <2>3. pinModal'[d] = pinModal[d]
    OBVIOUS
  <2> QED BY <2>1, <2>2, <2>3, MovedPin
<1>3. AskBelongs(d)'
  <2>1. incomingConfirm[d] # i \/ t.recv = "confirm"
    BY <1>1, AsksAt
  <2> QED BY <2>1, MovedAsk
<1> QED BY <1>2, <1>3

\* Session i opens a PIN dialog on its own page, or closes the one that is there.
LEMMA PinSet ==
    ASSUME IInv, NEW i, NEW t, Moves(i, t), NEW d \in Device,
           NEW m \in [mode : {"none", "enter", "show"}, of : 0 .. MaxSessions], SetPinModal(d, m),
           UNCHANGED incomingConfirm,
           m.mode = "show" => m.of = i /\ sessions[i].to = d /\ t.recv = "verify",
           m.mode = "enter" => m.of = i /\ sessions[i].from = d /\ t.send = "prompt",
           sessions[i].send = "prompt" => t.send = "prompt" \/ d = sessions[i].from,
           sessions[i].recv = "verify" => t.recv = "verify" \/ d = sessions[i].to,
           sessions[i].recv = "confirm" => t.recv = "confirm"
    PROVE  /\ pinModal' \in [Device -> [mode : {"none", "enter", "show"}, of : 0 .. MaxSessions]]
           /\ pinModal'[d] = m /\ \A e \in Device \ {d} : pinModal'[e] = pinModal[e]
           /\ DialogInv'
<1>1. /\ pinModal' \in [Device -> [mode : {"none", "enter", "show"}, of : 0 .. MaxSessions]]
      /\ pinModal'[d] = m /\ \A e \in Device \ {d} : pinModal'[e] = pinModal[e]
  BY DEF SetPinModal, IInv, TypeOK
<1>2. DialogInv'
  <2> SUFFICES ASSUME NEW e \in Device PROVE PinBelongs(e)' /\ AskBelongs(e)'
    BY DEF DialogInv
  <2>1. ASSUME e = d PROVE PinBelongs(e)'
    <3>1. pinModal'[e] = m
      BY <1>1, <2>1
    <3>2. i \in DOMAIN sessions' /\ sessions'[i] = t /\ t.from = sessions[i].from /\ t.to = sessions[i].to
      BY MovedSessions DEF Moves, Follows, SameSession
    <3> QED BY <2>1, <3>1, <3>2 DEF PinBelongs
  <2>2. ASSUME e # d PROVE PinBelongs(e)'
    <3>1. pinModal'[e] = pinModal[e]
      BY <1>1, <2>2
    <3>2. ASSUME pinModal[e].of = i, pinModal[e].mode = "show" PROVE t.recv = "verify"
      <4>1. sessions[i].to = e /\ sessions[i].recv = "verify"
        BY <3>2, PinsAt
      <4> QED BY <2>2, <4>1
    <3>3. ASSUME pinModal[e].of = i, pinModal[e].mode = "enter" PROVE t.send = "prompt"
      <4>1. sessions[i].from = e /\ sessions[i].send = "prompt"
        BY <3>3, PinsAt
      <4> QED BY <2>2, <4>1
    <3> QED BY <3>1, <3>2, <3>3, MovedPin
  <2>3. AskBelongs(e)'
    <3>1. incomingConfirm[e] # i \/ t.recv = "confirm"
      BY AsksAt DEF Moves
    <3> QED BY <3>1, MovedAsk
  <2> QED BY <2>1, <2>2, <2>3
<1> QED BY <1>1, <1>2

LEMMA MovedControllers ==
    ASSUME IInv, NEW i, NEW t, Moves(i, t), UNCHANGED abortControllers,
           sessions[i].send \notin Over => t.send \notin Over,
           t.recv \in Receiving <=> sessions[i].recv \in Receiving
    PROVE  ControllersOK' /\ ControllerInv' /\ CancelInv'
<1>1. ControllersOK'
  BY DEF IInv, TypeOK, ControllersOK
<1>2. ControllerInv'
  <2> SUFFICES ASSUME NEW d \in Device, NEW f \in FileIds, NEW j, j = abortControllers[d][f], j # 0
               PROVE  j \in DOMAIN sessions' /\ FileId(j)' = f /\ AtWork(j, d)'
    BY DEF ControllerInv, FileId
  <2>1. j \in DOMAIN sessions /\ FileId(j) = f /\ AtWork(j, d)
    BY DEF IInv, ControllerInv
  <2>2. AtWork(j, d)'
    <3>1. CASE j # i
      <4>1. sessions'[j] = sessions[j]
        BY <2>1, <3>1, MovedSessions
      <4> QED BY <2>1, <4>1 DEF AtWork
    <3>2. CASE j = i
      <4>1. sessions'[j] = t /\ t.from = sessions[i].from /\ t.to = sessions[i].to
        BY <2>1, <3>2, MovedSessions DEF Moves, Follows, SameSession
      <4> QED BY <2>1, <3>2, <4>1 DEF AtWork, Receiving
    <3> QED BY <3>1, <3>2
  <2> QED BY <2>1, <2>2, MovedSessions, MovedFiles
<1>3. CancelInv'
  <2> SUFFICES ASSUME NEW j \in DOMAIN sessions, sessions'[j].sole
               PROVE  /\ sessions'[j].send \notin Over => abortControllers[sessions'[j].from][FileId(j)] = j
                      /\ sessions'[j].recv \in Receiving => abortControllers[sessions'[j].to][FileId(j)] = j
    BY MovedSessions, MovedFiles DEF CancelInv
  <2>1. /\ sessions[j].send \notin Over => abortControllers[sessions[j].from][FileId(j)] = j
        /\ sessions[j].recv \in Receiving => abortControllers[sessions[j].to][FileId(j)] = j
    BY MovedSessions DEF IInv, CancelInv, SameSession
  <2>2. SameSession(sessions[j], sessions'[j])
    BY MovedSessions
  <2>3. sessions'[j].send \notin Over => sessions[j].send \notin Over
    BY MovedSessions DEF Moves, SenderDone
  <2>4. sessions'[j].recv \in Receiving => sessions[j].recv \in Receiving
    BY MovedSessions
  <2> QED BY <2>1, <2>2, <2>3, <2>4 DEF SameSession
<1> QED BY <1>1, <1>2, <1>3

LEMMA FileTypes ==
    ASSUME IInv, NEW i \in DOMAIN sessions
    PROVE  /\ i \in 1 .. Len(sessions) /\ i \in 1 .. MaxSessions
           /\ sessions[i].from \in Device /\ sessions[i].to \in Device
           /\ sessions[i].from # sessions[i].to /\ FileId(i) \in FileIds
<1>1. sessions[i] \in Session
  BY TakingIs
<1>2. sessions[i].from \in Device /\ sessions[i].to \in Device
  BY <1>1 DEF Session
<1>3. i \in 1 .. Len(sessions) /\ Len(sessions) \in Nat /\ Len(sessions) <= MaxSessions
  BY DEF IInv, TypeOK, Apart
<1> QED BY <1>2, <1>3 DEF IInv, Apart, FileId, ComputeFileId, FileIds

LEMMA OtherFiles ==
    ASSUME IInv, NEW i \in DOMAIN sessions, NEW j \in DOMAIN sessions, i # j, sessions[j].sole, ~Ended(i)
    PROVE  FileId(i) # FileId(j)
  BY DEF IInv, SoleInv, FileId, ComputeFileId

LEMMA SetControllerIs ==
    ASSUME IInv, NEW d \in Device, NEW f \in FileIds, NEW x \in 0 .. MaxSessions, SetController(d, f, x)
    PROVE  /\ ControllersOK'
           /\ \A e \in Device : \A g \in FileIds :
                 abortControllers'[e][g] = IF e = d /\ g = f THEN x ELSE abortControllers[e][g]
  BY DEF IInv, TypeOK, SetController, ControllersOK

\* A controller is set or forgotten only by a call with its file that is at work.
LEMMA SetControllers ==
    ASSUME IInv, NEW i, NEW t, Moves(i, t), ~Ended(i),
           NEW d \in {sessions[i].from, sessions[i].to}, NEW x \in {0, i},
           SetController(d, FileId(i), x),
           x = i => d = sessions[i].to /\ t.recv \in Receiving,
           t.recv \in Receiving => sessions[i].recv \in Receiving \/ (d = sessions[i].to /\ x = i),
           sessions[i].recv \in Receiving => t.recv \in Receiving \/ (d = sessions[i].to /\ x = 0),
           sessions[i].send \notin Over => t.send \notin Over \/ (d = sessions[i].from /\ x = 0),
           x = 0 /\ d = sessions[i].from => t.send \in Over,
           x = 0 /\ d = sessions[i].to => t.recv \notin Receiving
    PROVE  ControllersOK' /\ ControllerInv' /\ CancelInv'
<1>1. i \in DOMAIN sessions
  BY DEF Moves
<1>2. d \in Device /\ FileId(i) \in FileIds /\ x \in 0 .. MaxSessions
  BY <1>1, FileTypes DEF IInv, TypeOK
<1>3. /\ ControllersOK'
      /\ \A e \in Device : \A g \in FileIds :
            abortControllers'[e][g] = IF e = d /\ g = FileId(i) THEN x ELSE abortControllers[e][g]
  BY <1>2, SetControllerIs
<1>4. sessions'[i] = t /\ t.from = sessions[i].from /\ t.to = sessions[i].to
  BY <1>1, MovedSessions DEF Moves, Follows, SameSession
<1>5. ControllerInv'
  <2> SUFFICES ASSUME NEW e \in Device, NEW g \in FileIds, NEW j,
                      j = abortControllers'[e][g], j # 0
               PROVE  j \in DOMAIN sessions' /\ FileId(j)' = g /\ AtWork(j, e)'
    BY DEF ControllerInv, FileId
  <2>1. CASE e = d /\ g = FileId(i)
    <3>1. j = i /\ d = sessions[i].to /\ t.recv \in Receiving
      BY <1>3, <2>1
    <3>2. AtWork(j, e)'
      BY <1>4, <2>1, <3>1 DEF AtWork, Receiving
    <3> QED BY <1>1, <2>1, <3>1, <3>2, MovedSessions, MovedFiles
  <2>2. CASE ~(e = d /\ g = FileId(i))
    <3>1. j = abortControllers[e][g]
      BY <1>3, <2>2
    <3>2. j \in DOMAIN sessions /\ FileId(j) = g /\ AtWork(j, e)
      BY <3>1 DEF IInv, ControllerInv
    <3>3. AtWork(j, e)'
      <4>1. CASE j # i
        <5>1. sessions'[j] = sessions[j]
          BY <3>2, <4>1, MovedSessions
        <5> QED BY <3>2, <5>1 DEF AtWork
      <4>2. CASE j = i
        <5>1. e # d
          BY <2>2, <3>2, <4>2
        <5> QED BY <1>4, <3>2, <4>2, <5>1 DEF AtWork, Receiving
      <4> QED BY <4>1, <4>2
    <3> QED BY <3>2, <3>3, MovedSessions, MovedFiles
  <2> QED BY <2>1, <2>2
<1>6. CancelInv'
  <2> SUFFICES ASSUME NEW j \in DOMAIN sessions, sessions[j].sole
               PROVE  /\ sessions'[j].send \notin Over => abortControllers'[sessions[j].from][FileId(j)] = j
                      /\ sessions'[j].recv \in Receiving => abortControllers'[sessions[j].to][FileId(j)] = j
    BY MovedSessions, MovedFiles DEF CancelInv, SameSession
  <2>1. FileId(j) \in FileIds /\ sessions[j].from \in Device /\ sessions[j].to \in Device
        /\ sessions[j].from # sessions[j].to
    BY FileTypes
  <2>2. CASE j # i
    <3>1. FileId(j) # FileId(i)
      BY <1>1, <2>2, OtherFiles
    <3> QED BY <1>3, <2>1, <2>2, <3>1, MovedSessions DEF IInv, CancelInv
  <2>3. CASE j = i
    <3>1. sessions'[j] = t
      BY <2>3, MovedSessions
    <3>2. t.send \notin Over => sessions[i].send \notin Over
      BY DEF Moves, SenderDone
    <3> QED BY <1>3, <2>1, <2>3, <3>1, <3>2 DEF IInv, CancelInv
  <2> QED BY <2>2, <2>3
<1> QED BY <1>3, <1>5, <1>6

\* A session whose trust and dialog are left alone stays where it is.
LEMMA StageSame ==
    ASSUME NEW j, NEW s, s.to \in trust'[s.from] <=> s.to \in trust[s.from],
           s.from \in trust'[s.to] <=> s.from \in trust[s.to],
           s.undisturbed => pinModal'[s.to] = pinModal[s.to], Stage(j, s), Mutual(s)
    PROVE  Stage(j, s)' /\ Mutual(s)'
<1>1. (Trusted(s)' <=> Trusted(s)) /\ (Shown(j, s) => Shown(j, s)')
  BY DEF Trusted, Shown
<1>2. Mutual(s)'
  BY <1>1 DEF Mutual
<1>3. Stage(j, s)'
  BY <1>1 DEF Stage, Settled, Pairs, Fresh, Asked, Waits, Typed, Wrong, WrongAtLast, Right
<1> QED BY <1>2, <1>3

\* The trust between other devices than those of s is left alone.
TrustOnlyOf(s) ==
    \A d, e \in Device : {d, e} # {s.from, s.to} => (e \in trust'[d] <=> e \in trust[d])

\* What session i changes on pages are its own.
Limited(i) ==
    \/ UNCHANGED <<trust, pinModal>>
    \/ /\ Unfinished(i) /\ TrustOnlyOf(sessions[i])
       /\ \A d \in Device \ {sessions[i].from, sessions[i].to} : pinModal'[d] = pinModal[d]

LEMMA PairFrame ==
    ASSUME IInv, NEW i, NEW t, Moves(i, t), Limited(i),
           sessions[i].unrivalled => Stage(i, t)' /\ Mutual(t)'
    PROVE  PairInv'
<1> SUFFICES ASSUME NEW j \in DOMAIN sessions, sessions[j].unrivalled
             PROVE  Stage(j, sessions[j])' /\ Mutual(sessions[j])'
  BY MovedSessions DEF PairInv, SameSession
<1>1. CASE j = i
  BY <1>1, MovedSessions
<1>2. CASE j # i
  <2>1. sessions'[j] = sessions[j] /\ i \in DOMAIN sessions
    BY <1>2, MovedSessions DEF Moves
  <2>2. Stage(j, sessions[j]) /\ Mutual(sessions[j])
    BY DEF IInv, PairInv
  <2>3. PICK s : s = sessions[j]
    OBVIOUS
  <2>4. s.from \in Device /\ s.to \in Device
    BY <2>3, FileTypes
  <2>5. /\ s.to \in trust'[s.from] <=> s.to \in trust[s.from]
        /\ s.from \in trust'[s.to] <=> s.from \in trust[s.to]
        /\ s.undisturbed => pinModal'[s.to] = pinModal[s.to]
    <3>1. CASE UNCHANGED <<trust, pinModal>>
      BY <3>1
    <3>2. CASE /\ Unfinished(i) /\ TrustOnlyOf(sessions[i])
               /\ \A d \in Device \ {sessions[i].from, sessions[i].to} : pinModal'[d] = pinModal[d]
      <4>1. ~Interferes(i, s)
        BY <1>2, <2>1, <2>3, <3>2 DEF IInv, AloneInv
      <4>2. {s.from, s.to} # {sessions[i].from, sessions[i].to}
        BY <2>3, <4>1 DEF Interferes, Rivals
      <4>3. {s.to, s.from} # {sessions[i].from, sessions[i].to}
        BY <4>2
      <4>4. s.undisturbed => s.to \in Device \ {sessions[i].from, sessions[i].to}
        BY <2>4, <4>1 DEF Interferes, Shares
      <4> QED BY <2>4, <3>2, <4>2, <4>3, <4>4 DEF TrustOnlyOf
    <3> QED BY <3>1, <3>2 DEF Limited
  <2>6. Stage(j, s)' /\ Mutual(s)'
    BY <2>2, <2>3, <2>5, StageSame
  <2> QED BY <2>1, <2>3, <2>6
<1> QED BY <1>1, <1>2

LEMMA Assembled ==
    ASSUME IInv, NEW i, NEW t, Moves(i, t), PagesOK', DialogInv',
           ControllersOK' /\ ControllerInv' /\ CancelInv', PairInv'
    PROVE  IInv'
  BY MovedType, MovedAlone, TypeParts, PTL DEF IInv

\* The verdict that decides whether the two devices agree is taken in a step that
\* does so.
LEMMA MovedMutual ==
    ASSUME IInv, NEW i, NEW t, Moves(i, t), sessions[i].unrivalled,
           sessions[i].send = "result" => t.send = "result" \/ ~Trusted(t)
    PROVE  Mutual(t)
<1>1. Mutual(sessions[i])
  BY DEF IInv, PairInv, Moves
<1>2. (Trusted(t) <=> Trusted(sessions[i])) /\ t.from = sessions[i].from /\ t.to = sessions[i].to
  BY DEF Trusted, Moves, Follows, SameSession
<1> QED BY <1>1, <1>2 DEF Mutual

\* A step that leaves trust and dialogs alone.
LEMMA QuietMove ==
    ASSUME IInv, NEW i, NEW t, Moves(i, t), UNCHANGED <<trust, pinModal, incomingConfirm, faults>>,
           ControllersOK' /\ ControllerInv' /\ CancelInv',
           sessions[i].send = "prompt" => t.send = "prompt",
           sessions[i].recv = "verify" => t.recv = "verify",
           sessions[i].recv = "confirm" => t.recv = "confirm",
           sessions[i].unrivalled => Stage(i, t),
           sessions[i].unrivalled /\ sessions[i].send = "result" => t.send = "result" \/ ~Trusted(t)
    PROVE  IInv'
<1>1. PagesOK'
  BY TypeParts DEF IInv, PagesOK
<1>2. DialogInv'
  BY MovedDialogs
<1>3. PairInv'
  <2>1. ASSUME sessions[i].unrivalled PROVE Stage(i, t)' /\ Mutual(t)'
    <3>1. Mutual(t)
      BY <2>1, MovedMutual
    <3> QED BY <2>1, <3>1, StageSame
  <2> QED BY <2>1, PairFrame DEF Limited
<1> QED BY <1>1, <1>2, <1>3, Assembled

\* A step that opens or closes the PIN dialog of one of its own pages.
LEMMA PinMove ==
    ASSUME IInv, NEW i, NEW t, Moves(i, t), NEW d \in {sessions[i].from, sessions[i].to},
           PagesOK', DialogInv', ControllersOK' /\ ControllerInv' /\ CancelInv',
           Unfinished(i), \A e \in Device \ {d} : pinModal'[e] = pinModal[e],
           TrustOnlyOf(sessions[i]),
           sessions[i].unrivalled => Stage(i, t)' /\ Mutual(t)'
    PROVE  IInv'
<1>1. Limited(i)
  BY DEF Limited
<1> QED BY <1>1, PairFrame, Assembled

LEMMA QueueOfTwo == ASSUME NEW m \in Message, NEW n \in Message PROVE Append(<<m>>, n) = <<m, n>>
<1> DEFINE q == Append(<<m>>, n)
           r == <<m, n>>
<1>1. q \in Seq(Message) /\ Len(q) = 2 /\ q[1] = m /\ q[2] = n
  OBVIOUS
<1>2. r \in Seq(Message) /\ Len(r) = 2 /\ r[1] = m /\ r[2] = n
  OBVIOUS
<1> HIDE DEF q, r
<1>3. \A k \in 1 .. Len(q) : q[k] = r[k]
  BY <1>1, <1>2
<1>4. q = r
  BY <1>1, <1>2, <1>3, SeqEqual
<1> QED BY <1>4 DEF q, r

LEMMA AttemptsAre ==
    ASSUME IInv, NEW i \in DOMAIN sessions
    PROVE  /\ sessions[i].send \in {"connected", "prompt", "result"} => sessions[i].sTries > 0
           /\ sessions[i].recv \in {"connected", "request", "verify"} => sessions[i].rTries > 0
           /\ sessions[i].send = "drain" => sessions[i].chunks > 0
           /\ sessions[i].sTries \in 0 .. MaxAttempts /\ sessions[i].rTries \in 0 .. MaxAttempts
<1>1. sessions[i] \in Session
  BY TakingIs
<1> QED BY <1>1 DEF IInv, TypeOK, Apart, Session

LEMMA SenderTookIs ==
    ASSUME IInv, NEW i \in DOMAIN sessions, sessions[i].toS # <<>>
    PROVE  /\ Follows(sessions[i], SenderTook(i)) /\ SamePlaces(sessions[i], SenderTook(i))
           /\ SenderTook(i).toS = Tail(sessions[i].toS) /\ SenderTook(i).toR = sessions[i].toR
           /\ SenderTook(i).sOpen = sessions[i].sOpen /\ SenderTook(i).rOpen = sessions[i].rOpen
<1> DEFINE s == sessions[i]
           t == SenderTook(i)
<1>1. s \in Session /\ t \in Session /\ t = [s EXCEPT !.toS = Tail(s.toS)]
  BY TakingIs
<1> HIDE DEF s, t
<1>2. SameSession(s, t) /\ SamePlaces(s, t)
  BY <1>1 DEF SamePlaces, Session, SameSession
<1>3. t.toS = Tail(s.toS) /\ t.toR = s.toR /\ t.sOpen = s.sOpen /\ t.rOpen = s.rOpen
  BY <1>1 DEF Session
<1> QED BY <1>1, <1>2, <1>3 DEF Follows, s, t

LEMMA ReceiverTookIs ==
    ASSUME IInv, NEW i \in DOMAIN sessions, sessions[i].toR # <<>>
    PROVE  /\ Follows(sessions[i], ReceiverTook(i)) /\ SamePlaces(sessions[i], ReceiverTook(i))
           /\ ReceiverTook(i).toR = Tail(sessions[i].toR) /\ ReceiverTook(i).toS = sessions[i].toS
           /\ ReceiverTook(i).sOpen = sessions[i].sOpen /\ ReceiverTook(i).rOpen = sessions[i].rOpen
<1> DEFINE s == sessions[i]
           t == ReceiverTook(i)
<1>1. s \in Session /\ t \in Session /\ t = [s EXCEPT !.toR = Tail(s.toR)]
  BY TakingIs
<1> HIDE DEF s, t
<1>2. SameSession(s, t) /\ SamePlaces(s, t)
  BY <1>1 DEF SamePlaces, Session, SameSession
<1>3. t.toR = Tail(s.toR) /\ t.toS = s.toS /\ t.sOpen = s.sOpen /\ t.rOpen = s.rOpen
  BY <1>1 DEF Session
<1> QED BY <1>1, <1>2, <1>3 DEF Follows, s, t

\* A call that ends forgets what it knew; the other call is left alone.
LEMMA ForgettingIs ==
    ASSUME NEW s \in Session
    PROVE  /\ Follows(s, SenderForgets(s)) /\ SameChannel(s, SenderForgets(s))
           /\ SenderForgets(s).send = s.send
           /\ SenderForgets(s).recv = s.recv /\ SenderForgets(s).rTries = s.rTries
           /\ Follows(s, ReceiverForgets(s)) /\ SameChannel(s, ReceiverForgets(s))
           /\ ReceiverForgets(s).recv = s.recv /\ ReceiverForgets(s).send = s.send
           /\ ReceiverForgets(s).sTries = s.sTries /\ ReceiverForgets(s).chunks = s.chunks
<1>1. PICK t : t = SenderForgets(s)
  OBVIOUS
<1>2. PICK u : u = ReceiverForgets(s)
  OBVIOUS
<1>3. t = [s EXCEPT !.sTries = 0, !.chunks = 0, !.sCancel = FALSE, !.sRemote = FALSE]
  BY <1>1 DEF SenderForgets
<1>4. u = [s EXCEPT !.rTries = 0, !.rCancel = FALSE, !.rAborted = FALSE]
  BY <1>2 DEF ReceiverForgets
<1>5. 0 \in 0 .. MaxAttempts /\ 0 \in 0 .. MaxChunks
  OBVIOUS
<1>6. t \in Session
  BY <1>3, <1>5 DEF Session
<1>7. SameSession(s, t) /\ SameChannel(s, t)
  BY <1>3 DEF Session, SameSession, SameChannel
<1>8. t.send = s.send /\ t.recv = s.recv /\ t.rTries = s.rTries
  BY <1>3 DEF Session
<1>9. u \in Session
  BY <1>4, <1>5 DEF Session
<1>10. SameSession(s, u) /\ SameChannel(s, u)
  BY <1>4 DEF Session, SameSession, SameChannel
<1>11. u.send = s.send /\ u.recv = s.recv /\ u.sTries = s.sTries /\ u.chunks = s.chunks
  BY <1>4 DEF Session
<1> QED BY <1>1, <1>2, <1>6, <1>7, <1>8, <1>9, <1>10, <1>11 DEF Follows, SameChannel

LEMMA SenderEndsMoves ==
    ASSUME IInv, NEW i \in DOMAIN sessions, NEW u, Follows(sessions[i], u),
           u.recv = sessions[i].recv, u.rTries = sessions[i].rTries,
           ~SenderDone(sessions[i]), SenderEnds(i, u)
    PROVE  /\ \E t : Moves(i, t) /\ t.send = "ended" /\ t.recv = sessions[i].recv
           /\ ControllersOK' /\ ControllerInv' /\ CancelInv'
<1>1. PICK v : v = SenderForgets(u)
  OBVIOUS
<1>2. PICK e : e = [v EXCEPT !.send = "ended"]
  OBVIOUS
<1>3. PICK t : t = SenderCloses(e)
  OBVIOUS
<1>4. Follows(u, v) /\ v.recv = u.recv /\ v.rTries = u.rTries
  BY <1>1, ForgettingIs DEF Follows
<1>5. /\ e \in Session /\ SameSession(v, e) /\ e.sOpen = v.sOpen /\ e.rOpen = v.rOpen
      /\ e.send = "ended" /\ e.recv = v.recv /\ e.rTries = v.rTries
  BY <1>2, <1>4 DEF Follows, SameSession, Session, SendPlaces
<1>6. Becomes(i, t) /\ SetController(sessions[i].from, FileId(i), 0)
  BY <1>1, <1>2, <1>3 DEF SenderEnds, Follows, SameSession
<1>7. Follows(e, t) /\ SamePlaces(e, t)
  BY <1>3, <1>5, SenderClosesIs
<1>8. /\ Follows(sessions[i], t) /\ t.send = "ended" /\ t.recv = sessions[i].recv
      /\ t.rTries = sessions[i].rTries
  BY <1>4, <1>5, <1>7 DEF Follows, SameSession, SamePlaces
<1>9. Moves(i, t)
  BY <1>6, <1>8, AttemptsAre DEF Moves
<1>10. sessions[i].from # sessions[i].to /\ i # 0
  BY FileTypes
<1>11. ~Ended(i)
  BY DEF Ended
<1>12. ControllersOK' /\ ControllerInv' /\ CancelInv'
  BY <1>6, <1>8, <1>9, <1>10, <1>11, SetControllers DEF Over
<1> QED BY <1>8, <1>9, <1>12

\* sendFileToPeer ends from where no dialog is its own.
LEMMA SenderEndsStep ==
    ASSUME IInv, NEW i \in DOMAIN sessions, NEW u, Follows(sessions[i], u),
           u.recv = sessions[i].recv, u.rTries = sessions[i].rTries,
           ~SenderDone(sessions[i]), sessions[i].send # "prompt", SenderEnds(i, u),
           sessions[i].unrivalled =>
              Settled(sessions[i]) /\ (sessions[i].send = "result" => ~Trusted(sessions[i])),
           UNCHANGED <<trust, pinModal, incomingConfirm, faults>>
    PROVE  IInv'
<1>1. PICK t : Moves(i, t) /\ t.send = "ended" /\ t.recv = sessions[i].recv
  BY SenderEndsMoves
<1>2. ControllersOK' /\ ControllerInv' /\ CancelInv'
  BY SenderEndsMoves
<1>3. Trusted(t) <=> Trusted(sessions[i])
  BY <1>1 DEF Trusted, Moves, Follows, SameSession
<1>4. sessions[i].unrivalled => Stage(i, t)
  BY <1>1, <1>3 DEF Stage, Pairs, Settled
<1> QED BY <1>1, <1>2, <1>3, <1>4, QuietMove

LEMMA ReceiverEndsMoves ==
    ASSUME IInv, NEW i \in DOMAIN sessions, NEW u, Follows(sessions[i], u),
           u.send = sessions[i].send, u.sTries = sessions[i].sTries, u.chunks = sessions[i].chunks,
           u.recv \in Receiving <=> sessions[i].recv \in Receiving,
           ~ReceiverDone(sessions[i]), ReceiverEnds(i, u)
    PROVE  /\ \E t : /\ Moves(i, t) /\ t.recv = "ended" /\ t.send = sessions[i].send
                     /\ t.sTries = sessions[i].sTries
                     /\ t.toR = <<>> /\ t.sOpen = u.sOpen /\ ~t.rOpen
                     /\ t.toS = IF u.rOpen /\ u.sOpen THEN Append(u.toS, Close) ELSE u.toS
           /\ ControllersOK' /\ ControllerInv' /\ CancelInv'
<1>1. PICK v : v = ReceiverForgets(u)
  OBVIOUS
<1>2. PICK e : e = [v EXCEPT !.recv = "ended"]
  OBVIOUS
<1>3. PICK t : t = ReceiverCloses(e)
  OBVIOUS
<1>4. Follows(u, v) /\ SameChannel(u, v) /\ v.send = u.send /\ v.sTries = u.sTries /\ v.chunks = u.chunks
  BY <1>1, ForgettingIs DEF Follows
<1>5. e \in Session /\ SameSession(v, e) /\ SameChannel(v, e)
  BY <1>2, <1>4 DEF Follows, SameSession, SameChannel, Session, RecvPlaces
<1>6. e.send = v.send /\ e.recv = "ended" /\ e.sTries = v.sTries /\ e.chunks = v.chunks
  BY <1>2, <1>4 DEF Follows, Session
<1>7. Becomes(i, t)
  BY <1>1, <1>2, <1>3 DEF ReceiverEnds
<1>8. /\ Follows(e, t) /\ SamePlaces(e, t) /\ t.toR = <<>> /\ t.sOpen = e.sOpen /\ ~t.rOpen
      /\ t.toS = IF e.rOpen /\ e.sOpen THEN Append(e.toS, Close) ELSE e.toS
  BY <1>3, <1>5, ReceiverClosesIs
<1>9. /\ Follows(sessions[i], t) /\ t.send = sessions[i].send /\ t.recv = "ended"
      /\ t.sTries = sessions[i].sTries /\ t.chunks = sessions[i].chunks
  BY <1>4, <1>5, <1>6, <1>8 DEF Follows, SameSession, SamePlaces, SameChannel
<1>10. t.toS = IF u.rOpen /\ u.sOpen THEN Append(u.toS, Close) ELSE u.toS
  BY <1>4, <1>5, <1>8 DEF SameChannel
<1>11. t.sOpen = u.sOpen
  BY <1>4, <1>5, <1>8 DEF SameChannel
<1>12. Moves(i, t)
  BY <1>7, <1>9, AttemptsAre DEF Moves
<1>13. ~Ended(i)
  BY DEF Ended
<1>14. ControllersOK' /\ ControllerInv' /\ CancelInv'
  <2>1. CASE u.recv \in Receiving
    <3>1. SetController(sessions[i].to, FileId(i), 0) /\ sessions[i].from # sessions[i].to /\ i # 0
      BY <2>1, FileTypes DEF ReceiverEnds, Follows, SameSession, Receiving
    <3> QED BY <1>9, <1>12, <1>13, <3>1, SetControllers DEF Receiving
  <2>2. CASE u.recv \notin Receiving
    BY <1>9, <1>12, <2>2, MovedControllers DEF ReceiverEnds, Receiving
  <2> QED BY <2>1, <2>2
<1> QED BY <1>8, <1>9, <1>10, <1>11, <1>12, <1>14

\* While the two ends are pairing, the file has not been offered.
LEMMA PairingPlaces ==
    ASSUME IInv, NEW i \in DOMAIN sessions, sessions[i].unrivalled, Pairs(sessions[i])
    PROVE  /\ sessions[i].recv \notin Receiving \cup {"gone"} /\ sessions[i].sOpen
           /\ sessions[i].recv = "offer" => sessions[i].toR = <<>>
           /\ sessions[i].recv \notin {"connected", "request", "verify"} => sessions[i].toR = <<>>
  BY DEF IInv, PairInv, Stage, Fresh, Asked, Waits, Typed, Wrong, WrongAtLast, Right, Receiving

\* listenForNextIncomingTransfer ends after the human has been asked about the file.
LEMMA ReceiverEndsStep ==
    ASSUME IInv, NEW i \in DOMAIN sessions, NEW u, Follows(sessions[i], u),
           u.send = sessions[i].send, u.sTries = sessions[i].sTries, u.chunks = sessions[i].chunks,
           u.recv \in Receiving, sessions[i].recv \in {"pick", "transfer"},
           ~ReceiverDone(sessions[i]), ReceiverEnds(i, u),
           UNCHANGED <<trust, pinModal, incomingConfirm, faults>>
    PROVE  IInv'
<1>1. sessions[i].recv \in Receiving
  BY DEF Receiving
<1>2. PICK t : Moves(i, t) /\ t.send = sessions[i].send /\ t.recv = "ended"
  BY <1>1, ReceiverEndsMoves
<1>3. ControllersOK' /\ ControllerInv' /\ CancelInv'
  BY <1>1, ReceiverEndsMoves
<1>4. sessions[i].unrivalled => ~Pairs(sessions[i])
  BY <1>1, PairingPlaces
<1>5. sessions[i].unrivalled => Stage(i, t)
  BY <1>2, <1>4 DEF Stage, Pairs, Settled
<1> QED BY <1>2, <1>3, <1>4, <1>5, QuietMove DEF Pairs

-----------------------------------------------------------------------------
(* sendFileToPeer: each of its steps keeps the invariant. *)

LEMMA SendOfferMoves ==
    ASSUME IInv, NEW i \in DOMAIN sessions, NEW u, Follows(sessions[i], u),
           u.recv = sessions[i].recv, u.rTries = sessions[i].rTries,
           sessions[i].send \in {"connected", "result"}, SendOffer(i, u)
    PROVE  /\ \E t : Moves(i, t) /\ t.send \in {"offer", "ended"} /\ t.recv = sessions[i].recv
           /\ ControllersOK' /\ ControllerInv' /\ CancelInv'
<1> DEFINE x == ToReceiver(u, [type |-> "offer"])
           o == [x EXCEPT !.send = "offer"]
           a == ToReceiver(o, [type |-> "abort"])
<1>1. Follows(u, x) /\ SamePlaces(u, x)
  BY MessageTypes, SendingIs DEF Follows, SameSession
<1>2. \/ SenderEnds(i, u)
      \/ SenderEnds(i, a)
      \/ Becomes(i, o) /\ UNCHANGED abortControllers
  BY DEF SendOffer
<1> HIDE DEF x
<1>3. Follows(sessions[i], o) /\ o.send = "offer" /\ o.recv = u.recv /\ o.rTries = u.rTries
  <2>1. x \in Session
    BY <1>1 DEF Follows, SameSession
  <2>2. o \in Session /\ o.send = "offer" /\ o.recv = x.recv /\ o.rTries = x.rTries
    BY <2>1 DEF Session, SendPlaces
  <2>3. SameSession(x, o) /\ o.sOpen = x.sOpen /\ o.rOpen = x.rOpen
    BY <2>1 DEF Session, SameSession
  <2> QED BY <1>1, <2>2, <2>3 DEF Follows, SameSession, SamePlaces
<1> HIDE DEF o
<1>4. Follows(o, a) /\ SamePlaces(o, a)
  BY <1>3, MessageTypes, SendingIs DEF Follows, SameSession
<1> HIDE DEF a
<1>5. ~SenderDone(sessions[i])
  BY DEF SenderDone, Over
<1>6. CASE SenderEnds(i, u)
  BY <1>5, <1>6, SenderEndsMoves
<1>7. CASE SenderEnds(i, a)
  <2>1. Follows(sessions[i], a) /\ a.recv = sessions[i].recv /\ a.rTries = sessions[i].rTries
    BY <1>3, <1>4 DEF Follows, SameSession, SamePlaces
  <2> QED BY <1>5, <1>7, <2>1, SenderEndsMoves
<1>8. CASE Becomes(i, o) /\ UNCHANGED abortControllers
  <2>1. Moves(i, o)
    BY <1>3, <1>5, <1>8, AttemptsAre DEF Moves
  <2> QED BY <1>3, <1>8, <2>1, MovedControllers DEF Over
<1> QED BY <1>2, <1>6, <1>7, <1>8

\* The page's dialog is now that of session i.
LEMMA PromptMove ==
    ASSUME IInv, NEW i, NEW t, Moves(i, t), t.send = "prompt", t.recv = sessions[i].recv,
           sessions[i].send \in {"connected", "result"},
           SetPinModal(sessions[i].from, [mode |-> "enter", of |-> i]),
           sessions[i].unrivalled => Stage(i, t),
           UNCHANGED <<trust, incomingConfirm, abortControllers, faults>>
    PROVE  IInv'
<1>1. /\ i \in DOMAIN sessions /\ i \in 0 .. MaxSessions
      /\ sessions[i].from \in Device /\ sessions[i].to \in Device /\ sessions[i].from # sessions[i].to
  BY FileTypes DEF Moves
<1>2. /\ pinModal' \in [Device -> [mode : {"none", "enter", "show"}, of : 0 .. MaxSessions]]
      /\ \A d \in Device \ {sessions[i].from} : pinModal'[d] = pinModal[d]
      /\ DialogInv'
  <2>1. PICK m : m = [mode |-> "enter", of |-> i]
    OBVIOUS
  <2>2. /\ m \in [mode : {"none", "enter", "show"}, of : 0 .. MaxSessions]
        /\ m.mode = "enter" /\ m.of = i
    BY <1>1, <2>1
  <2>3. SetPinModal(sessions[i].from, m)
    BY <2>1
  <2> QED BY <1>1, <2>2, <2>3, PinSet
<1>3. PagesOK'
  BY <1>2 DEF IInv, TypeOK, PagesOK
<1>4. ControllersOK' /\ ControllerInv' /\ CancelInv'
  BY MovedControllers DEF Over
<1>5. ASSUME sessions[i].unrivalled PROVE Stage(i, t)' /\ Mutual(t)'
  <2>1. ~Trusted(t)
    BY <1>5 DEF Stage, Pairs, Fresh, Asked, Waits, Typed, Wrong, WrongAtLast, Right
  <2>2. Mutual(t)
    BY <1>5, <2>1, MovedMutual
  <2>3. pinModal'[t.to] = pinModal[t.to]
    BY <1>1, <1>2 DEF Moves, Follows, SameSession
  <2> QED BY <1>5, <2>2, <2>3, StageSame
<1>6. Unfinished(i)
  BY DEF Unfinished, Over
<1>7. TrustOnlyOf(sessions[i])
  BY DEF TrustOnlyOf
<1> QED BY <1>1, <1>2, <1>3, <1>4, <1>5, <1>6, <1>7, PinMove

LEMMA PromptStep ==
    ASSUME IInv, NEW i \in DOMAIN sessions, NEW u, Follows(sessions[i], u),
           u.recv = sessions[i].recv, u.rTries = sessions[i].rTries, u.sTries > 0,
           sessions[i].send \in {"connected", "result"}, PromptForPin(i, u),
           NEW t, t = [u EXCEPT !.send = "prompt"], sessions[i].unrivalled => Stage(i, t),
           UNCHANGED <<trust, incomingConfirm, faults>>
    PROVE  IInv'
<1>1. /\ t \in Session /\ SameSession(u, t) /\ t.sOpen = u.sOpen /\ t.rOpen = u.rOpen
      /\ t.send = "prompt" /\ t.recv = u.recv /\ t.rTries = u.rTries /\ t.sTries = u.sTries
  BY DEF Follows, SameSession, Session, SendPlaces
<1>2. Follows(sessions[i], t) /\ ~SenderDone(sessions[i]) /\ Becomes(i, t)
  BY <1>1 DEF Follows, SameSession, PromptForPin, SenderDone, Over
<1>3. Moves(i, t)
  BY <1>1, <1>2, AttemptsAre DEF Moves
<1>4. SetPinModal(sessions[i].from, [mode |-> "enter", of |-> i])
  BY DEF PromptForPin, Follows, SameSession
<1> QED BY <1>1, <1>3, <1>4, PromptMove DEF PromptForPin

LEMMA SenderConnectedStep ==
    ASSUME IInv, NEW i \in DOMAIN sessions, SenderConnected(i) PROVE IInv'
<1> DEFINE s == sessions[i]
           u == ToReceiver(s, [type |-> "pair-request"])
<1>1. /\ s.send = "connected" /\ s \in Session /\ Follows(s, s)
      /\ UNCHANGED <<trust, incomingConfirm, faults>>
  BY TakingIs DEF SenderConnected, Follows, SameSession
<1>2. s.unrivalled => Fresh(s) /\ s.sOpen
  BY <1>1 DEF IInv, PairInv, Stage, Pairs, Fresh, Asked, Waits, Typed, Wrong, WrongAtLast, Right
<1>3. CASE SendOffer(i, s) /\ s.to \in trust[s.from]
  <2>1. PICK t : Moves(i, t) /\ t.send \in {"offer", "ended"} /\ t.recv = s.recv
    BY <1>1, <1>3, SendOfferMoves
  <2>2. ControllersOK' /\ ControllerInv' /\ CancelInv'
    BY <1>1, <1>3, SendOfferMoves
  <2>3. UNCHANGED pinModal
    BY <1>3 DEF SendOffer
  <2>4. s.unrivalled => Stage(i, t)
    <3>1. Trusted(t) <=> Trusted(s)
      BY <2>1 DEF Trusted, Moves, Follows, SameSession
    <3> QED BY <1>2, <1>3, <2>1, <3>1 DEF Fresh, Stage, Pairs, Settled
  <2> QED BY <1>1, <2>1, <2>2, <2>3, <2>4, QuietMove
<1>4. CASE SenderEnds(i, s) /\ UNCHANGED pinModal /\ ~s.sOpen
  <2>1. ~SenderDone(s)
    BY <1>1 DEF SenderDone, Over
  <2> QED BY <1>1, <1>2, <1>4, <2>1, SenderEndsStep
<1>5. CASE PromptForPin(i, u) /\ s.to \notin trust[s.from] /\ s.sOpen
  <2> DEFINE t == [u EXCEPT !.send = "prompt"]
  <2>1. /\ Follows(s, u) /\ SamePlaces(s, u) /\ u.toS = s.toS
        /\ u.toR = IF s.rOpen THEN Append(s.toR, Request) ELSE s.toR
        /\ u.sOpen = s.sOpen /\ u.rOpen = s.rOpen
    BY <1>1, MessageTypes, SendingIs DEF Request
  <2>2. u.recv = s.recv /\ u.rTries = s.rTries /\ u.sTries > 0
    BY <1>1, <2>1, AttemptsAre DEF SamePlaces
  <2>3. ASSUME s.unrivalled PROVE Stage(i, t)
    <3>1. Fresh(s) /\ s.sOpen
      BY <1>2, <2>3
    <3>2. ~Trusted(s) /\ s.recv \in {"connected", "request"}
      BY <1>5, <3>1 DEF Fresh
    <3>3. u.toR = <<Request>>
      BY <2>1, <3>1 DEF Fresh
    <3> HIDE DEF u
    <3>4. u \in Session
      BY <2>1 DEF Follows, SameSession
    <3>5. /\ t.send = "prompt" /\ t.recv = u.recv /\ t.toR = u.toR /\ t.toS = u.toS
          /\ t.sTries = u.sTries /\ t.rTries = u.rTries /\ t.rOpen = u.rOpen /\ t.sOpen = u.sOpen
          /\ t.from = u.from /\ t.to = u.to
      BY <3>4 DEF Session
    <3> HIDE DEF t
    <3>6. ~Trusted(t)
      BY <2>1, <3>2, <3>5 DEF Trusted, Follows, SameSession
    <3>7. Asked(t)
      BY <2>1, <3>1, <3>2, <3>3, <3>5, <3>6 DEF Asked, Fresh, SamePlaces
    <3> QED BY <2>1, <3>1, <3>5, <3>7 DEF Stage, Pairs
  <2> QED BY <1>1, <1>5, <2>1, <2>2, <2>3, PromptStep
<1> QED BY <1>1, <1>3, <1>4, <1>5 DEF SenderConnected

LEMMA SubmitPinStep ==
    ASSUME IInv, NEW d \in Device, SubmitPin(d), NEW i, i = pinModal[d].of PROVE IInv'
<1> DEFINE s == sessions[i]
<1>1. /\ pinModal[d].mode = "enter" /\ SetPinModal(d, NoModal)
      /\ UNCHANGED <<trust, incomingConfirm, faults>>
  BY DEF SubmitPin
<1>2. i \in DOMAIN sessions /\ s.from = d /\ s.send = "prompt"
  BY <1>1 DEF IInv, DialogInv, PinBelongs
<1>3. s \in Session /\ Follows(s, s) /\ Unfinished(i) /\ s.to \in Device /\ s.from # s.to
  BY <1>2, TakingIs, FileTypes DEF Follows, SameSession, Unfinished, Over
<1>4. /\ NoModal \in [mode : {"none", "enter", "show"}, of : 0 .. MaxSessions]
      /\ NoModal.mode = "none"
  BY DEF NoModal
<1>5. PICK pin \in 0 .. MaxSessions :
        LET x == ToReceiver(s, [type |-> "pair-verify", pin |-> pin])
        IN IF s.sOpen
           THEN Becomes(i, [x EXCEPT !.send = "result"]) /\ UNCHANGED abortControllers
           ELSE SenderEnds(i, s)
  <2>1. ShownPins(s.to) \cup {0} \subseteq 0 .. MaxSessions
    BY <1>3 DEF ShownPins, IInv, TypeOK
  <2> QED BY <2>1 DEF SubmitPin
<1>6. s.unrivalled => s.sOpen /\ (Asked(s) \/ Waits(i, s))
  BY <1>2 DEF IInv, PairInv, Stage, Pairs, Fresh, Typed, Wrong, WrongAtLast, Right
<1>7. ASSUME NEW t, Moves(i, t), t.send \in {"result", "ended"}, t.recv = s.recv,
             ControllersOK' /\ ControllerInv' /\ CancelInv', s.unrivalled => Stage(i, t)
      PROVE  IInv'
  <2>1. /\ pinModal' \in [Device -> [mode : {"none", "enter", "show"}, of : 0 .. MaxSessions]]
        /\ \A e \in Device \ {d} : pinModal'[e] = pinModal[e]
        /\ DialogInv'
    BY <1>1, <1>2, <1>4, <1>7, PinSet
  <2>2. PagesOK'
    BY <1>1, <2>1 DEF IInv, TypeOK, PagesOK
  <2>3. ASSUME s.unrivalled PROVE Stage(i, t)' /\ Mutual(t)'
    <3>1. Mutual(t)
      BY <1>2, <1>7, <2>3, MovedMutual
    <3>2. pinModal'[t.to] = pinModal[t.to]
      BY <1>2, <1>3, <1>7, <2>1 DEF Moves, Follows, SameSession
    <3> QED BY <1>1, <1>7, <2>3, <3>1, <3>2, StageSame
  <2>4. TrustOnlyOf(s)
    BY <1>1 DEF TrustOnlyOf
  <2> QED BY <1>1, <1>2, <1>3, <1>7, <2>1, <2>2, <2>3, <2>4, PinMove
<1>8. ~SenderDone(s)
  BY <1>2 DEF SenderDone, Over
<1>9. CASE ~s.sOpen
  <2>1. SenderEnds(i, s)
    BY <1>5, <1>9
  <2>2. PICK t : Moves(i, t) /\ t.send = "ended" /\ t.recv = s.recv
    BY <1>2, <1>3, <1>8, <2>1, SenderEndsMoves
  <2>3. ControllersOK' /\ ControllerInv' /\ CancelInv'
    BY <1>2, <1>3, <1>8, <2>1, SenderEndsMoves
  <2> QED BY <1>6, <1>7, <1>9, <2>2, <2>3
<1>10. CASE s.sOpen
  <2> DEFINE x == ToReceiver(s, Verify(pin))
             t == [x EXCEPT !.send = "result"]
  <2>1. Becomes(i, t) /\ UNCHANGED abortControllers
    BY <1>5, <1>10 DEF Verify
  <2>2. /\ Follows(s, x) /\ SamePlaces(s, x) /\ x.toS = s.toS
        /\ x.toR = IF s.rOpen THEN Append(s.toR, Verify(pin)) ELSE s.toR
        /\ x.sOpen = s.sOpen /\ x.rOpen = s.rOpen
    BY <1>3, MessageTypes, SendingIs DEF Verify
  <2> HIDE DEF x
  <2>3. x \in Session
    BY <2>2 DEF Follows, SameSession
  <2>4. /\ t.send = "result" /\ t.recv = x.recv /\ t.toR = x.toR /\ t.toS = x.toS
        /\ t.sTries = x.sTries /\ t.rTries = x.rTries /\ t.rOpen = x.rOpen /\ t.sOpen = x.sOpen
    BY <2>3 DEF Session
  <2>5. t \in Session /\ SameSession(x, t)
    BY <2>3 DEF Session, SendPlaces, SameSession
  <2> HIDE DEF t
  <2>6. Follows(s, t) /\ t.recv = s.recv /\ t.sTries = s.sTries /\ t.rTries = s.rTries
    BY <2>2, <2>4, <2>5 DEF Follows, SameSession, SamePlaces
  <2>7. Moves(i, t)
    BY <1>2, <1>8, <2>1, <2>4, <2>6, AttemptsAre DEF Moves
  <2>8. ControllersOK' /\ ControllerInv' /\ CancelInv'
    BY <2>1, <2>4, <2>6, <2>7, MovedControllers DEF Over
  <2>9. ASSUME s.unrivalled PROVE Stage(i, t)
    <3>1. Trusted(t) <=> Trusted(s)
      BY <2>6 DEF Trusted, Follows, SameSession
    <3>2. CASE Asked(s)
      <4>1. s.toR = <<Request>> /\ s.rOpen
        BY <1>2, <3>2 DEF Asked
      <4>2. t.toR = <<Request, Verify(pin)>>
        BY <2>2, <2>4, <4>1, QueueOfTwo, MessageTypes DEF Request, Verify
      <4>3. Asked(t)
        BY <2>2, <2>4, <2>6, <3>1, <3>2, <4>2 DEF Asked
      <4> QED BY <1>10, <2>2, <2>4, <4>3 DEF Stage, Pairs
    <3>3. CASE Waits(i, s)
      <4>1. t.toR = <<Verify(pin)>>
        BY <2>2, <2>4, <3>3 DEF Waits
      <4>2. Shown(i, t)
        BY <2>6, <3>3 DEF Waits, Shown, Follows, SameSession
      <4>3. Typed(i, t)
        BY <2>2, <2>4, <2>6, <3>1, <3>3, <4>1, <4>2 DEF Waits, Typed
      <4> QED BY <1>10, <2>2, <2>4, <4>3 DEF Stage, Pairs
    <3> QED BY <1>6, <2>9, <3>2, <3>3
  <2> QED BY <1>7, <2>4, <2>6, <2>7, <2>8, <2>9
<1> QED BY <1>9, <1>10

LEMMA SenderGetsResultStep ==
    ASSUME IInv, NEW i \in DOMAIN sessions, SenderGetsResult(i) PROVE IInv'
<1> DEFINE s == sessions[i]
           x == SenderTook(i)
           u == [x EXCEPT !.sTries = @ - 1]
           ok == Head(s.toS).ok
<1>1. /\ s.send = "result" /\ s.toS # <<>> /\ Head(s.toS).type = "pair-result"
      /\ UNCHANGED <<incomingConfirm, faults>>
      /\ trust' = IF ok THEN [trust EXCEPT ![u.from] = @ \cup {u.to}] ELSE trust
      /\ IF ok THEN SendOffer(i, u)
         ELSE IF MoreTries(u) THEN PromptForPin(i, u) ELSE SenderEnds(i, u) /\ UNCHANGED pinModal
  BY DEF SenderGetsResult, SenderHears
<1>2. /\ Follows(s, x) /\ SamePlaces(s, x) /\ x.toS = Tail(s.toS) /\ x.toR = s.toR
      /\ x.sOpen = s.sOpen /\ x.rOpen = s.rOpen
  BY <1>1, SenderTookIs
<1>3. s.sTries \in 1 .. MaxAttempts
  BY <1>1, AttemptsAre
<1> HIDE DEF x
<1>4. /\ u \in Session /\ SameSession(x, u)
      /\ u.send = x.send /\ u.recv = x.recv /\ u.toR = x.toR /\ u.toS = x.toS
      /\ u.sTries = x.sTries - 1 /\ u.rTries = x.rTries /\ u.rOpen = x.rOpen /\ u.sOpen = x.sOpen
  <2>1. x \in Session /\ x.sTries - 1 \in 0 .. MaxAttempts
    BY <1>2, <1>3 DEF Follows, SameSession, SamePlaces
  <2>2. u = [x EXCEPT !.sTries = x.sTries - 1]
    OBVIOUS
  <2> HIDE DEF u
  <2>3. u \in Session
    BY <2>1, <2>2 DEF Session
  <2>4. SameSession(x, u)
    BY <2>1, <2>2 DEF Session, SameSession
  <2>5. /\ u.send = x.send /\ u.recv = x.recv /\ u.toR = x.toR /\ u.toS = x.toS
        /\ u.sTries = x.sTries - 1 /\ u.rTries = x.rTries /\ u.rOpen = x.rOpen /\ u.sOpen = x.sOpen
    BY <2>1, <2>2 DEF Session
  <2> QED BY <2>3, <2>4, <2>5
<1> HIDE DEF u
<1>5. Follows(s, u) /\ u.recv = s.recv /\ u.rTries = s.rTries /\ u.sTries = s.sTries - 1
  BY <1>2, <1>4 DEF Follows, SameSession, SamePlaces
<1>6. ASSUME s.unrivalled
      PROVE  \/ Wrong(i, s) /\ s.sOpen /\ ~ok /\ u.toS = <<>>
             \/ WrongAtLast(s) /\ ~ok
             \/ Right(s) /\ ok
  <2>1. s.sOpen /\ (Wrong(i, s) \/ WrongAtLast(s) \/ Right(s))
    BY <1>1, <1>6 DEF IInv, PairInv, Stage, Pairs, Fresh, Asked, Waits, Typed
  <2>2. CASE Wrong(i, s)
    BY <1>2, <1>4, <2>1, <2>2 DEF Wrong, Result
  <2>3. CASE WrongAtLast(s)
    BY <2>3 DEF WrongAtLast, Result
  <2>4. CASE Right(s)
    BY <2>4 DEF Right, Result
  <2> QED BY <2>1, <2>2, <2>3, <2>4
<1>7. /\ s.from \in Device /\ s.to \in Device /\ s.from # s.to /\ s.from = u.from /\ s.to = u.to
  BY <1>5, FileTypes DEF Follows, SameSession
<1>8. CASE ok
  <2>1. PICK t : Moves(i, t) /\ t.send \in {"offer", "ended"} /\ t.recv = s.recv
    BY <1>1, <1>5, <1>8, SendOfferMoves
  <2>2. ControllersOK' /\ ControllerInv' /\ CancelInv'
    BY <1>1, <1>5, <1>8, SendOfferMoves
  <2>3. UNCHANGED pinModal
    BY <1>1, <1>8 DEF SendOffer
  <2>4. DialogInv'
    BY <1>1, <2>1, <2>3, MovedDialogs
  <2>5. trust' = [trust EXCEPT ![s.from] = @ \cup {s.to}]
    BY <1>1, <1>7, <1>8
  <2>6. /\ trust' \in [Device -> SUBSET Device]
        /\ \A d \in Device \ {s.from} : trust'[d] = trust[d]
        /\ trust'[s.from] = trust[s.from] \cup {s.to}
    BY <1>7, <2>5 DEF IInv, TypeOK
  <2>7. PagesOK'
    BY <1>1, <2>3, <2>6 DEF IInv, TypeOK, PagesOK
  <2>8. ASSUME s.unrivalled PROVE Stage(i, t)' /\ Mutual(t)'
    <3>1. Right(s)
      BY <1>6, <1>8, <2>8
    <3>2. t.from \in trust'[t.to] /\ t.to \in trust'[t.from]
      BY <1>7, <2>1, <2>6, <3>1 DEF Right, Trusted, Moves, Follows, SameSession
    <3>3. ~Pairs(t) /\ t.recv = "offer"
      BY <2>1, <3>1 DEF Pairs, Right
    <3> QED BY <3>2, <3>3 DEF Mutual, Trusted, Stage, Pairs, Settled
  <2>9. Limited(i)
    <3>1. TrustOnlyOf(s)
      <4> SUFFICES ASSUME NEW d \in Device, NEW e \in Device, {d, e} # {s.from, s.to}
                   PROVE  e \in trust'[d] <=> e \in trust[d]
        BY DEF TrustOnlyOf
      <4>1. CASE d = s.from
        <5>1. e # s.to
          BY <4>1
        <5> QED BY <2>6, <4>1, <5>1
      <4>2. CASE d # s.from
        BY <2>6, <4>2
      <4> QED BY <4>1, <4>2
    <3> QED BY <1>1, <2>3, <3>1 DEF Limited, Unfinished, Over
  <2>10. PairInv'
    BY <2>1, <2>8, <2>9, PairFrame
  <2> QED BY <2>1, <2>2, <2>4, <2>7, <2>10, Assembled
<1>9. CASE ~ok /\ MoreTries(u)
  <2> DEFINE t == [u EXCEPT !.send = "prompt"]
  <2>1. u.sTries > 0
    BY <1>9 DEF MoreTries
  <2>2. PromptForPin(i, u) /\ UNCHANGED trust
    BY <1>1, <1>9
  <2>3. /\ t.send = "prompt" /\ t.recv = u.recv /\ t.toR = u.toR /\ t.toS = u.toS
        /\ t.sTries = u.sTries /\ t.rTries = u.rTries /\ t.rOpen = u.rOpen /\ t.sOpen = u.sOpen
        /\ t.to = u.to /\ t.from = u.from /\ t.undisturbed = u.undisturbed
    BY <1>4 DEF Session
  <2> HIDE DEF t
  <2>4. ASSUME s.unrivalled PROVE Stage(i, t)
    <3>1. Wrong(i, s) /\ s.sOpen /\ u.toS = <<>>
      <4>1. ~WrongAtLast(s)
        <5>1. WrongAtLast(s) => s.sTries = 1
          BY DEF WrongAtLast
        <5> QED BY <1>3, <1>5, <2>1, <5>1
      <4> QED BY <1>6, <1>9, <2>4, <4>1
    <3>2. Shown(i, t) /\ ~Trusted(t)
      BY <1>5, <1>7, <2>3, <3>1 DEF Wrong, Shown, Trusted, Follows, SameSession
    <3>3. t.sTries = t.rTries
      BY <1>3, <1>5, <2>3, <3>1, AttemptsAre DEF Wrong
    <3>4. Waits(i, t)
      BY <1>2, <1>4, <1>5, <2>3, <3>1, <3>2, <3>3 DEF Wrong, Waits
    <3> QED BY <1>2, <1>4, <2>3, <3>1, <3>4 DEF Stage, Pairs
  <2> QED BY <1>1, <1>5, <2>1, <2>2, <2>4, PromptStep DEF t
<1>10. CASE ~ok /\ ~MoreTries(u)
  <2>1. SenderEnds(i, u) /\ UNCHANGED <<trust, pinModal>>
    BY <1>1, <1>10
  <2>2. s.unrivalled => WrongAtLast(s)
    <3>1. Wrong(i, s) => s.sTries > 1
      BY <1>3, AttemptsAre DEF Wrong
    <3>2. ~(s.sTries > 1)
      BY <1>3, <1>5, <1>10 DEF MoreTries
    <3> QED BY <1>6, <1>10, <3>1, <3>2
  <2>3. s.unrivalled => Settled(s) /\ ~Trusted(s)
    BY <2>2 DEF WrongAtLast, Settled
  <2>4. ~SenderDone(s) /\ s.send # "prompt"
    BY <1>1 DEF SenderDone, Over
  <2> QED BY <1>1, <1>5, <2>1, <2>3, <2>4, SenderEndsStep
<1> QED BY <1>8, <1>9, <1>10

LEMMA SettledIs ==
    ASSUME IInv, NEW i \in DOMAIN sessions, sessions[i].unrivalled, ~Pairs(sessions[i])
    PROVE  Settled(sessions[i])
  BY DEF IInv, PairInv, Stage

\* sendFile goes on with the file.
LEMMA SenderGoesOn ==
    ASSUME IInv, NEW i \in DOMAIN sessions, NEW t, Becomes(i, t), Follows(sessions[i], t),
           t.recv = sessions[i].recv, t.rTries = sessions[i].rTries,
           sessions[i].send \in {"offer", "send", "drain", "hash"}, ~SenderDone(sessions[i]),
           t.send \in {"send", "drain", "hash", "verdict"}, t.send = "drain" => t.chunks > 0,
           UNCHANGED <<trust, appVars, faults>>
    PROVE  IInv'
<1>1. Moves(i, t)
  BY AttemptsAre DEF Moves
<1>2. ControllersOK' /\ ControllerInv' /\ CancelInv'
  BY <1>1, MovedControllers DEF appVars, Over
<1>3. Trusted(t) <=> Trusted(sessions[i])
  BY DEF Trusted, Follows, SameSession
<1>4. ~Pairs(sessions[i]) /\ ~Pairs(t)
  BY DEF Pairs
<1>5. sessions[i].unrivalled => Stage(i, t)
  BY <1>3, <1>4, SettledIs DEF Stage, Settled
<1> QED BY <1>1, <1>2, <1>4, <1>5, QuietMove DEF Pairs, appVars

\* sendFile ends.
LEMMA FileEnds ==
    ASSUME IInv, NEW i \in DOMAIN sessions, NEW u, Follows(sessions[i], u),
           u.recv = sessions[i].recv, u.rTries = sessions[i].rTries,
           sessions[i].send \in {"offer", "send", "drain", "hash", "verdict"},
           ~SenderDone(sessions[i]), SenderEnds(i, u),
           UNCHANGED <<trust, pinModal, incomingConfirm, faults>>
    PROVE  IInv'
<1>1. ~Pairs(sessions[i]) /\ sessions[i].send # "prompt"
  BY DEF Pairs
<1>2. sessions[i].unrivalled => Settled(sessions[i])
  BY <1>1, SettledIs
<1> QED BY <1>1, <1>2, SenderEndsStep DEF Pairs

LEMMA BailsStep ==
    ASSUME IInv, NEW i \in DOMAIN sessions, sessions[i].send \in {"offer", "send", "drain"},
           ~SenderDone(sessions[i]), Bails(i, sessions[i]),
           UNCHANGED <<trust, pinModal, incomingConfirm, faults>>
    PROVE  IInv'
<1>1. PICK s : s = sessions[i]
  OBVIOUS
<1>2. PICK u : u = IF s.sOpen /\ ~s.sRemote THEN ToReceiver(s, [type |-> "abort"]) ELSE s
  OBVIOUS
<1>3. s \in Session
  BY <1>1, TakingIs
<1>4. Follows(s, u) /\ SamePlaces(s, u)
  <2>1. Follows(s, s) /\ SamePlaces(s, s)
    BY <1>3 DEF Follows, SameSession, SamePlaces
  <2>2. LET a == ToReceiver(s, [type |-> "abort"]) IN Follows(s, a) /\ SamePlaces(s, a)
    BY <1>3, MessageTypes, SendingIs
  <2> QED BY <1>2, <2>1, <2>2
<1>5. SenderEnds(i, u)
  BY <1>1, <1>2 DEF Bails
<1> QED BY <1>1, <1>4, <1>5, FileEnds DEF SamePlaces

LEMMA SendChunkStep ==
    ASSUME IInv, NEW i \in DOMAIN sessions, sessions[i].send \in {"send", "drain"},
           sessions[i].chunks # 0, ~SenderDone(sessions[i]), SendChunk(i, sessions[i]),
           UNCHANGED <<trust, pinModal, incomingConfirm, faults>>
    PROVE  IInv'
<1>1. PICK s : s = sessions[i]
  OBVIOUS
<1>2. PICK t : t = [s EXCEPT !.send = "send", !.chunks = @ - 1]
  OBVIOUS
<1>3. s \in Session
  BY <1>1, TakingIs
<1>4. s.chunks - 1 \in 0 .. MaxChunks
  BY <1>1, <1>3 DEF Session
<1>5. t \in Session
  BY <1>2, <1>3, <1>4 DEF Session, SendPlaces
<1>6. SameSession(s, t)
  BY <1>2, <1>3 DEF Session, SameSession
<1>7. /\ t.send = "send" /\ t.recv = s.recv /\ t.rTries = s.rTries
      /\ t.sOpen = s.sOpen /\ t.rOpen = s.rOpen
  BY <1>2, <1>3 DEF Session
<1>8. Follows(s, t) /\ Follows(s, s)
  BY <1>3, <1>5, <1>6, <1>7 DEF Follows, SameSession
<1>9. SenderEnds(i, s) \/ (Becomes(i, t) /\ UNCHANGED abortControllers)
  BY <1>1, <1>2 DEF SendChunk
<1>10. CASE SenderEnds(i, s)
  BY <1>1, <1>8, <1>10, FileEnds
<1>11. CASE Becomes(i, t) /\ UNCHANGED abortControllers
  BY <1>1, <1>7, <1>8, <1>11, SenderGoesOn DEF appVars
<1> QED BY <1>9, <1>10, <1>11

\* Session i goes to another of the places of sendFile.
LEMMA PlaceIs ==
    ASSUME NEW x \in Session, NEW k \in SendPlaces, NEW t, t = [x EXCEPT !.send = k]
    PROVE  /\ Follows(x, t) /\ t.send = k /\ t.recv = x.recv /\ t.rTries = x.rTries
           /\ t.chunks = x.chunks
<1>1. t \in Session
  BY DEF Session
<1>2. SameSession(x, t)
  BY DEF Session, SameSession
<1>3. /\ t.send = k /\ t.recv = x.recv /\ t.rTries = x.rTries /\ t.chunks = x.chunks
      /\ t.sOpen = x.sOpen /\ t.rOpen = x.rOpen
  BY DEF Session
<1> QED BY <1>1, <1>2, <1>3 DEF Follows

LEMMA SenderGetsAcceptStep ==
    ASSUME IInv, NEW i \in DOMAIN sessions, SenderGetsAccept(i) PROVE IInv'
<1>1. PICK u : u = SenderTook(i)
  OBVIOUS
<1>2. PICK t : t = [u EXCEPT !.send = "send"]
  OBVIOUS
<1>3. /\ Follows(sessions[i], u) /\ SamePlaces(sessions[i], u) /\ sessions[i].send = "offer"
      /\ Becomes(i, t) /\ UNCHANGED <<trust, appVars, faults>>
  BY <1>1, <1>2, SenderTookIs DEF SenderGetsAccept, SenderHears
<1>4. Follows(u, t) /\ t.send = "send" /\ t.recv = u.recv /\ t.rTries = u.rTries
  <2>1. u \in Session /\ "send" \in SendPlaces
    BY <1>3 DEF Follows, SendPlaces
  <2> QED BY <1>2, <2>1, PlaceIs
<1>5. Follows(sessions[i], t) /\ t.recv = sessions[i].recv /\ t.rTries = sessions[i].rTries
  BY <1>3, <1>4 DEF Follows, SameSession, SamePlaces
<1>6. ~SenderDone(sessions[i])
  BY <1>3 DEF SenderDone, Over
<1> QED BY <1>3, <1>4, <1>5, <1>6, SenderGoesOn

LEMMA SenderLoopsStep ==
    ASSUME IInv, NEW i \in DOMAIN sessions, SenderLoops(i) PROVE IInv'
<1>1. PICK s : s = sessions[i]
  OBVIOUS
<1>2. /\ s.send = "send" /\ s \in Session /\ ~SenderDone(s)
      /\ UNCHANGED <<trust, pinModal, incomingConfirm, faults>>
  BY <1>1, TakingIs DEF SenderLoops, SenderDone, Over
<1>3. ASSUME NEW k \in {"hash", "drain"}, Becomes(i, [s EXCEPT !.send = k]),
             k = "drain" => s.chunks > 0, UNCHANGED abortControllers
      PROVE  IInv'
  <2>1. PICK t : t = [s EXCEPT !.send = k]
    OBVIOUS
  <2>2. Becomes(i, t)
    BY <1>3, <2>1
  <2>3. /\ Follows(s, t) /\ t.send = k /\ t.recv = s.recv /\ t.rTries = s.rTries
        /\ t.chunks = s.chunks
    BY <1>2, <2>1, PlaceIs DEF SendPlaces
  <2> QED BY <1>1, <1>2, <1>3, <2>2, <2>3, SenderGoesOn DEF appVars
<1>4. CASE Bails(i, s)
  BY <1>1, <1>2, <1>4, BailsStep
<1>5. CASE s.chunks = 0 /\ Becomes(i, [s EXCEPT !.send = "hash"]) /\ UNCHANGED abortControllers
  BY <1>3, <1>5
<1>6. CASE s.chunks # 0 /\ Becomes(i, [s EXCEPT !.send = "drain"]) /\ UNCHANGED abortControllers
  <2>1. s.chunks > 0
    BY <1>2, <1>6 DEF Session
  <2> QED BY <1>3, <1>6, <2>1
<1>7. CASE s.chunks # 0 /\ SendChunk(i, s)
  BY <1>1, <1>2, <1>7, SendChunkStep
<1> QED BY <1>1, <1>4, <1>5, <1>6, <1>7 DEF SenderLoops

LEMMA SenderDrainsStep ==
    ASSUME IInv, NEW i \in DOMAIN sessions, SenderDrains(i) PROVE IInv'
<1>1. /\ sessions[i].send = "drain" /\ sessions[i].chunks # 0 /\ ~SenderDone(sessions[i])
      /\ UNCHANGED <<trust, pinModal, incomingConfirm, faults>>
  BY AttemptsAre DEF SenderDrains, SenderDone, Over
<1>2. CASE Bails(i, sessions[i])
  BY <1>1, <1>2, BailsStep
<1>3. CASE SendChunk(i, sessions[i])
  BY <1>1, <1>3, SendChunkStep
<1> QED BY <1>2, <1>3 DEF SenderDrains

LEMMA SenderCompletesStep ==
    ASSUME IInv, NEW i \in DOMAIN sessions, SenderCompletes(i) PROVE IInv'
<1>1. PICK s : s = sessions[i]
  OBVIOUS
<1>2. /\ s.send = "hash" /\ s \in Session /\ ~SenderDone(s) /\ Follows(s, s)
      /\ UNCHANGED <<trust, pinModal, incomingConfirm, faults>>
  BY <1>1, TakingIs DEF SenderCompletes, SenderDone, Over, Follows, SameSession
<1>3. CASE SenderEnds(i, s)
  BY <1>1, <1>2, <1>3, FileEnds
<1>4. CASE /\ Becomes(i, [ToReceiver(s, [type |-> "complete"]) EXCEPT !.send = "verdict"])
           /\ UNCHANGED abortControllers
  <2>1. PICK u : u = ToReceiver(s, [type |-> "complete"])
    OBVIOUS
  <2>2. PICK t : t = [u EXCEPT !.send = "verdict"]
    OBVIOUS
  <2>3. Follows(s, u) /\ SamePlaces(s, u)
    BY <1>2, <2>1, MessageTypes, SendingIs
  <2>4. Follows(u, t) /\ t.send = "verdict" /\ t.recv = u.recv /\ t.rTries = u.rTries
    <3>1. u \in Session /\ "verdict" \in SendPlaces
      BY <2>3 DEF Follows, SendPlaces
    <3> QED BY <2>2, <3>1, PlaceIs
  <2>5. Follows(s, t) /\ t.recv = s.recv /\ t.rTries = s.rTries
    BY <2>3, <2>4 DEF Follows, SameSession, SamePlaces
  <2>6. Becomes(i, t)
    BY <1>4, <2>1, <2>2
  <2> QED BY <1>1, <1>2, <1>4, <2>4, <2>5, <2>6, SenderGoesOn DEF appVars
<1> QED BY <1>1, <1>3, <1>4 DEF SenderCompletes

LEMMA SenderNotesAbortStep ==
    ASSUME IInv, NEW i \in DOMAIN sessions, SenderNotesAbort(i) PROVE IInv'
<1>1. PICK s : s = sessions[i]
  OBVIOUS
<1>2. PICK u : u = SenderTook(i)
  OBVIOUS
<1>3. PICK t : t = [u EXCEPT !.sRemote = TRUE]
  OBVIOUS
<1>4. /\ s.send \in {"send", "drain", "hash"} /\ s.sOpen /\ s.toS # <<>>
      /\ Becomes(i, t) /\ UNCHANGED <<trust, appVars, faults>>
  BY <1>1, <1>2, <1>3 DEF SenderNotesAbort, SenderHears
<1>5. Follows(s, u) /\ SamePlaces(s, u)
  BY <1>1, <1>2, <1>4, SenderTookIs
<1>6. u \in Session
  BY <1>5 DEF Follows
<1>7. t \in Session
  BY <1>3, <1>6 DEF Session
<1>8. SameSession(u, t)
  BY <1>3, <1>6 DEF Session, SameSession
<1>9. /\ t.send = u.send /\ t.recv = u.recv /\ t.rTries = u.rTries /\ t.chunks = u.chunks
      /\ t.sOpen = u.sOpen /\ t.rOpen = u.rOpen
  BY <1>3, <1>6 DEF Session
<1>10. Follows(s, t)
  BY <1>5, <1>7, <1>8, <1>9 DEF Follows, SameSession
<1>11. /\ t.send = s.send /\ t.recv = s.recv /\ t.rTries = s.rTries /\ t.chunks = s.chunks
  BY <1>5, <1>9 DEF SamePlaces
<1>12. ~SenderDone(s)
  BY <1>4 DEF SenderDone, Over
<1>13. t.send = "drain" => t.chunks > 0
  BY <1>1, <1>11, AttemptsAre
<1> QED BY <1>1, <1>4, <1>10, <1>11, <1>12, <1>13, SenderGoesOn

LEMMA SenderEndsSteps ==
    ASSUME IInv, NEW i \in DOMAIN sessions, SenderIsTold(i) \/ SenderGivesUp(i) PROVE IInv'
<1>1. sessions[i].send \in {"offer", "verdict"} /\ ~SenderDone(sessions[i])
  BY DEF SenderIsTold, SenderGivesUp, SenderDone, Over
<1>2. CASE SenderGivesUp(i)
  <2>1. Follows(sessions[i], sessions[i])
    BY TakingIs DEF Follows, SameSession
  <2> QED BY <1>1, <1>2, <2>1, FileEnds DEF SenderGivesUp
<1>3. CASE SenderIsTold(i)
  <2>1. sessions[i].toS # <<>>
    BY <1>3 DEF SenderIsTold, SenderHears
  <2>2. Follows(sessions[i], SenderTook(i)) /\ SamePlaces(sessions[i], SenderTook(i))
    BY <2>1, SenderTookIs
  <2> QED BY <1>1, <1>3, <2>2, FileEnds DEF SenderIsTold, SamePlaces
<1> QED BY <1>2, <1>3

\* An end is told that the other has closed only when the pairing is over.
LEMMA GetsCloseSteps ==
    ASSUME IInv, NEW i \in DOMAIN sessions, SenderGetsClose(i) \/ ReceiverGetsClose(i) PROVE IInv'
<1> DEFINE s == sessions[i]
           a == [s EXCEPT !.sOpen = FALSE, !.toS = <<>>]
           b == [s EXCEPT !.rOpen = FALSE, !.toR = <<>>]
<1>1. PICK t : t \in {a, b} /\ Becomes(i, t)
  BY DEF SenderGetsClose, ReceiverGetsClose
<1>2. UNCHANGED <<trust, appVars, faults>>
  BY DEF SenderGetsClose, ReceiverGetsClose
<1>3. s \in Session /\ <<>> \in Seq(Message)
  BY TakingIs, EmptySeq
<1>4. Follows(s, t) /\ SamePlaces(s, t)
  <2>1. Follows(s, a)
    BY <1>3 DEF Session, Follows, SameSession
  <2>2. SamePlaces(s, a)
    BY <1>3 DEF Session, SamePlaces
  <2>3. Follows(s, b)
    BY <1>3 DEF Session, Follows, SameSession
  <2>4. SamePlaces(s, b)
    BY <1>3 DEF Session, SamePlaces
  <2> QED BY <1>1, <2>1, <2>2, <2>3, <2>4
<1>5. s.unrivalled => ~Pairs(s)
  <2> SUFFICES ASSUME s.unrivalled, Pairs(s) PROVE FALSE
    OBVIOUS
  <2>1. /\ \/ Fresh(s) \/ Asked(s) \/ Waits(i, s) \/ Typed(i, s)
           \/ Wrong(i, s) \/ WrongAtLast(s) \/ Right(s)
    BY DEF IInv, PairInv, Stage
  <2>2. s.toS = <<>> \/ Head(s.toS).type # "close"
    <3>1. CASE WrongAtLast(s)
      BY <3>1 DEF WrongAtLast, Result
    <3>2. CASE ~WrongAtLast(s)
      <4>1. s.toS = <<>> \/ s.toS = <<Result(FALSE)>> \/ s.toS = <<Result(TRUE)>>
        BY <2>1, <3>2 DEF Fresh, Asked, Waits, Typed, Wrong, Right
      <4> QED BY <4>1 DEF Result
    <3> QED BY <3>1, <3>2
  <2>3. s.toR = <<>> \/ Head(s.toR).type # "close"
    <3>1. \/ s.toR \in {<<>>, <<Request>>}
          \/ \E p \in 0 .. MaxSessions : s.toR \in {<<Request, Verify(p)>>, <<Verify(p)>>}
      BY <2>1 DEF Fresh, Asked, Waits, Typed, Wrong, WrongAtLast, Right
    <3>2. ASSUME NEW p PROVE Head(<<Request, Verify(p)>>) = Request /\ Head(<<Verify(p)>>) = Verify(p)
      OBVIOUS
    <3>3. ASSUME NEW p PROVE Request.type # "close" /\ Verify(p).type # "close"
      BY DEF Request, Verify
    <3> QED BY <3>1, <3>2, <3>3
  <2> QED BY <2>2, <2>3 DEF SenderGetsClose, ReceiverGetsClose, SenderHears, ReceiverHears
<1> HIDE DEF a, b
<1>6. Moves(i, t)
  BY <1>1, <1>4, AttemptsAre DEF Moves, SamePlaces
<1>7. ControllersOK' /\ ControllerInv' /\ CancelInv'
  BY <1>2, <1>4, <1>6, MovedControllers DEF appVars, SamePlaces
<1>8. s.unrivalled => Stage(i, t)
  <2>1. Trusted(t) <=> Trusted(s)
    BY <1>4 DEF Trusted, Follows, SameSession
  <2> QED BY <1>4, <1>5, <2>1, SettledIs DEF Stage, Pairs, SamePlaces, Settled
<1> QED BY <1>2, <1>4, <1>6, <1>7, <1>8, QuietMove DEF appVars, SamePlaces

-----------------------------------------------------------------------------
(* listenForNextIncomingTransfer: each of its steps keeps the invariant. *)

LEMMA QueueTails ==
    /\ \A m \in Message : Head(<<m>>) = m /\ Tail(<<m>>) = <<>>
    /\ \A m, n \in Message : Head(<<m, n>>) = m /\ Tail(<<m, n>>) = <<n>>
  OBVIOUS

LEMMA ReceiverConnectedStep ==
    ASSUME IInv, NEW i \in DOMAIN sessions, ReceiverConnected(i) PROVE IInv'
<1> DEFINE s == sessions[i]
           t == [s EXCEPT !.recv = IF Trusted(s) THEN "offer" ELSE "request"]
<1>1. s.recv = "connected" /\ Becomes(i, t) /\ UNCHANGED <<trust, appVars, faults>>
  BY DEF ReceiverConnected, Trusted
<1>2. s \in Session
  BY TakingIs
<1>3. /\ t.send = s.send /\ t.recv = IF Trusted(s) THEN "offer" ELSE "request"
      /\ t.toR = s.toR /\ t.toS = s.toS /\ t.sTries = s.sTries /\ t.rTries = s.rTries
      /\ t.rOpen = s.rOpen /\ t.sOpen = s.sOpen /\ t.chunks = s.chunks
  BY <1>2 DEF Session
<1>4. t \in Session
  BY <1>2 DEF Session, RecvPlaces
<1>5. SameSession(s, t)
  BY <1>2 DEF Session, SameSession
<1> HIDE DEF t
<1>6. Follows(s, t) /\ ~ReceiverDone(s)
  BY <1>1, <1>3, <1>4, <1>5 DEF Follows, ReceiverDone, Over
<1>7. Moves(i, t)
  BY <1>1, <1>3, <1>6, AttemptsAre DEF Moves
<1>8. ControllersOK' /\ ControllerInv' /\ CancelInv'
  BY <1>1, <1>3, <1>7, MovedControllers DEF appVars, Receiving
<1>9. ASSUME s.unrivalled PROVE Stage(i, t)
  <2>1. Trusted(t) <=> Trusted(s)
    BY <1>5 DEF Trusted, SameSession
  <2>2. CASE Pairs(s)
    <3>1. s.sOpen /\ (Fresh(s) \/ Asked(s))
      BY <1>1, <1>9, <2>2 DEF IInv, PairInv, Stage, Waits, Typed, Wrong, WrongAtLast, Right
    <3>2. Fresh(s) => Fresh(t)
      BY <1>3, <1>5, <2>1 DEF Fresh, SameSession
    <3>3. Asked(s) => Asked(t)
      BY <1>3, <2>1 DEF Asked
    <3> QED BY <1>3, <2>2, <3>1, <3>2, <3>3 DEF Stage, Pairs
  <2>3. CASE ~Pairs(s)
    <3>1. Settled(s)
      BY <1>9, <2>3, SettledIs
    <3> QED BY <1>1, <1>3, <2>1, <2>3, <3>1 DEF Stage, Pairs, Settled
  <2> QED BY <2>2, <2>3
<1> QED BY <1>1, <1>3, <1>7, <1>8, <1>9, QuietMove DEF appVars

LEMMA ReceiverGetsRequestStep ==
    ASSUME IInv, NEW i \in DOMAIN sessions, ReceiverGetsRequest(i) PROVE IInv'
<1> DEFINE s == sessions[i]
           x == ReceiverTook(i)
<1>1. PICK t : t = [x EXCEPT !.recv = "verify"]
  OBVIOUS
<1>2. PICK m : m = [mode |-> "show", of |-> i]
  OBVIOUS
<1>3. /\ s.recv = "request" /\ s.toR # <<>> /\ Head(s.toR).type = "pair-request"
      /\ Becomes(i, t) /\ SetPinModal(s.to, m)
      /\ UNCHANGED <<trust, incomingConfirm, abortControllers, faults>>
  BY <1>1, <1>2 DEF ReceiverGetsRequest, ReceiverHears
<1>4. /\ Follows(s, x) /\ SamePlaces(s, x) /\ x.toR = Tail(s.toR) /\ x.toS = s.toS
      /\ x.sOpen = s.sOpen /\ x.rOpen = s.rOpen
  BY <1>3, ReceiverTookIs
<1> HIDE DEF x
<1>5. x \in Session
  BY <1>4 DEF Follows, SameSession
<1>6. /\ t.send = x.send /\ t.recv = "verify" /\ t.toR = x.toR /\ t.toS = x.toS
      /\ t.sTries = x.sTries /\ t.rTries = x.rTries /\ t.rOpen = x.rOpen /\ t.sOpen = x.sOpen
      /\ t.chunks = x.chunks
  BY <1>1, <1>5 DEF Session
<1>7. t \in Session
  BY <1>1, <1>5 DEF Session, RecvPlaces
<1>8. SameSession(x, t)
  BY <1>1, <1>5 DEF Session, SameSession
<1>9. Follows(s, t) /\ t.send = s.send /\ t.sTries = s.sTries /\ t.rTries = s.rTries /\ t.chunks = s.chunks
  BY <1>4, <1>6, <1>7, <1>8 DEF Follows, SameSession, SamePlaces
<1>10. ~ReceiverDone(s)
  BY <1>3 DEF ReceiverDone, Over
<1>11. Moves(i, t)
  BY <1>3, <1>6, <1>9, <1>10, AttemptsAre DEF Moves
<1>12. s.to \in Device /\ s.from # s.to /\ i \in 0 .. MaxSessions
  BY FileTypes
<1>13. /\ m \in [mode : {"none", "enter", "show"}, of : 0 .. MaxSessions]
       /\ m.mode = "show" /\ m.of = i
  BY <1>2, <1>12
<1>14. /\ pinModal' \in [Device -> [mode : {"none", "enter", "show"}, of : 0 .. MaxSessions]]
       /\ pinModal'[s.to] = m /\ \A e \in Device \ {s.to} : pinModal'[e] = pinModal[e]
       /\ DialogInv'
  BY <1>3, <1>6, <1>9, <1>11, <1>12, <1>13, PinSet
<1>15. PagesOK'
  BY <1>3, <1>14 DEF IInv, TypeOK, PagesOK
<1>16. ControllersOK' /\ ControllerInv' /\ CancelInv'
  BY <1>3, <1>6, <1>9, <1>11, MovedControllers DEF Receiving
<1>17. ASSUME s.unrivalled PROVE Stage(i, t)' /\ Mutual(t)'
  <2>1. Stage(i, s)
    BY <1>17 DEF IInv, PairInv
  <2>2. Mutual(t)'
    <3>1. Mutual(t)
      BY <1>9, <1>11, <1>17, MovedMutual
    <3> QED BY <1>3, <3>1 DEF Mutual, Trusted
  <2>3. Pairs(s) /\ s.sOpen /\ Asked(s)
    BY <1>3, <2>1 DEF Stage, Settled, Fresh, Waits, Typed, Wrong, WrongAtLast, Right
  <2>4. pinModal'[t.to] = [mode |-> "show", of |-> i]
    BY <1>2, <1>9, <1>14 DEF Follows, SameSession
  <2>5. ~Trusted(t)'
    BY <1>3, <1>9, <2>3 DEF Asked, Trusted, Follows, SameSession
  <2>6. CASE s.send = "prompt"
    <3>1. s.toR = <<Request>>
      BY <2>3, <2>6 DEF Asked
    <3>2. t.toR = <<>>
      BY <1>4, <1>6, <3>1
    <3>3. Waits(i, t)'
      BY <1>4, <1>6, <1>9, <2>3, <2>4, <2>5, <2>6, <3>2 DEF Waits, Shown, Asked
    <3> QED BY <1>4, <1>6, <1>9, <2>2, <2>3, <2>6, <3>3 DEF Stage, Pairs
  <2>7. CASE s.send = "result"
    <3>1. PICK p \in 0 .. MaxSessions : s.toR = <<Request, Verify(p)>>
      BY <2>3, <2>7 DEF Asked
    <3>2. t.toR = <<Verify(p)>>
      BY <1>4, <1>6, <3>1, QueueTails, MessageTypes DEF Request, Verify
    <3>3. Typed(i, t)'
      BY <1>4, <1>6, <1>9, <2>3, <2>4, <2>5, <2>7, <3>2 DEF Typed, Shown, Asked
    <3> QED BY <1>4, <1>6, <1>9, <2>2, <2>3, <2>7, <3>3 DEF Stage, Pairs
  <2>8. s.send \in {"prompt", "result"}
    BY <2>3 DEF Asked
  <2> QED BY <2>6, <2>7, <2>8
<1>18. Unfinished(i)
  BY <1>3 DEF Unfinished, Over
<1>19. TrustOnlyOf(s)
  BY <1>3 DEF TrustOnlyOf
<1> QED BY <1>3, <1>11, <1>14, <1>15, <1>16, <1>17, <1>18, <1>19, PinMove

LEMMA ReceiverGetsVerifyStep ==
    ASSUME IInv, NEW i \in DOMAIN sessions, ReceiverGetsVerify(i) PROVE IInv'
<1> DEFINE s == sessions[i]
           x == ReceiverTook(i)
<1>1. PICK ok \in BOOLEAN : ok = (Head(s.toR).pin = i)
  OBVIOUS
<1>2. PICK y : y = ToSender(x, Result(ok))
  OBVIOUS
<1>3. PICK u : u = [y EXCEPT !.rTries = @ - 1]
  OBVIOUS
<1>4. /\ s.recv = "verify" /\ s.toR # <<>> /\ Head(s.toR).type = "pair-verify"
      /\ UNCHANGED <<incomingConfirm, faults>>
      /\ IF ok THEN /\ SetPinModal(u.to, NoModal) /\ trust' = [trust EXCEPT ![u.to] = @ \cup {u.from}]
                    /\ Becomes(i, [u EXCEPT !.recv = "offer"]) /\ UNCHANGED abortControllers
         ELSE /\ UNCHANGED trust
              /\ IF TriesLeft(s) THEN Becomes(i, u) /\ UNCHANGED <<pinModal, abortControllers>>
                 ELSE SetPinModal(u.to, NoModal) /\ ReceiverEnds(i, u)
  BY <1>1, <1>2, <1>3 DEF ReceiverGetsVerify, ReceiverHears, HidePin, TrustOfReceiver, Result
<1>5. /\ Follows(s, x) /\ SamePlaces(s, x) /\ x.toR = Tail(s.toR) /\ x.toS = s.toS
      /\ x.sOpen = s.sOpen /\ x.rOpen = s.rOpen
  BY <1>4, ReceiverTookIs
<1> HIDE DEF x
<1>6. /\ Follows(x, y) /\ SamePlaces(x, y)
      /\ y.toS = IF x.sOpen THEN Append(x.toS, Result(ok)) ELSE x.toS
      /\ y.toR = x.toR /\ y.sOpen = x.sOpen /\ y.rOpen = x.rOpen
  <2>1. x \in Session
    BY <1>5 DEF Follows
  <2>2. PICK m \in Message : m = Result(ok)
    BY MessageTypes DEF Result
  <2> QED BY <1>2, <2>1, <2>2, AnsweringIs
<1>7. s.rTries \in 1 .. MaxAttempts
  BY <1>4, AttemptsAre
<1>8. y \in Session /\ y.rTries = s.rTries /\ y.rTries - 1 \in 0 .. MaxAttempts
  BY <1>5, <1>6, <1>7 DEF Follows, SameSession, SamePlaces
<1>9. /\ u \in Session /\ SameSession(y, u)
      /\ u.send = y.send /\ u.recv = y.recv /\ u.toR = y.toR /\ u.toS = y.toS
      /\ u.sTries = y.sTries /\ u.rTries = y.rTries - 1 /\ u.rOpen = y.rOpen /\ u.sOpen = y.sOpen
      /\ u.chunks = y.chunks
  <2>1. u \in Session
    BY <1>3, <1>8 DEF Session
  <2>2. SameSession(y, u)
    BY <1>3, <1>8 DEF Session, SameSession
  <2>3. /\ u.send = y.send /\ u.recv = y.recv /\ u.toR = y.toR /\ u.toS = y.toS
        /\ u.sTries = y.sTries /\ u.rTries = y.rTries - 1 /\ u.rOpen = y.rOpen /\ u.sOpen = y.sOpen
        /\ u.chunks = y.chunks
    BY <1>3, <1>8 DEF Session
  <2> QED BY <2>1, <2>2, <2>3
<1>10. /\ Follows(s, u) /\ u.send = s.send /\ u.recv = "verify" /\ u.sTries = s.sTries
       /\ u.rTries = s.rTries - 1 /\ u.sOpen = s.sOpen /\ u.rOpen = s.rOpen /\ u.chunks = s.chunks
       /\ u.toR = Tail(s.toR) /\ u.toS = IF s.sOpen THEN Append(s.toS, Result(ok)) ELSE s.toS
  BY <1>4, <1>5, <1>6, <1>8, <1>9 DEF Follows, SameSession, SamePlaces
<1>11. /\ s.from \in Device /\ s.to \in Device /\ s.from # s.to /\ s.from = u.from /\ s.to = u.to
  BY <1>10, FileTypes DEF Follows, SameSession
<1>12. ASSUME s.unrivalled
       PROVE  Typed(i, s) /\ s.sOpen /\ u.toR = <<>> /\ u.toS = <<Result(ok)>>
  <2>1. Typed(i, s) /\ s.sOpen
    BY <1>4, <1>12 DEF IInv, PairInv, Stage, Settled, Fresh, Asked, Waits, Wrong, WrongAtLast, Right
  <2>2. u.toR = <<>>
    BY <1>10, <2>1 DEF Typed
  <2>3. Append(<<>>, Result(ok)) = <<Result(ok)>>
    OBVIOUS
  <2> QED BY <1>10, <2>1, <2>2, <2>3 DEF Typed
<1>13. /\ NoModal \in [mode : {"none", "enter", "show"}, of : 0 .. MaxSessions]
       /\ NoModal.mode = "none"
  BY DEF NoModal
<1>14. Unfinished(i) /\ ~ReceiverDone(s)
  BY <1>4 DEF Unfinished, ReceiverDone, Over
<1>15. CASE ok
  <2>1. PICK t : t = [u EXCEPT !.recv = "offer"]
    OBVIOUS
  <2>2. /\ SetPinModal(s.to, NoModal) /\ trust' = [trust EXCEPT ![s.to] = @ \cup {s.from}]
        /\ Becomes(i, t) /\ UNCHANGED abortControllers
    BY <1>4, <1>11, <1>15, <2>1
  <2>3. /\ t.send = u.send /\ t.recv = "offer" /\ t.toR = u.toR /\ t.toS = u.toS
        /\ t.sTries = u.sTries /\ t.rTries = u.rTries /\ t.rOpen = u.rOpen /\ t.sOpen = u.sOpen
        /\ t.chunks = u.chunks
    BY <1>9, <2>1 DEF Session
  <2>4. t \in Session
    BY <1>9, <2>1 DEF Session, RecvPlaces
  <2>5. SameSession(u, t)
    BY <1>9, <2>1 DEF Session, SameSession
  <2>6. Follows(s, t)
    BY <1>10, <2>3, <2>4, <2>5 DEF Follows, SameSession
  <2>7. Moves(i, t)
    BY <1>10, <1>14, <2>2, <2>3, <2>6, AttemptsAre DEF Moves
  <2>8. /\ pinModal' \in [Device -> [mode : {"none", "enter", "show"}, of : 0 .. MaxSessions]]
        /\ \A e \in Device \ {s.to} : pinModal'[e] = pinModal[e]
        /\ DialogInv'
    BY <1>4, <1>10, <1>11, <1>13, <2>2, <2>3, <2>7, PinSet
  <2>9. /\ trust' \in [Device -> SUBSET Device] /\ trust'[s.to] = trust[s.to] \cup {s.from}
        /\ \A d \in Device \ {s.to} : trust'[d] = trust[d]
    BY <1>11, <2>2 DEF IInv, TypeOK
  <2>10. PagesOK'
    BY <1>4, <2>8, <2>9 DEF IInv, TypeOK, PagesOK
  <2>11. ControllersOK' /\ ControllerInv' /\ CancelInv'
    BY <1>4, <1>10, <2>2, <2>3, <2>7, MovedControllers DEF Receiving
  <2>12. ASSUME s.unrivalled PROVE Stage(i, t)' /\ Mutual(t)'
    <3>1. t.from \in trust'[t.to]
      BY <1>11, <2>5, <2>9 DEF SameSession
    <3>2. Typed(i, s) /\ s.sOpen /\ u.toR = <<>> /\ u.toS = <<Result(ok)>>
      BY <1>12, <2>12
    <3>3. t.send = "result" /\ t.sOpen
      BY <1>10, <2>3, <3>2 DEF Typed
    <3>4. ok = TRUE
      BY <1>15
    <3>5. Right(t)'
      BY <1>10, <2>3, <3>1, <3>2, <3>3, <3>4 DEF Right, Trusted, Typed
    <3> QED BY <3>1, <3>3, <3>5 DEF Stage, Pairs, Mutual, Trusted
  <2>13. TrustOnlyOf(s)
    <3> SUFFICES ASSUME NEW d \in Device, NEW e \in Device, {d, e} # {s.from, s.to}
                 PROVE  e \in trust'[d] <=> e \in trust[d]
      BY DEF TrustOnlyOf
    <3>1. CASE d = s.to
      <4>1. e # s.from
        BY <3>1
      <4> QED BY <2>9, <3>1, <4>1
    <3>2. CASE d # s.to
      BY <2>9, <3>2
    <3> QED BY <3>1, <3>2
  <2> QED BY <1>11, <1>14, <2>7, <2>8, <2>10, <2>11, <2>12, <2>13, PinMove
<1>16. CASE ~ok /\ TriesLeft(s)
  <2>1. Becomes(i, u) /\ UNCHANGED <<trust, pinModal, abortControllers>>
    BY <1>4, <1>16
  <2>2. u.rTries > 0
    BY <1>7, <1>10, <1>16 DEF TriesLeft
  <2>3. Moves(i, u)
    BY <1>10, <1>14, <2>1, <2>2, AttemptsAre DEF Moves
  <2>4. ControllersOK' /\ ControllerInv' /\ CancelInv'
    BY <1>4, <1>10, <2>1, <2>3, MovedControllers DEF Receiving
  <2>5. ASSUME s.unrivalled PROVE Stage(i, u)
    <3>1. Typed(i, s) /\ s.sOpen /\ u.toR = <<>> /\ u.toS = <<Result(ok)>>
      BY <1>12, <2>5
    <3>2. ok = FALSE
      BY <1>16
    <3>3. u.sTries = u.rTries + 1
      BY <1>7, <1>10, <3>1 DEF Typed
    <3>4. Shown(i, u) /\ ~Trusted(u)
      BY <1>10, <3>1 DEF Typed, Shown, Trusted, Follows, SameSession
    <3>5. Wrong(i, u)
      BY <1>10, <3>1, <3>2, <3>3, <3>4 DEF Wrong, Typed
    <3> QED BY <1>10, <3>1, <3>5 DEF Stage, Pairs, Typed
  <2> QED BY <1>4, <1>10, <2>1, <2>3, <2>4, <2>5, QuietMove
<1>17. CASE ~ok /\ ~TriesLeft(s)
  <2>1. SetPinModal(s.to, NoModal) /\ ReceiverEnds(i, u) /\ UNCHANGED trust
    BY <1>4, <1>11, <1>17
  <2>2. u.recv \in Receiving <=> s.recv \in Receiving
    BY <1>4, <1>10 DEF Receiving
  <2>3. PICK t : /\ Moves(i, t) /\ t.recv = "ended" /\ t.send = s.send
                 /\ t.sTries = s.sTries
                 /\ t.toR = <<>> /\ t.sOpen = u.sOpen /\ ~t.rOpen
                 /\ t.toS = IF u.rOpen /\ u.sOpen THEN Append(u.toS, Close) ELSE u.toS
    BY <1>10, <1>14, <2>1, <2>2, ReceiverEndsMoves
  <2>4. ControllersOK' /\ ControllerInv' /\ CancelInv'
    BY <1>10, <1>14, <2>1, <2>2, ReceiverEndsMoves
  <2>5. /\ pinModal' \in [Device -> [mode : {"none", "enter", "show"}, of : 0 .. MaxSessions]]
        /\ \A e \in Device \ {s.to} : pinModal'[e] = pinModal[e]
        /\ DialogInv'
    BY <1>4, <1>11, <1>13, <2>1, <2>3, PinSet
  <2>6. PagesOK'
    BY <1>4, <2>1, <2>5 DEF IInv, TypeOK, PagesOK
  <2>7. ASSUME s.unrivalled PROVE Stage(i, t)' /\ Mutual(t)'
    <3>1. Typed(i, s) /\ s.sOpen /\ u.toS = <<Result(ok)>> /\ u.rOpen
      BY <1>10, <1>12, <2>7 DEF Typed
    <3>2. Mutual(t)'
      <4>1. Mutual(t)
        BY <2>3, <2>7, MovedMutual
      <4> QED BY <2>1, <4>1 DEF Mutual, Trusted
    <3>3. t.toS = <<Result(FALSE), Close>>
      <4>1. Append(<<Result(FALSE)>>, Close) = <<Result(FALSE), Close>>
        BY QueueOfTwo, MessageTypes DEF Result, Close
      <4>2. ok = FALSE
        BY <1>17
      <4>3. u.toS = <<Result(FALSE)>>
        BY <3>1, <4>2
      <4> QED BY <1>10, <2>3, <3>1, <4>1, <4>3
    <3>4. t.sTries = 1
      BY <1>7, <1>17, <2>3, <3>1 DEF TriesLeft, Typed
    <3>5. ~Trusted(t)'
      BY <2>1, <2>3, <3>1 DEF Typed, Trusted, Moves, Follows, SameSession
    <3>6. WrongAtLast(t)'
      BY <2>3, <3>1, <3>3, <3>4, <3>5 DEF WrongAtLast, Typed
    <3> QED BY <1>10, <2>3, <3>1, <3>2, <3>6 DEF Stage, Pairs, Typed
  <2>8. TrustOnlyOf(s)
    BY <2>1 DEF TrustOnlyOf
  <2> QED BY <1>11, <1>14, <2>3, <2>4, <2>5, <2>6, <2>7, <2>8, PinMove
<1> QED BY <1>15, <1>16, <1>17

\* Session i opens the dialog of its receiver, or closes it.
LEMMA AskSet ==
    ASSUME IInv, NEW i, NEW t, Moves(i, t), NEW x \in {0, i}, UNCHANGED pinModal,
           incomingConfirm' = [incomingConfirm EXCEPT ![sessions[i].to] = x],
           x = i => t.recv = "confirm",
           sessions[i].send = "prompt" => t.send = "prompt",
           sessions[i].recv = "verify" => t.recv = "verify"
    PROVE  incomingConfirm' \in [Device -> 0 .. MaxSessions] /\ DialogInv'
<1>1. i \in DOMAIN sessions /\ i # 0 /\ x \in 0 .. MaxSessions /\ sessions[i].to \in Device
  BY FileTypes DEF Moves, IInv, TypeOK
<1>2. /\ incomingConfirm' \in [Device -> 0 .. MaxSessions] /\ incomingConfirm'[sessions[i].to] = x
      /\ \A d \in Device \ {sessions[i].to} : incomingConfirm'[d] = incomingConfirm[d]
  BY <1>1 DEF IInv, TypeOK
<1>3. DialogInv'
  <2> SUFFICES ASSUME NEW d \in Device PROVE PinBelongs(d)' /\ AskBelongs(d)'
    BY DEF DialogInv
  <2>1. PinBelongs(d)'
    <3>1. pinModal[d].of = i /\ pinModal[d].mode = "show" => t.recv = "verify"
      BY PinsAt
    <3>2. pinModal[d].of = i /\ pinModal[d].mode = "enter" => t.send = "prompt"
      BY PinsAt
    <3> QED BY <3>1, <3>2, MovedPin
  <2>2. ASSUME d = sessions[i].to PROVE AskBelongs(d)'
    <3>1. incomingConfirm'[d] = x /\ sessions'[i] = t /\ i \in DOMAIN sessions'
      BY <1>1, <1>2, <2>2, MovedSessions
    <3>2. t.to = d
      BY <2>2 DEF Moves, Follows, SameSession
    <3> QED BY <3>1, <3>2 DEF AskBelongs
  <2>3. ASSUME d # sessions[i].to PROVE AskBelongs(d)'
    <3>1. incomingConfirm[d] # i
      BY <1>1, <2>3, AsksAt
    <3> QED BY <1>2, <2>3, <3>1, MovedAsk
  <2> QED BY <2>1, <2>2, <2>3
<1> QED BY <1>2, <1>3

\* A step of the receiver that opens or closes the dialog for the file.
LEMMA AskMove ==
    ASSUME IInv, NEW i, NEW t, Moves(i, t), NEW x \in {0, i}, UNCHANGED <<trust, pinModal, faults>>,
           incomingConfirm' = [incomingConfirm EXCEPT ![sessions[i].to] = x],
           x = i => t.recv = "confirm", t.recv \notin {"connected", "request", "verify"},
           sessions[i].recv \in {"offer", "confirm"}, t.send = sessions[i].send,
           ControllersOK' /\ ControllerInv' /\ CancelInv',
           sessions[i].unrivalled => ~Pairs(sessions[i])
    PROVE  IInv'
<1>1. incomingConfirm' \in [Device -> 0 .. MaxSessions] /\ DialogInv'
  BY AskSet
<1>2. PagesOK'
  BY <1>1 DEF IInv, TypeOK, PagesOK
<1>3. PairInv'
  <2>1. ASSUME sessions[i].unrivalled PROVE Stage(i, t)' /\ Mutual(t)'
    <3>1. Mutual(t)
      BY <2>1, MovedMutual
    <3>2. Mutual(t)'
      BY <3>1 DEF Mutual, Trusted
    <3> QED BY <2>1, <3>2 DEF Stage, Pairs, Settled
  <2> QED BY <2>1, PairFrame DEF Limited
<1> QED BY <1>1, <1>2, <1>3, Assembled

\* Session i goes to another of the places of listenForNextIncomingTransfer.
LEMMA RecvPlaceIs ==
    ASSUME NEW x \in Session, NEW k \in RecvPlaces, NEW t, t = [x EXCEPT !.recv = k]
    PROVE  /\ Follows(x, t) /\ t.recv = k /\ t.send = x.send /\ t.sTries = x.sTries
           /\ t.chunks = x.chunks
<1>1. t \in Session
  BY DEF Session
<1>2. SameSession(x, t)
  BY DEF Session, SameSession
<1>3. /\ t.recv = k /\ t.send = x.send /\ t.sTries = x.sTries /\ t.chunks = x.chunks
      /\ t.sOpen = x.sOpen /\ t.rOpen = x.rOpen
  BY DEF Session
<1> QED BY <1>1, <1>2, <1>3 DEF Follows

LEMMA ReceiverGetsOfferStep ==
    ASSUME IInv, NEW i \in DOMAIN sessions, ReceiverGetsOffer(i) PROVE IInv'
<1> DEFINE s == sessions[i]
           x == ReceiverTook(i)
<1>1. PICK t : t = [x EXCEPT !.recv = "confirm"]
  OBVIOUS
<1>2. /\ s.recv = "offer" /\ s.toR # <<>> /\ Becomes(i, t)
      /\ UNCHANGED <<trust, pinModal, faults>>
  BY <1>1 DEF ReceiverGetsOffer, ReceiverHears
<1>3. Follows(s, x) /\ SamePlaces(s, x)
  BY <1>2, ReceiverTookIs
<1>4. x.to = s.to
  BY <1>3 DEF Follows, SameSession
<1>5. /\ incomingConfirm' = [incomingConfirm EXCEPT ![s.to] = i]
      /\ SetController(s.to, FileId(i), i)
  BY <1>4 DEF ReceiverGetsOffer
<1> HIDE DEF x
<1>6. x \in Session /\ "confirm" \in RecvPlaces
  BY <1>3 DEF Follows, RecvPlaces
<1>7. /\ Follows(x, t) /\ t.recv = "confirm" /\ t.send = x.send /\ t.sTries = x.sTries
      /\ t.chunks = x.chunks
  BY <1>1, <1>6, RecvPlaceIs
<1>8. ~ReceiverDone(s) /\ ~Ended(i)
  BY <1>2 DEF ReceiverDone, Over, Ended
<1>9. /\ Follows(s, t) /\ t.send = s.send /\ t.sTries = s.sTries /\ t.chunks = s.chunks
  BY <1>3, <1>7 DEF Follows, SameSession, SamePlaces
<1>10. Moves(i, t)
  BY <1>2, <1>7, <1>8, <1>9, AttemptsAre DEF Moves
<1>11. ControllersOK' /\ ControllerInv' /\ CancelInv'
  <2>1. i # 0 /\ s.from # s.to
    BY FileTypes
  <2> QED BY <1>5, <1>7, <1>8, <1>9, <1>10, <2>1, SetControllers DEF Receiving
<1>12. s.unrivalled => ~Pairs(s)
  BY <1>2, PairingPlaces
<1> QED BY <1>2, <1>5, <1>7, <1>9, <1>10, <1>11, <1>12, AskMove

LEMMA ReceiverIgnoresStep ==
    ASSUME IInv, NEW i \in DOMAIN sessions, ReceiverIgnores(i) PROVE IInv'
<1> DEFINE s == sessions[i]
<1>1. /\ s.toR # <<>> /\ Becomes(i, ReceiverTook(i)) /\ UNCHANGED <<trust, appVars, faults>>
      /\ \/ s.recv = "request" /\ Head(s.toR).type # "pair-request"
         \/ s.recv = "offer"
  BY DEF ReceiverIgnores, ReceiverHears
<1>2. PICK t : t = ReceiverTook(i)
  OBVIOUS
<1>3. Follows(s, t) /\ SamePlaces(s, t)
  BY <1>1, <1>2, ReceiverTookIs
<1>4. Moves(i, t)
  BY <1>1, <1>2, <1>3, AttemptsAre DEF Moves, SamePlaces
<1>5. ControllersOK' /\ ControllerInv' /\ CancelInv'
  BY <1>1, <1>3, <1>4, MovedControllers DEF appVars, SamePlaces
<1>6. s.unrivalled => ~Pairs(s)
  <2> SUFFICES ASSUME s.unrivalled, Pairs(s) PROVE FALSE
    OBVIOUS
  <2>1. s.recv = "request" /\ Head(s.toR).type # "pair-request"
    BY <1>1, PairingPlaces
  <2>2. Asked(s)
    BY <1>1, <2>1 DEF IInv, PairInv, Stage, Fresh, Waits, Typed, Wrong, WrongAtLast, Right
  <2>3. s.toR = <<Request>> \/ \E p \in 0 .. MaxSessions : s.toR = <<Request, Verify(p)>>
    BY <2>2 DEF Asked
  <2>4. Head(s.toR) = Request
    <3>1. CASE s.toR = <<Request>>
      BY <3>1
    <3>2. ASSUME NEW p \in 0 .. MaxSessions, s.toR = <<Request, Verify(p)>> PROVE Head(s.toR) = Request
      BY <3>2, QueueTails, MessageTypes DEF Request, Verify
    <3> QED BY <2>3, <3>1, <3>2
  <2> QED BY <2>1, <2>4 DEF Request
<1>7. s.unrivalled => Stage(i, t)
  <2>1. Trusted(t) <=> Trusted(s)
    BY <1>3 DEF Trusted, Follows, SameSession
  <2> QED BY <1>3, <1>6, <2>1, SettledIs DEF Stage, Pairs, SamePlaces, Settled
<1> QED BY <1>1, <1>3, <1>4, <1>5, <1>7, QuietMove DEF appVars, SamePlaces

\* listenForNextIncomingTransfer goes on with the file.
LEMMA ReceiverGoesOn ==
    ASSUME IInv, NEW i \in DOMAIN sessions, NEW t, Becomes(i, t), Follows(sessions[i], t),
           t.send = sessions[i].send, t.sTries = sessions[i].sTries, t.chunks = sessions[i].chunks,
           sessions[i].recv \in Receiving, t.recv \in Receiving,
           sessions[i].recv = "pick" \/ t.recv = sessions[i].recv,
           UNCHANGED <<trust, appVars, faults>>
    PROVE  IInv'
<1>1. t.recv \notin {"connected", "request", "verify"} /\ sessions[i].recv \notin {"connected", "request", "verify"}
  BY DEF Receiving
<1>2. ReceiverDone(sessions[i]) => t.recv = sessions[i].recv
  BY DEF ReceiverDone, Over
<1>3. Moves(i, t)
  BY <1>1, <1>2, AttemptsAre DEF Moves
<1>4. ControllersOK' /\ ControllerInv' /\ CancelInv'
  BY <1>3, MovedControllers DEF appVars
<1>5. sessions[i].unrivalled => ~Pairs(sessions[i])
  BY PairingPlaces
<1>6. sessions[i].unrivalled => Stage(i, t)
  BY <1>1, <1>5 DEF Stage, Pairs, Settled
<1> QED BY <1>1, <1>3, <1>4, <1>6, QuietMove DEF appVars

LEMMA ReceiverGetsAbortStep ==
    ASSUME IInv, NEW i \in DOMAIN sessions, ReceiverGetsAbort(i) PROVE IInv'
<1> DEFINE s == sessions[i]
           x == ReceiverTook(i)
<1>1. /\ s.recv \in Receiving /\ s.toR # <<>> /\ s.rOpen
      /\ UNCHANGED <<trust, pinModal, incomingConfirm, faults>>
  BY DEF ReceiverGetsAbort, ReceiverHears, Receiving
<1>2. Follows(s, x) /\ SamePlaces(s, x)
  BY <1>1, ReceiverTookIs
<1>3. CASE s.recv = "transfer" /\ ReceiverEnds(i, x)
  <2>1. ~ReceiverDone(s)
    BY <1>1, <1>3 DEF ReceiverDone, Over
  <2> QED BY <1>1, <1>2, <1>3, <2>1, ReceiverEndsStep DEF SamePlaces
<1>4. CASE Becomes(i, [x EXCEPT !.rAborted = TRUE]) /\ UNCHANGED abortControllers
  <2>1. PICK t : t = [x EXCEPT !.rAborted = TRUE]
    OBVIOUS
  <2> HIDE DEF x
  <2>2. x \in Session
    BY <1>2 DEF Follows
  <2>3. t \in Session
    BY <2>1, <2>2 DEF Session
  <2>4. SameSession(x, t)
    BY <2>1, <2>2 DEF Session, SameSession
  <2>5. SamePlaces(x, t)
    BY <2>1, <2>2 DEF Session, SamePlaces
  <2>6. t.sOpen = x.sOpen /\ t.rOpen = x.rOpen
    BY <2>1, <2>2 DEF Session
  <2>7. Follows(s, t) /\ SamePlaces(s, t)
    BY <1>2, <2>3, <2>4, <2>5, <2>6 DEF Follows, SameSession, SamePlaces
  <2>8. Becomes(i, t)
    BY <1>4, <2>1
  <2> QED BY <1>1, <1>4, <2>7, <2>8, ReceiverGoesOn DEF appVars, SamePlaces
<1> QED BY <1>1, <1>3, <1>4 DEF ReceiverGetsAbort

LEMMA PickedStep == ASSUME IInv, NEW i \in DOMAIN sessions, Picked(i) PROVE IInv'
<1> DEFINE s == sessions[i]
           x == ToSender(s, [type |-> "accept"])
<1>1. PICK o : o = [x EXCEPT !.recv = "transfer"]
  OBVIOUS
<1>2. PICK a : a = ToSender(o, [type |-> "abort"])
  OBVIOUS
<1>3. /\ s.recv = "pick" /\ UNCHANGED <<trust, pinModal, incomingConfirm, faults>>
      /\ \/ ReceiverEnds(i, s)
         \/ ReceiverEnds(i, a)
         \/ Becomes(i, o) /\ UNCHANGED abortControllers
  BY <1>1, <1>2 DEF Picked
<1>4. s \in Session /\ Follows(s, s)
  BY TakingIs DEF Follows, SameSession
<1>5. Follows(s, x) /\ SamePlaces(s, x)
  BY <1>4, MessageTypes, AnsweringIs
<1> HIDE DEF x
<1>6. x \in Session /\ "transfer" \in RecvPlaces
  BY <1>5 DEF Follows, RecvPlaces
<1>7. /\ Follows(x, o) /\ o.recv = "transfer" /\ o.send = x.send /\ o.sTries = x.sTries
      /\ o.chunks = x.chunks
  BY <1>1, <1>6, RecvPlaceIs
<1>8. Follows(s, o) /\ o.send = s.send /\ o.sTries = s.sTries /\ o.chunks = s.chunks
  BY <1>5, <1>7 DEF Follows, SameSession, SamePlaces
<1>9. Follows(o, a) /\ SamePlaces(o, a)
  BY <1>2, <1>7, MessageTypes, AnsweringIs DEF Follows
<1>10. ~ReceiverDone(s) /\ s.recv \in Receiving
  BY <1>3 DEF ReceiverDone, Over, Receiving
<1>11. CASE ReceiverEnds(i, s)
  BY <1>3, <1>4, <1>10, <1>11, ReceiverEndsStep
<1>12. CASE ReceiverEnds(i, a)
  <2>1. Follows(s, a) /\ a.send = s.send /\ a.sTries = s.sTries /\ a.chunks = s.chunks
    BY <1>8, <1>9 DEF Follows, SameSession, SamePlaces
  <2>2. a.recv \in Receiving
    BY <1>7, <1>9 DEF SamePlaces, Receiving
  <2> QED BY <1>3, <1>10, <1>12, <2>1, <2>2, ReceiverEndsStep
<1>13. CASE Becomes(i, o) /\ UNCHANGED abortControllers
  BY <1>3, <1>7, <1>8, <1>10, <1>13, ReceiverGoesOn DEF appVars, Receiving
<1> QED BY <1>3, <1>11, <1>12, <1>13

LEMMA ReceiverFinishesStep ==
    ASSUME IInv, NEW i \in DOMAIN sessions, ReceiverFinishes(i) PROVE IInv'
<1>1. PICK x : x = ReceiverTook(i)
  OBVIOUS
<1>2. PICK u : u = ToSender(x, [type |-> "verified"])
  OBVIOUS
<1>3. /\ sessions[i].recv = "transfer" /\ sessions[i].rOpen /\ sessions[i].toR # <<>>
      /\ ReceiverEnds(i, u) /\ UNCHANGED <<trust, pinModal, incomingConfirm, faults>>
  BY <1>1, <1>2 DEF ReceiverFinishes, ReceiverHears
<1>4. Follows(sessions[i], x) /\ SamePlaces(sessions[i], x)
  BY <1>1, <1>3, ReceiverTookIs
<1>5. Follows(x, u) /\ SamePlaces(x, u)
  BY <1>2, <1>4, MessageTypes, AnsweringIs DEF Follows
<1>6. Follows(sessions[i], u) /\ SamePlaces(sessions[i], u)
  BY <1>4, <1>5 DEF Follows, SameSession, SamePlaces
<1>7. ~ReceiverDone(sessions[i]) /\ sessions[i].recv \in Receiving
  BY <1>3 DEF ReceiverDone, Over, Receiving
<1> QED BY <1>3, <1>6, <1>7, ReceiverEndsStep DEF SamePlaces

LEMMA DecideStep ==
    ASSUME IInv, NEW d \in Device, Decide(d), NEW i, i = incomingConfirm[d] PROVE IInv'
<1> DEFINE s == sessions[i]
           r == ToSender(s, [type |-> "reject"])
<1>1. /\ i # 0 /\ UNCHANGED <<trust, pinModal, faults>>
      /\ incomingConfirm' = [incomingConfirm EXCEPT ![d] = 0]
      /\ \/ Becomes(i, [s EXCEPT !.recv = "pick"]) /\ UNCHANGED abortControllers
         \/ ReceiverEnds(i, s)
         \/ ReceiverEnds(i, r)
  BY DEF Decide
<1>2. i \in DOMAIN sessions /\ s.to = d /\ s.recv = "confirm"
  BY <1>1 DEF IInv, DialogInv, AskBelongs
<1>3. s \in Session /\ Follows(s, s) /\ ~ReceiverDone(s)
  BY <1>2, TakingIs DEF Follows, SameSession, ReceiverDone, Over
<1>4. Follows(s, r) /\ SamePlaces(s, r)
  BY <1>3, MessageTypes, AnsweringIs
<1>5. s.unrivalled => ~Pairs(s)
  BY <1>2, PairingPlaces DEF Receiving
<1>6. ASSUME NEW t, Moves(i, t), t.recv \in {"pick", "ended"}, t.send = s.send,
             ControllersOK' /\ ControllerInv' /\ CancelInv'
      PROVE  IInv'
  BY <1>1, <1>2, <1>5, <1>6, AskMove
<1>7. ASSUME NEW u \in {s, r}, ReceiverEnds(i, u) PROVE IInv'
  <2>1. Follows(s, u) /\ u.send = s.send /\ u.sTries = s.sTries /\ u.recv = s.recv /\ u.chunks = s.chunks
    BY <1>2, <1>3, <1>4 DEF SamePlaces
  <2>2. PICK t : Moves(i, t) /\ t.recv = "ended" /\ t.send = s.send
    BY <1>2, <1>3, <1>7, <2>1, ReceiverEndsMoves
  <2>3. ControllersOK' /\ ControllerInv' /\ CancelInv'
    BY <1>2, <1>3, <1>7, <2>1, ReceiverEndsMoves
  <2> QED BY <1>6, <2>2, <2>3
<1>8. CASE Becomes(i, [s EXCEPT !.recv = "pick"]) /\ UNCHANGED abortControllers
  <2>1. PICK t : t = [s EXCEPT !.recv = "pick"]
    OBVIOUS
  <2>2. /\ Follows(s, t) /\ t.recv = "pick" /\ t.send = s.send /\ t.sTries = s.sTries
        /\ t.chunks = s.chunks
    BY <1>3, <2>1, RecvPlaceIs DEF RecvPlaces
  <2>3. Becomes(i, t)
    BY <1>8, <2>1
  <2>4. Moves(i, t)
    BY <1>2, <1>3, <2>2, <2>3, AttemptsAre DEF Moves
  <2>5. ControllersOK' /\ ControllerInv' /\ CancelInv'
    BY <1>2, <1>8, <2>2, <2>4, MovedControllers DEF Receiving
  <2> QED BY <1>6, <2>2, <2>4, <2>5
<1> QED BY <1>1, <1>7, <1>8

-----------------------------------------------------------------------------
(* The users, and what happens to a page. *)

\* A session in which only flags change stays where it is.
LEMMA StageFields ==
    ASSUME NEW i, NEW s, NEW t, t.from = s.from, t.to = s.to, t.undisturbed => s.undisturbed,
           SamePlaces(s, t), SameChannel(s, t), Stage(i, s), Mutual(s)
    PROVE  Stage(i, t) /\ Mutual(t)
<1>1. (Trusted(t) <=> Trusted(s)) /\ (Shown(i, s) => Shown(i, t))
  BY DEF Trusted, Shown
<1>2. /\ Fresh(s) => Fresh(t)
      /\ Asked(s) => Asked(t)
      /\ Right(s) => Right(t)
      /\ WrongAtLast(s) => WrongAtLast(t)
  BY <1>1 DEF Fresh, Asked, Right, WrongAtLast, SamePlaces, SameChannel
<1>3. /\ Waits(i, s) => Waits(i, t)
      /\ Typed(i, s) => Typed(i, t)
      /\ Wrong(i, s) => Wrong(i, t)
  BY <1>1 DEF Waits, Typed, Wrong, SamePlaces, SameChannel
<1>4. Mutual(t)
  BY <1>1 DEF Mutual, SamePlaces
<1> QED BY <1>1, <1>2, <1>3, <1>4 DEF Stage, Pairs, Settled, SamePlaces, SameChannel

\* Nothing that the invariant speaks of changes.
LEMMA Stutters ==
    ASSUME IInv, UNCHANGED <<sessions, trust, pinModal, incomingConfirm, abortControllers, faults>>
    PROVE  IInv'
<1>1. (TypeOK' <=> TypeOK) /\ (Apart' <=> Apart)
  BY DEF TypeOK, Apart
<1>2. DialogInv' <=> DialogInv
  BY DEF DialogInv, PinBelongs, AskBelongs
<1>3. ControllerInv' <=> ControllerInv
  BY DEF ControllerInv, AtWork, FileId, ComputeFileId
<1>4. CancelInv' <=> CancelInv
  BY DEF CancelInv, FileId, ComputeFileId
<1>5. SoleInv' <=> SoleInv
  BY DEF SoleInv, Ended
<1>6. AloneInv' <=> AloneInv
  BY DEF AloneInv, Interferes, Shares, Rivals, Unfinished
<1>7. PairInv' <=> PairInv
  BY DEF PairInv, Stage, Mutual, Settled, Pairs, Fresh, Asked, Waits, Typed, Wrong, WrongAtLast,
         Right, Trusted, Shown
<1> QED BY <1>1, <1>2, <1>3, <1>4, <1>5, <1>6, <1>7 DEF IInv

LEMMA CancelTransferStep == ASSUME IInv, NEW d \in Device, CancelTransfer(d) PROVE IInv'
<1>1. PICK j : \E i \in DOMAIN sessions : j = abortControllers[d][FileId(i)] /\ j # 0 /\ Aborts(j, d)
  BY DEF CancelTransfer
<1>2. j \in DOMAIN sessions
  BY <1>1, FileTypes DEF IInv, ControllerInv
<1> DEFINE s == sessions[j]
           as == ToSender(s, [type |-> "abort"])
<1>3. UNCHANGED <<trust, pinModal, incomingConfirm, faults>>
  BY DEF CancelTransfer
<1>4. s \in Session
  BY <1>2, TakingIs
<1>5. Follows(s, as) /\ SamePlaces(s, as)
  BY <1>4, MessageTypes, AnsweringIs
<1>6. \/ s.send = "offer" /\ Bails(j, s)
      \/ UNCHANGED <<sessions, abortControllers>>
      \/ s.recv = "transfer" /\ s.rOpen /\ ReceiverEnds(j, as)
      \/ Becomes(j, [s EXCEPT !.sCancel = TRUE]) /\ UNCHANGED abortControllers
      \/ Becomes(j, [s EXCEPT !.rCancel = TRUE]) /\ UNCHANGED abortControllers
  BY <1>1 DEF Aborts
<1>7. CASE s.send = "offer" /\ Bails(j, s)
  <2>1. ~SenderDone(s)
    BY <1>7 DEF SenderDone, Over
  <2> QED BY <1>2, <1>3, <1>7, <2>1, BailsStep
<1>8. CASE s.recv = "transfer" /\ s.rOpen /\ ReceiverEnds(j, as)
  <2>1. ~ReceiverDone(s) /\ as.recv \in Receiving
    BY <1>5, <1>8 DEF ReceiverDone, Over, Receiving, SamePlaces
  <2> QED BY <1>2, <1>3, <1>5, <1>8, <2>1, ReceiverEndsStep DEF SamePlaces
<1>9. ASSUME NEW t, t = [s EXCEPT !.sCancel = TRUE] \/ t = [s EXCEPT !.rCancel = TRUE],
              Becomes(j, t), UNCHANGED abortControllers
       PROVE  IInv'
  <2>1. t \in Session
    BY ZenonT(40), <1>4, <1>9 DEF Session
  <2>2. SameSession(s, t)
    BY <1>4, <1>9 DEF Session, SameSession
  <2>3. SamePlaces(s, t)
    BY <1>4, <1>9 DEF Session, SamePlaces
  <2>4. SameChannel(s, t)
    BY <1>4, <1>9 DEF Session, SameChannel
  <2>5. Follows(s, t)
    BY <2>1, <2>2, <2>4 DEF Follows, SameChannel
  <2>6. Moves(j, t)
    BY <1>2, <1>9, <2>3, <2>5, AttemptsAre DEF Moves, SamePlaces
  <2>7. ControllersOK' /\ ControllerInv' /\ CancelInv'
    BY <1>9, <2>3, <2>6, MovedControllers DEF SamePlaces
  <2>8. s.unrivalled => Stage(j, t)
    <3>1. s.unrivalled => Stage(j, s) /\ Mutual(s)
      BY <1>2 DEF IInv, PairInv
    <3> QED BY <2>2, <2>3, <2>4, <3>1, StageFields DEF SameSession
  <2> QED BY <1>3, <2>3, <2>6, <2>7, <2>8, QuietMove DEF SamePlaces
<1>10. CASE UNCHANGED <<sessions, abortControllers>>
  BY <1>3, <1>10, Stutters
<1> QED BY <1>6, <1>7, <1>8, <1>9, <1>10

LEMMA SequenceOf ==
    ASSUME NEW n \in Nat, NEW S, NEW f \in [1 .. n -> S]
    PROVE  f \in Seq(S) /\ Len(f) = n /\ DOMAIN f = 1 .. n
  BY SeqDef

\* What becomes of session s when the pages of Away are reloaded: the calls of those
\* pages are over, and the history of a session only ever gets worse.
Leaves(s, t, Away) ==
    /\ t \in Session /\ t.from = s.from /\ t.to = s.to
    /\ t.undisturbed => s.undisturbed /\ t.unrivalled
    /\ t.unrivalled => s.unrivalled
    /\ t.sole => s.sole
    /\ t.sOpen => s.sOpen
    /\ t.rOpen => s.rOpen
    /\ s.from \in Away => t.send \in Over
    /\ s.from \notin Away => t.send = s.send /\ t.sTries = s.sTries /\ t.chunks = s.chunks
    /\ s.to \in Away => t.recv \in Over
    /\ s.to \notin Away => t.recv = s.recv /\ t.rTries = s.rTries
    /\ t.unrivalled => SamePlaces(s, t) /\ SameChannel(s, t)
Left(j, Away) == j \in DOMAIN sessions' /\ Leaves(sessions[j], sessions'[j], Away)

\* Where the history of a session says that the pages of D, and what is between them
\* and those of E, were left alone.
Untouched(s, D, E, R) ==
    /\ s.undisturbed => {s.from, s.to} \cap D = {}
    /\ s.unrivalled => {s.from, s.to} \cap D = {} \/ ~({s.from, s.to} \subseteq D \cup E)
    /\ s.sole => <<s.from, s.to>> \notin R

\* What disturbs sessions leaves them where they are.
LEMMA DisturbIs ==
    ASSUME IInv, NEW D, NEW E, NEW R, NEW q, q = Disturb(D, E, R)
    PROVE  /\ q \in Seq(Session) /\ Len(q) = Len(sessions) /\ DOMAIN q = DOMAIN sessions
           /\ \A j \in DOMAIN sessions : Leaves(sessions[j], q[j], {}) /\ Untouched(q[j], D, E, R)
           /\ \A j \in DOMAIN sessions : SamePlaces(sessions[j], q[j])
<1>1. DOMAIN sessions = 1 .. Len(sessions) /\ Len(sessions) \in Nat
  BY DEF IInv, TypeOK
<1>2. DOMAIN q = DOMAIN sessions
  BY DEF Disturb
<1>3. ASSUME NEW j \in DOMAIN sessions
      PROVE  /\ q[j] \in Session /\ Leaves(sessions[j], q[j], {}) /\ Untouched(q[j], D, E, R)
             /\ SamePlaces(sessions[j], q[j])
  <2>1. PICK s, t : s = sessions[j] /\ t = q[j]
    OBVIOUS
  <2>2. s \in Session /\ (s.undisturbed => s.unrivalled)
    BY <2>1, TakingIs DEF IInv, Apart
  <2>3. PICK a \in BOOLEAN : a <=> s.undisturbed /\ {s.from, s.to} \cap D = {}
    BY <2>2 DEF Session
  <2>4. PICK b \in BOOLEAN :
           b <=> s.unrivalled /\ ({s.from, s.to} \cap D = {} \/ ~({s.from, s.to} \subseteq D \cup E))
    BY <2>2 DEF Session
  <2>5. PICK c \in BOOLEAN : c <=> s.sole /\ <<s.from, s.to>> \notin R
    BY <2>2 DEF Session
  <2>6. s.undisturbed \in BOOLEAN /\ s.unrivalled \in BOOLEAN /\ s.sole \in BOOLEAN
    BY <2>2 DEF Session
  <2>7. t = [s EXCEPT !.undisturbed = s.undisturbed /\ {s.from, s.to} \cap D = {},
                      !.unrivalled = s.unrivalled /\ ({s.from, s.to} \cap D = {} \/ ~({s.from, s.to} \subseteq D \cup E)),
                      !.sole = s.sole /\ <<s.from, s.to>> \notin R]
    BY <2>1, <2>2 DEF Disturb, Session
  <2>8. t = [s EXCEPT !.undisturbed = a, !.unrivalled = b, !.sole = c]
    BY <2>3, <2>4, <2>5, <2>6, <2>7
  <2>9. t \in Session
    BY ZenonT(40), <2>2, <2>8 DEF Session
  <2>10. t.from = s.from /\ t.to = s.to /\ t.undisturbed = a /\ t.unrivalled = b /\ t.sole = c
    BY <2>2, <2>8 DEF Session
  <2>11. SamePlaces(s, t)
    BY <2>2, <2>8 DEF Session, SamePlaces
  <2>12. SameChannel(s, t)
    BY <2>2, <2>8 DEF Session, SameChannel
  <2>13. Leaves(s, t, {})
    BY <2>2, <2>3, <2>4, <2>5, <2>9, <2>10, <2>11, <2>12 DEF Leaves, SamePlaces, SameChannel
  <2>14. Untouched(t, D, E, R)
    BY <2>3, <2>4, <2>5, <2>10 DEF Untouched
  <2> QED BY <2>1, <2>9, <2>11, <2>13, <2>14
<1>4. q \in [1 .. Len(sessions) -> Session]
  <2>1. q = [j \in 1 .. Len(sessions) |-> q[j]]
    BY <1>1 DEF Disturb
  <2> QED BY <1>1, <1>3, <2>1
<1> QED BY <1>1, <1>2, <1>3, <1>4, SequenceOf

LEMMA LeftType ==
    ASSUME IInv, NEW Away, NEW j \in DOMAIN sessions, Left(j, Away)
    PROVE  /\ sessions'[j].send \in {"connected", "prompt", "result"} => sessions'[j].sTries > 0
           /\ sessions'[j].recv \in {"connected", "request", "verify"} => sessions'[j].rTries > 0
           /\ sessions'[j].send = "drain" => sessions'[j].chunks > 0
           /\ sessions'[j].from # sessions'[j].to
           /\ sessions'[j].undisturbed => sessions'[j].unrivalled
  BY AttemptsAre, FileTypes DEF Left, Leaves, Over

LEMMA LeftFiles ==
    ASSUME IInv, NEW Away, NEW j \in DOMAIN sessions, Left(j, Away)
    PROVE  FileId(j)' = FileId(j)
  BY DEF Left, Leaves, FileId, ComputeFileId

LEMMA LeftDialogs ==
    ASSUME IInv, NEW Away, \A j \in DOMAIN sessions : Left(j, Away),
           NEW e \in Device \ Away, pinModal'[e] = pinModal[e], incomingConfirm'[e] = incomingConfirm[e]
    PROVE  PinBelongs(e)' /\ AskBelongs(e)'
<1>1. PinBelongs(e) /\ AskBelongs(e)
  BY DEF IInv, DialogInv
<1>2. PinBelongs(e)'
  BY <1>1 DEF PinBelongs, Left, Leaves
<1>3. AskBelongs(e)'
  BY <1>1 DEF AskBelongs, Left, Leaves
<1> QED BY <1>2, <1>3

LEMMA LeftController ==
    ASSUME IInv, NEW Away, \A j \in DOMAIN sessions : Left(j, Away),
           NEW e \in Device \ Away, NEW f \in FileIds, NEW k, k = abortControllers[e][f], k # 0
    PROVE  k \in DOMAIN sessions' /\ FileId(k)' = f /\ AtWork(k, e)'
<1>1. k \in DOMAIN sessions /\ FileId(k) = f /\ AtWork(k, e)
  BY DEF IInv, ControllerInv
<1>2. FileId(k)' = FileId(k)
  BY <1>1, LeftFiles
<1>3. k \in DOMAIN sessions' /\ AtWork(k, e)'
  BY <1>1 DEF Left, Leaves, AtWork
<1> QED BY <1>1, <1>2, <1>3

\* What is over stays over, and who waits for ever goes on waiting.
LEMMA LeftOver ==
    ASSUME IInv, NEW Away, NEW j \in DOMAIN sessions, Left(j, Away)
    PROVE  (~Unfinished(j) => ~Unfinished(j)') /\ (Ended(j) => Ended(j)')
<1>1. PICK s, t : s = sessions[j] /\ t = sessions'[j]
  OBVIOUS
<1>2. Leaves(s, t, Away)
  BY <1>1 DEF Left
<1>3. SenderDone(s) => SenderDone(t)
  BY <1>2 DEF Leaves, SenderDone
<1>4. ReceiverDone(s) => ReceiverDone(t)
  BY <1>2 DEF Leaves, ReceiverDone
<1>5. (s.send \in Over => t.send \in Over) /\ (s.recv \in Over => t.recv \in Over)
  BY <1>2 DEF Leaves
<1> QED BY <1>1, <1>3, <1>4, <1>5 DEF Unfinished, Ended

LEMMA LeftAlone ==
    ASSUME IInv, NEW Away, NEW j \in DOMAIN sessions, Left(j, Away),
           NEW k \in DOMAIN sessions, Left(k, Away), k # j, Interferes(k, sessions[j])'
    PROVE  ~Unfinished(k)'
<1>1. Interferes(k, sessions[j])
  BY DEF Left, Leaves, Interferes, Rivals, Shares
<1>2. ~Unfinished(k)
  BY <1>1 DEF IInv, AloneInv
<1> QED BY <1>2, LeftOver

LEMMA LeftSole ==
    ASSUME IInv, NEW Away, NEW j \in DOMAIN sessions, Left(j, Away),
           NEW k \in DOMAIN sessions, Left(k, Away), k # j, sessions'[j].sole,
           sessions'[k].from = sessions'[j].from, sessions'[k].to = sessions'[j].to
    PROVE  Ended(k)'
<1>1. Ended(k)
  BY DEF Left, Leaves, IInv, SoleInv
<1> QED BY <1>1, LeftOver

\* Trust and dialog of the two devices are as the history of the session allows.
Spared(s) ==
    /\ s.unrivalled => /\ s.to \in trust'[s.from] <=> s.to \in trust[s.from]
                       /\ s.from \in trust'[s.to] <=> s.from \in trust[s.to]
    /\ s.undisturbed => pinModal'[s.to] = pinModal[s.to]

LEMMA LeftPairs ==
    ASSUME IInv, NEW Away, NEW j \in DOMAIN sessions, Left(j, Away),
           NEW t, t = sessions'[j], Spared(t), t.unrivalled
    PROVE  Stage(j, sessions[j])' /\ Mutual(sessions[j])'
<1>1. PICK s : s = sessions[j]
  OBVIOUS
<1>2. Leaves(s, t, Away)
  BY <1>1 DEF Left
<1>3. Stage(j, s) /\ Mutual(s)
  BY <1>1, <1>2 DEF IInv, PairInv, Leaves
<1>4. Stage(j, t) /\ Mutual(t)
  BY <1>2, <1>3, StageFields DEF Leaves
<1>5. Stage(j, t)' /\ Mutual(t)'
  BY <1>4, StageSame DEF Spared
<1> QED BY <1>5

\* No session is added.
LEMMA LeftAll ==
    ASSUME IInv, NEW Away, \A j \in DOMAIN sessions : Left(j, Away) /\ Spared(sessions'[j]),
           sessions' \in Seq(Session), Len(sessions') = Len(sessions),
           PagesOK', DialogInv', ControllersOK', ControllerInv', CancelInv'
    PROVE  IInv'
<1>1. DOMAIN sessions' = DOMAIN sessions
  BY DEF IInv, TypeOK
<1>2. SessionsOK'
  BY <1>1, LeftType DEF SessionsOK
<1>3. Apart'
  BY <1>1, LeftType DEF IInv, Apart
<1>4. AloneInv'
  BY <1>1, LeftAlone DEF AloneInv
<1>5. SoleInv'
  BY <1>1, LeftSole DEF SoleInv
<1>6. PairInv'
  BY <1>1, LeftPairs DEF PairInv
<1> QED BY <1>2, <1>3, <1>4, <1>5, <1>6, TypeParts, PTL DEF IInv

\* The controllers stay as they are where sessions are left as they are.
LEMMA LeftCancel ==
    ASSUME IInv, NEW Away, NEW j \in DOMAIN sessions, Left(j, Away), sessions'[j].sole,
           \A e \in Device \ Away : abortControllers'[e][FileId(j)] = abortControllers[e][FileId(j)]
    PROVE  /\ sessions'[j].send \notin Over => abortControllers'[sessions'[j].from][FileId(j)'] = j
           /\ sessions'[j].recv \in Receiving => abortControllers'[sessions'[j].to][FileId(j)'] = j
<1>1. FileId(j)' = FileId(j) /\ sessions[j].from \in Device /\ sessions[j].to \in Device
  BY LeftFiles, FileTypes
<1>2. /\ sessions[j].send \notin Over => abortControllers[sessions[j].from][FileId(j)] = j
      /\ sessions[j].recv \in Receiving => abortControllers[sessions[j].to][FileId(j)] = j
  BY DEF Left, Leaves, IInv, CancelInv
<1>3. PICK s, t : s = sessions[j] /\ t = sessions'[j]
  OBVIOUS
<1>4. Leaves(s, t, Away)
  BY <1>3 DEF Left
<1>5. t.send \notin Over => s.from \notin Away /\ s.send \notin Over
  BY <1>4 DEF Leaves
<1>6. t.recv \in Receiving => s.to \notin Away /\ s.recv \in Receiving
  BY <1>4 DEF Leaves, Receiving, Over
<1>7. t.from = s.from /\ t.to = s.to
  BY <1>4 DEF Leaves
<1> QED BY <1>1, <1>2, <1>3, <1>5, <1>6, <1>7

LEMMA ForgetStep ==
    ASSUME IInv, NEW d \in Device, NEW e \in Device, Forget(d, e) PROVE IInv'
<1>1. /\ sessions' \in Seq(Session) /\ Len(sessions') = Len(sessions) /\ DOMAIN sessions' = DOMAIN sessions
      /\ \A j \in DOMAIN sessions : Leaves(sessions[j], sessions'[j], {}) /\ Untouched(sessions'[j], {d}, {e}, {})
  <2>1. sessions' = Disturb({d}, {e}, {})
    BY DEF Forget
  <2> QED BY <2>1, DisturbIs
<1>2. \A j \in DOMAIN sessions : Left(j, {})
  BY <1>1 DEF Left
<1>3. UNCHANGED <<pinModal, incomingConfirm, abortControllers>>
  BY DEF Forget, appVars
<1>4. /\ trust' \in [Device -> SUBSET Device]
      /\ \A x, y \in Device : ~(x = d /\ y = e) => (y \in trust'[x] <=> y \in trust[x])
  BY DEF Forget, IInv, TypeOK
<1>5. PagesOK' /\ ControllersOK'
  <2>1. PagesOK /\ ControllersOK
    BY TypeParts DEF IInv
  <2>2. faults' \in Nat
    BY <2>1 DEF Forget, PagesOK
  <2> QED BY <1>3, <1>4, <2>1, <2>2 DEF PagesOK, ControllersOK
<1>6. DialogInv'
  <2> SUFFICES ASSUME NEW x \in Device PROVE PinBelongs(x)' /\ AskBelongs(x)'
    BY DEF DialogInv
  <2>1. pinModal'[x] = pinModal[x] /\ incomingConfirm'[x] = incomingConfirm[x] /\ x \in Device \ {}
    BY <1>3
  <2> QED BY <1>2, <2>1, LeftDialogs
<1>7. ControllerInv'
  <2> SUFFICES ASSUME NEW x \in Device, NEW f \in FileIds, NEW j, j = abortControllers[x][f], j # 0
               PROVE  j \in DOMAIN sessions' /\ FileId(j)' = f /\ AtWork(j, x)'
    BY <1>3 DEF ControllerInv, FileId
  <2>1. x \in Device \ {}
    OBVIOUS
  <2> QED BY <1>2, <2>1, LeftController
<1>8. CancelInv'
  <2> SUFFICES ASSUME NEW j \in DOMAIN sessions', sessions'[j].sole
               PROVE  /\ sessions'[j].send \notin Over => abortControllers'[sessions'[j].from][FileId(j)'] = j
                      /\ sessions'[j].recv \in Receiving => abortControllers'[sessions'[j].to][FileId(j)'] = j
    BY DEF CancelInv
  <2>1. j \in DOMAIN sessions /\ Left(j, {})
    BY <1>1, <1>2
  <2>2. \A x \in Device \ {} : abortControllers'[x][FileId(j)] = abortControllers[x][FileId(j)]
    BY <1>3
  <2> QED BY <2>1, <2>2, LeftCancel
<1>9. ASSUME NEW j \in DOMAIN sessions PROVE Spared(sessions'[j])
  <2>1. PICK t : t = sessions'[j]
    OBVIOUS
  <2>2. t.from \in Device /\ t.to \in Device /\ Untouched(t, {d}, {e}, {})
    BY <1>1, <2>1, FileTypes DEF Leaves
  <2>3. t.unrivalled => ~(t.from = d /\ t.to = e) /\ ~(t.to = d /\ t.from = e)
    BY <2>2 DEF Untouched
  <2> QED BY <1>3, <1>4, <2>1, <2>2, <2>3 DEF Spared
<1> QED BY <1>1, <1>2, <1>5, <1>6, <1>7, <1>8, <1>9, LeftAll

LEMMA GoneIs ==
    ASSUME NEW e \in Session, NEW d, e.from # e.to, NEW t, t = Gone(e, d),
           e.undisturbed => e.unrivalled, e.unrivalled => d \notin {e.from, e.to}
    PROVE  Leaves(e, t, {d})
<1>1. CASE e.from = d
  <2>1. PICK p \in Over : p = IF e.send = "ended" THEN e.send ELSE "gone"
    BY DEF Over
  <2>2. PICK v : v = SenderForgets(e)
    OBVIOUS
  <2>3. PICK u : u = [v EXCEPT !.send = p]
    OBVIOUS
  <2>4. Follows(e, v) /\ v.send = e.send /\ v.recv = e.recv /\ v.rTries = e.rTries
    BY <2>2, ForgettingIs
  <2>5. v \in Session
    BY <2>4 DEF Follows
  <2>6. t = SenderCloses(u)
    <3>1. u = [v EXCEPT !.send = IF v.send = "ended" THEN v.send ELSE "gone"]
      BY <2>1, <2>3, <2>4
    <3> QED BY <1>1, <2>2, <2>5, <3>1 DEF Gone, Session
  <2>7. u \in Session
    BY <2>3, <2>5 DEF Session, Over, SendPlaces
  <2>8. SameSession(v, u)
    BY <2>3, <2>5 DEF Session, SameSession
  <2>9. u.send = p /\ u.recv = v.recv /\ u.rTries = v.rTries /\ u.sOpen = v.sOpen /\ u.rOpen = v.rOpen
    BY <2>3, <2>5 DEF Session
  <2>10. Follows(u, t) /\ SamePlaces(u, t)
    BY <2>6, <2>7, SenderClosesIs
  <2>11. Follows(e, t) /\ t.send \in Over /\ t.recv = e.recv /\ t.rTries = e.rTries
    BY <2>1, <2>4, <2>8, <2>9, <2>10 DEF Follows, SameSession, SamePlaces
  <2> QED BY <1>1, <2>11 DEF Leaves, Follows, SameSession
<1>2. CASE e.to = d
  <2>1. PICK p \in Over : p = IF e.recv = "ended" THEN e.recv ELSE "gone"
    BY DEF Over
  <2>2. PICK v : v = ReceiverForgets(e)
    OBVIOUS
  <2>3. PICK u : u = [v EXCEPT !.recv = p]
    OBVIOUS
  <2>4. /\ Follows(e, v) /\ v.recv = e.recv /\ v.send = e.send /\ v.sTries = e.sTries
        /\ v.chunks = e.chunks
    BY <2>2, ForgettingIs
  <2>5. v \in Session
    BY <2>4 DEF Follows
  <2>6. t = ReceiverCloses(u)
    <3>1. u = [v EXCEPT !.recv = IF v.recv = "ended" THEN v.recv ELSE "gone"]
      BY <2>1, <2>3, <2>4
    <3> QED BY <1>2, <2>2, <2>5, <3>1 DEF Gone, Session
  <2>7. u \in Session
    BY <2>3, <2>5 DEF Session, Over, RecvPlaces
  <2>8. SameSession(v, u)
    BY <2>3, <2>5 DEF Session, SameSession
  <2>9. /\ u.recv = p /\ u.send = v.send /\ u.sTries = v.sTries /\ u.chunks = v.chunks
        /\ u.sOpen = v.sOpen /\ u.rOpen = v.rOpen
    BY <2>3, <2>5 DEF Session
  <2>10. Follows(u, t) /\ SamePlaces(u, t)
    BY <2>6, <2>7, ReceiverClosesIs
  <2>11. /\ Follows(e, t) /\ t.recv \in Over /\ t.send = e.send /\ t.sTries = e.sTries
         /\ t.chunks = e.chunks
    BY <2>1, <2>4, <2>8, <2>9, <2>10 DEF Follows, SameSession, SamePlaces
  <2> QED BY <1>2, <2>11 DEF Leaves, Follows, SameSession
<1>3. CASE d \notin {e.from, e.to}
  <2>1. t = e
    BY <1>3 DEF Gone
  <2> QED BY <1>3, <2>1 DEF Leaves, SamePlaces, SameChannel
<1> QED BY <1>1, <1>2, <1>3

LEMMA LeavesTwice ==
    ASSUME NEW s, NEW e, NEW t, NEW Away, Leaves(s, e, {}), SamePlaces(s, e), Leaves(e, t, Away)
    PROVE  Leaves(s, t, Away)
  BY DEF Leaves, SamePlaces, SameChannel

LEMMA ReloadStep == ASSUME IInv, NEW d \in Device, Reload(d) PROVE IInv'
<1>1. PICK q : q = Disturb({d}, Device, {})
  OBVIOUS
<1>2. sessions' = [j \in DOMAIN sessions |-> Gone(q[j], d)]
  BY <1>1 DEF Reload
<1>3. /\ DOMAIN q = DOMAIN sessions
      /\ \A j \in DOMAIN sessions :
            /\ Leaves(sessions[j], q[j], {}) /\ Untouched(q[j], {d}, Device, {})
            /\ SamePlaces(sessions[j], q[j])
  BY <1>1, DisturbIs
<1>4. ASSUME NEW j \in DOMAIN sessions
      PROVE  Left(j, {d}) /\ (sessions'[j].unrivalled => d \notin {sessions'[j].from, sessions'[j].to})
  <2>1. PICK e, t : e = q[j] /\ t = sessions'[j]
    OBVIOUS
  <2>2. t = Gone(e, d) /\ j \in DOMAIN sessions'
    BY <1>2, <2>1
  <2>3. /\ e \in Session /\ e.from # e.to /\ e.from \in Device /\ e.to \in Device
        /\ (e.undisturbed => e.unrivalled) /\ Untouched(e, {d}, Device, {})
    BY <1>3, <2>1, FileTypes DEF Leaves
  <2>4. e.unrivalled => d \notin {e.from, e.to}
    BY <2>3 DEF Untouched
  <2>5. Leaves(e, t, {d})
    BY <2>2, <2>3, <2>4, GoneIs
  <2>6. Leaves(sessions[j], t, {d})
    BY <1>3, <2>1, <2>5, LeavesTwice
  <2>7. t.unrivalled => d \notin {t.from, t.to}
    BY <2>4, <2>5 DEF Leaves
  <2> QED BY <2>1, <2>2, <2>6, <2>7 DEF Left
<1>5. sessions' \in Seq(Session) /\ Len(sessions') = Len(sessions) /\ DOMAIN sessions' = DOMAIN sessions
  <2>1. DOMAIN sessions = 1 .. Len(sessions) /\ Len(sessions) \in Nat
    BY DEF IInv, TypeOK
  <2>2. sessions' = [j \in 1 .. Len(sessions) |-> sessions'[j]]
    BY <1>2, <2>1
  <2>3. \A j \in 1 .. Len(sessions) : sessions'[j] \in Session
    BY <1>4, <2>1 DEF Left, Leaves
  <2>4. sessions' \in [1 .. Len(sessions) -> Session]
    BY <2>2, <2>3
  <2> QED BY <2>1, <2>4, SequenceOf
<1>6. PagesOK /\ ControllersOK
  BY TypeParts DEF IInv
<1>7. UNCHANGED trust /\ faults' \in Nat
  BY <1>6 DEF Reload, PagesOK
<1>8. /\ pinModal' \in [Device -> [mode : {"none", "enter", "show"}, of : 0 .. MaxSessions]]
      /\ pinModal'[d] = NoModal /\ \A e \in Device \ {d} : pinModal'[e] = pinModal[e]
  <2>1. NoModal \in [mode : {"none", "enter", "show"}, of : 0 .. MaxSessions]
    BY DEF NoModal
  <2> QED BY <1>6, <2>1 DEF Reload, SetPinModal, PagesOK
<1>9. /\ incomingConfirm' \in [Device -> 0 .. MaxSessions]
      /\ incomingConfirm'[d] = 0 /\ \A e \in Device \ {d} : incomingConfirm'[e] = incomingConfirm[e]
  BY <1>6 DEF Reload, PagesOK
<1>10. /\ ControllersOK' /\ \A f \in FileIds : abortControllers'[d][f] = 0
       /\ \A e \in Device \ {d} : abortControllers'[e] = abortControllers[e]
  <2>1. [f \in FileIds |-> 0] \in [FileIds -> 0 .. MaxSessions]
    OBVIOUS
  <2> QED BY <1>6, <2>1 DEF Reload, ControllersOK
<1>11. DialogInv'
  <2> SUFFICES ASSUME NEW e \in Device PROVE PinBelongs(e)' /\ AskBelongs(e)'
    BY DEF DialogInv
  <2>1. CASE e = d
    BY <1>8, <1>9, <2>1 DEF PinBelongs, AskBelongs, NoModal
  <2>2. CASE e # d
    <3>1. pinModal'[e] = pinModal[e] /\ incomingConfirm'[e] = incomingConfirm[e] /\ e \in Device \ {d}
      BY <1>8, <1>9, <2>2
    <3> QED BY <1>4, <3>1, LeftDialogs
  <2> QED BY <2>1, <2>2
<1>12. ControllerInv'
  <2> SUFFICES ASSUME NEW e \in Device, NEW f \in FileIds, NEW j, j = abortControllers'[e][f], j # 0
               PROVE  j \in DOMAIN sessions' /\ FileId(j)' = f /\ AtWork(j, e)'
    BY DEF ControllerInv, FileId
  <2>1. e \in Device \ {d} /\ j = abortControllers[e][f]
    BY <1>10
  <2> QED BY <1>4, <2>1, LeftController
<1>13. CancelInv'
  <2> SUFFICES ASSUME NEW j \in DOMAIN sessions', sessions'[j].sole
               PROVE  /\ sessions'[j].send \notin Over => abortControllers'[sessions'[j].from][FileId(j)'] = j
                      /\ sessions'[j].recv \in Receiving => abortControllers'[sessions'[j].to][FileId(j)'] = j
    BY DEF CancelInv
  <2>1. j \in DOMAIN sessions /\ Left(j, {d})
    BY <1>4, <1>5
  <2>2. \A x \in Device \ {d} : abortControllers'[x][FileId(j)] = abortControllers[x][FileId(j)]
    BY <1>10
  <2> QED BY <2>1, <2>2, LeftCancel
<1>14. ASSUME NEW j \in DOMAIN sessions PROVE Spared(sessions'[j])
  <2>1. PICK t : t = sessions'[j]
    OBVIOUS
  <2>2. t.to \in Device /\ (t.unrivalled => t.to # d) /\ (t.undisturbed => t.unrivalled)
    BY <1>4, <2>1, FileTypes DEF Left, Leaves
  <2> QED BY <1>7, <1>8, <2>1, <2>2 DEF Spared
<1>15. PagesOK'
  BY <1>6, <1>7, <1>8, <1>9 DEF PagesOK
<1> QED BY <1>4, <1>5, <1>10, <1>11, <1>12, <1>13, <1>14, <1>15, LeftAll

LEMMA SendStep == ASSUME IInv, NEW r \in Routes, Send(r[1], r[2]) PROVE IInv'
<1>1. PICK from, to, n, q, s :
         /\ from = r[1] /\ to = r[2] /\ n = Len(sessions) + 1
         /\ q = Disturb({from, to}, {}, {<<from, to>>})
         /\ s = [NewSession(from, to) EXCEPT !.undisturbed = Alone(from, to),
                                             !.unrivalled = Unrivalled(from, to),
                                             !.sole = Sole(from, to)]
  OBVIOUS
<1>2. from \in Device /\ to \in Device /\ from # to /\ n \in 1 .. MaxSessions
  BY <1>1 DEF Send, IInv, TypeOK, Apart
<1>3. /\ s \in Session /\ s.from = from /\ s.to = to /\ s.send = "connected" /\ s.recv = "connected"
      /\ s.sTries = MaxAttempts /\ s.rTries = MaxAttempts /\ s.toR = <<>> /\ s.toS = <<>>
      /\ s.sOpen /\ s.rOpen
      /\ s.undisturbed = Alone(from, to) /\ s.unrivalled = Unrivalled(from, to) /\ s.sole = Sole(from, to)
  <2>1. Alone(from, to) \in BOOLEAN /\ Unrivalled(from, to) \in BOOLEAN /\ Sole(from, to) \in BOOLEAN
    BY DEF Alone, Unrivalled, Sole
  <2>2. <<>> \in Seq(Message)
    BY EmptySeq
  <2>3. PICK u : u = NewSession(from, to)
    OBVIOUS
  <2>4. /\ u \in Session /\ u.from = from /\ u.to = to /\ u.send = "connected" /\ u.recv = "connected"
        /\ u.sTries = MaxAttempts /\ u.rTries = MaxAttempts /\ u.toR = <<>> /\ u.toS = <<>>
        /\ u.sOpen /\ u.rOpen
    BY <1>2, <2>2, <2>3 DEF NewSession, Session, SendPlaces, RecvPlaces
  <2>5. PICK a, b, c \in BOOLEAN : a = Alone(from, to) /\ b = Unrivalled(from, to) /\ c = Sole(from, to)
    BY <2>1
  <2>6. s = [u EXCEPT !.undisturbed = a, !.unrivalled = b, !.sole = c]
    BY <1>1, <2>3, <2>5
  <2>7. s \in Session
    <3>1. u \in Session
      BY <2>4
    <3> QED BY ZenonT(40), <2>6, <3>1 DEF Session
  <2>8. s.undisturbed = a /\ s.unrivalled = b /\ s.sole = c
    BY <2>4, <2>6 DEF Session
  <2>9. SamePlaces(u, s) /\ s.from = u.from /\ s.to = u.to
    BY <2>4, <2>6 DEF Session, SamePlaces
  <2>10. SameChannel(u, s)
    BY <2>4, <2>6 DEF Session, SameChannel
  <2> QED BY <2>4, <2>5, <2>7, <2>8, <2>9, <2>10 DEF SamePlaces, SameChannel
<1>4. /\ q \in Seq(Session) /\ Len(q) = Len(sessions) /\ DOMAIN q = DOMAIN sessions
      /\ \A j \in DOMAIN sessions :
            Leaves(sessions[j], q[j], {}) /\ Untouched(q[j], {from, to}, {}, {<<from, to>>})
  BY <1>1, DisturbIs
<1>5. sessions' = Append(q, s)
  BY <1>1 DEF Send
<1>6. /\ sessions' \in Seq(Session) /\ Len(sessions') = n /\ DOMAIN sessions' = DOMAIN sessions \cup {n}
      /\ sessions'[n] = s /\ n \notin DOMAIN sessions
      /\ \A j \in DOMAIN sessions : sessions'[j] = q[j]
  <2>1. Len(sessions) \in Nat /\ DOMAIN sessions = 1 .. Len(sessions) /\ n = Len(sessions) + 1
    BY <1>1 DEF IInv, TypeOK
  <2>2. q \in Seq(Session) /\ Len(q) = Len(sessions) /\ s \in Session
    BY <1>3, <1>4
  <2>3. /\ sessions' \in Seq(Session) /\ Len(sessions') = n
        /\ sessions'[n] = s /\ \A j \in 1 .. Len(sessions) : sessions'[j] = q[j]
    BY <1>5, <2>1, <2>2, AppendProperties
  <2> QED BY <2>1, <2>3
<1>7. ASSUME NEW j \in DOMAIN sessions
      PROVE  Left(j, {}) /\ Untouched(sessions'[j], {from, to}, {}, {<<from, to>>})
  BY <1>4, <1>6 DEF Left
<1>8. UNCHANGED <<trust, pinModal, incomingConfirm, faults>>
  BY DEF Send
<1>9. FileId(n)' = <<from, to>> /\ <<from, to>> \in FileIds
  BY <1>2, <1>3, <1>6 DEF FileId, ComputeFileId, FileIds
<1>10. /\ ControllersOK'
       /\ \A e \in Device : \A g \in FileIds :
             abortControllers'[e][g] = IF e = from /\ g = <<from, to>> THEN n ELSE abortControllers[e][g]
  <2>1. SetController(from, <<from, to>>, n)
    BY <1>1 DEF Send, ComputeFileId
  <2> QED BY <1>2, <1>9, <2>1, SetControllerIs
<1>11. ASSUME NEW k \in DOMAIN sessions, NEW t, t = sessions'[k]
       PROVE  /\ t.undisturbed => {t.from, t.to} \cap {from, to} = {}
              /\ t.unrivalled => {t.from, t.to} # {from, to}
              /\ t.sole => ~(t.from = from /\ t.to = to)
  BY <1>7, <1>11 DEF Untouched
<1>12. SessionsOK' /\ Apart'
  <2>1. ASSUME NEW j \in DOMAIN sessions'
        PROVE  /\ sessions'[j].send \in {"connected", "prompt", "result"} => sessions'[j].sTries > 0
               /\ sessions'[j].recv \in {"connected", "request", "verify"} => sessions'[j].rTries > 0
               /\ sessions'[j].send = "drain" => sessions'[j].chunks > 0
               /\ sessions'[j].from # sessions'[j].to
               /\ sessions'[j].undisturbed => sessions'[j].unrivalled
    <3>1. CASE j = n
      <4>1. Alone(from, to) => Unrivalled(from, to)
        BY <1>2 DEF Alone, Unrivalled, Shares
      <4> QED BY <1>2, <1>3, <1>6, <3>1, <4>1
    <3>2. CASE j \in DOMAIN sessions
      BY <1>7, <3>2, LeftType
    <3> QED BY <1>6, <3>1, <3>2
  <2> QED BY <1>2, <1>6, <2>1 DEF SessionsOK, Apart
<1>13. PagesOK'
  BY <1>8, TypeParts DEF IInv, PagesOK
<1>14. DialogInv'
  <2> SUFFICES ASSUME NEW e \in Device PROVE PinBelongs(e)' /\ AskBelongs(e)'
    BY DEF DialogInv
  <2>1. pinModal'[e] = pinModal[e] /\ incomingConfirm'[e] = incomingConfirm[e] /\ e \in Device \ {}
    BY <1>8
  <2> QED BY <1>7, <2>1, LeftDialogs
<1>15. ControllerInv'
  <2> SUFFICES ASSUME NEW e \in Device, NEW g \in FileIds, NEW j, j = abortControllers'[e][g], j # 0
               PROVE  j \in DOMAIN sessions' /\ FileId(j)' = g /\ AtWork(j, e)'
    BY DEF ControllerInv, FileId
  <2>1. CASE e = from /\ g = <<from, to>>
    <3>1. j = n
      BY <1>10, <2>1
    <3>2. AtWork(j, e)'
      BY <1>3, <1>6, <2>1, <3>1 DEF AtWork, Over
    <3> QED BY <1>6, <1>9, <2>1, <3>1, <3>2
  <2>2. CASE ~(e = from /\ g = <<from, to>>)
    <3>1. j = abortControllers[e][g] /\ e \in Device \ {}
      BY <1>10, <2>2
    <3> QED BY <1>7, <3>1, LeftController
  <2> QED BY <2>1, <2>2
<1>16. CancelInv'
  <2> SUFFICES ASSUME NEW j \in DOMAIN sessions', sessions'[j].sole
               PROVE  /\ sessions'[j].send \notin Over => abortControllers'[sessions'[j].from][FileId(j)'] = j
                      /\ sessions'[j].recv \in Receiving => abortControllers'[sessions'[j].to][FileId(j)'] = j
    BY DEF CancelInv
  <2>1. CASE j = n
    BY <1>2, <1>3, <1>6, <1>9, <1>10, <2>1 DEF Receiving
  <2>2. CASE j \in DOMAIN sessions
    <3>1. Left(j, {}) /\ FileId(j) \in FileIds
      BY <1>7, <2>2, FileTypes
    <3>2. FileId(j) # <<from, to>>
      BY <1>11, <2>2, <3>1 DEF FileId, ComputeFileId, Left, Leaves
    <3>3. \A x \in Device \ {} : abortControllers'[x][FileId(j)] = abortControllers[x][FileId(j)]
      BY <1>10, <3>1, <3>2
    <3> QED BY <2>2, <3>1, <3>3, LeftCancel
  <2> QED BY <1>6, <2>1, <2>2
<1>17. AloneInv'
  <2> SUFFICES ASSUME NEW k \in DOMAIN sessions', NEW j \in DOMAIN sessions', k # j,
                      Interferes(k, sessions[j])'
               PROVE  ~Unfinished(k)'
    BY DEF AloneInv
  <2>1. CASE j \in DOMAIN sessions /\ k \in DOMAIN sessions
    BY <1>7, <2>1, LeftAlone
  <2>2. CASE j = n
    <3>1. k \in DOMAIN sessions /\ Left(k, {})
      BY <1>6, <1>7, <2>2
    <3>2. ~Unfinished(k)
      <4>1. CASE Alone(from, to) /\ Shares(k, from, to)
        BY <3>1, <4>1 DEF Alone
      <4>2. CASE Unrivalled(from, to) /\ {sessions[k].from, sessions[k].to} = {from, to}
        BY <3>1, <4>2 DEF Unrivalled
      <4> QED BY <1>3, <1>6, <2>2, <3>1, <4>1, <4>2 DEF Interferes, Shares, Rivals, Left, Leaves
    <3> QED BY <3>1, <3>2, LeftOver
  <2>3. CASE j \in DOMAIN sessions /\ k = n
    <3>1. PICK t : t = sessions'[j]
      OBVIOUS
    <3>2. sessions'[k].from = from /\ sessions'[k].to = to
      BY <1>3, <1>6, <2>3
    <3>3. \/ t.undisturbed /\ {from, to} \cap {t.from, t.to} # {}
          \/ t.unrivalled /\ {from, to} = {t.from, t.to}
      BY <3>1, <3>2 DEF Interferes, Shares, Rivals
    <3> QED BY <1>11, <2>3, <3>1, <3>3
  <2> QED BY <1>6, <2>1, <2>2, <2>3
<1>18. SoleInv'
  <2> SUFFICES ASSUME NEW j \in DOMAIN sessions', NEW k \in DOMAIN sessions', j # k, sessions'[j].sole,
                      sessions'[k].from = sessions'[j].from, sessions'[k].to = sessions'[j].to
               PROVE  Ended(k)'
    BY DEF SoleInv
  <2>1. CASE j \in DOMAIN sessions /\ k \in DOMAIN sessions
    BY <1>7, <2>1, LeftSole
  <2>2. CASE j = n
    <3>1. k \in DOMAIN sessions /\ Left(k, {})
      BY <1>6, <1>7, <2>2
    <3>2. Ended(k)
      BY <1>3, <1>6, <2>2, <3>1 DEF Sole, Left, Leaves
    <3> QED BY <3>1, <3>2, LeftOver
  <2>3. CASE j \in DOMAIN sessions /\ k = n
    BY <1>3, <1>6, <1>11, <2>3
  <2> QED BY <1>6, <2>1, <2>2, <2>3
<1>19. PairInv'
  <2> SUFFICES ASSUME NEW j \in DOMAIN sessions', sessions'[j].unrivalled
               PROVE  Stage(j, sessions[j])' /\ Mutual(sessions[j])'
    BY DEF PairInv
  <2>1. CASE j \in DOMAIN sessions
    <3>1. Spared(sessions'[j])
      BY <1>8 DEF Spared
    <3> QED BY <1>7, <2>1, <3>1, LeftPairs
  <2>2. CASE j = n
    <3>1. from \in trust[to] <=> to \in trust[from]
      BY <1>3, <1>6, <2>2 DEF Unrivalled, Agreed
    <3>2. Fresh(s) /\ Mutual(s)
      BY <1>3, <3>1 DEF Fresh, Mutual, Trusted
    <3>3. Stage(j, s)
      BY <1>3, <3>2 DEF Stage, Pairs
    <3>4. Stage(j, s)' /\ Mutual(s)'
      BY <1>8, <3>2, <3>3, StageSame
    <3> QED BY <1>6, <2>2, <3>4
  <2> QED BY <1>6, <2>1, <2>2
<1> QED BY <1>10, <1>12, <1>13, <1>14, <1>15, <1>16, <1>17, <1>18, <1>19, TypeParts, PTL DEF IInv

-----------------------------------------------------------------------------
(* The invariant, and the theorems. *)

LEMMA InitEstablishes == Init => IInv
<1> SUFFICES ASSUME Init PROVE IInv
  OBVIOUS
<1>1. sessions = <<>> /\ DOMAIN sessions = {} /\ Len(sessions) = 0 /\ sessions \in Seq(Session)
  BY EmptySeq DEF Init
<1>2. TypeOK
  <2>1. NoModal \in [mode : {"none", "enter", "show"}, of : 0 .. MaxSessions]
    BY DEF NoModal
  <2>2. [f \in FileIds |-> 0] \in [FileIds -> 0 .. MaxSessions]
    OBVIOUS
  <2> QED BY <1>1, <2>1, <2>2 DEF Init, TypeOK
<1>3. Apart /\ SoleInv /\ CancelInv /\ AloneInv /\ PairInv
  BY <1>1 DEF Apart, SoleInv, CancelInv, AloneInv, PairInv
<1>4. DialogInv
  BY DEF Init, DialogInv, PinBelongs, AskBelongs, NoModal
<1>5. ControllerInv
  BY DEF Init, ControllerInv
<1> QED BY <1>2, <1>3, <1>4, <1>5 DEF IInv

LEMMA StepPreserves == IInv /\ [Next]_vars => IInv'
<1> SUFFICES ASSUME IInv, [Next]_vars PROVE IInv'
  OBVIOUS
<1>1. CASE UNCHANGED vars
  BY <1>1, Stutters DEF vars, appVars
<1>2. ASSUME NEW i \in DOMAIN sessions, SenderStep(i) PROVE IInv'
  BY <1>2, SenderConnectedStep, SenderGetsResultStep, SenderGetsAcceptStep, SenderLoopsStep,
     SenderDrainsStep, SenderCompletesStep, SenderNotesAbortStep, SenderEndsSteps, GetsCloseSteps
     DEF SenderStep
<1>3. ASSUME NEW i \in DOMAIN sessions, ReceiverStep(i) PROVE IInv'
  BY <1>3, ReceiverConnectedStep, ReceiverGetsRequestStep, ReceiverGetsVerifyStep,
     ReceiverGetsOfferStep, ReceiverIgnoresStep, ReceiverGetsAbortStep, PickedStep,
     ReceiverFinishesStep, GetsCloseSteps DEF ReceiverStep
<1>4. ASSUME NEW d \in Device, SubmitPin(d) PROVE IInv'
  BY <1>4, SubmitPinStep
<1>5. ASSUME NEW d \in Device, Decide(d) PROVE IInv'
  BY <1>5, DecideStep
<1>6. ASSUME NEW d \in Device, CancelTransfer(d) PROVE IInv'
  BY <1>6, CancelTransferStep
<1>7. ASSUME NEW d \in Device, Reload(d) PROVE IInv'
  BY <1>7, ReloadStep
<1>8. ASSUME NEW d \in Device, NEW e \in Device, Forget(d, e) PROVE IInv'
  BY <1>8, ForgetStep
<1>9. ASSUME NEW r \in Routes, Send(r[1], r[2]) PROVE IInv'
  BY <1>9, SendStep
<1> QED BY <1>1, <1>2, <1>3, <1>4, <1>5, <1>6, <1>7, <1>8, <1>9 DEF Next, Answers

LEMMA Invariance == Spec => []IInv
  BY InitEstablishes, StepPreserves, PTL DEF Spec

\* Every session, dialog, controller and pairing store is what the code keeps them
\* for, a call that asks for a PIN or for the verdict on one has attempts left (the
\* loops of peerSession.ts count them), and a sender that waits for its buffer has a
\* chunk left to send.
THEOREM PairingTypeCorrect == Spec => []TypeOK
<1>1. IInv => TypeOK
  BY DEF IInv
<1> QED BY <1>1, Invariance, PTL

\* No dialog is left on a screen by a session that has gone on or ended, however
\* many sessions open and close the one PIN dialog and the one dialog for a file
\* that a page has (App.tsx).
THEOREM DialogsBelong == Spec => []DialogBelongs
<1>1. IInv => DialogBelongs
  BY DEF IInv, DialogInv, PinBelongs, AskBelongs, DialogBelongs
<1> QED BY <1>1, Invariance, PTL

\* A human who is asked for a PIN finds it on the other screen, after any number of
\* wrong ones, unless something else disturbed the two pages: hidePin is called when
\* the pairing is resolved and not before (peerSession.ts).
THEOREM PinStaysUp == Spec => []PinIsKeptUp
<1>1. IInv => PinIsKeptUp
  <2> SUFFICES ASSUME IInv, NEW i \in DOMAIN sessions, sessions[i].undisturbed,
                      sessions[i].send = "prompt", sessions[i].recv # "connected", sessions[i].toR = <<>>
               PROVE  Shown(i, sessions[i])
    BY DEF PinIsKeptUp, Shown
  <2>1. Stage(i, sessions[i]) /\ Pairs(sessions[i])
    BY DEF IInv, Apart, PairInv, Pairs
  <2>2. ~Asked(sessions[i])
    <3>1. ~(sessions[i].toR = <<Request>>)
      OBVIOUS
    <3> QED BY <3>1 DEF Asked
  <2> QED BY <2>1, <2>2 DEF Stage, Fresh, Waits, Typed, Wrong, WrongAtLast, Right
<1> QED BY <1>1, Invariance, PTL

\* Of two devices that had the same trust when their session began, each trusts the
\* other or neither does, but while the positive verdict is under way to the sender
\* (peerSession.ts): as long as neither page is reloaded, neither store forgets the
\* other device and no second session runs between the same two, and whatever
\* sessions either has with other devices.
THEOREM TrustStaysMutual == Spec => []TrustIsMutual
<1>1. IInv => TrustIsMutual
  <2> SUFFICES ASSUME IInv, NEW i \in DOMAIN sessions, sessions[i].unrivalled,
                      ~Agreed(sessions[i].from, sessions[i].to)
               PROVE  /\ sessions[i].from \in trust[sessions[i].to] /\ sessions[i].send = "result"
                      /\ sessions[i].toS = <<[type |-> "pair-result", ok |-> TRUE]>>
    BY DEF TrustIsMutual
  <2>1. Stage(i, sessions[i]) /\ Mutual(sessions[i])
    BY DEF IInv, PairInv
  <2>2. sessions[i].send = "result" /\ Trusted(sessions[i])
    BY <2>1 DEF Mutual, Agreed, Trusted
  <2>3. Right(sessions[i])
    BY <2>1, <2>2 DEF Stage, Pairs, Fresh, Asked, Waits, Typed, Wrong, WrongAtLast
  <2> QED BY <2>2, <2>3 DEF Right, Result, Trusted
<1> QED BY <1>1, Invariance, PTL

\* The cancel button of a transfer finds the controller of that transfer when the
\* earlier sessions with the same file had ended and no later one has begun, whatever
\* sessions there are with other files; and any controller that is found, overlapping
\* sessions with the same file or not, is of a call with that file that is still at
\* work (App.tsx).  That an overlapping session replaces or forgets the controller
\* is not excluded: it does.
THEOREM CancelAlwaysFinds == Spec => []CancelFindsTransfer
<1>1. IInv => CancelFindsTransfer
  <2> SUFFICES ASSUME IInv PROVE CancelFindsTransfer
    OBVIOUS
  <2>1. ASSUME NEW i \in DOMAIN sessions, NEW d \in Device, Runs(i, d), sessions[i].sole
        PROVE  abortControllers[d][FileId(i)] = i
    BY <2>1 DEF IInv, CancelInv, Runs, Receiving, Over
  <2>2. ASSUME NEW d \in Device, NEW f \in FileIds, NEW i, i = abortControllers[d][f], i # 0
        PROVE  FileId(i) = f /\ AtWork(i, d)
    BY <2>2 DEF IInv, ControllerInv
  <2> QED BY <2>1, <2>2 DEF CancelFindsTransfer
<1> QED BY <1>1, Invariance, PTL
=============================================================================
