------------------------- MODULE TransferRefinement -------------------------
(***************************************************************************)
(* TransferSession implements Transfer, for every value of the constants:  *)
(* its initial states map to initial states, and every step of sendFile,   *)
(* receiveFile, the users and the network is a step of Transfer or leaves  *)
(* alone what the users have been told.                                    *)
(***************************************************************************)
EXTENDS TransferSessionProofs

Declined == rpc = "returned" /\ rEvent \notin TerminalEvents

(***************************************************************************)
(* What a user is told rests on something the other one did: the inductive *)
(* invariant follows each outcome back to its cause, over the wires and    *)
(* through the flags and tasks that remember what came in.  A rejection    *)
(* that is on its way when the receiver crashes never arrives.             *)
(***************************************************************************)
SentCause == \A m \in InTransit(s2r) : m.type = "abort" => sCancel
AnswerCause ==
    \A m \in InTransit(r2s) : (m.type = "abort" => rCancel) /\ (m.type = "reject" /\ link => Declined)
FlagCause ==
    /\ sRemote => rCancel
    /\ rPending \/ aTask # "none" => sCancel
    /\ lTask # "none" => rCancel
FinalizeCause == vTask = "finalize" => ChunksMatch
FreshHashes == rpc \in Undecided => hashes = Blank /\ queue = <<>>

CauseInv == SentCause /\ AnswerCause /\ FlagCause /\ FinalizeCause /\ FreshHashes

LEMMA CauseInit == Init => CauseInv
  BY EmptyTransit DEF Init, CauseInv, SentCause, AnswerCause, FlagCause, FinalizeCause, FreshHashes,
     Undecided

\* The ways in which steps of one attempt keep the parts of the invariant.
SentCaused == \A m \in InTransit(s2r') : m \in InTransit(s2r) \/ (m.type = "abort" => sCancel')
AnswersCaused ==
    \A m \in InTransit(r2s') :
        \/ m \in InTransit(r2s)
        \/ (m.type = "abort" => rCancel') /\ (m.type = "reject" /\ link' => Declined')
DeclineStays == link' => link /\ (Declined => Declined')
FlagsCaused ==
    /\ (sCancel => sCancel') /\ (rCancel => rCancel')
    /\ (sRemote' => sRemote \/ rCancel') /\ (rPending' => rPending \/ sCancel')
    /\ (aTask' # "none" => aTask # "none" \/ sCancel')
    /\ (lTask' # "none" => lTask # "none" \/ rCancel')
FinalizeCaused == vTask' = "finalize" => vTask = "finalize" \/ ChunksMatch
MatchStays == source' = source /\ (ChunksMatch => ChunksMatch')
HashesStay == rpc' \in Undecided => rpc \in Undecided /\ UNCHANGED <<hashes, queue>>

Caused ==
    /\ SentCaused /\ AnswersCaused /\ DeclineStays /\ FlagsCaused
    /\ FinalizeCaused /\ MatchStays /\ HashesStay

LEMMA CausedKeeps == ASSUME CauseInv, Caused PROVE CauseInv'
<1>1. SentCause' /\ FlagCause' /\ FreshHashes'
  BY DEF CauseInv, Caused, SentCause, SentCaused, FlagCause, FlagsCaused, FreshHashes, HashesStay
<1>2. AnswerCause'
  BY DEF CauseInv, Caused, AnswerCause, AnswersCaused, FlagsCaused, DeclineStays
<1>3. FinalizeCause'
  BY DEF CauseInv, Caused, FinalizeCause, FinalizeCaused, MatchStays
<1> QED
  BY <1>1, <1>2, <1>3 DEF CauseInv

\* What one of the two users is told by a step of one attempt.
ToldSender ==
    \/ SenderOutcome' = SenderOutcome
    \/ /\ SenderActive /\ SenderOutcome' \in Promise!SenderEndings
       /\ SenderOutcome' = "complete" => ChunksMatch
       /\ SenderOutcome' = "cancelled" => sCancel' \/ rCancel'
       /\ SenderOutcome' = "rejected" => Declined
ToldReceiver ==
    \/ ReceiverOutcome' = ReceiverOutcome
    \/ /\ ~Settled /\ ReceiverOutcome' \in Promise!ReceiverEndings
       /\ ReceiverOutcome' = "complete" => ChunksMatch
       /\ ReceiverOutcome' = "cancelled" => sCancel \/ rCancel
    \/ ReceiverOutcome # "idle" /\ ReceiverOutcome' = "crashed"
Told ==
    /\ ToldSender /\ ToldReceiver
    /\ SenderOutcome' = SenderOutcome \/ ReceiverOutcome' = ReceiverOutcome

\* The parts kept because the variables they speak of do not change.
LEMMA CausedFrame ==
    /\ UNCHANGED s2r => SentCaused
    /\ UNCHANGED r2s => AnswersCaused
    /\ UNCHANGED <<link, rpc, rEvent>> => DeclineStays
    /\ UNCHANGED <<sCancel, rCancel, sRemote, rPending, aTask, lTask>> => FlagsCaused
    /\ UNCHANGED vTask => FinalizeCaused
    /\ UNCHANGED <<source, hashes>> => MatchStays
    /\ UNCHANGED <<rpc, hashes, queue>> => HashesStay
    /\ UNCHANGED <<spc, sEvent>> => SenderOutcome' = SenderOutcome
    /\ UNCHANGED <<rpc, rEvent>> => ReceiverOutcome' = ReceiverOutcome
  BY DEF SentCaused, AnswersCaused, DeclineStays, Declined, FlagsCaused, FinalizeCaused, MatchStays,
     ChunksMatch, HashesStay, SenderOutcome, SenderActive, ReceiverOutcome, Settled

\* A step of a sender that leaves the receiver alone but for the wires.
LEMMA SenderCaused ==
    ASSUME UNCHANGED <<receiverVars, userVars, link>>, SentCaused, AnswersCaused, FlagsCaused, ToldSender
    PROVE  Caused /\ Told
  BY CausedFrame DEF Caused, Told, ToldReceiver, receiverVars, userVars, progressVars, queueVars,
     taskVars

\* sendFile ends.
LEMMA SettlesCaused ==
    ASSUME TypeOK, NEW pc \in {"returned", "failed"}, NEW event, NEW out \in Seq(SenderMessage),
           SenderSettles(pc, event, out),
           \A m \in InTransit(out) : m \in InTransit(s2r) \/ (m.type = "abort" => sCancel')
    PROVE  /\ SentCaused /\ AnswersCaused /\ link' = link
           /\ SenderOutcome' = IF pc = "failed" THEN "failed" ELSE event
<1>1. SenderCloses(out) /\ spc' = pc /\ sEvent' = event
  BY DEF SenderSettles
<1>2. SentCaused /\ AnswersCaused
  BY <1>1, SenderClosesTransit DEF SentCaused, AnswersCaused
<1>3. link' = link
  BY <1>1 DEF SenderCloses
<1>4. SenderOutcome' = IF pc = "failed" THEN "failed" ELSE event
  BY <1>1 DEF SenderOutcome, SenderActive, SenderDone
<1> QED
  BY <1>2, <1>3, <1>4

LEMMA ThrowsCaused ==
    ASSUME TypeOK, SenderThrows, SenderActive
    PROVE  SentCaused /\ AnswersCaused /\ link' = link /\ ToldSender
<1>1. SentCaused /\ AnswersCaused /\ link' = link /\ SenderOutcome' = "failed"
  BY SettlesCaused DEF SenderThrows, TypeOK, ChannelTypeOK
<1> QED
  BY <1>1 DEF ToldSender, Promise!SenderEndings

LEMMA BailCaused ==
    ASSUME TypeOK, SenderActive, NEW remote \in BOOLEAN, Bail(remote),
           remote => rCancel', ~remote => sCancel'
    PROVE  SentCaused /\ AnswersCaused /\ link' = link /\ ToldSender
<1> DEFINE told == Put(s2r, rOpen, [type |-> "abort"])
<1>1. told \in Seq(SenderMessage) /\ InTransit(told) \subseteq InTransit(s2r) \cup {[type |-> "abort"]}
  BY PutType, PutTransit, CloseMessages DEF TypeOK, ChannelTypeOK
<1> DEFINE out == IF remote THEN s2r ELSE told
<1>2. CASE SenderSettles("returned", "cancelled", out)
  <2>1. out \in Seq(SenderMessage)
    BY <1>1 DEF TypeOK, ChannelTypeOK
  <2>2. \A m \in InTransit(out) : m \in InTransit(s2r) \/ (m.type = "abort" => sCancel')
    BY <1>1
  <2> HIDE DEF out
  <2>3. SentCaused /\ AnswersCaused /\ link' = link /\ SenderOutcome' = "cancelled"
    BY <1>2, <2>1, <2>2, SettlesCaused
  <2> QED
    BY <2>3 DEF ToldSender, Promise!SenderEndings
<1>3. CASE SenderThrows
  BY <1>3, ThrowsCaused
<1> QED
  BY <1>2, <1>3 DEF Bail

\* A flag that is looked at in the loop of chunks says why the send ends.
LEMMA FlagsBail ==
    ASSUME TypeOK, CauseInv, SenderActive, Bail(sRemote), sCancel \/ sRemote, UNCHANGED <<sCancel, rCancel>>
    PROVE  SentCaused /\ AnswersCaused /\ link' = link /\ ToldSender
  BY BailCaused DEF TypeOK, SenderTypeOK, CauseInv, FlagCause

LEMMA LoopTopCaused ==
    ASSUME TypeOK, CauseInv, SenderActive, NEW i, LoopTop(i), UNCHANGED <<sCancel, rCancel>>
    PROVE  SentCaused /\ AnswersCaused /\ link' = link /\ ToldSender
<1>1. CASE sCancel \/ sRemote
  BY <1>1, FlagsBail DEF LoopTop
<1>2. CASE ~(sCancel \/ sRemote)
  BY <1>2, CausedFrame DEF LoopTop, channelVars, ToldSender, SenderOutcome, SenderActive, SenderDone
<1> QED
  BY <1>1, <1>2

LEMMA SendFrameCaused ==
    ASSUME TypeOK, CauseInv, SenderActive, SendFrame, UNCHANGED <<sCancel, rCancel>>
    PROVE  SentCaused /\ AnswersCaused /\ link' = link /\ ToldSender
<1>1. CASE sCancel \/ sRemote
  BY <1>1, FlagsBail DEF SendFrame
<1>2. CASE ~(sCancel \/ sRemote) /\ ~sOpen
  BY <1>2, ThrowsCaused DEF SendFrame
<1>3. CASE ~(sCancel \/ sRemote) /\ sOpen
  <2>1. SentCaused
    BY <1>3, PutTransit DEF SendFrame, SentCaused, TypeOK, ChannelTypeOK
  <2> QED
    BY <1>3, <2>1, CausedFrame DEF SendFrame, ToldSender, SenderOutcome, SenderActive, SenderDone
<1> QED
  BY <1>1, <1>2, <1>3

\* receiveFile ends, or has ended already.
LEMMA FinishCaused ==
    ASSUME TypeOK, NEW pc \in {"returned", "failed"}, NEW event \in {rEvent} \cup TerminalEvents,
           NEW out \in Seq(ReceiverMessage), Finish(pc, event, out) \/ (~Settled /\ ReceiverSettles(pc, event, out)),
           \A m \in InTransit(out) : m \in InTransit(r2s) \/ m.type \notin {"abort", "reject"},
           pc = "returned" => event \in {"complete", "cancelled"},
           event = "complete" => ChunksMatch, event = "cancelled" => sCancel \/ rCancel,
           TerminalMeansSettled
    PROVE  SentCaused /\ AnswersCaused /\ DeclineStays /\ (rpc' \in Undecided => rpc' = rpc) /\ ToldReceiver
<1>1. CASE Settled
  BY <1>1, CausedFrame DEF Finish, channelVars, ToldReceiver
<1>2. CASE ~Settled
  <2>1. ReceiverCloses(out) /\ rpc' = pc /\ rEvent' = event
    BY <1>2 DEF Finish, ReceiverSettles
  <2>2. SentCaused /\ AnswersCaused
    BY <2>1, ReceiverClosesTransit DEF SentCaused, AnswersCaused
  <2>3. DeclineStays
    BY <1>2, <2>1 DEF DeclineStays, Declined, Settled, ReceiverDone, ReceiverCloses
  <2>4. ReceiverOutcome' = IF pc = "failed" THEN "failed" ELSE event
    BY <2>1 DEF ReceiverOutcome, Settled, ReceiverDone, TerminalEvents
  <2>5. ToldReceiver
    BY <1>2, <2>4 DEF ToldReceiver, Promise!ReceiverEndings, TerminalMeansSettled
  <2> QED
    BY <2>1, <2>2, <2>3, <2>5 DEF Undecided
<1> QED
  BY <1>1, <1>2

LEMMA FailsCaused ==
    ASSUME TypeOK, TerminalMeansSettled,
           Finish("failed", rEvent, r2s) \/ (~Settled /\ ReceiverSettles("failed", rEvent, r2s))
    PROVE  SentCaused /\ AnswersCaused /\ DeclineStays /\ (rpc' \in Undecided => rpc' = rpc) /\ ToldReceiver
<1>1. CASE Settled
  BY <1>1, CausedFrame DEF Finish, channelVars, ToldReceiver
<1>2. CASE ~Settled
  <2>1. rEvent \notin {"complete", "cancelled"}
    BY <1>2 DEF TerminalMeansSettled, TerminalEvents
  <2> QED
    BY <2>1, FinishCaused DEF TypeOK, ChannelTypeOK
<1> QED
  BY <1>1, <1>2

-----------------------------------------------------------------------------
(* Every step of one attempt. *)

LEMMA StepSenderGetsAccept ==
    ASSUME TypeOK, VerifiedInv, TerminalMeansSettled, CauseInv, SenderGetsAccept
    PROVE  Caused /\ Told
<1>1. UNCHANGED <<receiverVars, userVars>> /\ FlagsCaused
  BY CausedFrame DEF SenderGetsAccept, receiverVars, taskVars
<1>2. SentCaused /\ AnswersCaused /\ link' = link /\ ToldSender
  BY TakeTransit, CausedFrame DEF SenderGetsAccept, SenderHears, AnswersCaused, TypeOK,
     ChannelTypeOK, ToldSender, SenderOutcome, SenderActive, SenderDone
<1> QED
  BY <1>1, <1>2, SenderCaused

LEMMA StepSenderGetsReject ==
    ASSUME TypeOK, VerifiedInv, TerminalMeansSettled, CauseInv, SenderGetsReject
    PROVE  Caused /\ Told
<1>1. UNCHANGED <<receiverVars, userVars>> /\ FlagsCaused
  BY CausedFrame DEF SenderGetsReject, receiverVars, taskVars
<1>2. Declined
  BY TakeTransit DEF SenderGetsReject, SenderHears, CauseInv, AnswerCause, TypeOK, ChannelTypeOK
<1>3. SentCaused /\ AnswersCaused /\ link' = link /\ SenderOutcome' = "rejected"
  BY SettlesCaused DEF SenderGetsReject, TypeOK, ChannelTypeOK
<1>4. ToldSender
  BY <1>2, <1>3 DEF SenderGetsReject, ToldSender, SenderActive, SenderDone, Promise!SenderEndings
<1> QED
  BY <1>1, <1>3, <1>4, SenderCaused

LEMMA StepSenderGetsAbort ==
    ASSUME TypeOK, VerifiedInv, TerminalMeansSettled, CauseInv, SenderGetsAbort
    PROVE  Caused /\ Told
<1>1. rCancel
  BY TakeTransit DEF SenderGetsAbort, SenderHears, CauseInv, AnswerCause, TypeOK, ChannelTypeOK
<1>2. UNCHANGED <<receiverVars, userVars>> /\ FlagsCaused
  BY <1>1 DEF SenderGetsAbort, FlagsCaused, receiverVars, taskVars
<1>3. SentCaused /\ AnswersCaused /\ link' = link /\ ToldSender
  <2>1. CASE spc \in {"accept", "verify"}
    <3>1. Bail(TRUE) /\ SenderActive
      BY <2>1 DEF SenderGetsAbort
    <3>2. rCancel'
      BY <1>1, <1>2 DEF receiverVars
    <3> QED
      BY <3>1, <3>2, BailCaused
  <2>2. CASE spc \notin {"accept", "verify"}
    BY <2>2, TakeTransit, CausedFrame DEF SenderGetsAbort, SenderHears, AnswersCaused, ToldSender,
       TypeOK, ChannelTypeOK
  <2> QED
    BY <2>1, <2>2
<1> QED
  BY <1>2, <1>3, SenderCaused

LEMMA StepSenderGetsVerified ==
    ASSUME TypeOK, VerifiedInv, TerminalMeansSettled, CauseInv, SenderGetsVerified
    PROVE  Caused /\ Told
<1>1. UNCHANGED <<receiverVars, userVars>> /\ FlagsCaused
  BY CausedFrame DEF SenderGetsVerified, receiverVars, taskVars
<1>2. Head(r2s).ok => ChunksMatch
  BY TakeTransit DEF SenderGetsVerified, SenderHears, VerifiedInv, VerdictMeansMatch, TypeOK,
     ChannelTypeOK
<1>3. SentCaused /\ AnswersCaused /\ link' = link /\ SenderOutcome' = IF Head(r2s).ok THEN "complete" ELSE "failed"
  <2>1. CASE Head(r2s).ok
    BY <2>1, SettlesCaused DEF SenderGetsVerified, TypeOK, ChannelTypeOK
  <2>2. CASE ~Head(r2s).ok
    BY <2>2, SettlesCaused DEF SenderGetsVerified, TypeOK, ChannelTypeOK
  <2> QED
    BY <2>1, <2>2
<1>4. ToldSender
  BY <1>2, <1>3 DEF SenderGetsVerified, ToldSender, SenderActive, SenderDone, Promise!SenderEndings
<1> QED
  BY <1>1, <1>3, <1>4, SenderCaused

LEMMA StepSenderGetsClose ==
    ASSUME TypeOK, VerifiedInv, TerminalMeansSettled, CauseInv, SenderGetsClose
    PROVE  Caused /\ Told
<1>1. UNCHANGED <<receiverVars, userVars>> /\ FlagsCaused
  BY CausedFrame DEF SenderGetsClose, receiverVars, taskVars, senderVars
<1>2. SentCaused /\ AnswersCaused /\ link' = link /\ ToldSender
  BY EmptyTransit, CausedFrame DEF SenderGetsClose, AnswersCaused, ToldSender, senderVars
<1> QED
  BY <1>1, <1>2, SenderCaused

LEMMA StepSenderTimeout ==
    ASSUME TypeOK, VerifiedInv, TerminalMeansSettled, CauseInv, SenderTimeout
    PROVE  Caused /\ Told
<1>1. UNCHANGED <<receiverVars, userVars>> /\ FlagsCaused
  BY CausedFrame DEF SenderTimeout, receiverVars, taskVars
<1>2. SentCaused /\ AnswersCaused /\ link' = link /\ ToldSender
  BY ThrowsCaused DEF SenderTimeout, SenderActive, SenderDone
<1> QED
  BY <1>1, <1>2, SenderCaused

LEMMA StepSenderReadError ==
    ASSUME TypeOK, VerifiedInv, TerminalMeansSettled, CauseInv, SenderReadError
    PROVE  Caused /\ Told
<1>1. UNCHANGED <<receiverVars, userVars>> /\ FlagsCaused
  BY CausedFrame DEF SenderReadError, receiverVars, taskVars
<1>2. SentCaused /\ AnswersCaused /\ link' = link /\ ToldSender
  BY ThrowsCaused DEF SenderReadError, SenderActive, SenderDone
<1> QED
  BY <1>1, <1>2, SenderCaused

LEMMA StepSenderReadChunk ==
    ASSUME TypeOK, VerifiedInv, TerminalMeansSettled, CauseInv, SenderReadChunk
    PROVE  Caused /\ Told
<1>1. UNCHANGED <<receiverVars, userVars>> /\ FlagsCaused
  BY CausedFrame DEF SenderReadChunk, receiverVars, taskVars
<1>2. SenderActive /\ UNCHANGED <<sCancel, rCancel>>
  BY DEF SenderReadChunk, SenderActive, SenderDone, receiverVars
<1>3. SentCaused /\ AnswersCaused /\ link' = link /\ ToldSender
  BY <1>2, LoopTopCaused, SendFrameCaused, CausedFrame DEF SenderReadChunk, channelVars, ToldSender,
     SenderOutcome, SenderActive, SenderDone
<1> QED
  BY <1>1, <1>3, SenderCaused

LEMMA StepSenderDrained ==
    ASSUME TypeOK, VerifiedInv, TerminalMeansSettled, CauseInv, SenderDrained
    PROVE  Caused /\ Told
<1>1. UNCHANGED <<receiverVars, userVars>> /\ FlagsCaused
  BY CausedFrame DEF SenderDrained, receiverVars, taskVars
<1>2. SenderActive /\ UNCHANGED <<sCancel, rCancel>>
  BY DEF SenderDrained, SenderActive, SenderDone, receiverVars
<1>3. SentCaused /\ AnswersCaused /\ link' = link /\ ToldSender
  BY <1>2, SendFrameCaused DEF SenderDrained
<1> QED
  BY <1>1, <1>3, SenderCaused

LEMMA StepSenderFinishHash ==
    ASSUME TypeOK, VerifiedInv, TerminalMeansSettled, CauseInv, SenderFinishHash
    PROVE  Caused /\ Told
<1>1. UNCHANGED <<receiverVars, userVars>> /\ FlagsCaused
  BY CausedFrame DEF SenderFinishHash, receiverVars, taskVars
<1>2. SentCaused /\ AnswersCaused /\ link' = link /\ ToldSender
  <2>1. CASE sOpen
    <3>1. SentCaused
      BY <2>1, PutTransit DEF SenderFinishHash, SentCaused, TypeOK, ChannelTypeOK
    <3> QED
      BY <2>1, <3>1, CausedFrame DEF SenderFinishHash, ToldSender, SenderOutcome, SenderActive,
         SenderDone
  <2>2. CASE ~sOpen
    BY <2>2, ThrowsCaused DEF SenderFinishHash, SenderActive, SenderDone
  <2> QED
    BY <2>1, <2>2
<1> QED
  BY <1>1, <1>2, SenderCaused

LEMMA StepSenderCancel ==
    ASSUME TypeOK, VerifiedInv, TerminalMeansSettled, CauseInv, SenderCancel
    PROVE  Caused /\ Told
<1>1. UNCHANGED <<receiverVars, userVars>> /\ FlagsCaused
  BY CausedFrame DEF SenderCancel, FlagsCaused, receiverVars, taskVars
<1>2. SentCaused /\ AnswersCaused /\ link' = link /\ ToldSender
  <2>1. CASE spc = "accept"
    BY <2>1, BailCaused DEF SenderCancel
  <2>2. CASE spc # "accept"
    BY <2>2, CausedFrame DEF SenderCancel, channelVars, ToldSender
  <2> QED
    BY <2>1, <2>2
<1> QED
  BY <1>1, <1>2, SenderCaused

LEMMA StepReceiverGetsOffer ==
    ASSUME TypeOK, VerifiedInv, TerminalMeansSettled, CauseInv, ReceiverGetsOffer
    PROVE  Caused /\ Told
<1>1. SentCaused
  BY TakeTransit DEF ReceiverGetsOffer, ReceiverHears, SentCaused, TypeOK, ChannelTypeOK
<1>2. DeclineStays /\ HashesStay /\ ReceiverOutcome' = ReceiverOutcome
  BY DEF ReceiverGetsOffer, DeclineStays, Declined, HashesStay, Undecided, progressVars, queueVars,
     ReceiverOutcome, Settled, ReceiverDone
<1> QED
  BY <1>1, <1>2, CausedFrame DEF ReceiverGetsOffer, Caused, Told, ToldSender, ToldReceiver,
     userVars, channelVars, receiverVars, queueVars, taskVars, progressVars, senderVars

LEMMA StepReceiverGetsAbort ==
    ASSUME TypeOK, VerifiedInv, TerminalMeansSettled, CauseInv, ReceiverGetsAbort
    PROVE  Caused /\ Told
<1>1. SentCaused
  BY TakeTransit DEF ReceiverGetsAbort, ReceiverHears, SentCaused, TypeOK, ChannelTypeOK
<1>2. sCancel
  BY TakeTransit DEF ReceiverGetsAbort, ReceiverHears, CauseInv, SentCause, TypeOK, ChannelTypeOK
<1>3. FlagsCaused
  BY <1>2 DEF ReceiverGetsAbort, FlagsCaused, senderVars
<1> QED
  BY <1>1, <1>2, <1>3, CausedFrame DEF ReceiverGetsAbort, Caused, Told, ToldSender, ToldReceiver,
     userVars, channelVars, receiverVars, queueVars, taskVars, progressVars, senderVars

LEMMA StepReceiverGetsFrame ==
    ASSUME TypeOK, VerifiedInv, TerminalMeansSettled, CauseInv, ReceiverGetsFrame
    PROVE  Caused /\ Told
<1>1. SentCaused
  BY TakeTransit DEF ReceiverGetsFrame, ReceiverHears, SentCaused, TypeOK, ChannelTypeOK
<1>2. HashesStay
  BY DEF ReceiverGetsFrame, HashesStay, Undecided
<1> QED
  BY <1>1, <1>2, CausedFrame DEF ReceiverGetsFrame, Caused, Told, ToldSender, ToldReceiver, userVars,
     channelVars, receiverVars, queueVars, taskVars, progressVars, senderVars

LEMMA StepSkipFrame ==
    ASSUME TypeOK, VerifiedInv, TerminalMeansSettled, CauseInv, SkipFrame
    PROVE  Caused /\ Told
<1>1. HashesStay
  BY DEF SkipFrame, HashesStay, CauseInv, FreshHashes
<1> QED
  BY <1>1, CausedFrame DEF SkipFrame, Caused, Told, ToldSender, ToldReceiver, userVars, channelVars,
     receiverVars, queueVars, taskVars, progressVars, senderVars

LEMMA StepStartWrite ==
    ASSUME TypeOK, VerifiedInv, TerminalMeansSettled, CauseInv, StartWrite
    PROVE  Caused /\ Told
  BY CausedFrame DEF StartWrite, Caused, Told, ToldSender, ToldReceiver, userVars, channelVars,
     receiverVars, queueVars, taskVars, progressVars, senderVars

LEMMA StepFrameWritten ==
    ASSUME TypeOK, VerifiedInv, TerminalMeansSettled, CauseInv, FrameWritten
    PROVE  Caused /\ Told
  BY CausedFrame DEF FrameWritten, Caused, Told, ToldSender, ToldReceiver, userVars, channelVars,
     receiverVars, queueVars, taskVars, progressVars, senderVars

LEMMA StepLinkFails ==
    ASSUME TypeOK, VerifiedInv, TerminalMeansSettled, CauseInv, LinkFails
    PROVE  Caused /\ Told
  BY CausedFrame DEF LinkFails, Caused, Told, ToldSender, ToldReceiver, DeclineStays, userVars,
     channelVars, receiverVars, queueVars, taskVars, progressVars, senderVars

LEMMA StepLocalAbortStart ==
    ASSUME TypeOK, VerifiedInv, TerminalMeansSettled, CauseInv, LocalAbortStart
    PROVE  Caused /\ Told
<1>1. FlagsCaused
  BY DEF LocalAbortStart, FlagsCaused, senderVars
<1> QED
  BY <1>1, CausedFrame DEF LocalAbortStart, Caused, Told, ToldSender, ToldReceiver, userVars,
     channelVars, receiverVars, queueVars, taskVars, progressVars, senderVars

LEMMA StepRemoteAbortStart ==
    ASSUME TypeOK, VerifiedInv, TerminalMeansSettled, CauseInv, RemoteAbortStart
    PROVE  Caused /\ Told
<1>1. FlagsCaused
  BY DEF RemoteAbortStart, FlagsCaused, senderVars
<1> QED
  BY <1>1, CausedFrame DEF RemoteAbortStart, Caused, Told, ToldSender, ToldReceiver, userVars,
     channelVars, receiverVars, queueVars, taskVars, progressVars, senderVars

LEMMA StepWriteFails ==
    ASSUME TypeOK, VerifiedInv, TerminalMeansSettled, CauseInv, WriteFails
    PROVE  Caused /\ Told
<1>1. SentCaused /\ AnswersCaused /\ DeclineStays /\ (rpc' \in Undecided => rpc' = rpc) /\ ToldReceiver
  BY FailsCaused, CausedFrame DEF WriteFails, ToldReceiver, channelVars
<1>2. HashesStay
  BY <1>1 DEF WriteFails, HashesStay, progressVars, queueVars, FrameIsDue, CauseInv, FreshHashes,
     TypeOK, QueueTypeOK
<1> QED
  BY <1>1, <1>2, CausedFrame DEF WriteFails, Caused, Told, ToldSender, ToldReceiver, userVars,
     channelVars, receiverVars, queueVars, taskVars, progressVars, senderVars

LEMMA StepReceiverOpenFails ==
    ASSUME TypeOK, VerifiedInv, TerminalMeansSettled, CauseInv, ReceiverOpenFails
    PROVE  Caused /\ Told
<1>1. ~Settled
  BY DEF ReceiverOpenFails, Settled, ReceiverDone
<1>2. SentCaused /\ AnswersCaused /\ DeclineStays /\ (rpc' \in Undecided => rpc' = rpc) /\ ToldReceiver
  BY <1>1, FailsCaused, CausedFrame DEF ReceiverOpenFails, ToldReceiver, channelVars
<1>3. HashesStay
  BY <1>2 DEF ReceiverOpenFails, HashesStay, progressVars, queueVars
<1> QED
  BY <1>1, <1>2, <1>3, CausedFrame DEF ReceiverOpenFails, Caused, Told, ToldSender, ToldReceiver,
     userVars, channelVars, receiverVars, queueVars, taskVars, progressVars, senderVars

LEMMA StepLocalAbortDone ==
    ASSUME TypeOK, VerifiedInv, TerminalMeansSettled, CauseInv, LocalAbortDone
    PROVE  Caused /\ Told
<1>1. rCancel
  BY DEF LocalAbortDone, CauseInv, FlagCause
<1>2. SentCaused /\ AnswersCaused /\ DeclineStays /\ (rpc' \in Undecided => rpc' = rpc) /\ ToldReceiver
  BY <1>1, FinishCaused, CausedFrame DEF LocalAbortDone, TerminalEvents, ToldReceiver, channelVars,
     TypeOK, ChannelTypeOK
<1>3. HashesStay
  BY <1>2 DEF LocalAbortDone, HashesStay, progressVars, queueVars
<1>4. FlagsCaused
  BY DEF LocalAbortDone, FlagsCaused, senderVars, taskVars
<1> QED
  BY <1>1, <1>2, <1>3, <1>4, CausedFrame DEF LocalAbortDone, Caused, Told, ToldSender, ToldReceiver,
     userVars, channelVars, receiverVars, queueVars, taskVars, progressVars, senderVars

LEMMA StepRemoteAbortDone ==
    ASSUME TypeOK, VerifiedInv, TerminalMeansSettled, CauseInv, RemoteAbortDone
    PROVE  Caused /\ Told
<1>1. sCancel
  BY DEF RemoteAbortDone, CauseInv, FlagCause
<1>2. SentCaused /\ AnswersCaused /\ DeclineStays /\ (rpc' \in Undecided => rpc' = rpc) /\ ToldReceiver
  BY <1>1, FinishCaused, CausedFrame DEF RemoteAbortDone, TerminalEvents, ToldReceiver, channelVars,
     TypeOK, ChannelTypeOK
<1>3. HashesStay
  BY <1>2 DEF RemoteAbortDone, HashesStay, progressVars, queueVars
<1>4. FlagsCaused
  BY DEF RemoteAbortDone, FlagsCaused, senderVars, taskVars
<1> QED
  BY <1>1, <1>2, <1>3, <1>4, CausedFrame DEF RemoteAbortDone, Caused, Told, ToldSender,
     ToldReceiver, userVars, channelVars, receiverVars, queueVars, taskVars, progressVars,
     senderVars

LEMMA StepVerifyStart ==
    ASSUME TypeOK, VerifiedInv, TerminalMeansSettled, CauseInv, VerifyStart
    PROVE  Caused /\ Told
<1>1. SentCaused /\ AnswersCaused /\ DeclineStays /\ (rpc' \in Undecided => rpc' = rpc) /\ ToldReceiver
  BY FailsCaused, CausedFrame DEF VerifyStart, ToldReceiver, channelVars
<1>2. HashesStay
  BY <1>1 DEF VerifyStart, HashesStay, progressVars, queueVars
<1>3. FinalizeCaused
  BY DEF VerifyStart, FinalizeCaused
<1> QED
  BY <1>1, <1>2, <1>3, CausedFrame DEF VerifyStart, Caused, Told, ToldSender, ToldReceiver,
     userVars, channelVars, receiverVars, queueVars, taskVars, progressVars, senderVars

LEMMA StepVerifyFinalized ==
    ASSUME TypeOK, VerifiedInv, TerminalMeansSettled, CauseInv, VerifyFinalized
    PROVE  Caused /\ Told
<1>1. ChunksMatch
  BY DEF VerifyFinalized, CauseInv, FinalizeCause
<1>2. SentCaused /\ AnswersCaused /\ DeclineStays /\ (rpc' \in Undecided => rpc' = rpc) /\ ToldReceiver
  BY <1>1, FinishCaused, CausedFrame DEF VerifyFinalized, TerminalEvents, ToldReceiver, channelVars,
     TypeOK, ChannelTypeOK
<1>3. HashesStay
  BY <1>2 DEF VerifyFinalized, HashesStay, progressVars, queueVars
<1>4. FinalizeCaused
  BY DEF VerifyFinalized, FinalizeCaused
<1> QED
  BY <1>1, <1>2, <1>3, <1>4, CausedFrame DEF VerifyFinalized, Caused, Told, ToldSender,
     ToldReceiver, userVars, channelVars, receiverVars, queueVars, taskVars, progressVars,
     senderVars

LEMMA StepFinalizeFails ==
    ASSUME TypeOK, VerifiedInv, TerminalMeansSettled, CauseInv, FinalizeFails
    PROVE  Caused /\ Told
<1>1. SentCaused /\ AnswersCaused /\ DeclineStays /\ (rpc' \in Undecided => rpc' = rpc) /\ ToldReceiver
  BY FailsCaused, CausedFrame DEF FinalizeFails, ToldReceiver, channelVars
<1>2. HashesStay
  BY <1>1 DEF FinalizeFails, HashesStay, progressVars, queueVars
<1>3. FinalizeCaused
  BY DEF FinalizeFails, FinalizeCaused
<1> QED
  BY <1>1, <1>2, <1>3, CausedFrame DEF FinalizeFails, Caused, Told, ToldSender, ToldReceiver,
     userVars, channelVars, receiverVars, queueVars, taskVars, progressVars, senderVars

LEMMA StepVerifyMismatchDone ==
    ASSUME TypeOK, VerifiedInv, TerminalMeansSettled, CauseInv, VerifyMismatchDone
    PROVE  Caused /\ Told
<1>1. SentCaused /\ AnswersCaused /\ DeclineStays /\ (rpc' \in Undecided => rpc' = rpc) /\ ToldReceiver
  BY FinishCaused, CausedFrame DEF VerifyMismatchDone, TerminalEvents, ToldReceiver, channelVars,
     TypeOK, ChannelTypeOK
<1>2. HashesStay
  BY <1>1 DEF VerifyMismatchDone, HashesStay, progressVars, queueVars
<1>3. FinalizeCaused
  BY DEF VerifyMismatchDone, FinalizeCaused
<1> QED
  BY <1>1, <1>2, <1>3, CausedFrame DEF VerifyMismatchDone, Caused, Told, ToldSender, ToldReceiver,
     userVars, channelVars, receiverVars, queueVars, taskVars, progressVars, senderVars

LEMMA StepReceiverGetsComplete ==
    ASSUME TypeOK, VerifiedInv, TerminalMeansSettled, CauseInv, ReceiverGetsComplete
    PROVE  Caused /\ Told
<1>1. SentCaused
  BY TakeTransit DEF ReceiverGetsComplete, ReceiverHears, SentCaused, TypeOK, ChannelTypeOK
<1>2. FinalizeCaused
  BY DEF ReceiverGetsComplete, FinalizeCaused
<1> QED
  BY <1>1, <1>2, CausedFrame DEF ReceiverGetsComplete, Caused, Told, ToldSender, ToldReceiver,
     userVars, channelVars, receiverVars, queueVars, taskVars, progressVars, senderVars

LEMMA StepVerifyDigest ==
    ASSUME TypeOK, VerifiedInv, TerminalMeansSettled, CauseInv, VerifyDigest
    PROVE  Caused /\ Told
<1> DEFINE told == Put(r2s, sOpen, [type |-> "verified", ok |-> HashesMatch])
<1>1. HashesMatch => ChunksMatch
  BY DEF VerifyDigest, VerifiedInv, VerdictOfSource, HashesMatch, ChunksMatch
<1>2. [type |-> "verified", ok |-> HashesMatch] \in ReceiverMessage
  BY DEF ReceiverMessage, HashesMatch
<1>3. told \in Seq(ReceiverMessage)
  BY <1>2, PutType DEF TypeOK, ChannelTypeOK
<1>4. \A m \in InTransit(told) : m \in InTransit(r2s) \/ m.type \notin {"abort", "reject"}
  BY PutTransit DEF TypeOK, ChannelTypeOK
<1>5. \/ Finish("failed", rEvent, r2s)
      \/ Finish("failed", rEvent, told)
      \/ r2s' = told /\ UNCHANGED <<rpc, rEvent, s2r, link>>
  BY DEF VerifyDigest
<1>6. FinalizeCaused /\ UNCHANGED <<senderVars, rCancel, rPending, lTask, aTask, hashes, queue, source>>
  BY <1>1 DEF VerifyDigest, FinalizeCaused, progressVars, queueVars, userVars
<1> HIDE DEF told
<1>7. SentCaused /\ AnswersCaused /\ DeclineStays /\ (rpc' \in Undecided => rpc' = rpc) /\ ToldReceiver
  <2>1. CASE Finish("failed", rEvent, r2s)
    BY <2>1, FinishCaused DEF TypeOK, ChannelTypeOK, TerminalEvents, TerminalMeansSettled, Finish,
       ToldReceiver
  <2>2. CASE Finish("failed", rEvent, told)
    BY <1>3, <1>4, <2>2, FinishCaused DEF TypeOK, TerminalEvents, TerminalMeansSettled, Finish,
       ToldReceiver
  <2>3. CASE r2s' = told /\ UNCHANGED <<rpc, rEvent, s2r, link>>
    BY <1>4, <2>3, CausedFrame DEF AnswersCaused, ToldReceiver
  <2> QED
    BY <1>5, <2>1, <2>2, <2>3
<1>8. HashesStay
  BY <1>6, <1>7 DEF HashesStay
<1> QED
  BY <1>6, <1>7, <1>8, CausedFrame DEF Caused, Told, ToldSender, senderVars

LEMMA StepFrameHashed ==
    ASSUME TypeOK, VerifiedInv, TerminalMeansSettled, CauseInv, FrameHashed
    PROVE  Caused /\ Told
<1>1. Head(queue).d = source
  BY TakeTransit DEF FrameHashed, VerifiedInv, QueuedOfSource, TypeOK, QueueTypeOK
<1>2. MatchStays
  BY <1>1 DEF FrameHashed, MatchStays, ChunksMatch, TypeOK, ReceiverTypeOK, Image, userVars
<1>3. DeclineStays /\ ReceiverOutcome' = ReceiverOutcome
  BY DEF FrameHashed, DeclineStays, Declined, TerminalEvents, channelVars, ReceiverOutcome,
     Settled, ReceiverDone
<1>4. HashesStay
  BY DEF FrameHashed, HashesStay, CauseInv, FreshHashes, TypeOK, QueueTypeOK
<1> QED
  BY <1>1, <1>2, <1>3, <1>4, CausedFrame DEF FrameHashed, Caused, Told, ToldSender, ToldReceiver,
     userVars, channelVars, receiverVars, queueVars, taskVars, progressVars, senderVars

LEMMA StepReceiverGetsClose ==
    ASSUME TypeOK, VerifiedInv, TerminalMeansSettled, CauseInv, ReceiverGetsClose
    PROVE  Caused /\ Told
<1>1. SentCaused
  BY EmptyTransit DEF ReceiverGetsClose, SentCaused
<1> QED
  BY <1>1, CausedFrame DEF ReceiverGetsClose, Caused, Told, ToldSender, ToldReceiver, userVars,
     channelVars, receiverVars, queueVars, taskVars, progressVars, senderVars

LEMMA StepReceiverCancel ==
    ASSUME TypeOK, VerifiedInv, TerminalMeansSettled, CauseInv, ReceiverCancel
    PROVE  Caused /\ Told
<1>1. AnswersCaused
  BY PutTransit DEF ReceiverCancel, AnswersCaused, TypeOK, ChannelTypeOK
<1>2. FlagsCaused
  BY DEF ReceiverCancel, FlagsCaused, senderVars
<1> QED
  BY <1>1, <1>2, CausedFrame DEF ReceiverCancel, Caused, Told, ToldSender, ToldReceiver, userVars,
     channelVars, receiverVars, queueVars, taskVars, progressVars, senderVars

LEMMA StepReceiverCrash ==
    ASSUME TypeOK, VerifiedInv, TerminalMeansSettled, CauseInv, ReceiverCrash
    PROVE  Caused /\ Told
<1>1. DeclineStays /\ FinalizeCaused /\ HashesStay
  BY DEF ReceiverCrash, DeclineStays, FinalizeCaused, HashesStay, Undecided
<1>2. FlagsCaused
  BY DEF ReceiverCrash, FlagsCaused, senderVars
<1>3. ToldReceiver
  BY DEF ReceiverCrash, ToldReceiver, TerminalEvents, ReceiverOutcome, Settled, ReceiverDone
<1> QED
  BY <1>1, <1>2, <1>3, CausedFrame DEF ReceiverCrash, Caused, Told, ToldSender, ToldReceiver,
     userVars, channelVars, receiverVars, queueVars, taskVars, progressVars, senderVars

LEMMA StepReceiverOpened ==
    ASSUME TypeOK, VerifiedInv, TerminalMeansSettled, CauseInv, ReceiverOpened
    PROVE  Caused /\ Told
<1>1. UNCHANGED <<senderVars, rCancel, rPending, hashes, aTask, vTask, source>>
  BY DEF ReceiverOpened, userVars
<1>2. ~Settled /\ (rPending => sCancel) /\ rpc' \notin Undecided
  BY DEF ReceiverOpened, Settled, ReceiverDone, CauseInv, FlagCause, ReceiverSettles, Undecided
<1>3. FlagsCaused
  BY <1>1 DEF ReceiverOpened, FlagsCaused, senderVars
<1>4. CASE rPending \/ ~rOpen
  <2>1. \/ rPending /\ ReceiverSettles("returned", "cancelled", r2s)
        \/ ReceiverSettles("failed", rEvent, r2s)
    BY <1>4 DEF ReceiverOpened
  <2>2. SentCaused /\ AnswersCaused /\ DeclineStays /\ ToldReceiver
    BY <1>2, <2>1, FinishCaused DEF TypeOK, ChannelTypeOK, TerminalEvents, TerminalMeansSettled
  <2> QED
    BY <1>1, <1>2, <1>3, <2>2, CausedFrame DEF Caused, Told, ToldSender, HashesStay, senderVars
<1>5. CASE ~rPending /\ rOpen
  <2> DEFINE reply == [type |-> "accept", from |-> ResumeFromChunk(received)]
             accepted == Put(r2s, sOpen, reply)
  <2>1. reply \in ReceiverMessage
    BY ResumeFromChunkCorrect DEF ReceiverMessage, TypeOK, ReceiverTypeOK
  <2>2. accepted \in Seq(ReceiverMessage) /\ InTransit(accepted) \subseteq InTransit(r2s) \cup {reply}
    BY <2>1, PutType, PutTransit DEF TypeOK, ChannelTypeOK
  <2>3. r2s' = IF rCancel THEN Put(accepted, sOpen, [type |-> "abort"]) ELSE accepted
    BY <1>5 DEF ReceiverOpened
  <2>4. \A m \in InTransit(r2s') : m \in InTransit(r2s) \/ m = reply \/ (rCancel /\ m = [type |-> "abort"])
    <3> HIDE DEF accepted, reply
    <3> QED
      BY <2>2, <2>3, PutTransit
  <2>5. AnswersCaused
    BY <1>1, <2>4 DEF AnswersCaused
  <2>6. UNCHANGED <<s2r, link>> /\ DeclineStays /\ ReceiverOutcome' = ReceiverOutcome
    BY <1>5 DEF ReceiverOpened, DeclineStays, Declined, ReceiverOutcome, Settled, ReceiverDone
  <2> QED
    BY <1>1, <1>2, <1>3, <2>5, <2>6, CausedFrame DEF Caused, Told, ToldSender, ToldReceiver,
       HashesStay, senderVars
<1> QED
  BY <1>4, <1>5

LEMMA StepReceiverDecide ==
    ASSUME TypeOK, VerifiedInv, TerminalMeansSettled, CauseInv, ReceiverDecide
    PROVE  Caused /\ Told
<1>1. UNCHANGED <<senderVars, rCancel, rPending, lTask, aTask, vTask, source>>
  BY DEF ReceiverDecide, taskVars, userVars
<1>2. ~Settled /\ (rPending => sCancel) /\ rEvent \notin TerminalEvents /\ ~Declined
  BY DEF ReceiverDecide, Settled, ReceiverDone, CauseInv, FlagCause, TerminalMeansSettled, Declined
<1>3. MatchStays
  <2>1. hashes = Blank
    BY DEF ReceiverDecide, CauseInv, FreshHashes, Undecided
  <2>2. Chunks = {} \/ ~ChunksMatch
    BY <2>1, ContentsAssumption DEF ChunksMatch, Blank, TypeOK, UserTypeOK
  <2> QED
    BY <1>1, <2>2 DEF MatchStays, ChunksMatch
<1> DEFINE refused == Put(r2s, sOpen, [type |-> "reject"])
<1>4. refused \in Seq(ReceiverMessage) /\ InTransit(refused) \subseteq InTransit(r2s) \cup {[type |-> "reject"]}
  BY PutType, PutTransit, CloseMessages DEF TypeOK, ChannelTypeOK
<1>5. \/ rPending /\ ReceiverSettles("returned", "cancelled", r2s)
      \/ ReceiverSettles("failed", rEvent, r2s)
      \/ ReceiverSettles("returned", rEvent, refused)
      \/ rpc' = "open" /\ UNCHANGED <<rEvent, channelVars>>
  BY DEF ReceiverDecide
<1> HIDE DEF refused
<1>6. rpc' \notin Undecided
  BY <1>5 DEF ReceiverSettles, Undecided
<1>7. SentCaused /\ AnswersCaused /\ DeclineStays /\ ToldReceiver
  <2>1. CASE rPending /\ ReceiverSettles("returned", "cancelled", r2s)
    BY <1>2, <2>1, FinishCaused DEF TypeOK, ChannelTypeOK, TerminalEvents
  <2>2. CASE ReceiverSettles("failed", rEvent, r2s)
    BY <1>2, <2>2, FinishCaused DEF TypeOK, ChannelTypeOK, TerminalEvents
  <2>3. CASE ReceiverSettles("returned", rEvent, refused)
    <3>1. ReceiverCloses(refused) /\ rpc' = "returned" /\ rEvent' = rEvent
      BY <2>3 DEF ReceiverSettles
    <3>2. Declined' /\ ReceiverOutcome' = "declined" /\ link' = link
      BY <1>2, <3>1 DEF Declined, ReceiverOutcome, Settled, ReceiverDone, ReceiverCloses
    <3>3. SentCaused /\ AnswersCaused
      BY <1>4, <3>1, <3>2, ReceiverClosesTransit DEF SentCaused, AnswersCaused
    <3> QED
      BY <1>2, <3>2, <3>3 DEF DeclineStays, ToldReceiver, Promise!ReceiverEndings
  <2>4. CASE rpc' = "open" /\ UNCHANGED <<rEvent, channelVars>>
    BY <1>2, <2>4, CausedFrame DEF channelVars, DeclineStays, ToldReceiver, ReceiverOutcome,
       Settled, ReceiverDone
  <2> QED
    BY <1>5, <2>1, <2>2, <2>3, <2>4
<1> QED
  BY <1>1, <1>3, <1>6, <1>7, CausedFrame DEF Caused, Told, ToldSender, HashesStay, senderVars

LEMMA StepsCaused ==
    ASSUME TypeOK, VerifiedInv, TerminalMeansSettled, CauseInv, Next, ~StartTransfer
    PROVE  Caused /\ Told
<1>1. CASE SenderGetsAccept
  BY <1>1, StepSenderGetsAccept
<1>2. CASE SenderGetsReject
  BY <1>2, StepSenderGetsReject
<1>3. CASE SenderGetsAbort
  BY <1>3, StepSenderGetsAbort
<1>4. CASE SenderGetsVerified
  BY <1>4, StepSenderGetsVerified
<1>5. CASE SenderGetsClose
  BY <1>5, StepSenderGetsClose
<1>6. CASE SenderTimeout
  BY <1>6, StepSenderTimeout
<1>7. CASE SenderReadError
  BY <1>7, StepSenderReadError
<1>8. CASE SenderReadChunk
  BY <1>8, StepSenderReadChunk
<1>9. CASE SenderDrained
  BY <1>9, StepSenderDrained
<1>10. CASE SenderFinishHash
  BY <1>10, StepSenderFinishHash
<1>11. CASE SenderCancel
  BY <1>11, StepSenderCancel
<1>12. CASE ReceiverGetsOffer
  BY <1>12, StepReceiverGetsOffer
<1>13. CASE ReceiverGetsAbort
  BY <1>13, StepReceiverGetsAbort
<1>14. CASE ReceiverGetsFrame
  BY <1>14, StepReceiverGetsFrame
<1>15. CASE SkipFrame
  BY <1>15, StepSkipFrame
<1>16. CASE StartWrite
  BY <1>16, StepStartWrite
<1>17. CASE FrameWritten
  BY <1>17, StepFrameWritten
<1>18. CASE LinkFails
  BY <1>18, StepLinkFails
<1>19. CASE LocalAbortStart
  BY <1>19, StepLocalAbortStart
<1>20. CASE RemoteAbortStart
  BY <1>20, StepRemoteAbortStart
<1>21. CASE WriteFails
  BY <1>21, StepWriteFails
<1>22. CASE ReceiverOpenFails
  BY <1>22, StepReceiverOpenFails
<1>23. CASE LocalAbortDone
  BY <1>23, StepLocalAbortDone
<1>24. CASE RemoteAbortDone
  BY <1>24, StepRemoteAbortDone
<1>25. CASE VerifyStart
  BY <1>25, StepVerifyStart
<1>26. CASE VerifyFinalized
  BY <1>26, StepVerifyFinalized
<1>27. CASE FinalizeFails
  BY <1>27, StepFinalizeFails
<1>28. CASE VerifyMismatchDone
  BY <1>28, StepVerifyMismatchDone
<1>29. CASE ReceiverGetsComplete
  BY <1>29, StepReceiverGetsComplete
<1>30. CASE VerifyDigest
  BY <1>30, StepVerifyDigest
<1>31. CASE FrameHashed
  BY <1>31, StepFrameHashed
<1>32. CASE ReceiverGetsClose
  BY <1>32, StepReceiverGetsClose
<1>33. CASE ReceiverCancel
  BY <1>33, StepReceiverCancel
<1>34. CASE ReceiverCrash
  BY <1>34, StepReceiverCrash
<1>35. CASE ReceiverOpened
  BY <1>35, StepReceiverOpened
<1>36. CASE ReceiverDecide
  BY <1>36, StepReceiverDecide
<1> QED
  BY <1>1, <1>2, <1>3, <1>4, <1>5, <1>6, <1>7, <1>8, <1>9, <1>10, <1>11, <1>12, <1>13, <1>14, <1>15,
     <1>16, <1>17, <1>18, <1>19, <1>20, <1>21, <1>22, <1>23, <1>24, <1>25, <1>26, <1>27, <1>28,
     <1>29, <1>30, <1>31, <1>32, <1>33, <1>34, <1>35, <1>36 DEF Next, SenderStep, ReceiverStep,
     UserStep, Fault

-----------------------------------------------------------------------------
(* A new attempt, and the theorem. *)

LEMMA StartCaused == ASSUME TypeOK, CauseInv, StartTransfer PROVE CauseInv'
<1>1. InTransit(s2r') = {[type |-> "offer"]} /\ InTransit(r2s') = {}
  BY EmptyTransit DEF StartTransfer, InTransit
<1>2. lTask' = "none" /\ aTask' = "none" /\ vTask' = "none"
  BY DEF StartTransfer, ReceiverQuiescent, taskVars
<1>3. ~sRemote' /\ ~rPending' /\ hashes' = Blank /\ queue' = <<>>
  BY DEF StartTransfer, ReceiverQuiescent, queueVars
<1> QED
  BY <1>1, <1>2, <1>3 DEF CauseInv, SentCause, AnswerCause, FlagCause, FinalizeCause, FreshHashes

\* The first state, the beginning of an attempt and every step of one are what the
\* abstract specification allows.
LEMMA PromiseInit == Init => Promise!Init
  BY DEF Init, Promise!Init, SenderOutcome, SenderActive, SenderDone, ReceiverOutcome, Settled,
     ReceiverDone

LEMMA PromiseBegin == ASSUME TypeOK, StartTransfer PROVE Promise!Begin
<1>1. SenderOutcome # "running"
  BY DEF StartTransfer, SenderOutcome, SenderActive, TypeOK, SenderTypeOK, TerminalEvents
<1>2. SenderOutcome' = "running" /\ ReceiverOutcome' = "running"
  BY DEF StartTransfer, SenderOutcome, SenderActive, SenderDone, ReceiverOutcome, Settled, ReceiverDone
<1>3. (sCancel \/ rCancel)' = FALSE
  BY DEF StartTransfer
<1> QED
  BY <1>1, <1>2, <1>3 DEF Promise!Begin

LEMMA PromiseStep ==
    ASSUME TypeOK, TypeOK', Caused, Told
    PROVE  Promise!Next
<1>1. Promise!Goes
  BY DEF Caused, FlagsCaused, MatchStays, ChunksMatch, Promise!Goes, TypeOK, SenderTypeOK, ReceiverTypeOK
<1>2. ~Settled => ReceiverOutcome = "running"
  BY DEF ReceiverOutcome
<1>3. SenderActive => SenderOutcome = "running"
  BY DEF SenderOutcome
<1>4. Declined => ReceiverOutcome = "declined"
  BY DEF Declined, ReceiverOutcome, Settled, ReceiverDone
<1>5. CASE SenderOutcome' = SenderOutcome /\ ReceiverOutcome' = ReceiverOutcome
  BY <1>1, <1>5 DEF Promise!Next, Promise!Proceed
<1>6. CASE SenderOutcome' # SenderOutcome /\ ReceiverOutcome' = ReceiverOutcome
  BY <1>1, <1>3, <1>4, <1>6 DEF Told, ToldSender, ChunksMatch, Promise!Next, Promise!SenderIsTold
<1>7. CASE SenderOutcome' = SenderOutcome /\ ReceiverOutcome' # ReceiverOutcome
  BY <1>1, <1>2, <1>7 DEF Told, ToldReceiver, ChunksMatch, Promise!Next, Promise!ReceiverIsTold,
     Promise!ReceiverDies
<1> QED
  BY <1>5, <1>6, <1>7 DEF Told

RefinementInv == TypeOK /\ VerifiedInv /\ TerminalMeansSettled /\ CauseInv

LEMMA RefinementNext == RefinementInv /\ [Next]_vars => RefinementInv' /\ [Promise!Next]_(Promise!vars)
<1> SUFFICES ASSUME RefinementInv, [Next]_vars PROVE RefinementInv' /\ [Promise!Next]_(Promise!vars)
  OBVIOUS
<1>1. TypeOK' /\ VerifiedInv' /\ TerminalMeansSettled'
  BY TypeNext, VerifiedNext, TerminalNext DEF RefinementInv
<1>2. CASE StartTransfer
  BY <1>1, <1>2, StartCaused, PromiseBegin DEF RefinementInv, Promise!Next
<1>3. CASE Next /\ ~StartTransfer
  <2>1. Caused /\ Told
    BY <1>3, StepsCaused DEF RefinementInv
  <2> QED
    BY <1>1, <2>1, CausedKeeps, PromiseStep DEF RefinementInv
<1>4. CASE UNCHANGED vars
  <2>1. Caused
    BY <1>4, CausedFrame DEF Caused, vars, senderVars, receiverVars, progressVars, queueVars,
       taskVars, channelVars, userVars
  <2>2. UNCHANGED <<SenderOutcome, ReceiverOutcome, sCancel, rCancel, hashes, source>>
    BY <1>4, CausedFrame DEF vars, senderVars, receiverVars, progressVars, userVars
  <2>3. UNCHANGED Promise!vars
    BY <2>2 DEF Promise!vars
  <2> QED
    BY <1>1, <2>1, <2>3, CausedKeeps DEF RefinementInv
<1> QED
  BY <1>2, <1>3, <1>4

\* sendFile and receiveFile implement Transfer: "complete" is only told of a file that
\* is verified, "rejected" only when the other human has declined, "cancelled" only when
\* a human has cancelled, and nobody is told twice, whatever is lost, late or crashes.
THEOREM TransferImplemented == Spec => KeepsPromise
<1>1. Init => RefinementInv /\ Promise!Init
  BY TypeInit, VerifiedInit, CauseInit, PromiseInit DEF RefinementInv, Init, TerminalMeansSettled,
     TerminalEvents
<1>2. RefinementInv /\ [Next]_vars => RefinementInv' /\ [Promise!Next]_(Promise!vars)
  BY RefinementNext
<1> QED
  BY <1>1, <1>2, PTL DEF Spec, KeepsPromise, Promise!Spec
=============================================================================
