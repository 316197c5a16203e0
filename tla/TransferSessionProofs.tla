----------------------- MODULE TransferSessionProofs -----------------------
(***************************************************************************)
(* Theorems about TransferSession, for every number of chunks, set of      *)
(* contents, choice of writers, checkpoint interval and watermark.         *)
(***************************************************************************)
EXTENDS TransferSession, WellFoundedInduction, FiniteSetTheorems, TLAPS

USE ContentsAssumption, ChunksAssumption, KindsAssumption, LimitsAssumption

-----------------------------------------------------------------------------
(* Helpers: disks, the resume offset, sequences. *)

\* Every operation of a writer maps a disk to a disk.
LEMMA WriterTypes ==
    ASSUME NEW k, NEW w, NEW d \in Disk
    PROVE  /\ Opened(k, d) \in Disk
           /\ Aborted(k, w, d) \in Disk
           /\ Finalized(k, w, d) \in Disk
           /\ Restarted(k, d) \in Disk
<1>1. Blank \in Image
  BY DEF Blank, Image, Datum
<1>2. Opened(k, d) \in Disk
  BY <1>1 DEF Opened, Disk
<1>3. Aborted(k, w, d) \in Disk
  BY <1>1 DEF Aborted, Disk
<1>4. Finalized(k, w, d) \in Disk
  BY <1>1 DEF Finalized, Disk
<1>5. Restarted(k, d) \in Disk
  BY <1>1 DEF Restarted, Disk
<1> QED
  BY <1>2, <1>3, <1>4, <1>5

LEMMA WroteType ==
    ASSUME NEW k, NEW d \in Disk, NEW i \in Chunks, NEW x \in Datum
    PROVE  Wrote(k, d, i, x) \in Disk
  BY DEF Wrote, Disk, Image

LEMMA NoEntryType == NoEntry \in ResumeState
  BY DEF NoEntry, ResumeState, Blank, Image, Datum

\* Appending and taking keep a channel's type.
LEMMA PutType ==
    ASSUME NEW S, NEW ch \in Seq(S), NEW m \in S, NEW toOpen \in BOOLEAN
    PROVE  Put(ch, toOpen, m) \in Seq(S)
  BY DEF Put

LEMMA TakeType ==
    ASSUME NEW S, NEW ch \in Seq(S), ch # <<>>
    PROVE  Head(ch) \in S /\ Tail(ch) \in Seq(S)
  OBVIOUS

LEMMA EmptyType == ASSUME NEW S PROVE <<>> \in Seq(S)
  OBVIOUS

LEMMA CloseMessages ==
    /\ [type |-> "close"] \in SenderMessage /\ [type |-> "close"] \in ReceiverMessage
    /\ [type |-> "abort"] \in SenderMessage /\ [type |-> "abort"] \in ReceiverMessage
    /\ [type |-> "offer"] \in SenderMessage /\ [type |-> "reject"] \in ReceiverMessage
  BY DEF SenderMessage, ReceiverMessage

\* A nonempty set of natural numbers has a least element.
LEMMA LeastElement ==
    ASSUME NEW T \in SUBSET Nat, T # {}
    PROVE  \E x \in T : \A y \in T : x <= y
<1> DEFINE R == OpToRel(<, Nat)
<1>1. IsWellFoundedOn(R, Nat)
  BY NatLessThanWellFounded
<1>2. \A x, y \in Nat : x < y => <<x, y>> \in R
  BY DEF OpToRel
<1> HIDE DEF R
<1>3. PICK x \in T : \A y \in T : ~ (<<y, x>> \in R)
  BY <1>1, WFMin
<1>4. \A y \in T : ~(y < x)
  BY <1>2, <1>3
<1>5. \A y \in T : x <= y
  BY <1>4
<1> QED
  BY <1>5

\* resumeFromChunk returns the length of the longest prefix of received chunks:
\* every chunk before it is there, the chunk at it is not.
THEOREM ResumeFromChunkCorrect ==
    ASSUME NEW S \in SUBSET Chunks
    PROVE  /\ ResumeFromChunk(S) \in 0 .. TotalChunks
           /\ \A i \in Chunks : i < ResumeFromChunk(S) => i \in S
           /\ ResumeFromChunk(S) \notin S
<1> DEFINE T == {n \in 0 .. TotalChunks : n \notin S}
<1>1. TotalChunks \in T /\ T \in SUBSET Nat
  BY DEF Chunks
<1>2. PICK n \in T : \A m \in T : n <= m
  BY <1>1, LeastElement
<1>3. \A i \in Chunks : i < n => i \in S
  BY <1>2 DEF Chunks
<1>4. \E k \in 0 .. TotalChunks : (\A i \in Chunks : i < k => i \in S) /\ k \notin S
  BY <1>2, <1>3
<1> QED
  BY <1>4 DEF ResumeFromChunk

-----------------------------------------------------------------------------
(* Type correctness. *)

LEMMA TypeInit == Init => TypeOK
<1> SUFFICES ASSUME Init PROVE TypeOK
  OBVIOUS
<1> USE DEF Init
<1>1. SenderTypeOK
  <2>1. sIdx \in 0 .. TotalChunks /\ sFrom \in 0 .. TotalChunks
    OBVIOUS
  <2>2. sEvent \in {"none", "progress"} \cup TerminalEvents
    OBVIOUS
  <2>3. sCancel \in BOOLEAN /\ sRemote \in BOOLEAN
    OBVIOUS
  <2>4. spc = "idle"
    OBVIOUS
  <2> QED
    BY <2>1, <2>2, <2>3, <2>4 DEF SenderTypeOK
<1>2. Blank \in Image
  BY DEF Blank, Image, Datum
<1>3. ReceiverTypeOK
  BY <1>2 DEF ReceiverTypeOK
<1>4. QueueTypeOK /\ TaskTypeOK
  BY EmptyType DEF QueueTypeOK, TaskTypeOK
<1>5. WriterTypeOK
  BY <1>2 DEF WriterTypeOK, WriterStates, EmptyDisk, Disk, NoEntry, ResumeState
<1>6. ChannelTypeOK /\ UserTypeOK
  BY EmptyType DEF ChannelTypeOK, UserTypeOK
<1> QED
  BY <1>1, <1>3, <1>4, <1>5, <1>6 DEF TypeOK

\* What sendFile's channel operations do to the types.
LEMMA SenderSettlesType ==
    ASSUME TypeOK, NEW out \in Seq(SenderMessage), SenderCloses(out)
    PROVE  ChannelTypeOK'
<1>1. s2r' \in Seq(SenderMessage)
  BY CloseMessages, PutType DEF SenderCloses, TypeOK, ChannelTypeOK
<1>2. r2s' \in Seq(ReceiverMessage)
  BY EmptyType DEF SenderCloses
<1>3. sOpen' \in BOOLEAN /\ rOpen' \in BOOLEAN /\ link' \in BOOLEAN
  BY DEF SenderCloses, TypeOK, ChannelTypeOK
<1> QED
  BY <1>1, <1>2, <1>3 DEF ChannelTypeOK

LEMMA ReceiverSettlesType ==
    ASSUME TypeOK, NEW out \in Seq(ReceiverMessage), ReceiverCloses(out)
    PROVE  ChannelTypeOK'
<1>1. r2s' \in Seq(ReceiverMessage)
  BY CloseMessages, PutType DEF ReceiverCloses, TypeOK, ChannelTypeOK
<1>2. s2r' \in Seq(SenderMessage)
  BY EmptyType DEF ReceiverCloses, TypeOK, ChannelTypeOK
<1>3. sOpen' \in BOOLEAN /\ rOpen' \in BOOLEAN /\ link' \in BOOLEAN
  BY DEF ReceiverCloses, TypeOK, ChannelTypeOK
<1> QED
  BY <1>1, <1>2, <1>3 DEF ChannelTypeOK

LEMMA FinishType ==
    ASSUME TypeOK, NEW out \in Seq(ReceiverMessage), NEW pc \in {"returned", "failed"},
           NEW event \in {rEvent} \cup TerminalEvents, Finish(pc, event, out)
    PROVE  /\ ChannelTypeOK'
           /\ rpc' \in {"idle", "offer", "confirm", "open", "loop", "returned", "failed", "crashed"}
           /\ rEvent' \in {"none", "progress"} \cup TerminalEvents
<1>1. CASE Settled
  BY <1>1 DEF Finish, TypeOK, ChannelTypeOK, ReceiverTypeOK, channelVars
<1>2. CASE ~Settled
  BY <1>2, ReceiverSettlesType DEF Finish, ReceiverSettles, TypeOK, ReceiverTypeOK
<1> QED
  BY <1>1, <1>2

\* A step that leaves the variables of a part alone keeps its type.
LEMMA TypeFrame ==
    ASSUME TypeOK
    PROVE  /\ UNCHANGED senderVars => SenderTypeOK'
           /\ UNCHANGED <<rpc, rCancel, rPending, rEvent, progressVars>> => ReceiverTypeOK'
           /\ UNCHANGED queueVars => QueueTypeOK'
           /\ UNCHANGED taskVars => TaskTypeOK'
           /\ UNCHANGED <<writerVars, store>> => WriterTypeOK'
           /\ UNCHANGED channelVars => ChannelTypeOK'
           /\ UNCHANGED userVars => UserTypeOK'
  BY DEF TypeOK, SenderTypeOK, ReceiverTypeOK, QueueTypeOK, TaskTypeOK, WriterTypeOK, ChannelTypeOK,
         UserTypeOK, senderVars, progressVars, queueVars, taskVars, writerVars, channelVars, userVars

\* The first frame of the queue is one of the file's, and removing it keeps the
\* types.
LEMMA PopFrameType ==
    ASSUME TypeOK, queue # <<>>
    PROVE  /\ Head(queue).i \in Chunks /\ Head(queue).d \in Contents
           /\ PopFrame => QueueTypeOK' /\ lWait' \in Nat
<1>1. Head(queue) \in Frame /\ Tail(queue) \in Seq(Frame)
  BY TakeType DEF TypeOK, QueueTypeOK
<1>2. Head(queue).i \in Chunks /\ Head(queue).d \in Contents
  BY <1>1 DEF Frame
<1>3. PopFrame => QueueTypeOK' /\ lWait' \in Nat
  BY <1>1 DEF PopFrame, QueueTypeOK, TypeOK, TaskTypeOK
<1> QED
  BY <1>2, <1>3

\* What a received message carries has the type its kind promises.
LEMMA SenderMessageFields ==
    ASSUME NEW m \in SenderMessage
    PROVE  /\ m.type = "frame" => m.i \in Chunks /\ m.d \in Contents
           /\ m.type = "complete" => m.h \in Contents
  BY DEF SenderMessage

LEMMA ReceiverMessageFields ==
    ASSUME NEW m \in ReceiverMessage
    PROVE  /\ m.type = "accept" => m.from \in 0 .. TotalChunks
           /\ m.type = "verified" => m.ok \in BOOLEAN
  BY DEF ReceiverMessage

\* bailIfCancelled, the loop top and the sending of a frame keep the types.
LEMMA BailType ==
    ASSUME TypeOK, NEW remote \in BOOLEAN, Bail(remote)
    PROVE  /\ ChannelTypeOK' /\ spc' \in {"returned", "failed"}
           /\ sEvent' \in {"none", "progress"} \cup TerminalEvents
<1>1. Put(s2r, rOpen, [type |-> "abort"]) \in Seq(SenderMessage)
  BY PutType, CloseMessages DEF TypeOK, ChannelTypeOK
<1>2. ChannelTypeOK'
  BY <1>1, SenderSettlesType DEF Bail, SenderSettles, SenderThrows, TypeOK, ChannelTypeOK
<1>3. spc' \in {"returned", "failed"} /\ sEvent' \in {"none", "progress"} \cup TerminalEvents
  BY DEF Bail, SenderSettles, SenderThrows, TypeOK, SenderTypeOK, TerminalEvents
<1> QED
  BY <1>2, <1>3

LEMMA LoopTopType ==
    ASSUME TypeOK, NEW i \in 0 .. TotalChunks, LoopTop(i), UNCHANGED <<sFrom, sCancel, sRemote>>
    PROVE  SenderTypeOK' /\ ChannelTypeOK'
<1>1. CASE sCancel \/ sRemote
  BY <1>1, BailType DEF LoopTop, TypeOK, SenderTypeOK
<1>2. CASE ~(sCancel \/ sRemote)
  BY <1>2 DEF LoopTop, TypeOK, SenderTypeOK, ChannelTypeOK, channelVars
<1> QED
  BY <1>1, <1>2

LEMMA SendFrameType ==
    ASSUME TypeOK, spc \in {"read", "drain"}, SendFrame, UNCHANGED <<sFrom, sCancel, sRemote>>
    PROVE  SenderTypeOK' /\ ChannelTypeOK'
<1>1. CASE sCancel \/ sRemote
  BY <1>1, BailType DEF SendFrame, TypeOK, SenderTypeOK
<1>2. CASE ~(sCancel \/ sRemote) /\ ~sOpen
  BY <1>2, SenderSettlesType DEF SendFrame, SenderThrows, SenderSettles, TypeOK, SenderTypeOK, ChannelTypeOK
<1>3. CASE ~(sCancel \/ sRemote) /\ sOpen
  <2>1. sIdx \in Chunks
    BY DEF Chunks, TypeOK, SenderTypeOK
  <2>2. [type |-> "frame", i |-> sIdx, d |-> source] \in SenderMessage
    BY <2>1 DEF SenderMessage, TypeOK, UserTypeOK
  <2>3. ChannelTypeOK'
    BY <1>3, <2>2, PutType DEF SendFrame, TypeOK, ChannelTypeOK
  <2>4. SenderTypeOK'
    BY <1>3, <2>1 DEF SendFrame, TypeOK, SenderTypeOK, Chunks
  <2> QED
    BY <2>3, <2>4
<1> QED
  BY <1>1, <1>2, <1>3

LEMMA TypeNext == TypeOK /\ [Next]_vars => TypeOK'
<1> SUFFICES ASSUME TypeOK, [Next]_vars PROVE TypeOK'
  OBVIOUS
<1>1. CASE SenderGetsAccept
  <2>1. SenderTypeOK'
    BY <1>1, TakeType, ReceiverMessageFields DEF SenderGetsAccept, SenderHears, TypeOK,
       SenderTypeOK, ChannelTypeOK, TerminalEvents
  <2>2. ChannelTypeOK'
    BY <1>1, TakeType DEF SenderGetsAccept, ReceiverHears, SenderHears, TypeOK, ChannelTypeOK
  <2> QED
    BY <1>1, <2>1, <2>2, TypeFrame DEF SenderGetsAccept, TypeOK, receiverVars, progressVars,
       queueVars, taskVars, writerVars, userVars
<1>2. CASE SenderGetsReject
  <2>1. SenderTypeOK'
    BY <1>2 DEF SenderGetsReject, SenderSettles, SenderThrows, TypeOK, SenderTypeOK, TerminalEvents
  <2>2. ChannelTypeOK'
    BY <1>2, SenderSettlesType DEF SenderGetsReject, SenderSettles, SenderThrows, TypeOK,
       ChannelTypeOK
  <2> QED
    BY <1>2, <2>1, <2>2, TypeFrame DEF SenderGetsReject, TypeOK, receiverVars, progressVars,
       queueVars, taskVars, writerVars, userVars
<1>3. CASE SenderGetsAbort
  <2>1. SenderTypeOK'
    BY <1>3 DEF SenderGetsAbort, Bail, SenderSettles, SenderThrows, TypeOK, SenderTypeOK,
       TerminalEvents
  <2>2. ChannelTypeOK'
    BY <1>3, TakeType, SenderSettlesType DEF SenderGetsAbort, SenderHears, Bail, SenderSettles,
       SenderThrows, TypeOK, ChannelTypeOK
  <2> QED
    BY <1>3, <2>1, <2>2, TypeFrame DEF SenderGetsAbort, TypeOK, receiverVars, progressVars,
       queueVars, taskVars, writerVars, userVars
<1>4. CASE SenderGetsVerified
  <2>1. SenderTypeOK'
    BY <1>4 DEF SenderGetsVerified, SenderSettles, SenderThrows, TypeOK, SenderTypeOK,
       TerminalEvents
  <2>2. ChannelTypeOK'
    BY <1>4, SenderSettlesType DEF SenderGetsVerified, SenderSettles, SenderThrows, TypeOK,
       ChannelTypeOK
  <2> QED
    BY <1>4, <2>1, <2>2, TypeFrame DEF SenderGetsVerified, TypeOK, receiverVars, progressVars,
       queueVars, taskVars, writerVars, userVars
<1>5. CASE SenderGetsClose
  <2>1. ChannelTypeOK'
    BY <1>5, EmptyType DEF SenderGetsClose, TypeOK, ChannelTypeOK
  <2> QED
    BY <1>5, <2>1, TypeFrame DEF SenderGetsClose, TypeOK, senderVars, receiverVars, progressVars,
       queueVars, taskVars, writerVars, userVars
<1>6. CASE SenderTimeout
  <2>1. SenderTypeOK'
    BY <1>6 DEF SenderTimeout, SenderSettles, SenderThrows, TypeOK, SenderTypeOK, TerminalEvents
  <2>2. ChannelTypeOK'
    BY <1>6, SenderSettlesType DEF SenderTimeout, SenderSettles, SenderThrows, TypeOK, ChannelTypeOK
  <2> QED
    BY <1>6, <2>1, <2>2, TypeFrame DEF SenderTimeout, TypeOK, receiverVars, progressVars, queueVars,
       taskVars, writerVars, userVars
<1>7. CASE SenderReadChunk
  <2>1. SenderTypeOK'
    BY <1>7, LoopTopType, SendFrameType DEF SenderReadChunk, TypeOK, SenderTypeOK
  <2>2. ChannelTypeOK'
    BY <1>7, LoopTopType, SendFrameType DEF SenderReadChunk, TypeOK, SenderTypeOK, ChannelTypeOK,
       channelVars
  <2> QED
    BY <1>7, <2>1, <2>2, TypeFrame DEF SenderReadChunk, TypeOK, receiverVars, progressVars,
       queueVars, taskVars, writerVars, userVars
<1>8. CASE SenderDrained
  <2>1. SenderTypeOK'
    BY <1>8, SendFrameType DEF SenderDrained, TypeOK, SenderTypeOK
  <2>2. ChannelTypeOK'
    BY <1>8, SendFrameType DEF SenderDrained, TypeOK, SenderTypeOK
  <2> QED
    BY <1>8, <2>1, <2>2, TypeFrame DEF SenderDrained, TypeOK, receiverVars, progressVars, queueVars,
       taskVars, writerVars, userVars
<1>9. CASE SenderFinishHash
  <2>1. SenderTypeOK'
    BY <1>9 DEF SenderFinishHash, SenderSettles, SenderThrows, TypeOK, SenderTypeOK, TerminalEvents
  <2>2. ChannelTypeOK'
    <3>1. [type |-> "complete", h |-> source] \in SenderMessage
      BY DEF SenderMessage, TypeOK, UserTypeOK
    <3> QED
      BY <1>9, <3>1, PutType, SenderSettlesType DEF SenderFinishHash, SenderSettles, SenderThrows, TypeOK, ChannelTypeOK
  <2> QED
    BY <1>9, <2>1, <2>2, TypeFrame DEF SenderFinishHash, TypeOK, receiverVars, progressVars,
       queueVars, taskVars, writerVars, userVars
<1>10. CASE SenderReadError
  <2>1. SenderTypeOK'
    BY <1>10 DEF SenderReadError, SenderSettles, SenderThrows, TypeOK, SenderTypeOK, TerminalEvents
  <2>2. ChannelTypeOK'
    BY <1>10, SenderSettlesType DEF SenderReadError, SenderSettles, SenderThrows, TypeOK,
       ChannelTypeOK
  <2> QED
    BY <1>10, <2>1, <2>2, TypeFrame DEF SenderReadError, TypeOK, receiverVars, progressVars,
       queueVars, taskVars, writerVars, userVars
<1>11. CASE SenderCancel
  <2>1. SenderTypeOK'
    BY <1>11 DEF SenderCancel, Bail, SenderSettles, SenderThrows, TypeOK, SenderTypeOK,
       TerminalEvents
  <2>2. ChannelTypeOK'
    BY <1>11, BailType DEF SenderCancel, TypeOK, ChannelTypeOK, channelVars
  <2> QED
    BY <1>11, <2>1, <2>2, TypeFrame DEF SenderCancel, TypeOK, receiverVars, progressVars, queueVars,
       taskVars, writerVars, userVars
<1>12. CASE ReceiverGetsOffer
  <2>1. ReceiverTypeOK'
    BY <1>12 DEF ReceiverGetsOffer, TypeOK, ReceiverTypeOK, progressVars
  <2>2. ChannelTypeOK'
    BY <1>12, TakeType DEF ReceiverGetsOffer, ReceiverHears, SenderHears, TypeOK, ChannelTypeOK
  <2> QED
    BY <1>12, <2>1, <2>2, TypeFrame DEF ReceiverGetsOffer, TypeOK, senderVars, receiverVars,
       queueVars, taskVars, writerVars, userVars
<1>13. CASE ReceiverGetsAbort
  <2>1. ReceiverTypeOK'
    BY <1>13 DEF ReceiverGetsAbort, TypeOK, ReceiverTypeOK, progressVars
  <2>2. TaskTypeOK'
    BY <1>13 DEF ReceiverGetsAbort, TypeOK, TaskTypeOK
  <2>3. ChannelTypeOK'
    BY <1>13, TakeType DEF ReceiverGetsAbort, ReceiverHears, SenderHears, TypeOK, ChannelTypeOK
  <2> QED
    BY <1>13, <2>1, <2>2, <2>3, TypeFrame DEF ReceiverGetsAbort, TypeOK, senderVars, receiverVars,
       queueVars, writerVars, userVars
<1>14. CASE ReceiverOpened
  <2>1. ReceiverTypeOK'
    BY <1>14 DEF ReceiverOpened, ReceiverSettles, TypeOK, ReceiverTypeOK, TerminalEvents
  <2>2. TaskTypeOK'
    BY <1>14 DEF ReceiverOpened, TypeOK, TaskTypeOK
  <2>3. WriterTypeOK'
    BY <1>14, WriterTypes DEF ReceiverOpened, TypeOK, WriterTypeOK, WriterStates
  <2>4. ChannelTypeOK'
    <3>1. [type |-> "accept", from |-> ResumeFromChunk(received)] \in ReceiverMessage
      BY ResumeFromChunkCorrect DEF ReceiverMessage, TypeOK, ReceiverTypeOK
    <3>2. Put(r2s, sOpen, [type |-> "accept", from |-> ResumeFromChunk(received)]) \in Seq(ReceiverMessage)
      BY <3>1, PutType DEF TypeOK, ChannelTypeOK
    <3>3. CASE rPending \/ ~rOpen
      BY <1>14, <3>3, ReceiverSettlesType DEF ReceiverOpened, ReceiverSettles, TypeOK, ChannelTypeOK
    <3>4. CASE ~rPending /\ rOpen
      BY <1>14, <3>2, <3>4, PutType, CloseMessages DEF ReceiverOpened, TypeOK, ChannelTypeOK
    <3> QED
      BY <3>3, <3>4
  <2> QED
    BY <1>14, <2>1, <2>2, <2>3, <2>4, TypeFrame DEF ReceiverOpened, TypeOK, senderVars,
       receiverVars, queueVars, userVars
<1>15. CASE ReceiverGetsFrame
  <2>1. QueueTypeOK'
    <3>1. [i |-> Head(s2r).i, d |-> Head(s2r).d] \in Frame
      BY <1>15, TakeType, SenderMessageFields DEF ReceiverGetsFrame, ReceiverHears, TypeOK, ChannelTypeOK, Frame
    <3>2. queue' \in Seq(Frame) /\ queue' # <<>>
      BY <1>15, <3>1 DEF ReceiverGetsFrame, TypeOK, QueueTypeOK
    <3> QED
      BY <1>15, <3>2 DEF ReceiverGetsFrame, TypeOK, QueueTypeOK
  <2>2. ChannelTypeOK'
    BY <1>15, TakeType DEF ReceiverGetsFrame, ReceiverHears, SenderHears, TypeOK, ChannelTypeOK
  <2> QED
    BY <1>15, <2>1, <2>2, TypeFrame DEF ReceiverGetsFrame, TypeOK, senderVars, receiverVars,
       progressVars, taskVars, writerVars, userVars
<1>16. CASE SkipFrame
  <2>1. QueueTypeOK'
    BY <1>16, PopFrameType DEF SkipFrame
  <2>2. TaskTypeOK'
    BY <1>16, PopFrameType DEF SkipFrame, TypeOK, TaskTypeOK
  <2> QED
    BY <1>16, <2>1, <2>2, TypeFrame DEF SkipFrame, TypeOK, senderVars, receiverVars, progressVars,
       writerVars, channelVars, userVars
<1>17. CASE StartWrite
  <2>1. QueueTypeOK'
    BY <1>17 DEF StartWrite, FrameIsDue, TypeOK, QueueTypeOK
  <2>2. WriterTypeOK'
    BY <1>17, PopFrameType, WroteType DEF StartWrite, FrameIsDue, TypeOK, WriterTypeOK, Datum
  <2> QED
    BY <1>17, <2>1, <2>2, TypeFrame DEF StartWrite, TypeOK, senderVars, receiverVars, progressVars,
       taskVars, channelVars, userVars
<1>18. CASE FrameWritten
  <2>1. QueueTypeOK'
    BY <1>18 DEF FrameWritten, TypeOK, QueueTypeOK
  <2> QED
    BY <1>18, <2>1, TypeFrame DEF FrameWritten, TypeOK, senderVars, receiverVars, progressVars,
       taskVars, writerVars, channelVars, userVars
<1>19. CASE WriteFails
  <2>1. ReceiverTypeOK'
    BY <1>19, FinishType DEF WriteFails, TypeOK, ReceiverTypeOK, ChannelTypeOK, TerminalEvents,
       progressVars, Checkpoint
  <2>2. QueueTypeOK'
    BY <1>19, PopFrameType DEF WriteFails, FrameIsDue, TypeOK, QueueTypeOK
  <2>3. TaskTypeOK'
    BY <1>19, PopFrameType DEF WriteFails, FrameIsDue, TypeOK, TaskTypeOK, QueueTypeOK
  <2>4. WriterTypeOK'
    BY <1>19, PopFrameType, WroteType DEF WriteFails, TypeOK, WriterTypeOK, QueueTypeOK, Datum,
       writerVars
  <2>5. ChannelTypeOK'
    BY <1>19, FinishType DEF WriteFails, TypeOK, ChannelTypeOK, TerminalEvents
  <2> QED
    BY <1>19, <2>1, <2>2, <2>3, <2>4, <2>5, TypeFrame DEF WriteFails, TypeOK, senderVars, userVars
<1>20. CASE FrameHashed
  <2>1. ReceiverTypeOK'
    <3>1. queue # <<>>
      BY <1>20 DEF FrameHashed, TypeOK, QueueTypeOK
    <3>2. hashes' \in Image
      BY <1>20, <3>1, PopFrameType DEF FrameHashed, TypeOK, ReceiverTypeOK, Image, Datum
    <3>3. received' \in SUBSET Chunks /\ since' \in Nat
      BY <1>20, <3>1, PopFrameType DEF FrameHashed, TypeOK, ReceiverTypeOK
    <3>4. rEvent' \in {"none", "progress"} \cup TerminalEvents
      BY <1>20 DEF FrameHashed, TypeOK, ReceiverTypeOK
    <3> QED
      BY <1>20, <3>2, <3>3, <3>4 DEF FrameHashed, TypeOK, ReceiverTypeOK
  <2>2. QueueTypeOK'
    BY <1>20, PopFrameType DEF FrameHashed, TypeOK, QueueTypeOK
  <2>3. TaskTypeOK'
    BY <1>20, PopFrameType DEF FrameHashed, TypeOK, TaskTypeOK, QueueTypeOK
  <2>4. WriterTypeOK'
    <3>1. [idx |-> received', hash |-> hashes'] \in ResumeState
      BY <2>1 DEF ReceiverTypeOK, ResumeState
    <3> QED
      BY <1>20, <3>1 DEF FrameHashed, Checkpoint, TypeOK, WriterTypeOK, writerVars
  <2> QED
    BY <1>20, <2>1, <2>2, <2>3, <2>4, TypeFrame DEF FrameHashed, TypeOK, senderVars, channelVars,
       userVars
<1>21. CASE LocalAbortStart
  <2>1. TaskTypeOK'
    BY <1>21 DEF LocalAbortStart, TypeOK, TaskTypeOK
  <2>2. WriterTypeOK'
    BY <1>21, WriterTypes DEF LocalAbortStart, StartAbort, TypeOK, WriterTypeOK, WriterStates
  <2> QED
    BY <1>21, <2>1, <2>2, TypeFrame DEF LocalAbortStart, TypeOK, senderVars, receiverVars,
       progressVars, queueVars, channelVars, userVars
<1>22. CASE LocalAbortDone
  <2>1. ReceiverTypeOK'
    BY <1>22, FinishType DEF LocalAbortDone, TypeOK, ReceiverTypeOK, ChannelTypeOK, TerminalEvents,
       progressVars, Checkpoint
  <2>2. TaskTypeOK'
    BY <1>22 DEF LocalAbortDone, TypeOK, TaskTypeOK
  <2>3. WriterTypeOK'
    BY <1>22 DEF LocalAbortDone, EndAbort, Checkpoint, TypeOK, WriterTypeOK, WriterStates,
       ReceiverTypeOK, ResumeState
  <2>4. ChannelTypeOK'
    BY <1>22, FinishType DEF LocalAbortDone, TypeOK, ChannelTypeOK, TerminalEvents
  <2> QED
    BY <1>22, <2>1, <2>2, <2>3, <2>4, TypeFrame DEF LocalAbortDone, TypeOK, senderVars,
       receiverVars, queueVars, userVars
<1>23. CASE RemoteAbortStart
  <2>1. TaskTypeOK'
    BY <1>23 DEF RemoteAbortStart, TypeOK, TaskTypeOK
  <2>2. WriterTypeOK'
    BY <1>23, WriterTypes DEF RemoteAbortStart, StartAbort, TypeOK, WriterTypeOK, WriterStates
  <2> QED
    BY <1>23, <2>1, <2>2, TypeFrame DEF RemoteAbortStart, TypeOK, senderVars, receiverVars,
       progressVars, queueVars, channelVars, userVars
<1>24. CASE RemoteAbortDone
  <2>1. ReceiverTypeOK'
    BY <1>24, FinishType DEF RemoteAbortDone, TypeOK, ReceiverTypeOK, ChannelTypeOK, TerminalEvents,
       progressVars, Checkpoint
  <2>2. TaskTypeOK'
    BY <1>24 DEF RemoteAbortDone, TypeOK, TaskTypeOK
  <2>3. WriterTypeOK'
    BY <1>24 DEF RemoteAbortDone, EndAbort, Checkpoint, TypeOK, WriterTypeOK, WriterStates,
       ReceiverTypeOK, ResumeState
  <2>4. ChannelTypeOK'
    BY <1>24, FinishType DEF RemoteAbortDone, TypeOK, ChannelTypeOK, TerminalEvents
  <2> QED
    BY <1>24, <2>1, <2>2, <2>3, <2>4, TypeFrame DEF RemoteAbortDone, TypeOK, senderVars,
       receiverVars, queueVars, userVars
<1>25. CASE ReceiverGetsComplete
  <2>1. TaskTypeOK'
    BY <1>25, TakeType, SenderMessageFields DEF ReceiverGetsComplete, ReceiverHears, TypeOK,
       TaskTypeOK, ChannelTypeOK
  <2>2. ChannelTypeOK'
    BY <1>25, TakeType DEF ReceiverGetsComplete, ReceiverHears, SenderHears, TypeOK, ChannelTypeOK
  <2> QED
    BY <1>25, <2>1, <2>2, TypeFrame DEF ReceiverGetsComplete, TypeOK, senderVars, receiverVars,
       progressVars, queueVars, writerVars, userVars
<1>26. CASE VerifyStart
  <2>1. ReceiverTypeOK'
    BY <1>26, FinishType DEF VerifyStart, TypeOK, ReceiverTypeOK, ChannelTypeOK, TerminalEvents,
       progressVars, Checkpoint
  <2>2. TaskTypeOK'
    BY <1>26 DEF VerifyStart, TypeOK, TaskTypeOK
  <2>3. ChannelTypeOK'
    BY <1>26, FinishType DEF VerifyStart, TypeOK, ChannelTypeOK, TerminalEvents, channelVars
  <2> QED
    BY <1>26, <2>1, <2>2, <2>3, TypeFrame DEF VerifyStart, TypeOK, senderVars, receiverVars,
       queueVars, writerVars, userVars
<1>27. CASE VerifyDigest
  <2>1. ReceiverTypeOK'
    <3>1. [type |-> "verified", ok |-> HashesMatch] \in ReceiverMessage
      BY DEF ReceiverMessage, HashesMatch
    <3>2. Put(r2s, sOpen, [type |-> "verified", ok |-> HashesMatch]) \in Seq(ReceiverMessage)
      BY <3>1, PutType DEF TypeOK, ChannelTypeOK
    <3> QED
      BY <1>27, <3>2, FinishType DEF VerifyDigest, TypeOK, ReceiverTypeOK, ChannelTypeOK, TerminalEvents, progressVars
  <2>2. TaskTypeOK'
    BY <1>27 DEF VerifyDigest, TypeOK, TaskTypeOK
  <2>3. WriterTypeOK'
    BY <1>27, WriterTypes DEF VerifyDigest, StartAbort, TypeOK, WriterTypeOK, WriterStates,
       writerVars
  <2>4. ChannelTypeOK'
    <3>1. [type |-> "verified", ok |-> HashesMatch] \in ReceiverMessage
      BY DEF ReceiverMessage, HashesMatch
    <3>2. Put(r2s, sOpen, [type |-> "verified", ok |-> HashesMatch]) \in Seq(ReceiverMessage)
      BY <3>1, PutType DEF TypeOK, ChannelTypeOK
    <3> QED
      BY <1>27, <3>2, FinishType DEF VerifyDigest, TypeOK, ChannelTypeOK, TerminalEvents
  <2> QED
    BY <1>27, <2>1, <2>2, <2>3, <2>4, TypeFrame DEF VerifyDigest, TypeOK, senderVars, receiverVars,
       queueVars, userVars
<1>28. CASE VerifyFinalized
  <2>1. ReceiverTypeOK'
    BY <1>28, FinishType DEF VerifyFinalized, TypeOK, ReceiverTypeOK, ChannelTypeOK, TerminalEvents,
       progressVars, Checkpoint
  <2>2. TaskTypeOK'
    BY <1>28 DEF VerifyFinalized, TypeOK, TaskTypeOK
  <2>3. WriterTypeOK'
    BY <1>28, WriterTypes, NoEntryType DEF VerifyFinalized, TypeOK, WriterTypeOK, WriterStates
  <2>4. ChannelTypeOK'
    BY <1>28, FinishType DEF VerifyFinalized, TypeOK, ChannelTypeOK, TerminalEvents
  <2> QED
    BY <1>28, <2>1, <2>2, <2>3, <2>4, TypeFrame DEF VerifyFinalized, TypeOK, senderVars,
       receiverVars, queueVars, userVars
<1>29. CASE FinalizeFails
  <2>1. ReceiverTypeOK'
    BY <1>29, FinishType DEF FinalizeFails, TypeOK, ReceiverTypeOK, ChannelTypeOK, TerminalEvents,
       progressVars, Checkpoint
  <2>2. TaskTypeOK'
    BY <1>29 DEF FinalizeFails, TypeOK, TaskTypeOK
  <2>3. WriterTypeOK'
    BY <1>29 DEF FinalizeFails, TypeOK, WriterTypeOK, WriterStates
  <2>4. ChannelTypeOK'
    BY <1>29, FinishType DEF FinalizeFails, TypeOK, ChannelTypeOK, TerminalEvents
  <2> QED
    BY <1>29, <2>1, <2>2, <2>3, <2>4, TypeFrame DEF FinalizeFails, TypeOK, senderVars, receiverVars,
       queueVars, userVars
<1>30. CASE VerifyMismatchDone
  <2>1. ReceiverTypeOK'
    BY <1>30, FinishType DEF VerifyMismatchDone, TypeOK, ReceiverTypeOK, ChannelTypeOK,
       TerminalEvents, progressVars, Checkpoint
  <2>2. TaskTypeOK'
    BY <1>30 DEF VerifyMismatchDone, TypeOK, TaskTypeOK
  <2>3. WriterTypeOK'
    BY <1>30 DEF VerifyMismatchDone, EndAbort, Checkpoint, TypeOK, WriterTypeOK, WriterStates,
       ReceiverTypeOK, ResumeState
  <2>4. ChannelTypeOK'
    BY <1>30, FinishType DEF VerifyMismatchDone, TypeOK, ChannelTypeOK, TerminalEvents
  <2> QED
    BY <1>30, <2>1, <2>2, <2>3, <2>4, TypeFrame DEF VerifyMismatchDone, TypeOK, senderVars,
       receiverVars, queueVars, userVars
<1>31. CASE ReceiverGetsClose
  <2>1. ChannelTypeOK'
    BY <1>31, EmptyType DEF ReceiverGetsClose, TypeOK, ChannelTypeOK
  <2> QED
    BY <1>31, <2>1, TypeFrame DEF ReceiverGetsClose, TypeOK, senderVars, receiverVars, progressVars,
       queueVars, taskVars, writerVars, userVars
<1>32. CASE ReceiverDecide
  <2>1. ReceiverTypeOK'
    <3>1. store \in ResumeState /\ NoEntry \in ResumeState
      BY NoEntryType DEF TypeOK, WriterTypeOK
    <3> QED
      BY <1>32, <3>1 DEF ReceiverDecide, ReceiverSettles, TypeOK, ReceiverTypeOK, ResumeState, progressVars, TerminalEvents
  <2>2. WriterTypeOK'
    BY <1>32, NoEntryType DEF ReceiverDecide, TypeOK, WriterTypeOK, writerVars
  <2>3. ChannelTypeOK'
    <3>1. Put(r2s, sOpen, [type |-> "reject"]) \in Seq(ReceiverMessage)
      BY PutType, CloseMessages DEF TypeOK, ChannelTypeOK
    <3> QED
      BY <1>32, <3>1, ReceiverSettlesType DEF ReceiverDecide, ReceiverSettles, TypeOK, ChannelTypeOK, channelVars
  <2> QED
    BY <1>32, <2>1, <2>2, <2>3, TypeFrame DEF ReceiverDecide, TypeOK, senderVars, receiverVars,
       queueVars, taskVars, userVars
<1>33. CASE ReceiverCancel
  <2>1. ReceiverTypeOK'
    BY <1>33 DEF ReceiverCancel, TypeOK, ReceiverTypeOK, progressVars
  <2>2. TaskTypeOK'
    BY <1>33 DEF ReceiverCancel, TypeOK, TaskTypeOK, QueueTypeOK
  <2>3. ChannelTypeOK'
    BY <1>33, PutType, CloseMessages DEF ReceiverCancel, TypeOK, ChannelTypeOK
  <2> QED
    BY <1>33, <2>1, <2>2, <2>3, TypeFrame DEF ReceiverCancel, TypeOK, senderVars, receiverVars,
       queueVars, writerVars, userVars
<1>34. CASE ReceiverOpenFails
  <2>1. ReceiverTypeOK'
    BY <1>34 DEF ReceiverOpenFails, ReceiverSettles, TypeOK, ReceiverTypeOK, progressVars
  <2>2. WriterTypeOK'
    BY <1>34 DEF ReceiverOpenFails, TypeOK, WriterTypeOK, WriterStates
  <2>3. ChannelTypeOK'
    BY <1>34, ReceiverSettlesType DEF ReceiverOpenFails, ReceiverSettles, TypeOK, ChannelTypeOK
  <2> QED
    BY <1>34, <2>1, <2>2, <2>3, TypeFrame DEF ReceiverOpenFails, TypeOK, senderVars, receiverVars,
       queueVars, taskVars, userVars
<1>35. CASE StartTransfer
  <2>1. SenderTypeOK'
    <3>1. sIdx' \in 0 .. TotalChunks /\ sFrom' \in 0 .. TotalChunks
      BY <1>35 DEF StartTransfer
    <3> QED
      BY <1>35, <3>1 DEF StartTransfer, SenderTypeOK
  <2>2. ReceiverTypeOK'
    <3>1. Blank \in Image
      BY DEF Blank, Image, Datum
    <3> QED
      BY <1>35, <3>1 DEF StartTransfer, ReceiverTypeOK
  <2>3. ChannelTypeOK'
    <3>1. <<[type |-> "offer"]>> \in Seq(SenderMessage)
      BY CloseMessages
    <3> QED
      BY <1>35, <3>1, EmptyType DEF StartTransfer, ChannelTypeOK
  <2>4. UserTypeOK'
    BY <1>35 DEF StartTransfer, TypeOK, UserTypeOK
  <2> QED
    BY <1>35, <2>1, <2>2, <2>3, <2>4, TypeFrame DEF StartTransfer, TypeOK, receiverVars, queueVars,
       taskVars, writerVars
<1>36. CASE LinkFails
  <2>1. ChannelTypeOK'
    BY <1>36 DEF LinkFails, TypeOK, ChannelTypeOK
  <2> QED
    BY <1>36, <2>1, TypeFrame DEF LinkFails, TypeOK, senderVars, receiverVars, progressVars,
       queueVars, taskVars, writerVars, userVars
<1>37. CASE ReceiverCrash
  <2>1. ReceiverTypeOK'
    BY <1>37 DEF ReceiverCrash, TypeOK, ReceiverTypeOK, progressVars
  <2>2. QueueTypeOK'
    BY <1>37, EmptyType DEF ReceiverCrash, QueueTypeOK
  <2>3. TaskTypeOK'
    BY <1>37 DEF ReceiverCrash, TypeOK, TaskTypeOK
  <2>4. WriterTypeOK'
    BY <1>37, WriterTypes DEF ReceiverCrash, TypeOK, WriterTypeOK, WriterStates
  <2>5. ChannelTypeOK'
    BY <1>37 DEF ReceiverCrash, TypeOK, ChannelTypeOK
  <2> QED
    BY <1>37, <2>1, <2>2, <2>3, <2>4, <2>5, TypeFrame DEF ReceiverCrash, TypeOK, senderVars,
       userVars
<1>38. CASE UNCHANGED vars
  BY <1>38, TypeFrame DEF vars, TypeOK, receiverVars
<1> QED
  BY <1>1, <1>2, <1>3, <1>4, <1>5, <1>6, <1>7, <1>8, <1>9, <1>10, <1>11, <1>12, <1>13, <1>14, <1>15,
     <1>16, <1>17, <1>18, <1>19, <1>20, <1>21, <1>22, <1>23, <1>24, <1>25, <1>26, <1>27, <1>28,
     <1>29, <1>30, <1>31, <1>32, <1>33, <1>34, <1>35, <1>36, <1>37, <1>38 DEF Next, SenderStep,
     ReceiverStep, UserStep, Fault

\* The two calls, the channel between them, the writer, the disk and the resume entry
\* are of the types transferSession.ts gives them, in every attempt.
THEOREM TypeCorrect == Spec => []TypeOK
<1>1. Init => TypeOK
  BY TypeInit
<1>2. TypeOK /\ [Next]_vars => TypeOK'
  BY TypeNext
<1> QED
  BY <1>1, <1>2, PTL DEF Spec

-----------------------------------------------------------------------------
(* A completed send has been verified. *)

InTransit(ch) == {ch[n] : n \in DOMAIN ch}

ChunksMatch == \A i \in Chunks : hashes[i] = source

\* Whatever the sender has put on the wire is of the version it reads now.
OfSource(m) ==
    (m.type = "frame" => m.d = source) /\ (m.type = "complete" => m.h = source)

Undecided == {"offer", "confirm"}

(***************************************************************************)
(* The inductive invariant.  The property speaks of the sender's last      *)
(* event and the receiver's hashes only; between them lie the frames on    *)
(* the wire and in the queue, the hash the verdict compares with, and the  *)
(* verdict on its way back.  A new entry is only loaded into the hashes    *)
(* before any verdict of this attempt exists.                              *)
(***************************************************************************)
SentOfSource == \A m \in InTransit(s2r) : OfSource(m)
QueuedOfSource == \A f \in InTransit(queue) : f.d = source
VerdictOfSource == vTask # "none" => vHash = source
VerdictMeansMatch == \A m \in InTransit(r2s) : m.type = "verified" /\ m.ok => ChunksMatch
NoVerdictYet ==
    rpc \in Undecided =>
        /\ vTask = "none" /\ sEvent # "complete"
        /\ \A m \in InTransit(r2s) : m.type # "verified"

VerifiedInv ==
    /\ SentOfSource /\ QueuedOfSource /\ VerdictOfSource /\ VerdictMeansMatch
    /\ NoVerdictYet /\ CompleteMeansVerified

\* What a channel holds after a message is put, taken or dropped.
LEMMA PutTransit ==
    ASSUME NEW S, NEW ch \in Seq(S), NEW m, NEW toOpen
    PROVE  InTransit(Put(ch, toOpen, m)) \subseteq InTransit(ch) \cup {m}
<1>1. InTransit(Append(ch, m)) \subseteq InTransit(ch) \cup {m}
  BY DEF InTransit
<1> QED
  BY <1>1 DEF Put

LEMMA TakeTransit ==
    ASSUME NEW S, NEW ch \in Seq(S), ch # <<>>
    PROVE  InTransit(Tail(ch)) \subseteq InTransit(ch) /\ Head(ch) \in InTransit(ch)
  BY DEF InTransit

LEMMA EmptyTransit == InTransit(<<>>) = {}
  BY DEF InTransit

LEMMA SenderClosesTransit ==
    ASSUME TypeOK, NEW out \in Seq(SenderMessage), SenderCloses(out)
    PROVE  /\ \A m \in InTransit(s2r') : m \in InTransit(out) \/ m.type = "close"
           /\ InTransit(r2s') = {}
<1>1. r2s' = <<>> /\ s2r' \in {out, Put(out, rOpen, [type |-> "close"])}
  BY DEF SenderCloses
<1> QED
  BY <1>1, PutTransit, EmptyTransit

LEMMA ReceiverClosesTransit ==
    ASSUME TypeOK, NEW out \in Seq(ReceiverMessage), ReceiverCloses(out)
    PROVE  /\ \A m \in InTransit(r2s') : m \in InTransit(out) \/ m.type = "close"
           /\ InTransit(s2r') \subseteq InTransit(s2r)
<1>1. s2r' \in {<<>>, s2r} /\ r2s' \in {out, Put(out, sOpen, [type |-> "close"])}
  BY DEF ReceiverCloses
<1> QED
  BY <1>1, PutTransit, EmptyTransit

\* The ways in which steps keep the parts of the invariant.
SentKept == source' = source /\ \A m \in InTransit(s2r') : m \in InTransit(s2r) \/ OfSource(m)
QueueKept == \A f \in InTransit(queue') : f \in InTransit(queue) \/ f.d = source
VerdictKept == vTask' # "none" => (vTask # "none" /\ vHash' = vHash) \/ vHash' = source
AnswersKept ==
    \A m \in InTransit(r2s') :
        m.type = "verified" =>
            m \in InTransit(r2s) \/ (rpc \notin Undecided /\ (m.ok => ChunksMatch))
HashesKept == ChunksMatch => \A i \in Chunks : hashes'[i] = source
EventKept == sEvent' = "complete" => sEvent = "complete" \/ (rpc \notin Undecided /\ ChunksMatch)
DecisionKept == rpc' \in Undecided => rpc \in Undecided /\ vTask' = vTask

LEMMA Kept ==
    ASSUME VerifiedInv, SentKept, QueueKept, VerdictKept, AnswersKept, HashesKept, EventKept,
           DecisionKept
    PROVE  VerifiedInv'
<1>1. SentOfSource' /\ QueuedOfSource' /\ VerdictOfSource'
  BY DEF VerifiedInv, SentOfSource, QueuedOfSource, VerdictOfSource, SentKept, QueueKept,
         VerdictKept, OfSource
<1>2. ChunksMatch => ChunksMatch'
  BY DEF HashesKept, ChunksMatch, SentKept
<1>3. VerdictMeansMatch'
  BY <1>2 DEF VerifiedInv, VerdictMeansMatch, AnswersKept
<1>4. NoVerdictYet'
  BY DEF VerifiedInv, NoVerdictYet, AnswersKept, EventKept, DecisionKept
<1>5. CompleteMeansVerified'
  BY <1>2 DEF VerifiedInv, CompleteMeansVerified, EventKept, ChunksMatch
<1> QED
  BY <1>1, <1>3, <1>4, <1>5 DEF VerifiedInv

\* The parts kept because the variables they speak of do not change.
LEMMA KeptFrame ==
    /\ UNCHANGED <<source, s2r>> => SentKept
    /\ UNCHANGED queue => QueueKept
    /\ UNCHANGED <<vTask, vHash>> => VerdictKept
    /\ UNCHANGED r2s => AnswersKept
    /\ UNCHANGED hashes => HashesKept
    /\ UNCHANGED sEvent => EventKept
    /\ UNCHANGED <<rpc, vTask>> => DecisionKept
  BY DEF SentKept, QueueKept, VerdictKept, AnswersKept, HashesKept, EventKept, DecisionKept, ChunksMatch

LEMMA SettlesKept ==
    ASSUME TypeOK, NEW pc, NEW event, NEW out \in Seq(SenderMessage), SenderSettles(pc, event, out),
           \A m \in InTransit(out) : m \in InTransit(s2r) \/ OfSource(m), source' = source
    PROVE  SentKept /\ AnswersKept /\ (event # "complete" => EventKept)
  BY SenderClosesTransit DEF SenderSettles, SentKept, AnswersKept, EventKept, OfSource

LEMMA FinishKept ==
    ASSUME TypeOK, NEW pc \in {"returned", "failed"}, NEW event, NEW out \in Seq(ReceiverMessage),
           Finish(pc, event, out) \/ ReceiverSettles(pc, event, out), source' = source,
           \A m \in InTransit(out) :
              m.type = "verified" => m \in InTransit(r2s) \/ (rpc \notin Undecided /\ (m.ok => ChunksMatch))
    PROVE  /\ SentKept /\ AnswersKept
           /\ rpc' \in Undecided => rpc \in Undecided /\ rpc' = rpc /\ Settled
<1>1. CASE ReceiverSettles(pc, event, out)
  BY <1>1, ReceiverClosesTransit DEF ReceiverSettles, SentKept, AnswersKept, Undecided
<1>2. CASE Settled /\ Finish(pc, event, out)
  BY <1>2, KeptFrame DEF Finish, channelVars
<1>3. CASE ~Settled /\ Finish(pc, event, out)
  BY <1>1, <1>3 DEF Finish
<1> QED
  BY <1>1, <1>2, <1>3

\* The cases of the sender's code.
LEMMA BailKept ==
    ASSUME TypeOK, NEW remote \in BOOLEAN, Bail(remote), source' = source
    PROVE  SentKept /\ AnswersKept /\ EventKept
<1> DEFINE told == Put(s2r, rOpen, [type |-> "abort"])
<1>1. told \in Seq(SenderMessage) /\ \A m \in InTransit(told) : m \in InTransit(s2r) \/ OfSource(m)
  <2>1. told \in Seq(SenderMessage)
    BY PutType, CloseMessages DEF TypeOK, ChannelTypeOK
  <2>2. InTransit(told) \subseteq InTransit(s2r) \cup {[type |-> "abort"]}
    BY PutTransit DEF TypeOK, ChannelTypeOK
  <2>3. OfSource([type |-> "abort"])
    BY DEF OfSource
  <2> QED
    BY <2>1, <2>2, <2>3
<1> HIDE DEF told
<1>2. \/ SenderSettles("returned", "cancelled", IF remote THEN s2r ELSE told)
      \/ SenderSettles("failed", sEvent, s2r)
  BY DEF Bail, SenderThrows, told
<1>3. CASE SenderSettles("returned", "cancelled", IF remote THEN s2r ELSE told)
  BY <1>1, <1>3, SettlesKept DEF TypeOK, ChannelTypeOK
<1>4. CASE SenderSettles("failed", sEvent, s2r)
  BY <1>4, SettlesKept DEF SenderSettles, EventKept, TypeOK, ChannelTypeOK
<1> QED
  BY <1>2, <1>3, <1>4

LEMMA LoopTopKept ==
    ASSUME TypeOK, NEW i, LoopTop(i), source' = source
    PROVE  SentKept /\ AnswersKept /\ EventKept
  BY BailKept, KeptFrame DEF LoopTop, channelVars, TypeOK, SenderTypeOK

LEMMA SendFrameKept ==
    ASSUME TypeOK, SendFrame, source' = source
    PROVE  SentKept /\ AnswersKept /\ EventKept
<1>1. CASE sCancel \/ sRemote
  BY <1>1, BailKept DEF SendFrame, TypeOK, SenderTypeOK
<1>2. CASE ~(sCancel \/ sRemote) /\ ~sOpen
  BY <1>2, SettlesKept DEF SendFrame, SenderThrows, SenderSettles, EventKept, TypeOK, ChannelTypeOK
<1>3. CASE ~(sCancel \/ sRemote) /\ sOpen
  <2>1. OfSource([type |-> "frame", i |-> sIdx, d |-> source])
    BY DEF OfSource
  <2>2. SentKept
    BY <1>3, <2>1, PutTransit DEF SendFrame, SentKept, TypeOK, ChannelTypeOK
  <2> QED
    BY <1>3, <2>2, KeptFrame DEF SendFrame, EventKept
<1> QED
  BY <1>1, <1>2, <1>3

LEMMA PopKept == ASSUME TypeOK, queue # <<>>, PopFrame PROVE QueueKept
  BY TakeTransit DEF PopFrame, QueueKept, TypeOK, QueueTypeOK

\* A new attempt, and the loading of what an earlier one left.
LEMMA StartVerified == ASSUME TypeOK, VerifiedInv, StartTransfer PROVE VerifiedInv'
<1>1. SentOfSource'
  <2>1. InTransit(s2r') = {[type |-> "offer"]}
    BY DEF StartTransfer, InTransit
  <2> QED
    BY <2>1 DEF SentOfSource, OfSource
<1>2. InTransit(r2s') = {} /\ InTransit(queue') = {}
  BY EmptyTransit DEF StartTransfer, ReceiverQuiescent, queueVars
<1>3. vTask' = "none" /\ sEvent' # "complete"
  BY DEF StartTransfer, ReceiverQuiescent, taskVars
<1> QED
  BY <1>1, <1>2, <1>3 DEF VerifiedInv, QueuedOfSource, VerdictOfSource, VerdictMeansMatch, NoVerdictYet,
     CompleteMeansVerified

LEMMA DecideVerified == ASSUME TypeOK, VerifiedInv, ReceiverDecide PROVE VerifiedInv'
<1>1. vTask' = "none" /\ sEvent' # "complete" /\ source' = source /\ rpc \in Undecided
  BY DEF ReceiverDecide, VerifiedInv, NoVerdictYet, Undecided, taskVars, senderVars, userVars
<1>2. \A m \in InTransit(r2s) : m.type # "verified"
  BY <1>1 DEF VerifiedInv, NoVerdictYet
<1>3. InTransit(s2r') \subseteq InTransit(s2r) /\ \A m \in InTransit(r2s') : m.type # "verified"
  <2> DEFINE refused == Put(r2s, sOpen, [type |-> "reject"])
  <2>1. refused \in Seq(ReceiverMessage) /\ \A m \in InTransit(refused) : m.type # "verified"
    <3>1. refused \in Seq(ReceiverMessage)
      BY PutType, CloseMessages DEF TypeOK, ChannelTypeOK
    <3>2. InTransit(refused) \subseteq InTransit(r2s) \cup {[type |-> "reject"]}
      BY PutTransit DEF TypeOK, ChannelTypeOK
    <3> QED
      BY <1>2, <3>1, <3>2
  <2>2. \/ ReceiverCloses(r2s)
        \/ ReceiverCloses(refused)
        \/ UNCHANGED <<s2r, r2s>>
    BY DEF ReceiverDecide, ReceiverSettles, channelVars
  <2> HIDE DEF refused
  <2> QED
    BY <1>2, <2>1, <2>2, ReceiverClosesTransit DEF TypeOK, ChannelTypeOK
<1>4. UNCHANGED queue
  BY DEF ReceiverDecide, queueVars
<1> QED
  BY <1>1, <1>3, <1>4 DEF VerifiedInv, SentOfSource, OfSource, QueuedOfSource, VerdictOfSource,
     VerdictMeansMatch, NoVerdictYet, CompleteMeansVerified

LEMMA VerifiedNext == TypeOK /\ VerifiedInv /\ [Next]_vars => VerifiedInv'
<1> SUFFICES ASSUME TypeOK, VerifiedInv, [Next]_vars PROVE VerifiedInv'
  OBVIOUS
<1>1. CASE StartTransfer
  BY <1>1, StartVerified
<1>2. CASE ReceiverDecide
  BY <1>2, DecideVerified
<1>3. CASE SenderGetsAccept
  <2>1. AnswersKept
    BY <1>3, TakeTransit DEF SenderGetsAccept, SenderHears, ReceiverHears, TypeOK, ChannelTypeOK,
       AnswersKept
  <2> QED
    BY <1>3, <2>1, Kept, KeptFrame DEF SenderGetsAccept, userVars, channelVars, receiverVars,
       queueVars, taskVars, progressVars, senderVars
<1>4. CASE SenderGetsReject
  <2>1. SentKept
    BY <1>4, SettlesKept DEF SenderGetsReject, SenderThrows, userVars, TypeOK, ChannelTypeOK
  <2>2. AnswersKept
    BY <1>4, SettlesKept DEF SenderGetsReject, SenderThrows, userVars, TypeOK, ChannelTypeOK
  <2>3. EventKept
    BY <1>4, SettlesKept DEF SenderGetsReject, SenderSettles, SenderThrows, EventKept
  <2> QED
    BY <1>4, <2>1, <2>2, <2>3, Kept, KeptFrame DEF SenderGetsReject, receiverVars, queueVars,
       taskVars, progressVars
<1>5. CASE SenderGetsAbort
  <2>1. SentKept
    BY <1>5, BailKept, KeptFrame DEF SenderGetsAbort, userVars, TypeOK
  <2>2. AnswersKept
    BY <1>5, BailKept, TakeTransit DEF SenderGetsAbort, SenderHears, ReceiverHears, TypeOK,
       ChannelTypeOK, AnswersKept, userVars
  <2>3. EventKept
    BY <1>5, BailKept DEF SenderGetsAbort, EventKept, userVars
  <2> QED
    BY <1>5, <2>1, <2>2, <2>3, Kept, KeptFrame DEF SenderGetsAbort, receiverVars, queueVars,
       taskVars, progressVars
<1>6. CASE SenderGetsVerified
  <2>1. SentKept
    BY <1>6, SettlesKept DEF SenderGetsVerified, SenderThrows, userVars, TypeOK, ChannelTypeOK
  <2>2. AnswersKept
    BY <1>6, SettlesKept DEF SenderGetsVerified, SenderThrows, userVars, TypeOK, ChannelTypeOK
  <2>3. EventKept
    <3>1. Head(r2s) \in InTransit(r2s) /\ Head(r2s).type = "verified"
      BY <1>6, TakeTransit DEF SenderGetsVerified, SenderHears, TypeOK, ChannelTypeOK
    <3>2. Head(r2s).ok => rpc \notin Undecided /\ ChunksMatch
      BY <3>1 DEF VerifiedInv, VerdictMeansMatch, NoVerdictYet
    <3> QED
      BY <1>6, <3>2 DEF SenderGetsVerified, SenderSettles, EventKept
  <2> QED
    BY <1>6, <2>1, <2>2, <2>3, Kept, KeptFrame DEF SenderGetsVerified, receiverVars, queueVars,
       taskVars, progressVars
<1>7. CASE SenderGetsClose
  <2>1. SentKept
    BY <1>7, KeptFrame DEF SenderGetsClose, userVars
  <2>2. AnswersKept
    BY <1>7, EmptyTransit DEF SenderGetsClose, AnswersKept
  <2> QED
    BY <1>7, <2>1, <2>2, Kept, KeptFrame DEF SenderGetsClose, receiverVars, queueVars, taskVars,
       progressVars, senderVars
<1>8. CASE SenderTimeout
  <2>1. SentKept
    BY <1>8, SettlesKept DEF SenderTimeout, SenderThrows, userVars, TypeOK, ChannelTypeOK
  <2>2. AnswersKept
    BY <1>8, SettlesKept DEF SenderTimeout, SenderThrows, userVars, TypeOK, ChannelTypeOK
  <2>3. EventKept
    BY <1>8, SettlesKept DEF SenderTimeout, SenderSettles, SenderThrows, EventKept
  <2> QED
    BY <1>8, <2>1, <2>2, <2>3, Kept, KeptFrame DEF SenderTimeout, receiverVars, queueVars, taskVars,
       progressVars
<1>9. CASE SenderReadChunk
  <2>1. SentKept
    BY <1>9, LoopTopKept, SendFrameKept, KeptFrame DEF SenderReadChunk, channelVars, userVars,
       TypeOK
  <2>2. AnswersKept
    BY <1>9, LoopTopKept, SendFrameKept, KeptFrame DEF SenderReadChunk, channelVars, userVars,
       TypeOK
  <2>3. EventKept
    BY <1>9, LoopTopKept, SendFrameKept, KeptFrame DEF SenderReadChunk, channelVars, userVars,
       TypeOK
  <2> QED
    BY <1>9, <2>1, <2>2, <2>3, Kept, KeptFrame DEF SenderReadChunk, receiverVars, queueVars,
       taskVars, progressVars
<1>10. CASE SenderDrained
  <2>1. SentKept
    BY <1>10, LoopTopKept, SendFrameKept, KeptFrame DEF SenderDrained, channelVars, userVars, TypeOK
  <2>2. AnswersKept
    BY <1>10, LoopTopKept, SendFrameKept, KeptFrame DEF SenderDrained, channelVars, userVars, TypeOK
  <2>3. EventKept
    BY <1>10, LoopTopKept, SendFrameKept, KeptFrame DEF SenderDrained, channelVars, userVars, TypeOK
  <2> QED
    BY <1>10, <2>1, <2>2, <2>3, Kept, KeptFrame DEF SenderDrained, receiverVars, queueVars,
       taskVars, progressVars
<1>11. CASE SenderFinishHash
  <2>1. SentKept
    <3>1. OfSource([type |-> "complete", h |-> source])
      BY DEF OfSource
    <3>2. CASE sOpen
      BY <1>11, <3>1, <3>2, PutTransit DEF SenderFinishHash, SentKept, userVars, TypeOK, ChannelTypeOK
    <3>3. CASE ~sOpen
      BY <1>11, <3>3, SettlesKept DEF SenderFinishHash, SenderThrows, userVars, TypeOK, ChannelTypeOK
    <3> QED
      BY <3>2, <3>3
  <2>2. AnswersKept
    BY <1>11, SettlesKept, KeptFrame DEF SenderFinishHash, SenderThrows, userVars, TypeOK,
       ChannelTypeOK
  <2>3. EventKept
    BY <1>11, SettlesKept, KeptFrame DEF SenderFinishHash, SenderSettles, SenderThrows, EventKept
  <2> QED
    BY <1>11, <2>1, <2>2, <2>3, Kept, KeptFrame DEF SenderFinishHash, receiverVars, queueVars,
       taskVars, progressVars
<1>12. CASE SenderReadError
  <2>1. SentKept
    BY <1>12, SettlesKept DEF SenderReadError, SenderThrows, userVars, TypeOK, ChannelTypeOK
  <2>2. AnswersKept
    BY <1>12, SettlesKept DEF SenderReadError, SenderThrows, userVars, TypeOK, ChannelTypeOK
  <2>3. EventKept
    BY <1>12, SettlesKept DEF SenderReadError, SenderSettles, SenderThrows, EventKept
  <2> QED
    BY <1>12, <2>1, <2>2, <2>3, Kept, KeptFrame DEF SenderReadError, receiverVars, queueVars,
       taskVars, progressVars
<1>13. CASE SenderCancel
  <2>1. SentKept
    BY <1>13, BailKept, KeptFrame DEF SenderCancel, channelVars, userVars, TypeOK
  <2>2. AnswersKept
    BY <1>13, BailKept, KeptFrame DEF SenderCancel, channelVars, userVars
  <2>3. EventKept
    BY <1>13, BailKept, KeptFrame DEF SenderCancel, userVars, EventKept
  <2> QED
    BY <1>13, <2>1, <2>2, <2>3, Kept, KeptFrame DEF SenderCancel, receiverVars, queueVars, taskVars,
       progressVars
<1>14. CASE ReceiverGetsOffer
  <2>1. SentKept
    BY <1>14, TakeTransit DEF ReceiverGetsOffer, SenderHears, ReceiverHears, TypeOK, ChannelTypeOK,
       SentKept, userVars
  <2>2. DecisionKept
    BY <1>14 DEF ReceiverGetsOffer, DecisionKept, Undecided, taskVars
  <2> QED
    BY <1>14, <2>1, <2>2, Kept, KeptFrame DEF ReceiverGetsOffer, receiverVars, queueVars, taskVars,
       channelVars, progressVars, senderVars
<1>15. CASE ReceiverGetsAbort
  <2>1. SentKept
    BY <1>15, TakeTransit DEF ReceiverGetsAbort, SenderHears, ReceiverHears, TypeOK, ChannelTypeOK,
       SentKept, userVars
  <2>2. DecisionKept
    BY <1>15 DEF ReceiverGetsAbort, DecisionKept
  <2> QED
    BY <1>15, <2>1, <2>2, Kept, KeptFrame DEF ReceiverGetsAbort, receiverVars, queueVars, taskVars,
       channelVars, progressVars, senderVars
<1>16. CASE ReceiverOpened
  <2>1. SentKept
    BY <1>16, FinishKept, KeptFrame DEF ReceiverOpened, userVars, TypeOK, ChannelTypeOK
  <2>2. AnswersKept
    <3>1. CASE rPending \/ ~rOpen
      BY <1>16, <3>1, FinishKept DEF ReceiverOpened, userVars, TypeOK, ChannelTypeOK
    <3>2. CASE ~rPending /\ rOpen
      <4> DEFINE reply == [type |-> "accept", from |-> ResumeFromChunk(received)]
                 accepted == Put(r2s, sOpen, reply)
      <4>1. reply \in ReceiverMessage
        BY ResumeFromChunkCorrect DEF ReceiverMessage, TypeOK, ReceiverTypeOK
      <4>2. accepted \in Seq(ReceiverMessage) /\ InTransit(accepted) \subseteq InTransit(r2s) \cup {reply}
        BY <4>1, PutType, PutTransit DEF TypeOK, ChannelTypeOK
      <4>3. r2s' \in {accepted, Put(accepted, sOpen, [type |-> "abort"])}
        BY <1>16, <3>2 DEF ReceiverOpened
      <4>4. InTransit(r2s') \subseteq InTransit(r2s) \cup {reply, [type |-> "abort"]}
        <5> HIDE DEF accepted, reply
        <5> QED
          BY <4>2, <4>3, PutTransit
      <4> QED
        BY <4>4 DEF AnswersKept
    <3> QED
      BY <3>1, <3>2
  <2>3. DecisionKept
    BY <1>16 DEF ReceiverOpened, ReceiverSettles, DecisionKept, Undecided
  <2> QED
    BY <1>16, <2>1, <2>2, <2>3, Kept, KeptFrame DEF ReceiverOpened, receiverVars, queueVars,
       taskVars, progressVars, senderVars
<1>17. CASE ReceiverGetsFrame
  <2>1. SentKept
    BY <1>17, TakeTransit DEF ReceiverGetsFrame, SenderHears, ReceiverHears, TypeOK, ChannelTypeOK,
       SentKept, userVars
  <2>2. QueueKept
    <3> DEFINE f == [i |-> Head(s2r).i, d |-> Head(s2r).d]
    <3>1. f.d = source
      BY <1>17, TakeTransit DEF ReceiverGetsFrame, ReceiverHears, VerifiedInv, SentOfSource, OfSource, TypeOK, ChannelTypeOK
    <3>2. InTransit(queue') \subseteq InTransit(queue) \cup {f}
      BY <1>17 DEF ReceiverGetsFrame, InTransit, TypeOK, QueueTypeOK
    <3> QED
      BY <3>1, <3>2 DEF QueueKept
  <2> QED
    BY <1>17, <2>1, <2>2, Kept, KeptFrame DEF ReceiverGetsFrame, receiverVars, taskVars,
       channelVars, progressVars, senderVars
<1>18. CASE SkipFrame
  <2>1. QueueKept
    BY <1>18, PopKept DEF SkipFrame
  <2> QED
    BY <1>18, <2>1, Kept, KeptFrame DEF SkipFrame, userVars, channelVars, receiverVars, taskVars,
       progressVars, senderVars
<1>19. CASE StartWrite
  BY <1>19, Kept, KeptFrame DEF StartWrite, userVars, channelVars, receiverVars, queueVars,
     taskVars, progressVars, senderVars
<1>20. CASE FrameWritten
  BY <1>20, Kept, KeptFrame DEF FrameWritten, userVars, channelVars, receiverVars, queueVars,
     taskVars, progressVars, senderVars
<1>21. CASE WriteFails
  <2>1. SentKept
    BY <1>21, FinishKept DEF WriteFails, userVars, TypeOK, ChannelTypeOK
  <2>2. QueueKept
    BY <1>21, PopKept DEF WriteFails, FrameIsDue, TypeOK, QueueTypeOK
  <2>3. AnswersKept
    BY <1>21, FinishKept DEF WriteFails, userVars, TypeOK, ChannelTypeOK
  <2>4. DecisionKept
    BY <1>21, FinishKept DEF WriteFails, DecisionKept, userVars, TypeOK, ChannelTypeOK
  <2> QED
    BY <1>21, <2>1, <2>2, <2>3, <2>4, Kept, KeptFrame DEF WriteFails, receiverVars, taskVars,
       progressVars, senderVars
<1>22. CASE FrameHashed
  <2>1. QueueKept
    BY <1>22, PopKept DEF FrameHashed, TypeOK, QueueTypeOK
  <2>2. HashesKept
    <3>1. Head(queue).d = source
      BY <1>22, TakeTransit DEF FrameHashed, VerifiedInv, QueuedOfSource, TypeOK, QueueTypeOK
    <3> QED
      BY <1>22, <3>1 DEF FrameHashed, HashesKept, ChunksMatch, TypeOK, ReceiverTypeOK, Image
  <2> QED
    BY <1>22, <2>1, <2>2, Kept, KeptFrame DEF FrameHashed, userVars, channelVars, receiverVars,
       taskVars, senderVars
<1>23. CASE LocalAbortStart
  BY <1>23, Kept, KeptFrame DEF LocalAbortStart, userVars, channelVars, receiverVars, queueVars,
     taskVars, progressVars, senderVars
<1>24. CASE RemoteAbortStart
  <2>1. VerdictKept
    BY <1>24 DEF RemoteAbortStart, VerdictKept
  <2> QED
    BY <1>24, <2>1, Kept, KeptFrame DEF RemoteAbortStart, userVars, channelVars, receiverVars,
       queueVars, progressVars, senderVars, taskVars
<1>25. CASE LocalAbortDone
  <2>1. SentKept
    BY <1>25, FinishKept DEF LocalAbortDone, userVars, TypeOK, ChannelTypeOK
  <2>2. AnswersKept
    BY <1>25, FinishKept DEF LocalAbortDone, userVars, TypeOK, ChannelTypeOK
  <2>3. DecisionKept
    BY <1>25, FinishKept DEF LocalAbortDone, DecisionKept, userVars, TypeOK, ChannelTypeOK
  <2> QED
    BY <1>25, <2>1, <2>2, <2>3, Kept, KeptFrame DEF LocalAbortDone, receiverVars, queueVars,
       taskVars, progressVars, senderVars
<1>26. CASE RemoteAbortDone
  <2>1. SentKept
    BY <1>26, FinishKept DEF RemoteAbortDone, userVars, TypeOK, ChannelTypeOK
  <2>2. AnswersKept
    BY <1>26, FinishKept DEF RemoteAbortDone, userVars, TypeOK, ChannelTypeOK
  <2>3. DecisionKept
    BY <1>26, FinishKept DEF RemoteAbortDone, DecisionKept, userVars, TypeOK, ChannelTypeOK
  <2> QED
    BY <1>26, <2>1, <2>2, <2>3, Kept, KeptFrame DEF RemoteAbortDone, receiverVars, queueVars,
       taskVars, progressVars, senderVars
<1>27. CASE ReceiverGetsComplete
  <2>1. SentKept
    BY <1>27, TakeTransit DEF ReceiverGetsComplete, SenderHears, ReceiverHears, TypeOK,
       ChannelTypeOK, SentKept, userVars
  <2>2. VerdictKept
    BY <1>27, TakeTransit DEF ReceiverGetsComplete, ReceiverHears, VerifiedInv, SentOfSource, OfSource, VerdictKept, TypeOK, ChannelTypeOK
  <2>3. DecisionKept
    BY <1>27 DEF ReceiverGetsComplete, DecisionKept, Undecided
  <2> QED
    BY <1>27, <2>1, <2>2, <2>3, Kept, KeptFrame DEF ReceiverGetsComplete, receiverVars, queueVars,
       channelVars, progressVars, senderVars
<1>28. CASE VerifyStart
  <2>1. SentKept
    BY <1>28, FinishKept, KeptFrame DEF VerifyStart, channelVars, userVars, TypeOK, ChannelTypeOK
  <2>2. VerdictKept
    BY <1>28 DEF VerifyStart, VerdictKept
  <2>3. AnswersKept
    BY <1>28, FinishKept, KeptFrame DEF VerifyStart, channelVars, userVars, TypeOK, ChannelTypeOK
  <2>4. DecisionKept
    <3>1. rpc \notin Undecided
      BY <1>28 DEF VerifyStart, VerifiedInv, NoVerdictYet
    <3> QED
      BY <1>28, <3>1, FinishKept DEF VerifyStart, DecisionKept, userVars, TypeOK, ChannelTypeOK
  <2> QED
    BY <1>28, <2>1, <2>2, <2>3, <2>4, Kept, KeptFrame DEF VerifyStart, receiverVars, queueVars,
       progressVars, senderVars
<1>29. CASE VerifyDigest
  <2> DEFINE told == Put(r2s, sOpen, [type |-> "verified", ok |-> HashesMatch])
  <2>1. rpc \notin Undecided /\ (HashesMatch => ChunksMatch)
    BY <1>29 DEF VerifyDigest, VerifiedInv, NoVerdictYet, VerdictOfSource, HashesMatch, ChunksMatch
  <2>2. told \in Seq(ReceiverMessage)
    <3>1. [type |-> "verified", ok |-> HashesMatch] \in ReceiverMessage
      BY DEF ReceiverMessage, HashesMatch
    <3> QED
      BY <3>1, PutType DEF TypeOK, ChannelTypeOK
  <2>3. \A m \in InTransit(told) :
           m.type = "verified" => m \in InTransit(r2s) \/ (rpc \notin Undecided /\ (m.ok => ChunksMatch))
    BY <2>1, PutTransit DEF TypeOK, ChannelTypeOK
  <2>4. \/ Finish("failed", rEvent, r2s)
        \/ Finish("failed", rEvent, told)
        \/ r2s' = told /\ UNCHANGED <<rpc, s2r>>
    BY <1>29 DEF VerifyDigest
  <2>5. source' = source
    BY <1>29 DEF VerifyDigest, userVars
  <2> HIDE DEF told
  <2>6. SentKept /\ AnswersKept
    BY <2>2, <2>3, <2>4, <2>5, FinishKept, KeptFrame DEF AnswersKept, TypeOK, ChannelTypeOK
  <2>7. DecisionKept
    BY <2>1, <2>2, <2>3, <2>4, <2>5, FinishKept DEF DecisionKept, TypeOK, ChannelTypeOK
  <2>8. VerdictKept
    BY <1>29 DEF VerifyDigest, VerdictKept
  <2> QED
    BY <1>29, <2>6, <2>7, <2>8, Kept, KeptFrame DEF VerifyDigest, receiverVars, queueVars, progressVars, senderVars
<1>30. CASE VerifyFinalized
  <2>1. SentKept
    BY <1>30, FinishKept DEF VerifyFinalized, userVars, TypeOK, ChannelTypeOK
  <2>2. VerdictKept
    BY <1>30 DEF VerifyFinalized, VerdictKept
  <2>3. AnswersKept
    BY <1>30, FinishKept DEF VerifyFinalized, userVars, TypeOK, ChannelTypeOK
  <2>4. DecisionKept
    <3>1. rpc \notin Undecided
      BY <1>30 DEF VerifyFinalized, VerifiedInv, NoVerdictYet
    <3> QED
      BY <1>30, <3>1, FinishKept DEF VerifyFinalized, DecisionKept, userVars, TypeOK, ChannelTypeOK
  <2> QED
    BY <1>30, <2>1, <2>2, <2>3, <2>4, Kept, KeptFrame DEF VerifyFinalized, receiverVars, queueVars,
       progressVars, senderVars
<1>31. CASE FinalizeFails
  <2>1. SentKept
    BY <1>31, FinishKept DEF FinalizeFails, userVars, TypeOK, ChannelTypeOK
  <2>2. VerdictKept
    BY <1>31 DEF FinalizeFails, VerdictKept
  <2>3. AnswersKept
    BY <1>31, FinishKept DEF FinalizeFails, userVars, TypeOK, ChannelTypeOK
  <2>4. DecisionKept
    <3>1. rpc \notin Undecided
      BY <1>31 DEF FinalizeFails, VerifiedInv, NoVerdictYet
    <3> QED
      BY <1>31, <3>1, FinishKept DEF FinalizeFails, DecisionKept, userVars, TypeOK, ChannelTypeOK
  <2> QED
    BY <1>31, <2>1, <2>2, <2>3, <2>4, Kept, KeptFrame DEF FinalizeFails, receiverVars, queueVars,
       progressVars, senderVars
<1>32. CASE VerifyMismatchDone
  <2>1. SentKept
    BY <1>32, FinishKept DEF VerifyMismatchDone, userVars, TypeOK, ChannelTypeOK
  <2>2. VerdictKept
    BY <1>32 DEF VerifyMismatchDone, VerdictKept
  <2>3. AnswersKept
    BY <1>32, FinishKept DEF VerifyMismatchDone, userVars, TypeOK, ChannelTypeOK
  <2>4. DecisionKept
    <3>1. rpc \notin Undecided
      BY <1>32 DEF VerifyMismatchDone, VerifiedInv, NoVerdictYet
    <3> QED
      BY <1>32, <3>1, FinishKept DEF VerifyMismatchDone, DecisionKept, userVars, TypeOK, ChannelTypeOK
  <2> QED
    BY <1>32, <2>1, <2>2, <2>3, <2>4, Kept, KeptFrame DEF VerifyMismatchDone, receiverVars,
       queueVars, progressVars, senderVars
<1>33. CASE ReceiverGetsClose
  <2>1. SentKept
    BY <1>33, EmptyTransit DEF ReceiverGetsClose, SentKept, userVars
  <2> QED
    BY <1>33, <2>1, Kept, KeptFrame DEF ReceiverGetsClose, receiverVars, queueVars, taskVars,
       channelVars, progressVars, senderVars
<1>34. CASE ReceiverCancel
  <2>1. AnswersKept
    BY <1>34, PutTransit DEF ReceiverCancel, AnswersKept, TypeOK, ChannelTypeOK
  <2> QED
    BY <1>34, <2>1, Kept, KeptFrame DEF ReceiverCancel, userVars, channelVars, receiverVars,
       queueVars, taskVars, progressVars, senderVars
<1>35. CASE ReceiverOpenFails
  <2>1. SentKept
    BY <1>35, FinishKept DEF ReceiverOpenFails, userVars, TypeOK, ChannelTypeOK
  <2>2. AnswersKept
    BY <1>35, FinishKept DEF ReceiverOpenFails, userVars, TypeOK, ChannelTypeOK
  <2>3. DecisionKept
    BY <1>35 DEF ReceiverOpenFails, ReceiverSettles, DecisionKept, Undecided
  <2> QED
    BY <1>35, <2>1, <2>2, <2>3, Kept, KeptFrame DEF ReceiverOpenFails, receiverVars, queueVars,
       taskVars, progressVars, senderVars
<1>36. CASE LinkFails
  BY <1>36, Kept, KeptFrame DEF LinkFails, userVars, channelVars, receiverVars, queueVars, taskVars,
     progressVars, senderVars
<1>37. CASE ReceiverCrash
  <2>1. QueueKept
    BY <1>37, EmptyTransit DEF ReceiverCrash, QueueKept
  <2>2. VerdictKept
    BY <1>37 DEF ReceiverCrash, VerdictKept
  <2>3. DecisionKept
    BY <1>37 DEF ReceiverCrash, DecisionKept, Undecided
  <2> QED
    BY <1>37, <2>1, <2>2, <2>3, Kept, KeptFrame DEF ReceiverCrash, userVars, channelVars,
       receiverVars, progressVars, senderVars
<1>38. CASE UNCHANGED vars
  BY <1>38, Kept, KeptFrame DEF vars, senderVars, receiverVars, progressVars, queueVars, taskVars, channelVars, userVars
<1> QED
  BY <1>1, <1>2, <1>3, <1>4, <1>5, <1>6, <1>7, <1>8, <1>9, <1>10, <1>11, <1>12, <1>13, <1>14, <1>15,
     <1>16, <1>17, <1>18, <1>19, <1>20, <1>21, <1>22, <1>23, <1>24, <1>25, <1>26, <1>27, <1>28,
     <1>29, <1>30, <1>31, <1>32, <1>33, <1>34, <1>35, <1>36, <1>37, <1>38 DEF Next, SenderStep,
     ReceiverStep, UserStep, Fault

LEMMA VerifiedInit == Init => VerifiedInv
  BY EmptyTransit DEF Init, VerifiedInv, SentOfSource, QueuedOfSource, VerdictOfSource, VerdictMeansMatch,
     NoVerdictYet, CompleteMeansVerified, Undecided

\* sendFile reports "complete" only for a file every chunk of which the receiver
\* has hashed to what the sender read: for any number of chunks, attempts and
\* versions of the file, every writer, and any loss, crash or cancel.
THEOREM CompleteIsVerified == Spec => []CompleteMeansVerified
<1>1. Init => TypeOK /\ VerifiedInv
  BY TypeInit, VerifiedInit
<1>2. TypeOK /\ VerifiedInv /\ [Next]_vars => TypeOK' /\ VerifiedInv'
  BY TypeNext, VerifiedNext
<1>3. VerifiedInv => CompleteMeansVerified
  BY DEF VerifiedInv
<1> QED
  BY <1>1, <1>2, <1>3, PTL DEF Spec

-----------------------------------------------------------------------------
(* A terminal event is the last. *)

TerminalMeansSettled == rEvent \in TerminalEvents => Settled

EventFinal == (attempt' = attempt /\ rEvent \in TerminalEvents) => rEvent' = rEvent

LEMMA TerminalNext ==
    TypeOK /\ TerminalMeansSettled /\ [Next]_vars => TerminalMeansSettled' /\ EventFinal
<1> SUFFICES ASSUME TypeOK, TerminalMeansSettled, [Next]_vars PROVE TerminalMeansSettled' /\ EventFinal
  OBVIOUS
<1> USE DEF TerminalMeansSettled, EventFinal, Settled
<1>1. (UNCHANGED <<rpc, rEvent>>) => TerminalMeansSettled' /\ EventFinal
  OBVIOUS
<1>2. ASSUME NEW pc \in {"returned", "failed"}, NEW event, NEW out, Finish(pc, event, out)
      PROVE  TerminalMeansSettled' /\ EventFinal
  BY <1>2 DEF Finish, ReceiverSettles, ReceiverDone
<1>3. CASE SenderGetsAccept
  BY <1>1, <1>3 DEF SenderGetsAccept, receiverVars
<1>4. CASE SenderGetsReject
  BY <1>1, <1>4 DEF SenderGetsReject, receiverVars
<1>5. CASE SenderGetsAbort
  BY <1>1, <1>5 DEF SenderGetsAbort, receiverVars
<1>6. CASE SenderGetsVerified
  BY <1>1, <1>6 DEF SenderGetsVerified, receiverVars
<1>7. CASE SenderGetsClose
  BY <1>1, <1>7 DEF SenderGetsClose, receiverVars
<1>8. CASE SenderTimeout
  BY <1>1, <1>8 DEF SenderTimeout, receiverVars
<1>9. CASE SenderReadChunk
  BY <1>1, <1>9 DEF SenderReadChunk, receiverVars
<1>10. CASE SenderDrained
  BY <1>1, <1>10 DEF SenderDrained, receiverVars
<1>11. CASE SenderFinishHash
  BY <1>1, <1>11 DEF SenderFinishHash, receiverVars
<1>12. CASE SenderReadError
  BY <1>1, <1>12 DEF SenderReadError, receiverVars
<1>13. CASE SenderCancel
  BY <1>1, <1>13 DEF SenderCancel, receiverVars
<1>14. CASE ReceiverGetsClose
  BY <1>1, <1>14 DEF ReceiverGetsClose, receiverVars
<1>15. CASE LinkFails
  BY <1>1, <1>15 DEF LinkFails, receiverVars
<1>16. CASE ReceiverGetsAbort
  BY <1>1, <1>16 DEF ReceiverGetsAbort
<1>17. CASE ReceiverGetsFrame
  BY <1>1, <1>17 DEF ReceiverGetsFrame
<1>18. CASE SkipFrame
  BY <1>1, <1>18 DEF SkipFrame
<1>19. CASE StartWrite
  BY <1>1, <1>19 DEF StartWrite
<1>20. CASE FrameWritten
  BY <1>1, <1>20 DEF FrameWritten
<1>21. CASE LocalAbortStart
  BY <1>1, <1>21 DEF LocalAbortStart
<1>22. CASE RemoteAbortStart
  BY <1>1, <1>22 DEF RemoteAbortStart
<1>23. CASE ReceiverGetsComplete
  BY <1>1, <1>23 DEF ReceiverGetsComplete
<1>24. CASE ReceiverCancel
  BY <1>1, <1>24 DEF ReceiverCancel
<1>25. CASE WriteFails
  BY <1>1, <1>2, <1>25 DEF WriteFails
<1>26. CASE LocalAbortDone
  BY <1>1, <1>2, <1>26 DEF LocalAbortDone
<1>27. CASE RemoteAbortDone
  BY <1>1, <1>2, <1>27 DEF RemoteAbortDone
<1>28. CASE VerifyStart
  BY <1>1, <1>2, <1>28 DEF VerifyStart
<1>29. CASE VerifyDigest
  BY <1>1, <1>2, <1>29 DEF VerifyDigest
<1>30. CASE VerifyFinalized
  BY <1>1, <1>2, <1>30 DEF VerifyFinalized
<1>31. CASE FinalizeFails
  BY <1>1, <1>2, <1>31 DEF FinalizeFails
<1>32. CASE VerifyMismatchDone
  BY <1>1, <1>2, <1>32 DEF VerifyMismatchDone
<1>33. CASE ReceiverGetsOffer
  BY <1>33 DEF ReceiverGetsOffer, ReceiverSettles, ReceiverDone, TerminalEvents
<1>34. CASE ReceiverOpened
  BY <1>34 DEF ReceiverOpened, ReceiverSettles, ReceiverDone, TerminalEvents
<1>35. CASE ReceiverDecide
  BY <1>35 DEF ReceiverDecide, ReceiverSettles, ReceiverDone, TerminalEvents
<1>36. CASE ReceiverOpenFails
  BY <1>36 DEF ReceiverOpenFails, ReceiverSettles, ReceiverDone, TerminalEvents
<1>37. CASE FrameHashed
  BY <1>37 DEF FrameHashed, ReceiverSettles, ReceiverDone, TerminalEvents
<1>38. CASE ReceiverCrash
  BY <1>38 DEF ReceiverCrash, ReceiverSettles, ReceiverDone, TerminalEvents
<1>39. CASE StartTransfer
  BY <1>39 DEF StartTransfer, TerminalEvents, TypeOK, UserTypeOK
<1>40. CASE UNCHANGED vars
  BY <1>1, <1>40 DEF vars, receiverVars
<1> QED
  BY <1>3, <1>4, <1>5, <1>6, <1>7, <1>8, <1>9, <1>10, <1>11, <1>12, <1>13, <1>14, <1>15, <1>16,
     <1>17, <1>18, <1>19, <1>20, <1>21, <1>22, <1>23, <1>24, <1>25, <1>26, <1>27, <1>28, <1>29,
     <1>30, <1>31, <1>32, <1>33, <1>34, <1>35, <1>36, <1>37, <1>38, <1>39, <1>40 DEF Next,
     SenderStep, ReceiverStep, UserStep, Fault

\* No event follows a terminal one: a frame still being written or hashed when
\* the transfer ends, and the loser of a race between a completion and two
\* cancels, cannot overwrite what the user was told.
THEOREM LastEventIsFinal == Spec => TerminalEventIsFinal
<1>1. Init => TypeOK /\ TerminalMeansSettled
  BY TypeInit DEF Init, TerminalMeansSettled, TerminalEvents
<1>2. TypeOK /\ TerminalMeansSettled /\ [Next]_vars
      => TypeOK' /\ TerminalMeansSettled' /\ [EventFinal]_vars
  BY TypeNext, TerminalNext
<1> QED
  BY <1>1, <1>2, PTL DEF Spec, TerminalEventIsFinal, EventFinal

-----------------------------------------------------------------------------
(* What is checked is the whole file, and what is delivered is it.         *)

\* The inductive invariant, in parts: what the sender has passed is received or on
\* its way, up to the completion, behind which no frame comes; what counts as
\* received has a hash, and is on disk as the writer keeps it; and the writer is in
\* the state in which it delivers what it holds.

Frames(ch) == {n \in DOMAIN ch : ch[n].type = "frame"}
Held == received \cup {queue[n].i : n \in DOMAIN queue}
OnWay == {s2r[n].i : n \in Frames(s2r)}

\* Frames are only sent into the first HighWater places of the channel.
FramesLow == \A n \in Frames(s2r) : n <= HighWater

\* Where the sender is before and after it sends frames.
BeforeComplete == {"accept", "read", "drain", "hash"}
SenderPlace == spc \in {"hash", "verify"} => sIdx = TotalChunks

\* Before the receiver has accepted the sender has sent nothing.
NothingBeforeAccept ==
    rpc \in {"offer", "confirm", "open"} =>
        /\ sIdx = 0 /\ sFrom = 0 /\ spc \in {"accept"} \cup SenderDone
        /\ \A m \in InTransit(r2s) : m.type # "accept"
        /\ vTask = "none" /\ queue = <<>>

SentIsHeld ==
    rpc = "loop" /\ rOpen => \A i \in Chunks : i < sIdx => i \in Held \cup OnWay

SkippedIsReceived ==
    rpc = "loop" =>
        /\ \A i \in Chunks : i < sFrom => i \in received
        /\ \A m \in InTransit(r2s) : m.type = "accept" => \A i \in Chunks : i < m.from => i \in received

CompleteIsLast ==
    \A n \in DOMAIN s2r : s2r[n].type = "complete" =>
        /\ sIdx = TotalChunks /\ spc \notin BeforeComplete
        /\ \A k \in Frames(s2r) : k < n

VerifyHasAll ==
    vTask # "none" =>
        /\ spc \notin BeforeComplete /\ Frames(s2r) = {}
        /\ rpc = "loop" => Chunks \subseteq Held
        /\ vTask # "wait" => queue = <<>> /\ received = Chunks

ReceivedIsHashed ==
    /\ \A i \in received : hashes[i] # NoData
    /\ \A i \in store.idx : store.hash[i] # NoData

\* The chunks of idx, whose hashes are hash, are where the writer keeps them.
OnDisk(idx, hash) ==
    /\ kind = "tauri" => \A i \in idx : disk.file[i] = hash[i]
    /\ kind = "idb" => \A i \in idx : disk.part[i] \in {hash[i], NoData}
OnSwap(idx, hash) ==
    kind = "fsa" /\ MaxAttempts = 1 /\ wst \in {"open", "closing"} =>
        \A i \in idx : disk.part[i] = hash[i]

EntryOnDisk == OnDisk(store.idx, store.hash)
ReceivedOnDisk == OnDisk(received, hashes) /\ OnSwap(received, hashes)
EntryIsReceived == rpc \in {"open", "loop"} \/ queue # <<>> => store.idx \subseteq received

\* The chunk that is being written.
WrittenOnDisk ==
    qStage # "idle" =>
        /\ Head(queue).i \notin received
        /\ OnDisk({Head(queue).i}, [hashes EXCEPT ![Head(queue).i] = Head(queue).d])
        /\ OnSwap({Head(queue).i}, [hashes EXCEPT ![Head(queue).i] = Head(queue).d])

\* The first attempt finds nothing.
FirstAttempt ==
    MaxAttempts = 1 =>
        /\ attempt <= 1
        /\ attempt = 0 => rpc = "idle"
        /\ rpc \in {"idle", "offer", "confirm"} => store.idx = {}
        /\ rpc \in {"idle", "offer", "confirm", "open"} => received = {}

WriterIsOpen ==
    /\ rpc = "loop" => wst \in {"open", "aborting", "closing"}
    /\ rpc = "loop" /\ vTask = "finalize" => HashesMatch /\ (kind \in {"fsa", "tauri"} => wst = "closing")

CompleteIsDelivered ==
    rEvent = "complete" =>
        /\ Settled /\ vTask = "none" /\ queue = <<>>
        /\ kind \in {"idb", "tauri"} \/ (kind = "fsa" /\ MaxAttempts = 1)
              => \A i \in Chunks : disk.file[i] = source

SendingInv == FramesLow /\ SenderPlace /\ NothingBeforeAccept /\ SentIsHeld /\ SkippedIsReceived
                /\ CompleteIsLast /\ VerifyHasAll
KeepingInv == ReceivedIsHashed /\ EntryOnDisk /\ ReceivedOnDisk /\ EntryIsReceived /\ WrittenOnDisk
                /\ FirstAttempt /\ WriterIsOpen /\ CompleteIsDelivered
DeliveryInv == SendingInv /\ KeepingInv

-----------------------------------------------------------------------------
(* A step of the sender. *)

\* r is s2r with messages of types T behind it.
Adds(r, T) ==
    /\ \A n \in DOMAIN s2r : n \in DOMAIN r /\ r[n] = s2r[n]
    /\ \A n \in DOMAIN r : n \in DOMAIN s2r \/ (r[n].type \in T /\ \A k \in DOMAIN s2r : k < n)
Tidings == {"abort", "close"}

LEMMA PutAdds ==
    ASSUME NEW q \in Seq(SenderMessage), Adds(q, Tidings), NEW m, m.type \in Tidings, NEW r, NEW toOpen,
           r = Put(q, toOpen, m), s2r \in Seq(SenderMessage)
    PROVE  Adds(r, Tidings)
<1>1. CASE r = q
  BY <1>1
<1>2. CASE r = Append(q, m)
  <2>1. /\ DOMAIN r = DOMAIN q \cup {Len(q) + 1} /\ r[Len(q) + 1] = m
        /\ \A n \in DOMAIN q : r[n] = q[n] /\ n <= Len(q) /\ n \in Nat
    BY <1>2
  <2> QED BY <2>1 DEF Adds
<1> QED BY <1>1, <1>2 DEF Put

LEMMA ClosesAdds ==
    ASSUME s2r \in Seq(SenderMessage), NEW q \in Seq(SenderMessage), Adds(q, Tidings), SenderCloses(q)
    PROVE  /\ Adds(s2r', Tidings) /\ InTransit(r2s') = {} /\ rOpen' = rOpen
<1>1. PICK m \in SenderMessage : m = [type |-> "close"]
  BY CloseMessages
<1>5. m.type \in Tidings
  BY <1>1 DEF Tidings
<1>2. s2r' = q \/ s2r' = Put(q, rOpen, m)
  BY <1>1 DEF SenderCloses
<1>3. Adds(s2r', Tidings)
  BY <1>2, <1>5, PutAdds
<1>4. r2s' = <<>> /\ rOpen' = rOpen
  BY DEF SenderCloses
<1> QED BY <1>3, <1>4, EmptyTransit

\* The frame at place n is that of chunk i.
IsFrame(m, i) == m.type = "frame" /\ m.i = i

Asleep == {"accept"} \cup SenderDone

SenderEffect ==
    /\ UNCHANGED <<rpc, received, hashes, queue, qStage, vTask, vHash, rEvent, wst, disk, store, rOpen,
                   source, attempt, kind>>
    /\ \/ Adds(s2r', Tidings)
       \/ Adds(s2r', {"complete"}) /\ spc = "hash" /\ spc' = "verify" /\ sIdx' = sIdx
       \/ /\ Adds(s2r', {"frame"}) /\ spc \in {"read", "drain"}
          /\ \A n \in DOMAIN s2r' : n \in DOMAIN s2r \/ n <= HighWater
    /\ InTransit(r2s') \subseteq InTransit(r2s)
    /\ spc' \in BeforeComplete => spc \in BeforeComplete
    /\ spc' \in {"hash", "verify"} => (spc \in {"hash", "verify"} /\ sIdx' = sIdx) \/ sIdx' = TotalChunks
    /\ spc \in Asleep =>
         \/ sIdx' = sIdx /\ sFrom' = sFrom /\ spc' \in Asleep
         \/ /\ spc = "accept" /\ sIdx' = 0
            /\ \E m \in InTransit(r2s) : m.type = "accept" /\ sFrom' = m.from
    /\ spc \notin Asleep =>
         /\ sFrom' = sFrom
         /\ \/ sIdx' = sIdx
            \/ /\ spc \in {"read", "drain"} /\ sIdx' = sIdx + 1
               /\ sIdx < sFrom \/ (rOpen => \E n \in DOMAIN s2r' : IsFrame(s2r'[n], sIdx))

LEMMA SenderKeepsSending ==
    ASSUME TypeOK, SendingInv, SenderEffect
    PROVE  SendingInv'
<1>1. /\ sIdx \in Nat /\ sFrom \in Nat /\ s2r \in Seq(SenderMessage) /\ HighWater \in Nat
      /\ spc \in {"idle", "accept", "read", "drain", "hash", "verify", "returned", "failed"}
  BY DEF TypeOK, SenderTypeOK, ChannelTypeOK
<1>2. UNCHANGED <<rpc, received, queue, vTask, rOpen>>
  BY DEF SenderEffect
<1>3. FramesLow'
  BY <1>1 DEF SendingInv, FramesLow, Frames, SenderEffect, Adds, Tidings
<1>4. SenderPlace'
  BY DEF SendingInv, SenderPlace, SenderEffect
<1>5. NothingBeforeAccept'
  BY <1>1, <1>2 DEF SendingInv, NothingBeforeAccept, SenderEffect, Asleep
<1>6. SkippedIsReceived'
  BY <1>1, <1>2 DEF SendingInv, SkippedIsReceived, SenderEffect, Asleep
<1>7. SentIsHeld'
  <2> SUFFICES ASSUME rpc = "loop", rOpen, NEW i \in Chunks, i < sIdx', i \notin Held
               PROVE  \E n \in Frames(s2r') : s2r'[n].i = i
    BY <1>2 DEF SentIsHeld, Held, OnWay
  <2>1. \A n \in Frames(s2r) : n \in Frames(s2r') /\ s2r'[n] = s2r[n]
    BY DEF SenderEffect, Adds, Frames
  <2>2. i < sIdx => \E n \in Frames(s2r) : s2r[n].i = i
    BY DEF SendingInv, SentIsHeld, Held, OnWay
  <2>3. CASE sIdx' = sIdx \/ sIdx' = 0
    BY <2>1, <2>2, <2>3 DEF Chunks
  <2>4. CASE sIdx' = sIdx + 1 /\ sIdx < sFrom
    <3>1. i < sFrom => i \in received
      BY DEF SendingInv, SkippedIsReceived
    <3> QED BY <1>1, <2>1, <2>2, <2>4, <3>1 DEF Chunks, Held
  <2>5. CASE sIdx' = sIdx + 1 /\ \E n \in DOMAIN s2r' : IsFrame(s2r'[n], sIdx)
    <3>1. i < sIdx \/ i = sIdx
      BY <1>1, <2>5 DEF Chunks
    <3>2. \E n \in Frames(s2r') : s2r'[n].i = sIdx
      BY <2>5 DEF IsFrame, Frames
    <3> QED BY <2>1, <2>2, <3>1, <3>2
  <2> QED BY <2>3, <2>4, <2>5 DEF SenderEffect
<1>8. CompleteIsLast'
  <2> SUFFICES ASSUME NEW n \in DOMAIN s2r', s2r'[n].type = "complete"
               PROVE  /\ sIdx' = TotalChunks /\ spc' \notin BeforeComplete
                      /\ \A k \in Frames(s2r') : k < n
    BY DEF CompleteIsLast
  <2>1. CASE n \in DOMAIN s2r
    <3>1. s2r[n].type = "complete"
      BY <2>1 DEF SenderEffect, Adds
    <3>2. sIdx = TotalChunks /\ spc \notin BeforeComplete /\ \A k \in Frames(s2r) : k < n
      BY <2>1, <3>1 DEF SendingInv, CompleteIsLast
    <3>3. sIdx' = sIdx
      BY <3>2 DEF SenderEffect, BeforeComplete, Asleep
    <3>4. Frames(s2r') \subseteq Frames(s2r)
      BY <3>2 DEF SenderEffect, BeforeComplete, Adds, Frames, Tidings
    <3> QED BY <3>2, <3>3, <3>4 DEF SenderEffect
  <2>2. CASE n \notin DOMAIN s2r
    <3>1. Adds(s2r', {"complete"}) /\ spc = "hash" /\ spc' = "verify" /\ sIdx' = sIdx
      BY <2>2 DEF SenderEffect, Adds, Tidings
    <3>2. \A k \in Frames(s2r') : k \in DOMAIN s2r
      BY <3>1 DEF Adds, Frames
    <3> QED BY <2>2, <3>1, <3>2 DEF Adds, SendingInv, SenderPlace, BeforeComplete
  <2> QED BY <2>1, <2>2
<1>9. VerifyHasAll'
  <2> SUFFICES ASSUME vTask # "none"
               PROVE  /\ spc' \notin BeforeComplete /\ Frames(s2r') = {}
                      /\ rpc = "loop" => Chunks \subseteq Held
                      /\ vTask # "wait" => queue = <<>> /\ received = Chunks
    BY <1>2 DEF VerifyHasAll, Held
  <2>1. /\ spc \notin BeforeComplete /\ Frames(s2r) = {}
        /\ rpc = "loop" => Chunks \subseteq Held
        /\ vTask # "wait" => queue = <<>> /\ received = Chunks
    BY DEF SendingInv, VerifyHasAll
  <2>2. Frames(s2r') \subseteq Frames(s2r)
    BY <2>1 DEF SenderEffect, BeforeComplete, Adds, Frames, Tidings
  <2> QED BY <2>1, <2>2 DEF SenderEffect
<1> QED BY <1>3, <1>4, <1>5, <1>6, <1>7, <1>8, <1>9 DEF SendingInv

LEMMA KeepingFrame ==
    ASSUME KeepingInv,
           UNCHANGED <<rpc, received, hashes, queue, qStage, vTask, vHash, rEvent, wst, disk, store,
                       source, attempt, kind>>
    PROVE  KeepingInv'
<1>1. ReceivedIsHashed' /\ EntryIsReceived'
  BY DEF KeepingInv, ReceivedIsHashed, EntryIsReceived
<1>2. EntryOnDisk' /\ ReceivedOnDisk' /\ WrittenOnDisk'
  BY DEF KeepingInv, EntryOnDisk, ReceivedOnDisk, WrittenOnDisk, OnDisk, OnSwap
<1>3. FirstAttempt' /\ WriterIsOpen' /\ CompleteIsDelivered'
  BY DEF KeepingInv, FirstAttempt, WriterIsOpen, HashesMatch, CompleteIsDelivered, Settled
<1> QED BY <1>1, <1>2, <1>3 DEF KeepingInv

\* The variables of the receiver that the invariant speaks of.
receiverView == <<rpc, received, hashes, queue, qStage, vTask, vHash, rEvent, wst, disk, store,
                  source, attempt, kind>>

LEMMA SenderKeeps == ASSUME TypeOK, DeliveryInv, SenderEffect PROVE DeliveryInv'
  BY SenderKeepsSending, KeepingFrame DEF DeliveryInv, SenderEffect

LEMMA ReceiverSame ==
    UNCHANGED <<receiverVars, writerVars, store, userVars>> => UNCHANGED receiverView
  BY DEF receiverVars, progressVars, queueVars, taskVars, writerVars, userVars, receiverView

LEMMA NothingAdded == ASSUME NEW T PROVE Adds(s2r, T)
  BY DEF Adds

\* sendFile settles, having sent at most an abort.
LEMMA SettlesEffect ==
    ASSUME TypeOK, NEW pc \in {"returned", "failed"}, NEW event, NEW out \in Seq(SenderMessage),
           Adds(out, Tidings), SenderSettles(pc, event, out), UNCHANGED <<receiverView, sFrom>>,
           spc \notin SenderDone, sIdx' \in Nat,
           \/ sIdx' = sIdx
           \/ spc = "read" /\ sIdx' = sIdx + 1 /\ sIdx < sFrom
    PROVE  SenderEffect
<1>1. spc' = pc /\ SenderCloses(out) /\ s2r \in Seq(SenderMessage)
  BY DEF SenderSettles, TypeOK, ChannelTypeOK
<1>2. Adds(s2r', Tidings) /\ InTransit(r2s') = {} /\ rOpen' = rOpen
  BY <1>1, ClosesAdds
<1>3. spc' \notin BeforeComplete /\ spc' \notin {"hash", "verify"} /\ spc' \in Asleep
  BY <1>1 DEF BeforeComplete, Asleep, SenderDone
<1>4. spc \in Asleep => sIdx' = sIdx
  BY DEF Asleep, SenderDone
<1> QED BY <1>2, <1>3, <1>4 DEF SenderEffect, receiverView

LEMMA BailEffect ==
    ASSUME TypeOK, NEW remote \in BOOLEAN, Bail(remote), UNCHANGED <<receiverView, sFrom>>,
           spc \notin SenderDone, sIdx' \in Nat,
           \/ sIdx' = sIdx
           \/ spc = "read" /\ sIdx' = sIdx + 1 /\ sIdx < sFrom
    PROVE  SenderEffect
<1>1. PICK m \in SenderMessage : m = [type |-> "abort"]
  BY CloseMessages
<1>2. m.type \in Tidings
  BY <1>1 DEF Tidings
<1>3. PICK told : told = Put(s2r, rOpen, m)
  OBVIOUS
<1>4. s2r \in Seq(SenderMessage) /\ rOpen \in BOOLEAN
  BY DEF TypeOK, ChannelTypeOK
<1>5. told \in Seq(SenderMessage)
  BY <1>3, <1>4, PutType
<1>6. Adds(told, Tidings) /\ Adds(s2r, Tidings)
  BY <1>2, <1>3, <1>4, NothingAdded, PutAdds
<1>7. \/ SenderSettles("returned", "cancelled", told)
      \/ SenderSettles("returned", "cancelled", s2r)
      \/ SenderSettles("failed", sEvent, s2r)
  BY <1>1, <1>3 DEF Bail, SenderThrows
<1> QED BY <1>4, <1>5, <1>6, <1>7, SettlesEffect

LEMMA SendFrameEffect ==
    ASSUME TypeOK, SendFrame, spc \in {"read", "drain"}, Len(s2r) < HighWater,
           UNCHANGED <<receiverView, sFrom>>
    PROVE  SenderEffect
<1>1. s2r \in Seq(SenderMessage) /\ spc \notin SenderDone /\ spc \notin Asleep /\ sIdx \in Nat /\ sIdx < TotalChunks
  BY DEF TypeOK, ChannelTypeOK, SenderTypeOK, SenderDone, Asleep
<1>2. CASE sCancel \/ sRemote
  <2>1. Bail(sRemote) /\ UNCHANGED sIdx /\ sRemote \in BOOLEAN
    BY <1>2 DEF SendFrame, TypeOK, SenderTypeOK
  <2> QED BY <1>1, <2>1, BailEffect
<1>3. CASE ~(sCancel \/ sRemote) /\ ~sOpen
  <2>1. SenderSettles("failed", sEvent, s2r) /\ UNCHANGED sIdx
    BY <1>3 DEF SendFrame, SenderThrows
  <2> QED BY <1>1, <2>1, NothingAdded, SettlesEffect
<1>4. CASE ~(sCancel \/ sRemote) /\ sOpen
  <2>1. PICK m : m = [type |-> "frame", i |-> sIdx, d |-> source]
    OBVIOUS
  <2>2. m.type = "frame" /\ m.i = sIdx
    BY <2>1
  <2>3. /\ s2r' = Put(s2r, rOpen, m) /\ sIdx' = sIdx + 1 /\ spc' \in {"read", "hash"}
        /\ spc' = "hash" => ~(sIdx + 1 < TotalChunks)
        /\ UNCHANGED <<r2s, rOpen>>
    BY <1>4, <2>1 DEF SendFrame
  <2>4. sIdx' = TotalChunks \/ spc' = "read"
    BY <1>1, <2>3
  <2>5. /\ DOMAIN Append(s2r, m) = DOMAIN s2r \cup {Len(s2r) + 1}
        /\ Append(s2r, m)[Len(s2r) + 1] = m
        /\ \A n \in DOMAIN s2r : Append(s2r, m)[n] = s2r[n] /\ n <= Len(s2r)
    BY <1>1
  <2>6. Adds(s2r', {"frame"})
    BY <1>1, <2>2, <2>3, <2>5 DEF Put, Adds
  <2>7. \A n \in DOMAIN s2r' : n \in DOMAIN s2r \/ n <= HighWater
    BY <1>1, <2>3, <2>5 DEF Put
  <2>8. rOpen => \E n \in DOMAIN s2r' : IsFrame(s2r'[n], sIdx)
    BY <1>1, <2>2, <2>3, <2>5 DEF Put, IsFrame
  <2>9. spc \in BeforeComplete /\ InTransit(r2s') \subseteq InTransit(r2s)
    BY <2>3 DEF BeforeComplete
  <2> QED BY <1>1, <2>3, <2>4, <2>6, <2>7, <2>8, <2>9 DEF SenderEffect, receiverView
<1> QED BY <1>2, <1>3, <1>4

LEMMA SenderGetsAcceptEffect == ASSUME TypeOK, SenderGetsAccept PROVE SenderEffect
<1>1. /\ spc = "accept" /\ r2s # <<>> /\ Head(r2s).type = "accept" /\ r2s' = Tail(r2s)
      /\ sFrom' = Head(r2s).from /\ sIdx' = 0
      /\ spc' = IF TotalChunks = 0 THEN "hash" ELSE "read"
      /\ UNCHANGED <<receiverView, s2r, rOpen>>
  BY ReceiverSame DEF SenderGetsAccept, SenderHears
<1>2. InTransit(r2s') \subseteq InTransit(r2s) /\ Head(r2s) \in InTransit(r2s)
  BY <1>1, TakeTransit DEF TypeOK, ChannelTypeOK
<1>3. Adds(s2r', Tidings)
  BY <1>1, NothingAdded
<1>4. spc \in Asleep /\ spc \in BeforeComplete /\ (spc' = "hash" => sIdx' = TotalChunks)
  BY <1>1 DEF Asleep, BeforeComplete
<1>5. \E m \in InTransit(r2s) : m.type = "accept" /\ sFrom' = m.from
  BY <1>1, <1>2
<1> QED BY <1>1, <1>2, <1>3, <1>4, <1>5 DEF SenderEffect, receiverView

\* The steps that settle with nothing sent.
LEMMA QuietEndEffect ==
    ASSUME TypeOK,
           \/ SenderGetsReject \/ SenderGetsVerified \/ SenderTimeout \/ SenderReadError
    PROVE  SenderEffect
<1>1. /\ spc \in {"accept", "verify", "read"}
      /\ UNCHANGED <<receiverView, sFrom, sIdx>>
      /\ \E pc \in {"returned", "failed"}, event \in {"rejected", "complete", "error", sEvent} :
            SenderSettles(pc, event, s2r)
  BY ReceiverSame DEF SenderGetsReject, SenderGetsVerified, SenderTimeout, SenderReadError, SenderThrows
<1>2. s2r \in Seq(SenderMessage) /\ sIdx \in Nat /\ spc \notin SenderDone
  BY <1>1 DEF TypeOK, ChannelTypeOK, SenderTypeOK, SenderDone
<1> QED BY <1>1, <1>2, NothingAdded, SettlesEffect

LEMMA SenderGetsAbortEffect == ASSUME TypeOK, SenderGetsAbort PROVE SenderEffect
<1>1. spc \notin SenderDone /\ UNCHANGED <<receiverView, sFrom, sIdx>> /\ sIdx \in Nat
  BY ReceiverSame DEF SenderGetsAbort, SenderActive, TypeOK, SenderTypeOK
<1>2. CASE spc \in {"accept", "verify"}
  BY <1>1, <1>2, BailEffect DEF SenderGetsAbort
<1>3. CASE spc \notin {"accept", "verify"}
  <2>1. /\ r2s # <<>> /\ r2s' = Tail(r2s) /\ UNCHANGED <<spc, s2r, rOpen>>
    BY <1>3 DEF SenderGetsAbort, SenderHears
  <2>2. InTransit(r2s') \subseteq InTransit(r2s)
    BY <2>1, TakeTransit DEF TypeOK, ChannelTypeOK
  <2>3. Adds(s2r', Tidings)
    BY <2>1, NothingAdded
  <2> QED BY <1>1, <2>1, <2>2, <2>3 DEF SenderEffect, receiverView
<1> QED BY <1>2, <1>3

LEMMA SenderGetsCloseEffect == ASSUME TypeOK, SenderGetsClose PROVE SenderEffect
<1>1. r2s' = <<>> /\ UNCHANGED <<receiverView, s2r, rOpen, spc, sIdx, sFrom>>
  BY ReceiverSame DEF SenderGetsClose, senderVars
<1>2. Adds(s2r', Tidings) /\ InTransit(r2s') = {}
  BY <1>1, NothingAdded, EmptyTransit
<1> QED BY <1>1, <1>2 DEF SenderEffect, receiverView

LEMMA SenderCancelEffect == ASSUME TypeOK, SenderCancel PROVE SenderEffect
<1>1. spc \notin SenderDone /\ UNCHANGED <<receiverView, sFrom, sIdx>> /\ sIdx \in Nat
  BY ReceiverSame DEF SenderCancel, SenderActive, TypeOK, SenderTypeOK
<1>2. CASE spc = "accept"
  BY <1>1, <1>2, BailEffect DEF SenderCancel
<1>3. CASE spc # "accept"
  <2>1. UNCHANGED <<spc, s2r, r2s, rOpen>>
    BY <1>3 DEF SenderCancel, channelVars
  <2>2. Adds(s2r', Tidings)
    BY <2>1, NothingAdded
  <2> QED BY <1>1, <2>1, <2>2 DEF SenderEffect, receiverView
<1> QED BY <1>2, <1>3

LEMMA SenderReadChunkEffect == ASSUME TypeOK, SenderReadChunk PROVE SenderEffect
<1>1. /\ spc = "read" /\ UNCHANGED <<receiverView, sFrom>> /\ s2r \in Seq(SenderMessage)
      /\ sIdx \in Nat /\ sFrom \in 0 .. TotalChunks /\ sIdx < TotalChunks /\ HighWater \in Nat
  BY ReceiverSame DEF SenderReadChunk, TypeOK, ChannelTypeOK, SenderTypeOK
<1>2. CASE sIdx < sFrom
  <2>1. LoopTop(sIdx + 1)
    BY <1>2 DEF SenderReadChunk
  <2>2. CASE sCancel \/ sRemote
    <3>1. sIdx' = sIdx + 1 /\ Bail(sRemote) /\ sRemote \in BOOLEAN
      BY <2>1, <2>2 DEF LoopTop, TypeOK, SenderTypeOK
    <3> QED BY <1>1, <1>2, <3>1, BailEffect DEF SenderDone
  <2>3. CASE ~(sCancel \/ sRemote)
    <3>1. /\ sIdx' = sIdx + 1 /\ spc' \in {"read", "hash"}
          /\ spc' = "hash" => ~(sIdx + 1 < TotalChunks)
          /\ UNCHANGED <<s2r, r2s, rOpen>>
      BY <2>1, <2>3 DEF LoopTop, channelVars
    <3>2. spc' = "hash" => sIdx' = TotalChunks
      BY <1>1, <3>1
    <3>3. Adds(s2r', Tidings)
      BY <3>1, NothingAdded
    <3>4. spc \in BeforeComplete /\ spc \notin Asleep
      BY <1>1 DEF BeforeComplete, Asleep, SenderDone
    <3> QED BY <1>1, <1>2, <3>1, <3>2, <3>3, <3>4 DEF SenderEffect, receiverView
  <2> QED BY <2>2, <2>3
<1>3. CASE ~(sIdx < sFrom) /\ BufferHigh
  <2>1. spc' = "drain" /\ UNCHANGED <<sIdx, s2r, r2s, rOpen>>
    BY <1>3 DEF SenderReadChunk, channelVars
  <2>2. Adds(s2r', Tidings)
    BY <2>1, NothingAdded
  <2>3. spc \in BeforeComplete /\ spc \notin Asleep
    BY <1>1 DEF BeforeComplete, Asleep, SenderDone
  <2> QED BY <1>1, <2>1, <2>2, <2>3 DEF SenderEffect, receiverView
<1>4. CASE ~(sIdx < sFrom) /\ ~BufferHigh
  <2>1. SendFrame
    BY <1>4 DEF SenderReadChunk
  <2>2. Len(s2r) < HighWater
    BY <1>1, <1>4 DEF BufferHigh
  <2> QED BY <1>1, <2>1, <2>2, SendFrameEffect
<1> QED BY <1>2, <1>3, <1>4

LEMMA SenderDrainedEffect == ASSUME TypeOK, SenderDrained PROVE SenderEffect
<1>1. /\ spc = "drain" /\ UNCHANGED <<receiverView, sFrom>> /\ s2r \in Seq(SenderMessage)
      /\ SendFrame /\ Len(s2r) <= LowWater
  BY ReceiverSame DEF SenderDrained, TypeOK, ChannelTypeOK
<1>2. Len(s2r) < HighWater
  BY <1>1
<1> QED BY <1>1, <1>2, SendFrameEffect

LEMMA SenderFinishHashEffect == ASSUME TypeOK, SenderFinishHash PROVE SenderEffect
<1>1. /\ spc = "hash" /\ UNCHANGED <<receiverView, sFrom, sIdx>> /\ s2r \in Seq(SenderMessage)
      /\ sIdx \in Nat
  BY ReceiverSame DEF SenderFinishHash, TypeOK, ChannelTypeOK, SenderTypeOK
<1>2. CASE sOpen
  <2>1. PICK m : m = [type |-> "complete", h |-> source]
    OBVIOUS
  <2>2. m.type = "complete"
    BY <2>1
  <2>3. s2r' = Put(s2r, rOpen, m) /\ spc' = "verify" /\ UNCHANGED <<r2s, rOpen>>
    BY <1>2, <2>1 DEF SenderFinishHash
  <2>4. /\ DOMAIN Append(s2r, m) = DOMAIN s2r \cup {Len(s2r) + 1}
        /\ Append(s2r, m)[Len(s2r) + 1] = m
        /\ \A n \in DOMAIN s2r : Append(s2r, m)[n] = s2r[n] /\ n <= Len(s2r)
    BY <1>1
  <2>5. Adds(s2r', {"complete"})
    BY <1>1, <2>2, <2>3, <2>4 DEF Put, Adds
  <2>6. spc' \notin BeforeComplete /\ spc \notin Asleep
    BY <1>1, <2>3 DEF BeforeComplete, Asleep, SenderDone
  <2> QED BY <1>1, <2>3, <2>5, <2>6 DEF SenderEffect, receiverView
<1>3. CASE ~sOpen
  <2>1. SenderSettles("failed", sEvent, s2r) /\ spc \notin SenderDone
    BY <1>1, <1>3 DEF SenderFinishHash, SenderThrows, SenderDone
  <2> QED BY <1>1, <2>1, NothingAdded, SettlesEffect
<1> QED BY <1>2, <1>3

-----------------------------------------------------------------------------
(* A step of the receiver: the channel. *)

LEMMA DroppedKept ==
    ASSUME s2r \in Seq(SenderMessage),
           s2r' \in {s2r, <<>>} \/ (s2r # <<>> /\ s2r' = Tail(s2r))
    PROVE  /\ FramesLow => FramesLow'
           /\ CompleteIsLast /\ UNCHANGED <<spc, sIdx>> => CompleteIsLast'
           /\ Frames(s2r) = {} => Frames(s2r') = {}
<1>1. CASE s2r' = s2r
  BY <1>1 DEF FramesLow, CompleteIsLast, Frames
<1>2. CASE s2r' = <<>>
  BY <1>2 DEF FramesLow, CompleteIsLast, Frames
<1>3. CASE s2r # <<>> /\ s2r' = Tail(s2r)
  <2>1. \A n \in DOMAIN s2r' : n + 1 \in DOMAIN s2r /\ s2r'[n] = s2r[n + 1] /\ n \in Nat
    BY <1>3
  <2>2. \A n \in Frames(s2r') : n + 1 \in Frames(s2r) /\ n \in Nat
    BY <2>1 DEF Frames
  <2>3. FramesLow => FramesLow'
    BY <2>2 DEF FramesLow
  <2>4. ASSUME CompleteIsLast, UNCHANGED <<spc, sIdx>>
        PROVE  CompleteIsLast'
    <3> SUFFICES ASSUME NEW n \in DOMAIN s2r', s2r'[n].type = "complete"
                 PROVE  /\ sIdx = TotalChunks /\ spc \notin BeforeComplete
                        /\ \A k \in Frames(s2r') : k < n
      BY <2>4 DEF CompleteIsLast
    <3>1. /\ sIdx = TotalChunks /\ spc \notin BeforeComplete
          /\ \A k \in Frames(s2r) : k < n + 1
      BY <2>1, <2>4 DEF CompleteIsLast
    <3>2. \A k \in Frames(s2r') : k < n
      BY <2>1, <2>2, <3>1
    <3> QED BY <3>1, <3>2
  <2>5. Frames(s2r) = {} => Frames(s2r') = {}
    BY <2>2
  <2> QED BY <2>3, <2>4, <2>5
<1> QED BY <1>1, <1>2, <1>3

NotAccepted == {"offer", "confirm", "open"}

\* A step that neither accepts the file nor takes a frame or the completion.
Reception ==
    /\ UNCHANGED <<spc, sIdx, sFrom>>
    /\ \/ s2r' = s2r
       \/ s2r' = <<>> /\ ~rOpen'
       \/ s2r # <<>> /\ s2r' = Tail(s2r) /\ Head(s2r).type # "frame"
    /\ \A m \in InTransit(r2s') : m \in InTransit(r2s) \/ m.type # "accept"
    /\ rOpen' => rOpen
    /\ rpc' \in NotAccepted => rpc \in NotAccepted /\ UNCHANGED <<vTask, queue>>
    /\ rpc' = "loop" => rpc = "loop" /\ received \subseteq received' /\ Held \subseteq Held'
    /\ vTask' # "none" => vTask # "none"
    /\ vTask' \notin {"none", "wait"} =>
         \/ vTask \notin {"none", "wait"} /\ (queue = <<>> => UNCHANGED <<queue, received>>)
         \/ queue' = <<>> /\ received' = Chunks

LEMMA ReceptionKeeps ==
    ASSUME TypeOK, SendingInv, Reception
    PROVE  SendingInv'
<1>1. s2r \in Seq(SenderMessage) /\ UNCHANGED <<spc, sIdx, sFrom>>
  BY DEF TypeOK, ChannelTypeOK, Reception
<1>2. s2r' \in {s2r, <<>>} \/ (s2r # <<>> /\ s2r' = Tail(s2r))
  BY DEF Reception
<1>3. FramesLow' /\ CompleteIsLast' /\ (Frames(s2r) = {} => Frames(s2r') = {})
  BY <1>1, <1>2, DroppedKept DEF SendingInv
<1>4. SenderPlace'
  BY <1>1 DEF SendingInv, SenderPlace
<1>5. NothingBeforeAccept'
  BY <1>1 DEF SendingInv, NothingBeforeAccept, Reception, NotAccepted
<1>6. SkippedIsReceived'
  BY <1>1 DEF SendingInv, SkippedIsReceived, Reception
<1>7. SentIsHeld'
  <2> SUFFICES ASSUME rpc' = "loop", rOpen', NEW i \in Chunks, i < sIdx, i \notin Held'
               PROVE  \E n \in Frames(s2r') : s2r'[n].i = i
    BY <1>1 DEF SentIsHeld, OnWay
  <2>1. \E n \in Frames(s2r) : s2r[n].i = i
    BY DEF SendingInv, SentIsHeld, OnWay, Reception
  <2>2. PICK n \in Frames(s2r) : s2r[n].i = i
    BY <2>1
  <2>3. CASE s2r' = s2r
    BY <2>1, <2>3
  <2>4. CASE s2r # <<>> /\ s2r' = Tail(s2r) /\ Head(s2r).type # "frame"
    <3>1. n \in DOMAIN s2r /\ n \in Nat /\ s2r[n].type = "frame" /\ n # 1
      BY <1>1, <2>2, <2>4 DEF Frames
    <3>2. n - 1 \in DOMAIN s2r' /\ s2r'[n - 1] = s2r[n]
      BY <1>1, <2>4, <3>1
    <3>3. n - 1 \in Frames(s2r')
      BY <3>1, <3>2 DEF Frames
    <3> QED BY <2>2, <3>2, <3>3
  <2> QED BY <2>3, <2>4 DEF Reception
<1>8. VerifyHasAll'
  <2> SUFFICES ASSUME vTask' # "none"
               PROVE  /\ spc \notin BeforeComplete /\ Frames(s2r') = {}
                      /\ rpc' = "loop" => Chunks \subseteq Held'
                      /\ vTask' # "wait" => queue' = <<>> /\ received' = Chunks
    BY <1>1 DEF VerifyHasAll
  <2>1. /\ spc \notin BeforeComplete /\ Frames(s2r) = {}
        /\ rpc = "loop" => Chunks \subseteq Held
        /\ vTask # "wait" => queue = <<>> /\ received = Chunks
    BY DEF SendingInv, VerifyHasAll, Reception
  <2>2. rpc' = "loop" => Chunks \subseteq Held'
    BY <2>1 DEF Reception
  <2>3. vTask' # "wait" => queue' = <<>> /\ received' = Chunks
    BY <2>1 DEF Reception
  <2> QED BY <1>3, <2>1, <2>2, <2>3
<1> QED BY <1>3, <1>4, <1>5, <1>6, <1>7, <1>8 DEF SendingInv

\* Nothing but msg is added to the answers.
LEMMA PutAnswer ==
    ASSUME NEW q \in Seq(ReceiverMessage), NEW m, NEW toOpen
    PROVE  \A k \in InTransit(Put(q, toOpen, m)) : k \in InTransit(q) \/ k = m
  BY PutTransit

\* receiveFile settles, or had settled before.
LEMMA FinishWire ==
    ASSUME TypeOK, NEW pc \in {"returned", "failed"}, NEW event, NEW out \in Seq(ReceiverMessage),
           Finish(pc, event, out) \/ ReceiverSettles(pc, event, out),
           \A m \in InTransit(out) : m \in InTransit(r2s) \/ m.type # "accept"
    PROVE  /\ s2r' = s2r \/ (s2r' = <<>> /\ ~rOpen')
           /\ \A m \in InTransit(r2s') : m \in InTransit(r2s) \/ m.type # "accept"
           /\ rOpen' => rOpen
           /\ rpc' \notin NotAccepted /\ rpc' # "loop"
           /\ Settled' /\ (rEvent' = event \/ (Settled /\ rEvent' = rEvent))
           /\ rpc' \in {"returned", "failed"} \/ (Settled /\ rpc' = rpc)
<1>1. CASE ReceiverSettles(pc, event, out)
  <2>1. rpc' = pc /\ rEvent' = event /\ ReceiverCloses(out)
    BY <1>1 DEF ReceiverSettles
  <2>2. \A m \in InTransit(r2s') : m \in InTransit(out) \/ m.type = "close"
    BY <2>1, ReceiverClosesTransit
  <2>3. rOpen' = FALSE /\ s2r' \in {<<>>, s2r}
    BY <2>1 DEF ReceiverCloses
  <2> QED BY <2>1, <2>2, <2>3 DEF NotAccepted, Settled, ReceiverDone
<1>2. CASE Settled /\ Finish(pc, event, out)
  BY <1>2 DEF Finish, channelVars, NotAccepted, Settled, ReceiverDone
<1>3. CASE ~Settled /\ Finish(pc, event, out)
  BY <1>1, <1>3 DEF Finish
<1> QED BY <1>1, <1>2, <1>3

\* Taking the first frame of the queue loses none that does not count as received.
LEMMA PopHeld ==
    ASSUME queue # <<>>, queue \in Seq(Frame), queue' = Tail(queue),
           received \subseteq received', Head(queue).i \in received'
    PROVE  Held \subseteq Held'
<1> SUFFICES ASSUME NEW n \in DOMAIN queue PROVE queue[n].i \in Held'
  BY DEF Held
<1>1. CASE n = 1
  BY <1>1 DEF Held
<1>2. CASE n # 1
  <2>1. n - 1 \in DOMAIN queue' /\ queue'[n - 1] = queue[n]
    BY <1>2
  <2> QED BY <2>1 DEF Held
<1> QED BY <1>1, <1>2

\* Answers other than an accept.
LEMMA AnswerPut ==
    ASSUME TypeOK, NEW m \in ReceiverMessage, m.type # "accept", NEW r, r = Put(r2s, sOpen, m)
    PROVE  r \in Seq(ReceiverMessage) /\ \A k \in InTransit(r) : k \in InTransit(r2s) \/ k.type # "accept"
  BY PutType, PutAnswer DEF TypeOK, ChannelTypeOK

LEMMA SameHeld == UNCHANGED <<received, queue>> => Held' = Held
  BY DEF Held

LEMMA SenderSame == UNCHANGED senderVars => UNCHANGED <<spc, sIdx, sFrom>>
  BY DEF senderVars

\* A step that settles, or comes after the end, and starts nothing.
LEMMA EndReception ==
    ASSUME TypeOK, NEW pc \in {"returned", "failed"}, NEW event, NEW out \in Seq(ReceiverMessage),
           Finish(pc, event, out) \/ ReceiverSettles(pc, event, out),
           \A m \in InTransit(out) : m \in InTransit(r2s) \/ m.type # "accept",
           UNCHANGED <<spc, sIdx, sFrom>>,
           vTask' \in {"none", vTask},
           vTask' \in {"none", "wait"} \/ UNCHANGED <<queue, received>> \/ queue # <<>>
    PROVE  Reception
<1>1. /\ s2r' = s2r \/ (s2r' = <<>> /\ ~rOpen')
      /\ \A m \in InTransit(r2s') : m \in InTransit(r2s) \/ m.type # "accept"
      /\ rOpen' => rOpen
      /\ rpc' \notin NotAccepted /\ rpc' # "loop"
  BY FinishWire
<1> QED BY <1>1 DEF Reception

LEMMA OpenReception == ASSUME TypeOK, ReceiverOpenFails PROVE Reception
<1>1. /\ ReceiverSettles("failed", rEvent, r2s) /\ UNCHANGED <<spc, sIdx, sFrom, vTask, queue, received>>
  BY DEF ReceiverOpenFails, taskVars, queueVars, progressVars, senderVars
<1>2. r2s \in Seq(ReceiverMessage)
  BY DEF TypeOK, ChannelTypeOK
<1> QED BY <1>1, <1>2, EndReception

LEMMA DecideReception == ASSUME TypeOK, NothingBeforeAccept, ReceiverDecide PROVE Reception
<1>1. UNCHANGED <<spc, sIdx, sFrom, vTask, queue>> /\ rpc = "confirm"
  BY DEF ReceiverDecide, senderVars, taskVars, queueVars
<1>2. PICK m \in ReceiverMessage : m = [type |-> "reject"]
  BY CloseMessages
<1>3. PICK refused : refused = Put(r2s, sOpen, m)
  OBVIOUS
<1>4. refused \in Seq(ReceiverMessage) /\ \A k \in InTransit(refused) : k \in InTransit(r2s) \/ k.type # "accept"
  BY <1>2, <1>3, AnswerPut
<1>5. r2s \in Seq(ReceiverMessage)
  BY DEF TypeOK, ChannelTypeOK
<1>6. \/ ReceiverSettles("returned", "cancelled", r2s) /\ UNCHANGED received
      \/ ReceiverSettles("returned", rEvent, refused) /\ UNCHANGED received
      \/ ReceiverSettles("failed", rEvent, r2s) /\ UNCHANGED received
      \/ rpc' = "open" /\ UNCHANGED <<s2r, r2s, rOpen>>
  BY <1>2, <1>3 DEF ReceiverDecide, channelVars, progressVars
<1>7. CASE rpc' = "open" /\ UNCHANGED <<s2r, r2s, rOpen>>
  <2>1. vTask' = "none"
    BY <1>1 DEF NothingBeforeAccept
  <2> QED BY <1>1, <1>7, <2>1 DEF Reception, NotAccepted
<1> QED BY <1>1, <1>4, <1>5, <1>6, <1>7, EndReception

\* The steps that only look at the channel.
LEMMA ChannelReception ==
    ASSUME TypeOK, NothingBeforeAccept,
           \/ ReceiverGetsOffer \/ ReceiverGetsAbort \/ ReceiverGetsClose \/ LinkFails \/ ReceiverCrash
           \/ ReceiverCancel
    PROVE  Reception
<1>1. UNCHANGED <<spc, sIdx, sFrom, received>>
  BY SenderSame DEF ReceiverGetsOffer, ReceiverGetsAbort, ReceiverGetsClose, LinkFails, ReceiverCrash,
     ReceiverCancel, receiverVars, progressVars
<1>2. CASE ReceiverGetsOffer
  <2>1. /\ rpc = "offer" /\ rpc' = "confirm" /\ s2r # <<>> /\ s2r' = Tail(s2r) /\ Head(s2r).type = "offer"
        /\ UNCHANGED <<r2s, rOpen, vTask, queue>>
    BY <1>2 DEF ReceiverGetsOffer, ReceiverHears, taskVars, queueVars
  <2> QED BY <1>1, <2>1 DEF Reception, NotAccepted
<1>3. CASE ReceiverGetsAbort
  <2>1. /\ s2r # <<>> /\ s2r' = Tail(s2r) /\ Head(s2r).type = "abort"
        /\ UNCHANGED <<r2s, rOpen, vTask, queue, rpc>>
    BY <1>3 DEF ReceiverGetsAbort, ReceiverHears, queueVars
  <2> QED BY <1>1, <2>1, SameHeld DEF Reception
<1>4. CASE ReceiverGetsClose
  <2>1. rOpen' = FALSE /\ s2r' \in {s2r, <<>>} /\ UNCHANGED <<r2s, vTask, queue, rpc>>
    BY <1>4 DEF ReceiverGetsClose, receiverVars, queueVars, taskVars
  <2> QED BY <1>1, <2>1, SameHeld DEF Reception
<1>5. CASE LinkFails
  <2>1. UNCHANGED <<s2r, rOpen, r2s, vTask, queue, rpc>>
    BY <1>5 DEF LinkFails, receiverVars, queueVars, taskVars
  <2> QED BY <1>1, <2>1, SameHeld DEF Reception
<1>6. CASE ReceiverCrash
  <2>1. rOpen' = FALSE /\ rpc' = "crashed" /\ vTask' = "none" /\ UNCHANGED <<s2r, r2s>>
    BY <1>6 DEF ReceiverCrash
  <2> QED BY <1>1, <2>1 DEF Reception, NotAccepted
<1>7. CASE ReceiverCancel
  <2>1. PICK m \in ReceiverMessage : m = [type |-> "abort"]
    BY CloseMessages
  <2>2. UNCHANGED <<s2r, rOpen, vTask, queue, rpc>> /\ r2s' \in {r2s, Put(r2s, sOpen, m)}
    BY <1>7, <2>1 DEF ReceiverCancel, queueVars
  <2>3. \A k \in InTransit(r2s') : k \in InTransit(r2s) \/ k.type # "accept"
    BY <2>1, <2>2, AnswerPut
  <2> QED BY <1>1, <2>2, <2>3, SameHeld DEF Reception
<1> QED BY <1>2, <1>3, <1>4, <1>5, <1>6, <1>7

\* The steps of the queue and the two aborts.
LEMMA QueueReception ==
    ASSUME TypeOK, NothingBeforeAccept,
           \/ SkipFrame \/ StartWrite \/ FrameWritten \/ WriteFails \/ FrameHashed
           \/ LocalAbortStart \/ LocalAbortDone \/ RemoteAbortStart \/ RemoteAbortDone
    PROVE  Reception
<1>1. UNCHANGED <<spc, sIdx, sFrom, vTask>>
  BY SenderSame DEF SkipFrame, StartWrite, FrameWritten, WriteFails, FrameHashed, LocalAbortStart,
     LocalAbortDone, RemoteAbortStart, RemoteAbortDone, taskVars
<1>2. queue \in Seq(Frame) /\ r2s \in Seq(ReceiverMessage) /\ (qStage # "idle" => queue # <<>>)
  BY DEF TypeOK, QueueTypeOK, ChannelTypeOK
<1>3. CASE SkipFrame
  <2>1. /\ queue # <<>> /\ queue' = Tail(queue)
        /\ Settled \/ Head(queue).i \in received
        /\ UNCHANGED <<s2r, r2s, rOpen, rpc, received>>
    BY <1>3 DEF SkipFrame, PopFrame, channelVars, progressVars
  <2>2. rpc' = "loop" => Head(queue).i \in received
    BY <2>1 DEF Settled, ReceiverDone
  <2>3. ASSUME rpc' = "loop" PROVE Held \subseteq Held'
    <3>1. Head(queue).i \in received' /\ received \subseteq received'
      BY <2>1, <2>2, <2>3
    <3>2. queue # <<>> /\ queue' = Tail(queue)
      BY <2>1
    <3> QED BY <1>2, <3>1, <3>2, PopHeld
  <2>4. rpc' \notin NotAccepted
    BY <2>1 DEF NothingBeforeAccept, NotAccepted
  <2> QED BY <1>1, <2>1, <2>3, <2>4 DEF Reception
<1>4. CASE StartWrite \/ FrameWritten \/ LocalAbortStart \/ RemoteAbortStart
  <2>1. UNCHANGED <<s2r, r2s, rOpen, rpc, received, queue>>
    BY <1>4 DEF StartWrite, FrameWritten, LocalAbortStart, RemoteAbortStart, channelVars, progressVars, queueVars
  <2> QED BY <1>1, <2>1, SameHeld DEF Reception
<1>5. CASE WriteFails
  <2>1. Finish("failed", rEvent, r2s) /\ queue # <<>>
    BY <1>2, <1>5 DEF WriteFails, FrameIsDue
  <2> QED BY <1>1, <1>2, <2>1, EndReception
<1>6. CASE FrameHashed
  <2>1. /\ queue # <<>> /\ queue' = Tail(queue)
        /\ received \subseteq received'
        /\ Settled \/ Head(queue).i \in received'
        /\ UNCHANGED <<s2r, r2s, rOpen, rpc>>
    BY <1>2, <1>6 DEF FrameHashed, PopFrame, channelVars
  <2>2. rpc' = "loop" => Head(queue).i \in received'
    BY <2>1 DEF Settled, ReceiverDone
  <2>3. ASSUME rpc' = "loop" PROVE Held \subseteq Held'
    <3>1. Head(queue).i \in received' /\ received \subseteq received'
      BY <2>1, <2>2, <2>3
    <3>2. queue # <<>> /\ queue' = Tail(queue)
      BY <2>1
    <3> QED BY <1>2, <3>1, <3>2, PopHeld
  <2>4. rpc' \notin NotAccepted
    BY <2>1 DEF NothingBeforeAccept, NotAccepted
  <2> QED BY <1>1, <2>1, <2>3, <2>4 DEF Reception
<1>7. CASE LocalAbortDone \/ RemoteAbortDone
  <2>1. Finish("returned", "cancelled", r2s) /\ UNCHANGED <<queue, received>>
    BY <1>7 DEF LocalAbortDone, RemoteAbortDone, queueVars, progressVars
  <2> QED BY <1>1, <1>2, <2>1, EndReception
<1> QED BY <1>3, <1>4, <1>5, <1>6, <1>7

\* The steps of the verification: it starts with an empty queue, behind the last
\* frame, so that all that is held is received.
LEMMA VerifyStartReception == ASSUME TypeOK, SendingInv, VerifyStart PROVE Reception
<1>1. /\ vTask = "wait" /\ queue = <<>> /\ r2s \in Seq(ReceiverMessage)
      /\ UNCHANGED <<spc, sIdx, sFrom, queue, received>>
  BY SenderSame DEF VerifyStart, ProcessingQueueSettled, progressVars, queueVars, TypeOK, ChannelTypeOK
<1>2. CASE vTask' = "none" /\ Finish("failed", rEvent, r2s)
  BY <1>1, <1>2, EndReception
<1>3. CASE ~Settled /\ vTask' = "digest" /\ UNCHANGED <<rpc, rEvent, channelVars>>
  <2>1. rpc = "loop"
    BY <1>1, <1>3 DEF SendingInv, NothingBeforeAccept, Settled, ReceiverDone, TypeOK, ReceiverTypeOK
  <2>2. Held = received /\ received \subseteq Chunks
    BY <1>1 DEF Held, TypeOK, ReceiverTypeOK
  <2>3. received = Chunks
    BY <1>1, <2>1, <2>2 DEF SendingInv, VerifyHasAll
  <2>4. UNCHANGED <<s2r, r2s, rOpen>>
    BY <1>3 DEF channelVars
  <2> QED BY <1>1, <1>3, <2>1, <2>3, <2>4, SameHeld DEF Reception, NotAccepted
<1>4. (vTask' = "none" /\ Finish("failed", rEvent, r2s))
        \/ (~Settled /\ vTask' = "digest" /\ UNCHANGED <<rpc, rEvent, channelVars>>)
  BY DEF VerifyStart
<1> QED BY <1>2, <1>3, <1>4

LEMMA VerdictReception ==
    ASSUME TypeOK, NothingBeforeAccept,
           \/ VerifyDigest \/ VerifyFinalized \/ FinalizeFails \/ VerifyMismatchDone
    PROVE  Reception
<1>1. /\ UNCHANGED <<spc, sIdx, sFrom, queue, received>>
      /\ vTask \notin {"none", "wait"} /\ r2s \in Seq(ReceiverMessage)
  BY SenderSame DEF VerifyDigest, VerifyFinalized, FinalizeFails, VerifyMismatchDone, progressVars, queueVars,
     TypeOK, ChannelTypeOK
<1>2. CASE vTask' = "none" /\ \E pc \in {"returned", "failed"}, event \in {rEvent} \cup TerminalEvents : Finish(pc, event, r2s)
  BY <1>1, <1>2, EndReception
<1>3. CASE VerifyDigest
  <2>1. PICK m : m = [type |-> "verified", ok |-> HashesMatch]
    OBVIOUS
  <2>2. m \in ReceiverMessage /\ m.type # "accept"
    BY <2>1 DEF ReceiverMessage, HashesMatch
  <2>3. PICK told : told = Put(r2s, sOpen, m)
    OBVIOUS
  <2>4. told \in Seq(ReceiverMessage) /\ \A k \in InTransit(told) : k \in InTransit(r2s) \/ k.type # "accept"
    BY <2>2, <2>3, AnswerPut
  <2>5. \/ vTask' = "none" /\ Finish("failed", rEvent, r2s)
        \/ vTask' = "none" /\ Finish("failed", rEvent, told)
        \/ r2s' = told /\ vTask' \in {"finalize", "mismatch"} /\ UNCHANGED <<rpc, s2r, rOpen>>
    BY <1>3, <2>1, <2>3 DEF VerifyDigest
  <2>6. CASE vTask' = "none" /\ Finish("failed", rEvent, told)
    BY <1>1, <2>4, <2>6, EndReception
  <2>7. CASE r2s' = told /\ vTask' \in {"finalize", "mismatch"} /\ UNCHANGED <<rpc, s2r, rOpen>>
    <3>1. rpc' \notin NotAccepted
      BY <1>1, <2>7 DEF NothingBeforeAccept, NotAccepted
    <3> QED BY <1>1, <2>4, <2>7, <3>1, SameHeld DEF Reception
  <2> QED BY <1>2, <2>5, <2>6, <2>7
<1>4. CASE VerifyFinalized \/ FinalizeFails \/ VerifyMismatchDone
  <2>1. \/ vTask' = "none" /\ Finish("returned", "complete", r2s)
        \/ vTask' = "none" /\ Finish("failed", rEvent, r2s)
        \/ vTask' = "none" /\ Finish("failed", "error", r2s)
    BY <1>4 DEF VerifyFinalized, FinalizeFails, VerifyMismatchDone
  <2>2. {"complete", "error"} \subseteq TerminalEvents
    BY DEF TerminalEvents
  <2> QED BY <1>2, <2>1, <2>2
<1> QED BY <1>3, <1>4

LEMMA StartSending == ASSUME TypeOK, StartTransfer PROVE SendingInv'
<1>1. PICK m : m = [type |-> "offer"]
  OBVIOUS
<1>2. m.type = "offer" /\ s2r' = <<m>> /\ r2s' = <<>>
  BY <1>1 DEF StartTransfer
<1>3. /\ spc' = "accept" /\ sIdx' = 0 /\ sFrom' = 0 /\ rpc' = "offer"
      /\ vTask' = "none" /\ queue' = <<>>
  BY DEF StartTransfer, ReceiverQuiescent, taskVars, queueVars
<1>4. Frames(s2r') = {} /\ InTransit(r2s') = {} /\ \A n \in DOMAIN s2r' : s2r'[n].type = "offer"
  BY <1>2 DEF Frames, InTransit
<1>5. FramesLow' /\ SenderPlace' /\ NothingBeforeAccept' /\ SentIsHeld'
  BY <1>3, <1>4 DEF FramesLow, SenderPlace, NothingBeforeAccept, SentIsHeld
<1>6. SkippedIsReceived' /\ CompleteIsLast' /\ VerifyHasAll'
  BY <1>3, <1>4 DEF SkippedIsReceived, CompleteIsLast, VerifyHasAll
<1> QED BY <1>5, <1>6 DEF SendingInv

\* The accept names the prefix of chunks that are there.
LEMMA OpenedSending == ASSUME TypeOK, SendingInv, ReceiverOpened PROVE SendingInv'
<1>1. /\ rpc = "open" /\ UNCHANGED <<spc, sIdx, sFrom, queue, received, vTask>>
      /\ r2s \in Seq(ReceiverMessage)
  BY SenderSame DEF ReceiverOpened, queueVars, TypeOK, ChannelTypeOK
<1>2. CASE \E pc \in {"returned", "failed"}, event \in {rEvent} \cup TerminalEvents : ReceiverSettles(pc, event, r2s)
  <2>1. Reception
    BY <1>1, <1>2, EndReception
  <2> QED BY <2>1, ReceptionKeeps
<1>3. CASE ~rPending /\ rOpen
  <2>1. PICK m : m = [type |-> "accept", from |-> ResumeFromChunk(received)]
    OBVIOUS
  <2>2. PICK b : b = [type |-> "abort"]
    OBVIOUS
  <2>3. m.type = "accept" /\ m.from = ResumeFromChunk(received) /\ b.type = "abort"
    BY <2>1, <2>2
  <2>4. PICK q : q = Put(r2s, sOpen, m)
    OBVIOUS
  <2>5. rpc' = "loop" /\ r2s' \in {q, Put(q, sOpen, b)} /\ UNCHANGED <<s2r, rOpen>>
    BY <1>3, <2>1, <2>2, <2>4 DEF ReceiverOpened
  <2>6. /\ received \in SUBSET Chunks
        /\ ResumeFromChunk(received) \in 0 .. TotalChunks
        /\ \A i \in Chunks : i < ResumeFromChunk(received) => i \in received
    BY ResumeFromChunkCorrect DEF TypeOK, ReceiverTypeOK
  <2>7. m \in ReceiverMessage
    BY <2>1, <2>6 DEF ReceiverMessage
  <2>8. q \in Seq(ReceiverMessage)
    BY <1>1, <2>4, <2>7, PutType DEF TypeOK, ChannelTypeOK
  <2>9. \A k \in InTransit(r2s') : k \in InTransit(r2s) \/ k = m \/ k = b
    BY <1>1, <2>4, <2>5, <2>8, PutAnswer
  <2>10. vTask = "none" /\ sIdx = 0 /\ sFrom = 0 /\ \A k \in InTransit(r2s) : k.type # "accept"
    BY <1>1 DEF SendingInv, NothingBeforeAccept
  <2>11. FramesLow' /\ SenderPlace' /\ CompleteIsLast'
    BY <1>1, <2>5 DEF SendingInv, FramesLow, SenderPlace, CompleteIsLast, Frames
  <2>12. NothingBeforeAccept' /\ SentIsHeld' /\ VerifyHasAll'
    BY <1>1, <2>5, <2>10 DEF NothingBeforeAccept, SentIsHeld, VerifyHasAll, Chunks
  <2>13. SkippedIsReceived'
    <3>1. \A k \in InTransit(r2s') : k.type = "accept" => k.from = ResumeFromChunk(received)
      BY <2>3, <2>9, <2>10
    <3>2. \A i \in Chunks : ~(i < 0)
      BY DEF Chunks
    <3> QED BY <1>1, <2>6, <2>10, <3>1, <3>2 DEF SkippedIsReceived
  <2> QED BY <2>11, <2>12, <2>13 DEF SendingInv
<1>4. CASE rPending \/ ~rOpen
  <2>1. ReceiverSettles("returned", "cancelled", r2s) \/ ReceiverSettles("failed", rEvent, r2s)
    BY <1>4 DEF ReceiverOpened
  <2> QED BY <1>2, <2>1 DEF TerminalEvents
<1> QED BY <1>3, <1>4

LEMMA GetsFrameSending == ASSUME TypeOK, SendingInv, ReceiverGetsFrame PROVE SendingInv'
<1>1. /\ rpc = "loop" /\ s2r # <<>> /\ Head(s2r).type = "frame" /\ s2r' = Tail(s2r)
      /\ s2r \in Seq(SenderMessage) /\ queue \in Seq(Frame)
      /\ UNCHANGED <<spc, sIdx, sFrom, received, vTask, r2s, rOpen, rpc>>
  BY SenderSame DEF ReceiverGetsFrame, ReceiverHears, progressVars, taskVars, TypeOK, ChannelTypeOK, QueueTypeOK
<1>2. PICK f : f = [i |-> Head(s2r).i, d |-> Head(s2r).d]
  OBVIOUS
<1>3. queue' = Append(queue, f) /\ f.i = Head(s2r).i
  BY <1>2 DEF ReceiverGetsFrame
<1>4. 1 \in Frames(s2r) /\ s2r[1].i = f.i
  BY <1>1, <1>3 DEF Frames
<1>5. vTask = "none"
  BY <1>4 DEF SendingInv, VerifyHasAll
<1>6. Held \subseteq Held' /\ f.i \in Held'
  <2>1. /\ \A n \in DOMAIN queue : n \in DOMAIN queue' /\ queue'[n] = queue[n]
        /\ Len(queue) + 1 \in DOMAIN queue' /\ queue'[Len(queue) + 1] = f
    BY <1>1, <1>3
  <2> QED BY <1>1, <2>1 DEF Held
<1>7. FramesLow' /\ CompleteIsLast'
  BY <1>1, DroppedKept DEF SendingInv
<1>8. SenderPlace' /\ NothingBeforeAccept' /\ SkippedIsReceived' /\ VerifyHasAll'
  BY <1>1, <1>5 DEF SendingInv, SenderPlace, NothingBeforeAccept, SkippedIsReceived, VerifyHasAll
<1>9. SentIsHeld'
  <2> SUFFICES ASSUME rOpen', NEW i \in Chunks, i < sIdx', i \notin Held'
               PROVE  \E n \in Frames(s2r') : s2r'[n].i = i
    BY DEF SentIsHeld, OnWay
  <2>6. rOpen /\ i < sIdx
    BY <1>1
  <2>1. \E n \in Frames(s2r) : s2r[n].i = i
    BY <1>1, <1>6, <2>6 DEF SendingInv, SentIsHeld, OnWay
  <2>2. PICK n \in Frames(s2r) : s2r[n].i = i
    BY <2>1
  <2>3. n \in DOMAIN s2r /\ n \in Nat /\ s2r[n].type = "frame" /\ n # 1
    BY <1>1, <1>4, <1>6, <2>2 DEF Frames
  <2>4. n - 1 \in DOMAIN s2r' /\ s2r'[n - 1] = s2r[n]
    BY <1>1, <2>3
  <2>5. n - 1 \in Frames(s2r')
    BY <2>3, <2>4 DEF Frames
  <2> QED BY <2>2, <2>4, <2>5
<1> QED BY <1>7, <1>8, <1>9 DEF SendingInv

\* The completion comes after every frame.
LEMMA GetsCompleteSending == ASSUME TypeOK, SendingInv, ReceiverGetsComplete PROVE SendingInv'
<1>1. /\ rpc = "loop" /\ rOpen /\ s2r # <<>> /\ Head(s2r).type = "complete" /\ s2r' = Tail(s2r)
      /\ s2r \in Seq(SenderMessage) /\ vTask' = "wait" /\ sIdx \in Nat
      /\ UNCHANGED <<spc, sIdx, sFrom, received, queue, r2s, rOpen, rpc>>
  BY SenderSame DEF ReceiverGetsComplete, ReceiverHears, progressVars, queueVars, TypeOK, ChannelTypeOK, SenderTypeOK
<1>2. 1 \in DOMAIN s2r /\ s2r[1].type = "complete"
  BY <1>1
<1>3. sIdx = TotalChunks /\ spc \notin BeforeComplete /\ \A k \in Frames(s2r) : k < 1
  BY <1>2 DEF SendingInv, CompleteIsLast
<1>4. Frames(s2r) = {}
  BY <1>1, <1>3 DEF Frames
<1>5. OnWay = {}
  BY <1>4 DEF OnWay
<1>6. Chunks \subseteq Held
  BY <1>1, <1>3, <1>5 DEF SendingInv, SentIsHeld, Chunks
<1>7. FramesLow' /\ CompleteIsLast' /\ Frames(s2r') = {}
  BY <1>1, <1>4, DroppedKept DEF SendingInv
<1>8. SenderPlace' /\ NothingBeforeAccept' /\ SkippedIsReceived'
  BY <1>1 DEF SendingInv, SenderPlace, NothingBeforeAccept, SkippedIsReceived
<1>9. Held' = Held
  BY <1>1, SameHeld
<1>10. VerifyHasAll'
  BY <1>1, <1>3, <1>6, <1>7, <1>9 DEF VerifyHasAll
<1>11. SentIsHeld'
  BY <1>6, <1>9 DEF SentIsHeld
<1> QED BY <1>7, <1>8, <1>10, <1>11 DEF SendingInv

LEMMA SendingInit == Init => SendingInv
<1> SUFFICES ASSUME Init PROVE SendingInv
  OBVIOUS
<1>1. /\ spc = "idle" /\ sIdx = 0 /\ sFrom = 0 /\ rpc = "idle" /\ vTask = "none" /\ s2r = <<>>
  BY DEF Init
<1>2. Frames(s2r) = {} /\ DOMAIN s2r = {}
  BY <1>1 DEF Frames
<1>3. FramesLow /\ SenderPlace /\ NothingBeforeAccept /\ SentIsHeld
  BY <1>1, <1>2 DEF FramesLow, SenderPlace, NothingBeforeAccept, SentIsHeld
<1>4. SkippedIsReceived /\ CompleteIsLast /\ VerifyHasAll
  BY <1>1, <1>2 DEF SkippedIsReceived, CompleteIsLast, VerifyHasAll
<1> QED BY <1>3, <1>4 DEF SendingInv

\* Every step of the sender is one of those above.
LEMMA SenderStepsEffect ==
    ASSUME TypeOK, SenderStep \/ SenderCancel \/ SenderReadError
    PROVE  SenderEffect
  BY SenderGetsAcceptEffect, QuietEndEffect, SenderGetsAbortEffect, SenderGetsCloseEffect, SenderCancelEffect,
     SenderReadChunkEffect, SenderDrainedEffect, SenderFinishHashEffect DEF SenderStep

LEMMA SendingNext == TypeOK /\ SendingInv /\ [Next]_vars => SendingInv'
<1> SUFFICES ASSUME TypeOK, SendingInv, [Next]_vars PROVE SendingInv'
  OBVIOUS
<1>1. CASE SenderStep \/ SenderCancel \/ SenderReadError
  BY <1>1, SenderStepsEffect, SenderKeepsSending
<1>2. CASE StartTransfer
  BY <1>2, StartSending
<1>3. CASE ReceiverOpened
  BY <1>3, OpenedSending
<1>4. CASE ReceiverGetsFrame
  BY <1>4, GetsFrameSending
<1>5. CASE ReceiverGetsComplete
  BY <1>5, GetsCompleteSending
<1>6. CASE VerifyStart
  BY <1>6, VerifyStartReception, ReceptionKeeps
<1>7. NothingBeforeAccept
  BY DEF SendingInv
<1>8. CASE ReceiverDecide \/ ReceiverOpenFails
  BY <1>7, <1>8, DecideReception, OpenReception, ReceptionKeeps
<1>9. CASE \/ ReceiverGetsOffer \/ ReceiverGetsAbort \/ ReceiverGetsClose \/ LinkFails \/ ReceiverCrash
           \/ ReceiverCancel
  BY <1>7, <1>9, ChannelReception, ReceptionKeeps
<1>10. CASE \/ SkipFrame \/ StartWrite \/ FrameWritten \/ WriteFails \/ FrameHashed
            \/ LocalAbortStart \/ LocalAbortDone \/ RemoteAbortStart \/ RemoteAbortDone
  BY <1>7, <1>10, QueueReception, ReceptionKeeps
<1>11. CASE VerifyDigest \/ VerifyFinalized \/ FinalizeFails \/ VerifyMismatchDone
  BY <1>7, <1>11, VerdictReception, ReceptionKeeps
<1>12. CASE UNCHANGED vars
  <2>1. UNCHANGED <<spc, sIdx, sFrom, rpc, received, queue, vTask, s2r, r2s, rOpen>>
    BY <1>12 DEF vars, senderVars, receiverVars, progressVars, queueVars, taskVars, channelVars
  <2> QED BY <2>1 DEF SendingInv, FramesLow, SenderPlace, NothingBeforeAccept, SentIsHeld, SkippedIsReceived,
          CompleteIsLast, VerifyHasAll, Held, OnWay, Frames
<1> QED BY <1>1, <1>2, <1>3, <1>4, <1>5, <1>6, <1>8, <1>9, <1>10, <1>11, <1>12 DEF Next, SenderStep,
        ReceiverStep, UserStep, Fault

-----------------------------------------------------------------------------
(* What the disk holds. *)

\* Nothing that is on disk is overwritten: rows and the swap file may be thrown away.
DiskKept ==
    /\ kind' = kind /\ disk'.file = disk.file
    /\ kind = "idb" => \A i \in Chunks : disk'.part[i] \in {disk.part[i], NoData}
    /\ kind = "fsa" /\ wst' \in {"open", "closing"} => wst \in {"open", "closing"} /\ disk'.part = disk.part

LEMMA DiskKeeps ==
    ASSUME NEW idx \in SUBSET Chunks, NEW hash, DiskKept
    PROVE  /\ OnDisk(idx, hash) => OnDisk(idx, hash)'
           /\ OnSwap(idx, hash) => OnSwap(idx, hash)'
<1>1. OnDisk(idx, hash) => OnDisk(idx, hash)'
  <2> SUFFICES ASSUME OnDisk(idx, hash) PROVE OnDisk(idx, hash)'
    OBVIOUS
  <2>1. kind = "tauri" => \A i \in idx : disk'.file[i] = hash[i]
    BY DEF OnDisk, DiskKept
  <2>2. kind = "idb" => \A i \in idx : disk'.part[i] \in {hash[i], NoData}
    BY DEF OnDisk, DiskKept
  <2> QED BY <2>1, <2>2 DEF OnDisk, DiskKept
<1>2. OnSwap(idx, hash) => OnSwap(idx, hash)'
  BY DEF OnSwap, DiskKept
<1> QED BY <1>1, <1>2

DiskUntouched == kind' = kind /\ UNCHANGED <<wst, disk>>

LEMMA UntouchedKept == DiskUntouched => DiskKept
  BY DEF DiskUntouched, DiskKept

Early == {"idle", "offer", "confirm"}

\* A step that neither receives a chunk nor touches what is on disk.
Upkeep ==
    /\ DiskKept /\ UNCHANGED <<received, hashes, source, attempt>>
    /\ store' = store \/ (store'.idx = received /\ store'.hash = hashes)
    /\ qStage' # "idle" => qStage # "idle" /\ Head(queue') = Head(queue)
    /\ queue' # <<>> => queue # <<>> \/ rpc = "loop"
    /\ rpc' \in {"open", "loop"} => rpc' = rpc
    /\ rpc = "idle" => rpc' = "idle"
    /\ rpc' \in Early => rpc \in Early
    /\ rEvent' = "complete" =>
         /\ rEvent = "complete"
         /\ Settled => Settled'
         /\ Settled /\ vTask = "none" => vTask' = "none"
         /\ Settled /\ queue = <<>> => queue' = <<>>

LEMMA UpkeepKeeps ==
    ASSUME TypeOK, KeepingInv, Upkeep, WriterIsOpen'
    PROVE  KeepingInv'
<1>1. received \in SUBSET Chunks /\ store.idx \in SUBSET Chunks
  BY DEF TypeOK, ReceiverTypeOK, WriterTypeOK, ResumeState
<1>13. PICK R \in SUBSET Chunks : R = received
  BY <1>1
<1>14. PICK H : H = hashes
  OBVIOUS
<1>2. R = received /\ H = hashes
  BY <1>13, <1>14
<1>3. received' = R /\ hashes' = H
  BY <1>2 DEF Upkeep
<1>4. OnDisk(R, H) /\ OnSwap(R, H)
  BY <1>2 DEF KeepingInv, ReceivedOnDisk
<1>5. OnDisk(R, H)' /\ OnSwap(R, H)'
  BY <1>4, DiskKeeps DEF Upkeep
<1>6. ReceivedOnDisk'
  BY <1>3, <1>5 DEF ReceivedOnDisk
<1>7. EntryOnDisk'
  <2>1. CASE store' = store
    <3>5. PICK S \in SUBSET Chunks : S = store.idx
      BY <1>1
    <3>6. PICK G : G = store.hash
      OBVIOUS
    <3>1. S = store.idx /\ G = store.hash
      BY <3>5, <3>6
    <3>2. store'.idx = S /\ store'.hash = G
      BY <2>1, <3>1
    <3>3. OnDisk(S, G)
      BY <3>1 DEF KeepingInv, EntryOnDisk
    <3>4. OnDisk(S, G)'
      BY <3>3, DiskKeeps DEF Upkeep
    <3> QED BY <3>2, <3>4 DEF EntryOnDisk
  <2>2. CASE store'.idx = received /\ store'.hash = hashes
    <3>1. store'.idx = R /\ store'.hash = H
      BY <1>2, <2>2
    <3> QED BY <1>5, <3>1 DEF EntryOnDisk
  <2> QED BY <2>1, <2>2 DEF Upkeep
<1>8. ReceivedIsHashed'
  BY DEF KeepingInv, ReceivedIsHashed, Upkeep
<1>9. EntryIsReceived'
  BY DEF KeepingInv, EntryIsReceived, Upkeep
<1>10. WrittenOnDisk'
  <2> SUFFICES ASSUME qStage' # "idle" PROVE WrittenOnDisk'
    BY DEF WrittenOnDisk
  <2>1. qStage # "idle" /\ Head(queue') = Head(queue) /\ queue # <<>>
    BY DEF Upkeep, TypeOK, QueueTypeOK
  <2>2. Head(queue).i \in Chunks
    BY <2>1, PopFrameType
  <2>8. PICK I \in SUBSET Chunks : I = {Head(queue).i}
    BY <2>2
  <2>9. PICK G : G = [hashes EXCEPT ![Head(queue).i] = Head(queue).d]
    OBVIOUS
  <2>3. I = {Head(queue).i} /\ G = [hashes EXCEPT ![Head(queue).i] = Head(queue).d]
    BY <2>8, <2>9
  <2>4. I = {Head(queue').i} /\ G = [hashes' EXCEPT ![Head(queue').i] = Head(queue').d]
    BY <2>1, <2>3 DEF Upkeep
  <2>5. OnDisk(I, G) /\ OnSwap(I, G) /\ Head(queue).i \notin received
    BY <2>1, <2>3 DEF KeepingInv, WrittenOnDisk
  <2>6. OnDisk(I, G)' /\ OnSwap(I, G)'
    BY <2>5, DiskKeeps DEF Upkeep
  <2>7. Head(queue').i \notin received'
    BY <2>1, <2>5 DEF Upkeep
  <2> QED BY <2>4, <2>6, <2>7 DEF WrittenOnDisk
<1>11. FirstAttempt'
  BY DEF KeepingInv, FirstAttempt, Upkeep, Early
<1>12. CompleteIsDelivered'
  BY DEF KeepingInv, CompleteIsDelivered, Upkeep, DiskKept
<1> QED BY <1>6, <1>7, <1>8, <1>9, <1>10, <1>11, <1>12 DEF KeepingInv

\* A step that settles, or comes after the end.
LEMMA EndUpkeep ==
    ASSUME TypeOK, NEW pc \in {"returned", "failed"}, NEW event \in {rEvent, "cancelled", "error"}, NEW out \in Seq(ReceiverMessage),
           Finish(pc, event, out) \/ (rpc # "idle" /\ ReceiverSettles(pc, event, out)),
           \A m \in InTransit(out) : m \in InTransit(r2s) \/ m.type # "accept",
           DiskKept, UNCHANGED <<received, hashes, source, attempt>>,
           store' = store \/ (store'.idx = received /\ store'.hash = hashes),
           qStage' # "idle" => qStage # "idle" /\ queue' = queue,
           queue = <<>> => queue' = <<>>,
           vTask' \in {"none", vTask}
    PROVE  Upkeep /\ WriterIsOpen'
<1>1. /\ rpc' # "loop" /\ rpc' \notin NotAccepted /\ Settled'
      /\ (rEvent' = event \/ (Settled /\ rEvent' = rEvent))
      /\ rpc' \in {"returned", "failed"} \/ (Settled /\ rpc' = rpc)
  BY FinishWire
<1>2. WriterIsOpen'
  BY <1>1 DEF WriterIsOpen
<1>3. rpc = "idle" => rpc' = "idle"
  BY DEF Finish, Settled, ReceiverDone
<1>4. rEvent' = "complete" => rEvent = "complete"
  BY <1>1
<1>5. rpc' \notin {"open", "loop"} /\ (rpc' \in Early => rpc \in Early)
  BY <1>1 DEF NotAccepted, Early
<1> QED BY <1>1, <1>2, <1>3, <1>4, <1>5 DEF Upkeep

\* A step within the loop, or after it, that leaves the disk to later.
LEMMA QuietUpkeep ==
    ASSUME TypeOK, KeepingInv, DiskUntouched,
           UNCHANGED <<received, hashes, source, attempt, store, rEvent, rpc>>,
           qStage' # "idle" => qStage # "idle" /\ Head(queue') = Head(queue),
           queue' # <<>> => queue # <<>> \/ rpc = "loop",
           UNCHANGED <<vTask, vHash>> \/ (rpc \in {"loop"} /\ vTask' # "finalize")
             \/ (~Settled /\ vTask' = "digest")
    PROVE  Upkeep /\ WriterIsOpen'
<1>1. DiskKept /\ UNCHANGED wst /\ kind' = kind
  BY UntouchedKept DEF DiskUntouched
<1>2. WriterIsOpen'
  BY <1>1 DEF KeepingInv, WriterIsOpen, HashesMatch
<1>3. Settled' = Settled /\ (rpc \in {"loop"} => ~Settled)
  BY DEF Settled, ReceiverDone
<1>4. queue' # <<>> /\ Settled => queue # <<>>
  BY <1>3
<1>5. rEvent' = "complete" => /\ rEvent = "complete"
                              /\ Settled => Settled'
                              /\ Settled /\ vTask = "none" => vTask' = "none"
                              /\ Settled /\ queue = <<>> => queue' = <<>>
  BY <1>3, <1>4
<1> QED BY <1>1, <1>2, <1>5 DEF Upkeep, Early

LEMMA OpenFailsUpkeep == ASSUME TypeOK, ReceiverOpenFails PROVE Upkeep /\ WriterIsOpen'
<1>1. /\ rpc = "open" /\ wst' = "closed" /\ UNCHANGED <<disk, kind, store, queue, qStage, vTask>>
      /\ UNCHANGED <<received, hashes, source, attempt>>
      /\ ReceiverSettles("failed", rEvent, r2s)
  BY DEF ReceiverOpenFails, progressVars, queueVars, taskVars, userVars
<1>2. DiskKept /\ r2s \in Seq(ReceiverMessage)
  BY <1>1 DEF DiskKept, TypeOK, ChannelTypeOK
<1> QED BY <1>1, <1>2, EndUpkeep

LEMMA ChannelUpkeep ==
    ASSUME TypeOK, KeepingInv,
           \/ ReceiverGetsAbort \/ ReceiverGetsClose \/ LinkFails \/ ReceiverCancel
           \/ ReceiverGetsFrame \/ SkipFrame \/ FrameWritten \/ ReceiverGetsComplete
    PROVE  Upkeep /\ WriterIsOpen'
<1>1. DiskUntouched
  BY DEF DiskUntouched, writerVars, userVars, ReceiverGetsAbort, ReceiverGetsClose, LinkFails, ReceiverCancel,
     ReceiverGetsFrame, SkipFrame, FrameWritten, ReceiverGetsComplete
<1>2. UNCHANGED <<received, hashes, source, attempt, store, rEvent, rpc>>
  BY DEF progressVars, userVars, receiverVars, ReceiverGetsAbort, ReceiverGetsClose, LinkFails, ReceiverCancel,
     ReceiverGetsFrame, SkipFrame, FrameWritten, ReceiverGetsComplete
<1>3. queue \in Seq(Frame) /\ (qStage # "idle" => queue # <<>>)
  BY DEF TypeOK, QueueTypeOK
<1>4. CASE ReceiverGetsAbort \/ ReceiverGetsClose \/ LinkFails \/ ReceiverCancel
  <2>1. UNCHANGED <<queue, qStage, vTask, vHash>>
    BY <1>4 DEF queueVars, taskVars, receiverVars, ReceiverGetsAbort, ReceiverGetsClose, LinkFails, ReceiverCancel
  <2> QED BY <1>1, <1>2, <2>1, QuietUpkeep
<1>5. CASE ReceiverGetsFrame
  <2>1. PICK f : f = [i |-> Head(s2r).i, d |-> Head(s2r).d]
    OBVIOUS
  <2>2. queue' = Append(queue, f) /\ rpc = "loop" /\ UNCHANGED <<qStage, vTask, vHash>>
    BY <1>5, <2>1 DEF ReceiverGetsFrame, taskVars
  <2>3. queue # <<>> => Head(queue') = Head(queue)
    BY <1>3, <2>2
  <2> QED BY <1>1, <1>2, <1>3, <2>2, <2>3, QuietUpkeep
<1>6. CASE SkipFrame
  <2>1. queue # <<>> /\ qStage' = "idle" /\ UNCHANGED <<vTask, vHash>>
    BY <1>6 DEF SkipFrame, PopFrame
  <2> QED BY <1>1, <1>2, <2>1, QuietUpkeep
<1>7. CASE FrameWritten
  <2>1. qStage # "idle" /\ UNCHANGED <<queue, vTask, vHash>>
    BY <1>7 DEF FrameWritten, taskVars
  <2> QED BY <1>1, <1>2, <2>1, QuietUpkeep
<1>8. CASE ReceiverGetsComplete
  <2>1. rpc = "loop" /\ vTask' = "wait" /\ UNCHANGED <<queue, qStage>>
    BY <1>8 DEF ReceiverGetsComplete, queueVars
  <2> QED BY <1>1, <1>2, <2>1, QuietUpkeep
<1> QED BY <1>4, <1>5, <1>6, <1>7, <1>8

LEMMA OfferUpkeep == ASSUME TypeOK, KeepingInv, ReceiverGetsOffer PROVE Upkeep /\ WriterIsOpen'
<1>1. /\ rpc = "offer" /\ rpc' = "confirm"
      /\ UNCHANGED <<received, hashes, source, attempt, store, queue, qStage, rEvent>> /\ DiskUntouched
  BY DEF ReceiverGetsOffer, progressVars, queueVars, userVars, writerVars, DiskUntouched
<1>2. rEvent # "complete"
  BY <1>1 DEF KeepingInv, CompleteIsDelivered, Settled, ReceiverDone
<1>3. WriterIsOpen'
  BY <1>1 DEF WriterIsOpen
<1> QED BY <1>1, <1>2, <1>3, UntouchedKept DEF Upkeep, Early

LEMMA CrashUpkeep == ASSUME TypeOK, ReceiverCrash PROVE Upkeep /\ WriterIsOpen'
<1>1. /\ rpc # "idle" /\ rpc' = "crashed" /\ queue' = <<>> /\ qStage' = "idle" /\ vTask' = "none"
      /\ disk' = Restarted(kind, disk) /\ wst' = "none"
      /\ UNCHANGED <<received, hashes, source, attempt, kind, store, rEvent>>
  BY DEF ReceiverCrash, progressVars, userVars
<1>2. disk'.file = disk.file /\ (kind = "idb" => disk' = disk)
  BY <1>1 DEF Restarted, TypeOK, WriterTypeOK, Disk
<1>3. DiskKept
  BY <1>1, <1>2 DEF DiskKept
<1>4. WriterIsOpen' /\ Settled'
  BY <1>1 DEF WriterIsOpen, Settled, ReceiverDone
<1> QED BY <1>1, <1>3, <1>4 DEF Upkeep, Early

\* writer.abort() throws rows and the swap file away, never what is in the file.
LEMMA AbortsKept ==
    ASSUME TypeOK, kind' = kind
    PROVE  /\ StartAbort => DiskKept
           /\ StartAbort /\ wst \in {"open", "aborting", "closing"} => wst' \in {"open", "aborting", "closing"}
           /\ StartAbort /\ wst = "closing" => wst' = "closing"
           /\ EndAbort => DiskKept
<1>1. disk \in Disk
  BY DEF TypeOK, WriterTypeOK
<1>2. ASSUME StartAbort PROVE DiskKept
  <2>1. disk' = Aborted(kind, wst, disk) /\ wst' = IF wst = "open" THEN "aborting" ELSE wst
    BY <1>2 DEF StartAbort
  <2>2. disk'.file = disk.file
    BY <1>1, <2>1 DEF Aborted, Disk
  <2>3. kind = "idb" => \A i \in Chunks : disk'.part[i] = NoData
    BY <1>1, <2>1 DEF Aborted, Disk, Blank
  <2>4. kind = "fsa" /\ wst' \in {"open", "closing"} => wst = "closing" /\ disk' = disk
    BY <2>1 DEF Aborted
  <2> QED BY <2>2, <2>3, <2>4 DEF DiskKept
<1>3. EndAbort => DiskKept
  BY DEF EndAbort, DiskKept
<1> QED BY <1>2, <1>3 DEF StartAbort

LEMMA AbortUpkeep ==
    ASSUME TypeOK, KeepingInv, LocalAbortStart \/ RemoteAbortStart
    PROVE  Upkeep /\ WriterIsOpen'
<1>1. /\ StartAbort
      /\ UNCHANGED <<received, hashes, source, attempt, kind, store, rEvent, rpc, queue, qStage, vTask, vHash>>
  BY DEF LocalAbortStart, RemoteAbortStart, progressVars, queueVars, userVars
<1>2. /\ DiskKept
      /\ wst \in {"open", "aborting", "closing"} => wst' \in {"open", "aborting", "closing"}
      /\ wst = "closing" => wst' = "closing"
  BY <1>1, AbortsKept
<1>3. WriterIsOpen'
  BY <1>1, <1>2 DEF KeepingInv, WriterIsOpen, HashesMatch
<1> QED BY <1>1, <1>2, <1>3 DEF Upkeep, Early, Settled

LEMMA AbortedUpkeep ==
    ASSUME TypeOK, LocalAbortDone \/ RemoteAbortDone \/ VerifyMismatchDone \/ FinalizeFails
    PROVE  Upkeep /\ WriterIsOpen'
<1>1. /\ UNCHANGED <<received, hashes, source, attempt, kind, queue, qStage>>
      /\ store' = store \/ (store'.idx = received /\ store'.hash = hashes)
      /\ vTask' \in {"none", vTask} /\ r2s \in Seq(ReceiverMessage)
      /\ EndAbort \/ (wst' = "closed" /\ UNCHANGED disk)
  BY DEF LocalAbortDone, RemoteAbortDone, VerifyMismatchDone, FinalizeFails, progressVars, queueVars, userVars,
     Checkpoint, TypeOK, ChannelTypeOK
<1>2. DiskKept
  BY <1>1, AbortsKept DEF DiskKept
<1>3. \/ Finish("returned", "cancelled", r2s)
      \/ Finish("failed", "error", r2s)
      \/ Finish("failed", rEvent, r2s)
  BY DEF LocalAbortDone, RemoteAbortDone, VerifyMismatchDone, FinalizeFails
<1> QED BY <1>1, <1>2, <1>3, EndUpkeep

LEMMA VerifyStartUpkeep == ASSUME TypeOK, KeepingInv, VerifyStart PROVE Upkeep /\ WriterIsOpen'
<1>1. /\ UNCHANGED <<received, hashes, source, attempt, kind, queue, qStage, store>>
      /\ DiskUntouched /\ r2s \in Seq(ReceiverMessage) /\ vHash' = vHash
  BY DEF VerifyStart, progressVars, queueVars, userVars, writerVars, DiskUntouched, TypeOK, ChannelTypeOK
<1>2. CASE vTask' = "none" /\ Finish("failed", rEvent, r2s)
  BY <1>1, <1>2, UntouchedKept, EndUpkeep
<1>3. CASE ~Settled /\ vTask' = "digest" /\ UNCHANGED <<rpc, rEvent>>
  BY <1>1, <1>3, QuietUpkeep
<1> QED BY <1>2, <1>3 DEF VerifyStart

LEMMA VerifyDigestUpkeep == ASSUME TypeOK, DeliveryInv, VerifyDigest PROVE Upkeep /\ WriterIsOpen'
<1>1. /\ UNCHANGED <<received, hashes, source, attempt, kind, queue, qStage, store, vHash>>
      /\ vTask = "digest"
  BY DEF VerifyDigest, progressVars, queueVars, userVars
<1>2. PICK m : m = [type |-> "verified", ok |-> HashesMatch]
  OBVIOUS
<1>3. m \in ReceiverMessage /\ m.type # "accept"
  BY <1>2 DEF ReceiverMessage, HashesMatch
<1>4. PICK told : told = Put(r2s, sOpen, m)
  OBVIOUS
<1>5. /\ told \in Seq(ReceiverMessage) /\ \A k \in InTransit(told) : k \in InTransit(r2s) \/ k.type # "accept"
      /\ r2s \in Seq(ReceiverMessage)
  BY <1>3, <1>4, AnswerPut DEF TypeOK, ChannelTypeOK
<1>6. \/ /\ vTask' = "none" /\ UNCHANGED writerVars
         /\ Finish("failed", rEvent, r2s) \/ Finish("failed", rEvent, told)
      \/ /\ UNCHANGED <<rpc, rEvent>>
         /\ \/ /\ HashesMatch /\ ~(kind \in {"fsa", "tauri"} /\ wst = "aborting") /\ vTask' = "finalize"
               /\ wst' = (IF wst = "open" THEN "closing" ELSE wst) /\ UNCHANGED disk
            \/ vTask' = "mismatch" /\ StartAbort
  BY <1>2, <1>4 DEF VerifyDigest
<1>7. CASE /\ vTask' = "none" /\ UNCHANGED writerVars
           /\ Finish("failed", rEvent, r2s) \/ Finish("failed", rEvent, told)
  <2>1. DiskKept
    BY <1>1, <1>7 DEF DiskKept, writerVars
  <2> QED BY <1>1, <1>5, <1>7, <2>1, EndUpkeep
<1>8. rEvent # "complete"
  BY <1>1 DEF DeliveryInv, KeepingInv, CompleteIsDelivered
<1>9. rpc = "loop" => wst \in {"open", "aborting", "closing"}
  BY DEF DeliveryInv, KeepingInv, WriterIsOpen
<1>10. CASE /\ UNCHANGED <<rpc, rEvent>> /\ HashesMatch /\ ~(kind \in {"fsa", "tauri"} /\ wst = "aborting")
            /\ vTask' = "finalize" /\ wst' = (IF wst = "open" THEN "closing" ELSE wst) /\ UNCHANGED disk
  <2>1. DiskKept
    BY <1>1, <1>10 DEF DiskKept
  <2>2. HashesMatch'
    BY <1>1, <1>10 DEF HashesMatch
  <2>3. WriterIsOpen'
    BY <1>1, <1>9, <1>10, <2>2 DEF WriterIsOpen
  <2> QED BY <1>1, <1>8, <1>10, <2>1, <2>3 DEF Upkeep, Early
<1>11. CASE UNCHANGED <<rpc, rEvent>> /\ vTask' = "mismatch" /\ StartAbort
  <2>1. DiskKept /\ (wst \in {"open", "aborting", "closing"} => wst' \in {"open", "aborting", "closing"})
    BY <1>1, <1>11, AbortsKept
  <2>2. WriterIsOpen'
    BY <1>1, <1>9, <1>11, <2>1 DEF WriterIsOpen
  <2> QED BY <1>1, <1>8, <1>11, <2>1, <2>2 DEF Upkeep, Early
<1> QED BY <1>6, <1>7, <1>10, <1>11

\* Before a frame of this attempt has come there is none in the queue, in any stage.
LEMMA NothingQueued ==
    ASSUME TypeOK, queue = <<>>
    PROVE  qStage = "idle"
  BY DEF TypeOK, QueueTypeOK

LEMMA StartKeeping == ASSUME TypeOK, KeepingInv, StartTransfer PROVE KeepingInv'
<1>1. /\ attempt' = attempt + 1 /\ attempt < MaxAttempts /\ attempt \in Nat
      /\ rpc' = "offer" /\ rEvent' = "none" /\ received' = {} /\ hashes' = Blank
      /\ queue = <<>> /\ vTask = "none"
      /\ UNCHANGED <<queue, qStage, vTask, wst, disk, store, kind>>
  BY DEF StartTransfer, ReceiverQuiescent, queueVars, taskVars, writerVars, TypeOK, UserTypeOK
<1>2. qStage' = "idle"
  BY <1>1, NothingQueued
<1>3. ReceivedIsHashed' /\ EntryIsReceived' /\ WrittenOnDisk'
  BY <1>1, <1>2 DEF KeepingInv, ReceivedIsHashed, EntryIsReceived, WrittenOnDisk
<1>4. EntryOnDisk'
  BY <1>1 DEF KeepingInv, EntryOnDisk, OnDisk
<1>5. ReceivedOnDisk'
  BY <1>1 DEF ReceivedOnDisk, OnDisk, OnSwap
<1>6. FirstAttempt'
  <2> SUFFICES ASSUME MaxAttempts = 1 PROVE attempt = 0 /\ store.idx = {}
    BY <1>1 DEF FirstAttempt
  <2> QED BY <1>1 DEF KeepingInv, FirstAttempt
<1>7. WriterIsOpen' /\ CompleteIsDelivered'
  BY <1>1 DEF WriterIsOpen, CompleteIsDelivered
<1> QED BY <1>3, <1>4, <1>5, <1>6, <1>7 DEF KeepingInv

\* What is loaded from the resume store is on disk.
LEMMA AcceptKeeping ==
    ASSUME TypeOK, DeliveryInv, rpc = "confirm", rpc' = "open", received' = store'.idx, hashes' = store'.hash,
           store' \in {NoEntry, store}, UNCHANGED <<rEvent, source, attempt, kind, wst, disk, vTask, queue, qStage>>
    PROVE  KeepingInv'
<1>1. queue = <<>> /\ vTask = "none" /\ qStage = "idle" /\ rEvent # "complete"
  BY NothingQueued DEF DeliveryInv, SendingInv, NothingBeforeAccept, KeepingInv, CompleteIsDelivered, Settled,
     ReceiverDone
<1>2. NoEntry.idx = {}
  BY DEF NoEntry
<1>3. \/ received' = {} /\ store'.idx = {}
      \/ store' = store /\ received' = store.idx /\ hashes' = store.hash
  BY <1>2
<1>4. ReceivedIsHashed' /\ EntryIsReceived'
  BY <1>3 DEF DeliveryInv, KeepingInv, ReceivedIsHashed, EntryIsReceived
<1>5. EntryOnDisk'
  BY <1>3 DEF DeliveryInv, KeepingInv, EntryOnDisk, OnDisk
<1>6. MaxAttempts = 1 => received' = {} /\ store'.idx = {}
  BY <1>3 DEF DeliveryInv, KeepingInv, FirstAttempt
<1>7. ReceivedOnDisk'
  <2>1. OnDisk(received, hashes)'
    BY <1>3 DEF DeliveryInv, KeepingInv, EntryOnDisk, OnDisk
  <2>2. OnSwap(received, hashes)'
    BY <1>6 DEF OnSwap
  <2> QED BY <2>1, <2>2 DEF ReceivedOnDisk
<1>8. FirstAttempt'
  BY <1>6 DEF DeliveryInv, KeepingInv, FirstAttempt
<1>9. WrittenOnDisk' /\ WriterIsOpen' /\ CompleteIsDelivered'
  BY <1>1 DEF WrittenOnDisk, WriterIsOpen, CompleteIsDelivered
<1> QED BY <1>4, <1>5, <1>7, <1>8, <1>9 DEF KeepingInv

LEMMA DecideKeeping == ASSUME TypeOK, DeliveryInv, ReceiverDecide PROVE KeepingInv'
<1>1. rpc = "confirm" /\ UNCHANGED <<vTask, queue, qStage, wst, disk, source, attempt, kind>>
  BY DEF ReceiverDecide, queueVars, taskVars, writerVars, userVars
<1>2. PICK m \in ReceiverMessage : m = [type |-> "reject"]
  BY CloseMessages
<1>3. PICK refused : refused = Put(r2s, sOpen, m)
  OBVIOUS
<1>4. refused \in Seq(ReceiverMessage) /\ \A k \in InTransit(refused) : k \in InTransit(r2s) \/ k.type # "accept"
  BY <1>2, <1>3, AnswerPut
<1>5. r2s \in Seq(ReceiverMessage) /\ DiskKept
  BY <1>1 DEF TypeOK, ChannelTypeOK, DiskKept
<1>6. CASE /\ UNCHANGED <<received, hashes, store>>
           /\ \/ ReceiverSettles("returned", "cancelled", r2s)
              \/ ReceiverSettles("returned", rEvent, refused)
              \/ ReceiverSettles("failed", rEvent, r2s)
  <2>1. Upkeep /\ WriterIsOpen'
    BY <1>1, <1>4, <1>5, <1>6, EndUpkeep
  <2> QED BY <2>1, UpkeepKeeps DEF DeliveryInv
<1>7. CASE /\ rpc' = "open" /\ received' = store'.idx /\ hashes' = store'.hash /\ store' \in {NoEntry, store}
           /\ rEvent' = rEvent
  BY <1>1, <1>7, AcceptKeeping
<1> QED BY <1>2, <1>3, <1>6, <1>7 DEF ReceiverDecide, progressVars

\* The file of a new swap file is the one on disk; a first attempt expects none of it.
LEMMA OpenedKeeping == ASSUME TypeOK, DeliveryInv, ReceiverOpened PROVE KeepingInv'
<1>1. rpc = "open" /\ UNCHANGED <<vTask, queue, qStage, received, hashes, store, source, attempt, kind>>
  BY DEF ReceiverOpened, queueVars, userVars
<1>2. queue = <<>> /\ vTask = "none" /\ qStage = "idle" /\ rEvent # "complete"
  BY <1>1, NothingQueued DEF DeliveryInv, SendingInv, NothingBeforeAccept, KeepingInv, CompleteIsDelivered, Settled,
     ReceiverDone
<1>3. /\ rpc' \in {"returned", "failed", "loop"} /\ rEvent' # "complete"
      /\ rpc' = "loop" => wst' = "open"
      /\ disk' = Opened(kind, disk) \/ disk' = Aborted(kind, "open", Opened(kind, disk))
  BY <1>2 DEF ReceiverOpened, ReceiverSettles
<1>4. /\ disk'.file = disk.file
      /\ kind = "tauri" => disk' = disk
      /\ kind = "idb" => disk' = disk \/ \A i \in Chunks : disk'.part[i] = NoData
  <2>1. disk \in Disk
    BY DEF TypeOK, WriterTypeOK
  <2>2. PICK d : d = Opened(kind, disk)
    OBVIOUS
  <2>3. d \in Disk /\ d.file = disk.file /\ (kind \in {"idb", "tauri"} => d = disk)
    BY <2>1, <2>2 DEF Opened, Disk, Image, Blank, Datum
  <2> QED BY <1>3, <2>2, <2>3 DEF Aborted, Disk, Blank
<1>5. received \subseteq Chunks /\ store.idx \subseteq Chunks /\ store.idx \subseteq received
  BY <1>1 DEF TypeOK, ReceiverTypeOK, WriterTypeOK, ResumeState, DeliveryInv, KeepingInv, EntryIsReceived
<1>6. MaxAttempts = 1 => received = {}
  BY <1>1 DEF DeliveryInv, KeepingInv, FirstAttempt
<1>7. EntryOnDisk'
  BY <1>1, <1>4, <1>5 DEF DeliveryInv, KeepingInv, EntryOnDisk, OnDisk
<1>8. OnDisk(received, hashes)'
  BY <1>1, <1>4, <1>5 DEF DeliveryInv, KeepingInv, ReceivedOnDisk, OnDisk
<1>9. OnSwap(received, hashes)'
  BY <1>1, <1>6 DEF OnSwap
<1>10. ReceivedIsHashed' /\ EntryIsReceived'
  BY <1>1, <1>5 DEF DeliveryInv, KeepingInv, ReceivedIsHashed, EntryIsReceived
<1>11. FirstAttempt'
  BY <1>1, <1>3, <1>6 DEF DeliveryInv, KeepingInv, FirstAttempt
<1>12. WrittenOnDisk' /\ WriterIsOpen' /\ CompleteIsDelivered'
  BY <1>1, <1>2, <1>3 DEF WrittenOnDisk, WriterIsOpen, CompleteIsDelivered
<1> QED BY <1>7, <1>8, <1>9, <1>10, <1>11, <1>12 DEF KeepingInv, ReceivedOnDisk

\* What a write changes: chunk i of the one image the writer writes to.
LEMMA WroteFields ==
    ASSUME NEW d \in Disk, NEW i \in Chunks, NEW x, NEW e, e = Wrote(kind, d, i, x)
    PROVE  /\ \A j \in Chunks \ {i} : e.file[j] = d.file[j] /\ e.part[j] = d.part[j]
           /\ kind = "tauri" => e.file[i] = x
           /\ kind # "tauri" => e.part[i] = x /\ e.file = d.file
<1>1. d.file \in Image /\ d.part \in Image
  BY DEF Disk
<1>2. CASE kind = "tauri"
  <2>1. e.file = [d.file EXCEPT ![i] = x] /\ e.part = d.part
    BY <1>2 DEF Wrote, Disk
  <2> QED BY <1>1, <1>2, <2>1 DEF Image
<1>3. CASE kind # "tauri"
  <2>1. e.part = [d.part EXCEPT ![i] = x] /\ e.file = d.file
    BY <1>3 DEF Wrote, Disk
  <2> QED BY <1>1, <1>3, <2>1 DEF Image
<1> QED BY <1>2, <1>3

\* A write, whole or torn, touches no chunk that counts as received.
LEMMA WriteKeeps ==
    ASSUME TypeOK, KeepingInv, queue # <<>>, Head(queue).i \notin received, NEW x,
           disk' = Wrote(kind, disk, Head(queue).i, x), UNCHANGED <<kind, wst, store, received, hashes>>
    PROVE  EntryOnDisk' /\ ReceivedOnDisk'
<1>1. PICK i \in Chunks : i = Head(queue).i
  BY PopFrameType
<1>2. \A j \in Chunks \ {i} : disk'.file[j] = disk.file[j] /\ disk'.part[j] = disk.part[j]
  <2>1. PICK e : e = Wrote(kind, disk, i, x)
    OBVIOUS
  <2>2. \A j \in Chunks \ {i} : e.file[j] = disk.file[j] /\ e.part[j] = disk.part[j]
    BY <2>1, WroteFields DEF TypeOK, WriterTypeOK
  <2> QED BY <1>1, <2>1, <2>2
<1>3. store.idx \subseteq received /\ received \subseteq Chunks \ {i}
  BY <1>1 DEF KeepingInv, EntryIsReceived, TypeOK, ReceiverTypeOK
<1>4. EntryOnDisk'
  BY <1>2, <1>3 DEF KeepingInv, EntryOnDisk, OnDisk
<1>5. ReceivedOnDisk'
  BY <1>2, <1>3 DEF KeepingInv, ReceivedOnDisk, OnDisk, OnSwap
<1> QED BY <1>4, <1>5

\* The rest of the invariant is not about the disk.
LEMMA WriteFrame ==
    ASSUME TypeOK, KeepingInv, queue # <<>>,
           UNCHANGED <<kind, wst, store, received, hashes, vTask, vHash, source, attempt>>,
           UNCHANGED <<rpc, rEvent>> \/ (rEvent' = rEvent /\ rpc' = "failed" /\ rpc # "idle")
    PROVE  /\ ReceivedIsHashed' /\ EntryIsReceived' /\ FirstAttempt' /\ WriterIsOpen' /\ CompleteIsDelivered'
<1>1. rEvent' # "complete"
  BY DEF KeepingInv, CompleteIsDelivered
<1>2. ReceivedIsHashed' /\ EntryIsReceived'
  BY DEF KeepingInv, ReceivedIsHashed, EntryIsReceived
<1>3. FirstAttempt' /\ WriterIsOpen'
  BY DEF KeepingInv, FirstAttempt, WriterIsOpen, HashesMatch
<1>4. CompleteIsDelivered'
  BY <1>1 DEF CompleteIsDelivered
<1> QED BY <1>2, <1>3, <1>4

LEMMA StartWriteKeeping == ASSUME TypeOK, KeepingInv, StartWrite PROVE KeepingInv'
<1>1. /\ queue # <<>> /\ Head(queue).i \notin received
      /\ disk' = Wrote(kind, disk, Head(queue).i, Head(queue).d)
      /\ UNCHANGED <<kind, wst, store, received, hashes, vTask, vHash, source, attempt, rpc, rEvent, queue>>
  BY DEF StartWrite, FrameIsDue, progressVars, taskVars, userVars
<1>2. EntryOnDisk' /\ ReceivedOnDisk'
  BY <1>1, WriteKeeps
<1>3. ReceivedIsHashed' /\ EntryIsReceived' /\ FirstAttempt' /\ WriterIsOpen' /\ CompleteIsDelivered'
  BY <1>1, WriteFrame
<1>4. PICK i \in Chunks : i = Head(queue).i
  BY <1>1, PopFrameType
<1>5. PICK x : x = Head(queue).d
  OBVIOUS
<1>6. (kind = "tauri" => disk'.file[i] = x) /\ (kind # "tauri" => disk'.part[i] = x)
  <2>1. PICK e : e = Wrote(kind, disk, i, x)
    OBVIOUS
  <2>2. (kind = "tauri" => e.file[i] = x) /\ (kind # "tauri" => e.part[i] = x)
    BY <2>1, WroteFields DEF TypeOK, WriterTypeOK
  <2> QED BY <1>1, <1>4, <1>5, <2>1, <2>2
<1>7. PICK G : G = [hashes EXCEPT ![i] = x]
  OBVIOUS
<1>8. G[i] = x
  BY <1>7 DEF TypeOK, ReceiverTypeOK, Image
<1>9. OnDisk({i}, G)' /\ OnSwap({i}, G)'
  BY <1>1, <1>6, <1>8 DEF OnDisk, OnSwap
<1>10. Head(queue') = Head(queue) /\ hashes' = hashes /\ received' = received
  BY <1>1
<1>11. WrittenOnDisk'
  BY <1>1, <1>4, <1>5, <1>7, <1>9, <1>10 DEF WrittenOnDisk
<1> QED BY <1>2, <1>3, <1>11 DEF KeepingInv

LEMMA WriteFailsKeeping == ASSUME TypeOK, KeepingInv, WriteFails PROVE KeepingInv'
<1>1. /\ qStage' = "idle" /\ Finish("failed", rEvent, r2s)
      /\ queue # <<>> /\ Head(queue).i \notin received
      /\ UNCHANGED <<kind, wst, store, received, hashes, vTask, vHash, source, attempt>>
  BY DEF WriteFails, FrameIsDue, PopFrame, progressVars, userVars, TypeOK, QueueTypeOK, KeepingInv, WrittenOnDisk
<1>2. r2s \in Seq(ReceiverMessage)
  BY DEF TypeOK, ChannelTypeOK
<1>3. CASE UNCHANGED disk
  <2>1. DiskKept
    BY <1>1, <1>3 DEF DiskKept
  <2>2. Upkeep /\ WriterIsOpen'
    BY <1>1, <1>2, <2>1, EndUpkeep
  <2> QED BY <2>2, UpkeepKeeps
<1>4. CASE disk' = Wrote(kind, disk, Head(queue).i, NoData)
  <2>1. EntryOnDisk' /\ ReceivedOnDisk'
    BY <1>1, <1>4, WriteKeeps
  <2>2. UNCHANGED <<rpc, rEvent>> \/ (rEvent' = rEvent /\ rpc' = "failed" /\ rpc # "idle")
    BY <1>1 DEF Finish, ReceiverSettles, Settled, ReceiverDone
  <2>3. ReceivedIsHashed' /\ EntryIsReceived' /\ FirstAttempt' /\ WriterIsOpen' /\ CompleteIsDelivered'
    BY <1>1, <2>2, WriteFrame
  <2>4. WrittenOnDisk'
    BY <1>1 DEF WrittenOnDisk
  <2> QED BY <2>1, <2>3, <2>4 DEF KeepingInv
<1> QED BY <1>3, <1>4 DEF WriteFails

\* A chunk counts as received once its hash is kept, and is on disk by then.
LEMMA HashedKeeping == ASSUME TypeOK, DeliveryInv, FrameHashed PROVE KeepingInv'
<1>1. /\ qStage = "hash" /\ qStage' = "idle" /\ queue # <<>> /\ hashes \in Image
      /\ hashes' = [hashes EXCEPT ![Head(queue).i] = Head(queue).d]
      /\ UNCHANGED <<rpc, vTask, vHash, wst, disk, source, attempt, kind>>
  BY DEF FrameHashed, PopFrame, writerVars, userVars, TypeOK, QueueTypeOK, ReceiverTypeOK
<1>2. PICK i \in Chunks : i = Head(queue).i /\ Head(queue).d \in Contents
  BY <1>1, PopFrameType
<1>3. PICK x : x = Head(queue).d
  OBVIOUS
<1>4. x # NoData
  BY <1>2, <1>3
<1>5. PICK G : G = hashes'
  OBVIOUS
<1>6. G = [hashes EXCEPT ![i] = x]
  BY <1>1, <1>2, <1>3, <1>5
<1>7. G[i] = x /\ \A j \in Chunks \ {i} : G[j] = hashes[j]
  BY <1>1, <1>6 DEF Image
<1>8. i \notin received /\ OnDisk({i}, G) /\ OnSwap({i}, G)
  BY <1>1, <1>2, <1>3, <1>6 DEF DeliveryInv, KeepingInv, WrittenOnDisk
<1>9. store.idx \subseteq received /\ received \subseteq Chunks
  BY <1>1 DEF DeliveryInv, KeepingInv, EntryIsReceived, TypeOK, ReceiverTypeOK
<1>10. /\ Settled => UNCHANGED <<received, rEvent, store>>
       /\ ~Settled => /\ received' = received \cup {i} /\ rEvent' = "progress"
                      /\ store' = store \/ (store'.idx = received' /\ store'.hash = hashes')
  <2>1. CASE Settled
    BY <2>1 DEF FrameHashed
  <2>2. CASE ~Settled
    <3>1. received' = received \cup {i} /\ rEvent' = "progress"
      BY <1>2, <2>2 DEF FrameHashed
    <3>2. store' = store \/ Checkpoint(received', hashes')
      BY <2>2 DEF FrameHashed
    <3>3. store' = store \/ (store'.idx = received' /\ store'.hash = hashes')
      BY <3>2 DEF Checkpoint
    <3> QED BY <2>2, <3>1, <3>3
  <2> QED BY <2>1, <2>2
<1>11. received' = received \/ received' = received \cup {i}
  BY <1>10
<1>12. /\ \A j \in received : hashes[j] # NoData
       /\ \A j \in store.idx : store.hash[j] # NoData
  BY DEF DeliveryInv, KeepingInv, ReceivedIsHashed
<1>13. \A j \in received' : hashes'[j] # NoData
  BY <1>4, <1>5, <1>7, <1>8, <1>9, <1>11, <1>12
<1>14. ReceivedIsHashed'
  BY <1>10, <1>12, <1>13 DEF ReceivedIsHashed
<1>15. OnDisk(received, G) /\ OnSwap(received, G)
  <2>1. OnDisk(received, hashes) /\ OnSwap(received, hashes)
    BY DEF DeliveryInv, KeepingInv, ReceivedOnDisk
  <2>2. \A j \in received : G[j] = hashes[j]
    BY <1>7, <1>8, <1>9
  <2> QED BY <2>1, <2>2 DEF OnDisk, OnSwap
<1>16. PICK R : R = received'
  OBVIOUS
<1>17. OnDisk(R, G) /\ OnSwap(R, G)
  BY <1>8, <1>11, <1>15, <1>16 DEF OnDisk, OnSwap
<1>18. OnDisk(R, G)' /\ OnSwap(R, G)'
  BY <1>1, <1>17 DEF OnDisk, OnSwap
<1>19. ReceivedOnDisk'
  BY <1>5, <1>16, <1>18 DEF ReceivedOnDisk
<1>20. EntryOnDisk'
  <2>1. CASE store' = store
    BY <1>1, <2>1 DEF DeliveryInv, KeepingInv, EntryOnDisk, OnDisk
  <2>2. CASE store'.idx = received' /\ store'.hash = hashes'
    <3>1. store'.idx = R /\ store'.hash = G
      BY <1>5, <1>16, <2>2
    <3> QED BY <1>18, <3>1 DEF EntryOnDisk
  <2> QED BY <1>10, <2>1, <2>2
<1>21. EntryIsReceived'
  BY <1>9, <1>10 DEF EntryIsReceived
<1>22. FirstAttempt'
  <2>1. rpc \in {"idle", "offer", "confirm", "open"} => Settled /\ rpc = "idle"
    BY <1>1 DEF DeliveryInv, SendingInv, NothingBeforeAccept, Settled, ReceiverDone
  <2>2. rpc \in {"idle", "offer", "confirm", "open"} => UNCHANGED <<received, store>>
    BY <1>10, <2>1
  <2> QED BY <1>1, <2>2 DEF DeliveryInv, KeepingInv, FirstAttempt
<1>23. WriterIsOpen'
  <2>1. ~(rpc = "loop" /\ vTask = "finalize")
    BY <1>1 DEF DeliveryInv, SendingInv, VerifyHasAll
  <2> QED BY <1>1, <2>1 DEF DeliveryInv, KeepingInv, WriterIsOpen
<1>24. CompleteIsDelivered'
  BY <1>1, <1>10 DEF DeliveryInv, KeepingInv, CompleteIsDelivered
<1>25. WrittenOnDisk'
  BY <1>1 DEF WrittenOnDisk
<1> QED BY <1>14, <1>19, <1>20, <1>21, <1>22, <1>23, <1>24, <1>25 DEF KeepingInv

\* The file is put in its place: every chunk is there, with the hash of the sender's.
LEMMA FinalizedKeeping == ASSUME TypeOK, DeliveryInv, VerdictOfSource, VerifyFinalized PROVE KeepingInv'
<1>1. /\ vTask = "finalize" /\ CanFinalize(kind, wst, disk) /\ vTask' = "none"
      /\ disk' = Finalized(kind, wst, disk) /\ wst' = (IF wst = "closing" THEN "closed" ELSE wst)
      /\ store' = NoEntry /\ Finish("returned", "complete", r2s)
      /\ UNCHANGED <<received, hashes, queue, qStage, source, attempt, kind>>
  BY DEF VerifyFinalized, progressVars, queueVars, userVars
<1>2. queue = <<>> /\ received = Chunks /\ qStage = "idle" /\ rEvent # "complete" /\ vHash = source
  BY <1>1, NothingQueued DEF DeliveryInv, SendingInv, VerifyHasAll, KeepingInv, CompleteIsDelivered, VerdictOfSource
<1>3. NoEntry.idx = {}
  BY DEF NoEntry
<1>4. disk \in Disk /\ disk.part \in Image /\ disk.file \in Image
  BY DEF TypeOK, WriterTypeOK, Disk
<1>5. EntryOnDisk' /\ EntryIsReceived' /\ WrittenOnDisk'
  BY <1>1, <1>2, <1>3 DEF EntryOnDisk, OnDisk, EntryIsReceived, WrittenOnDisk
<1>6. ReceivedIsHashed'
  BY <1>1, <1>3 DEF DeliveryInv, KeepingInv, ReceivedIsHashed
<1>7. /\ kind = "tauri" => disk' = disk
      /\ kind = "idb" => disk'.file = disk.part /\ \A i \in Chunks : disk'.part[i] = NoData
      /\ kind = "fsa" /\ wst = "closing" => disk'.file = disk.part
      /\ kind = "fsa" /\ wst # "closing" => disk' = disk
  BY <1>1 DEF Finalized, Blank
<1>8. ReceivedOnDisk'
  <2>1. OnDisk(received, hashes)'
    BY <1>1, <1>2, <1>7 DEF DeliveryInv, KeepingInv, ReceivedOnDisk, OnDisk
  <2>2. kind = "fsa" /\ wst' \in {"open", "closing"} => wst = "open" /\ disk' = disk
    BY <1>1, <1>7
  <2>3. OnSwap(received, hashes)'
    BY <1>1, <2>2 DEF DeliveryInv, KeepingInv, ReceivedOnDisk, OnSwap
  <2> QED BY <2>1, <2>3 DEF ReceivedOnDisk
<1>9. CASE Settled
  <2>1. UNCHANGED <<rpc, rEvent>>
    BY <1>1, <1>9 DEF Finish
  <2>2. FirstAttempt'
    BY <1>1, <1>3, <2>1 DEF DeliveryInv, KeepingInv, FirstAttempt
  <2>3. rpc' # "loop" /\ rEvent' # "complete"
    BY <1>2, <1>9, <2>1 DEF Settled, ReceiverDone
  <2>4. WriterIsOpen' /\ CompleteIsDelivered'
    BY <2>3 DEF WriterIsOpen, CompleteIsDelivered
  <2> QED BY <1>5, <1>6, <1>8, <2>2, <2>4 DEF KeepingInv
<1>10. CASE ~Settled
  <2>1. rpc = "loop" /\ rpc' = "returned"
    BY <1>1, <1>10 DEF Finish, ReceiverSettles, DeliveryInv, SendingInv, NothingBeforeAccept, Settled, ReceiverDone,
       TypeOK, ReceiverTypeOK
  <2>2. HashesMatch /\ (kind \in {"fsa", "tauri"} => wst = "closing")
    BY <1>1, <2>1 DEF DeliveryInv, KeepingInv, WriterIsOpen
  <2>3. \A i \in Chunks : hashes[i] = source
    BY <1>2, <2>2 DEF HashesMatch
  <2>4. kind = "tauri" => \A i \in Chunks : disk'.file[i] = source
    BY <1>2, <1>7, <2>3 DEF DeliveryInv, KeepingInv, ReceivedOnDisk, OnDisk
  <2>5. kind = "idb" => \A i \in Chunks : disk'.file[i] = source
    BY <1>1, <1>2, <1>7, <2>3 DEF DeliveryInv, KeepingInv, ReceivedOnDisk, OnDisk, CanFinalize
  <2>6. kind = "fsa" /\ MaxAttempts = 1 => \A i \in Chunks : disk'.file[i] = source
    BY <1>2, <1>7, <2>2, <2>3 DEF DeliveryInv, KeepingInv, ReceivedOnDisk, OnSwap
  <2>7. CompleteIsDelivered'
    BY <1>1, <1>2, <2>1, <2>4, <2>5, <2>6 DEF CompleteIsDelivered, Settled, ReceiverDone
  <2>8. FirstAttempt' /\ WriterIsOpen'
    BY <1>1, <1>3, <2>1 DEF DeliveryInv, KeepingInv, FirstAttempt, WriterIsOpen
  <2> QED BY <1>5, <1>6, <1>8, <2>7, <2>8 DEF KeepingInv
<1> QED BY <1>9, <1>10

LEMMA KeepingInit == Init => KeepingInv
<1> SUFFICES ASSUME Init PROVE KeepingInv
  OBVIOUS
<1>1. /\ rpc = "idle" /\ received = {} /\ queue = <<>> /\ qStage = "idle" /\ vTask = "none"
      /\ rEvent = "none" /\ attempt = 0 /\ store = NoEntry
  BY DEF Init
<1>2. store.idx = {}
  BY <1>1 DEF NoEntry
<1>3. ReceivedIsHashed /\ EntryOnDisk /\ ReceivedOnDisk /\ EntryIsReceived
  BY <1>1, <1>2 DEF ReceivedIsHashed, EntryOnDisk, ReceivedOnDisk, OnDisk, OnSwap, EntryIsReceived
<1>4. WrittenOnDisk /\ FirstAttempt /\ WriterIsOpen /\ CompleteIsDelivered
  BY <1>1, <1>2 DEF WrittenOnDisk, FirstAttempt, WriterIsOpen, CompleteIsDelivered
<1> QED BY <1>3, <1>4 DEF KeepingInv

LEMMA KeepingNext == TypeOK /\ VerifiedInv /\ DeliveryInv /\ [Next]_vars => KeepingInv'
<1> SUFFICES ASSUME TypeOK, VerifiedInv, DeliveryInv, [Next]_vars PROVE KeepingInv'
  OBVIOUS
<1>1. KeepingInv /\ VerdictOfSource
  BY DEF DeliveryInv, VerifiedInv
<1>2. CASE SenderStep \/ SenderCancel \/ SenderReadError
  BY <1>2, SenderStepsEffect, SenderKeeps DEF DeliveryInv
<1>3. CASE StartTransfer
  BY <1>1, <1>3, StartKeeping
<1>4. CASE ReceiverDecide
  BY <1>4, DecideKeeping
<1>5. CASE ReceiverOpened
  BY <1>5, OpenedKeeping
<1>6. CASE StartWrite
  BY <1>1, <1>6, StartWriteKeeping
<1>7. CASE WriteFails
  BY <1>1, <1>7, WriteFailsKeeping
<1>8. CASE FrameHashed
  BY <1>8, HashedKeeping
<1>9. CASE VerifyFinalized
  BY <1>1, <1>9, FinalizedKeeping
<1>10. CASE Upkeep /\ WriterIsOpen'
  BY <1>1, <1>10, UpkeepKeeps
<1>11. CASE \/ ReceiverGetsAbort \/ ReceiverGetsClose \/ LinkFails \/ ReceiverCancel
            \/ ReceiverGetsFrame \/ SkipFrame \/ FrameWritten \/ ReceiverGetsComplete
  BY <1>1, <1>10, <1>11, ChannelUpkeep
<1>12. CASE ReceiverGetsOffer \/ ReceiverCrash \/ ReceiverOpenFails
  BY <1>1, <1>10, <1>12, OfferUpkeep, CrashUpkeep, OpenFailsUpkeep
<1>13. CASE LocalAbortStart \/ RemoteAbortStart
  BY <1>1, <1>10, <1>13, AbortUpkeep
<1>14. CASE LocalAbortDone \/ RemoteAbortDone \/ VerifyMismatchDone \/ FinalizeFails
  BY <1>10, <1>14, AbortedUpkeep
<1>15. CASE VerifyStart
  BY <1>1, <1>10, <1>15, VerifyStartUpkeep
<1>16. CASE VerifyDigest
  BY <1>10, <1>16, VerifyDigestUpkeep
<1>17. CASE UNCHANGED vars
  <2>1. UNCHANGED receiverView
    BY <1>17 DEF vars, receiverVars, progressVars, queueVars, taskVars, writerVars, userVars, receiverView
  <2> QED BY <1>1, <2>1, KeepingFrame DEF receiverView
<1> QED BY <1>2, <1>3, <1>4, <1>5, <1>6, <1>7, <1>8, <1>9, <1>11, <1>12, <1>13, <1>14, <1>15, <1>16, <1>17
        DEF Next, SenderStep, ReceiverStep, UserStep, Fault

DeliveredInv == TypeOK /\ VerifiedInv /\ DeliveryInv

LEMMA DeliveredNext == DeliveredInv /\ [Next]_vars => DeliveredInv'
  BY TypeNext, VerifiedNext, SendingNext, KeepingNext DEF DeliveredInv, DeliveryInv

LEMMA DeliveredInit == Init => DeliveredInv
  BY TypeInit, VerifiedInit, SendingInit, KeepingInit DEF DeliveredInv, DeliveryInv

LEMMA DeliveredAlways == Spec => []DeliveredInv
  BY DeliveredInit, DeliveredNext, PTL DEF Spec

-----------------------------------------------------------------------------
(* What is promised. *)

\* Backpressure holds: however long the receiver is slow, and however the channel's
\* ends change state, there are never more than HighWater frames in the channel.
THEOREM BufferIsBounded == Spec => []BufferBounded
<1>1. DeliveredInv => BufferBounded
  <2> SUFFICES ASSUME DeliveredInv PROVE BufferBounded
    OBVIOUS
  <2>1. s2r \in Seq(SenderMessage) /\ HighWater \in Nat
    BY DEF DeliveredInv, TypeOK, ChannelTypeOK
  <2>2. Frames(s2r) \subseteq 1 .. HighWater
    BY <2>1 DEF DeliveredInv, DeliveryInv, SendingInv, FramesLow, Frames
  <2>3. IsFiniteSet(1 .. HighWater) /\ Cardinality(1 .. HighWater) = HighWater
    BY <2>1, FS_Interval
  <2>4. Cardinality(Frames(s2r)) <= HighWater
    BY <2>2, <2>3, FS_Subset
  <2> QED BY <2>4 DEF BufferBounded, Frames
<1> QED BY <1>1, DeliveredAlways, PTL

\* With a writer that writes in place the resume entry never names a chunk that is
\* not on disk with the bytes its hash was computed of: in any number of attempts, at
\* any interval of the checkpoints, and wherever a write fails or the app dies.
THEOREM CheckpointsAreDurable == Spec => []CheckpointDurable
<1>1. DeliveredInv => CheckpointDurable
  <2> SUFFICES ASSUME DeliveredInv, kind = "tauri", NEW i \in store.idx
               PROVE  disk.file[i] = store.hash[i] /\ disk.file[i] # NoData
    BY DEF CheckpointDurable
  <2>1. store.hash[i] # NoData
    BY DEF DeliveredInv, DeliveryInv, KeepingInv, ReceivedIsHashed
  <2>2. disk.file[i] = store.hash[i]
    BY DEF DeliveredInv, DeliveryInv, KeepingInv, EntryOnDisk, OnDisk
  <2> QED BY <2>1, <2>2
<1> QED BY <1>1, DeliveredAlways, PTL

\* What receiveFile reports complete is the sender's file where the user finds it,
\* for writers that keep what they have written from one attempt to the next.  A
\* swap file is only delivered intact by the attempt that started it: the entry
\* outlives the swap file, which is what the run with the holes shows.
THEOREM DeliveredIsIntact ==
    ASSUME \/ WriterKinds \subseteq {"idb", "tauri"}
           \/ WriterKinds \subseteq {"fsa", "idb", "tauri"} /\ MaxAttempts = 1
    PROVE  Spec => []DeliveredIntact
<1>1. DeliveredInv => DeliveredIntact
  <2> SUFFICES ASSUME DeliveredInv, rEvent = "complete" PROVE disk.file = [i \in Chunks |-> source]
    BY DEF DeliveredIntact
  <2>1. kind \in WriterKinds /\ disk.file \in Image
    BY DEF DeliveredInv, TypeOK, UserTypeOK, WriterTypeOK, Disk
  <2>2. kind \in {"idb", "tauri"} \/ (kind = "fsa" /\ MaxAttempts = 1)
    BY <2>1
  <2>3. \A i \in Chunks : disk.file[i] = source
    BY <2>2 DEF DeliveredInv, DeliveryInv, KeepingInv, CompleteIsDelivered
  <2> QED BY <2>1, <2>3 DEF Image
<1> QED BY <1>1, DeliveredAlways, PTL

\* The step the property is about.
SeesAll ==
    (vTask = "wait" /\ vTask' # "wait" /\ ~Settled /\ rpc' # "crashed")
        => vTask' = "digest" /\ received = Chunks

\* The completion is waited for until its handler runs, or the app dies.
LEMMA WaitEnds ==
    ASSUME TypeOK, [Next]_vars, vTask = "wait", vTask' # "wait", rpc' # "crashed"
    PROVE  VerifyStart
<1>1. \/ SenderStep \/ SenderCancel \/ SenderReadError
      => UNCHANGED vTask
  BY SenderStepsEffect DEF SenderEffect
<1>2. StartTransfer \/ ReceiverDecide \/ ReceiverOpened \/ ReceiverOpenFails \/ ReceiverCancel => UNCHANGED vTask
  BY DEF StartTransfer, ReceiverDecide, ReceiverOpened, ReceiverOpenFails, ReceiverCancel, taskVars
<1>3. \/ ReceiverGetsOffer \/ ReceiverGetsAbort \/ ReceiverGetsFrame \/ SkipFrame \/ StartWrite \/ FrameWritten
      \/ WriteFails \/ FrameHashed \/ LocalAbortStart \/ LocalAbortDone \/ RemoteAbortStart \/ RemoteAbortDone
      \/ ReceiverGetsClose \/ LinkFails
      => UNCHANGED vTask
  BY DEF ReceiverGetsOffer, ReceiverGetsAbort, ReceiverGetsFrame, SkipFrame, StartWrite, FrameWritten, WriteFails,
     FrameHashed, LocalAbortStart, LocalAbortDone, RemoteAbortStart, RemoteAbortDone, ReceiverGetsClose, LinkFails,
     taskVars, receiverVars
<1>4. ~ReceiverGetsComplete /\ ~ReceiverCrash
  BY DEF ReceiverGetsComplete, ReceiverCrash
<1>5. ~VerifyDigest /\ ~VerifyFinalized /\ ~FinalizeFails /\ ~VerifyMismatchDone
  BY DEF VerifyDigest, VerifyFinalized, FinalizeFails, VerifyMismatchDone
<1>6. ~UNCHANGED vars
  BY DEF vars, receiverVars, taskVars
<1> QED BY <1>1, <1>2, <1>3, <1>4, <1>5, <1>6 DEF Next, SenderStep, ReceiverStep, UserStep, Fault

\* When the completion is handled every frame sent before it has been, and no chunk
\* is missing: a control message overtakes no frame that is still being written or
\* hashed, whatever else happens meanwhile.
THEOREM NoChunkMissing == Spec => VerificationSeesAll
<1>1. DeliveredInv /\ [Next]_vars => [SeesAll]_vars
  <2> SUFFICES ASSUME DeliveredInv, [Next]_vars, vTask = "wait", vTask' # "wait", ~Settled, rpc' # "crashed"
               PROVE  vTask' = "digest" /\ received = Chunks
    BY DEF SeesAll
  <2>1. VerifyStart
    BY WaitEnds DEF DeliveredInv
  <2>2. queue = <<>> /\ received \subseteq Chunks /\ rpc = "loop"
    BY <2>1 DEF VerifyStart, ProcessingQueueSettled, DeliveredInv, DeliveryInv, SendingInv, NothingBeforeAccept,
       Settled, ReceiverDone, TypeOK, ReceiverTypeOK
  <2>3. Held = received
    BY <2>2 DEF Held
  <2>4. received = Chunks
    BY <2>2, <2>3 DEF DeliveredInv, DeliveryInv, SendingInv, VerifyHasAll
  <2>5. \A i \in Chunks : hashes[i] # NoData
    BY <2>4 DEF DeliveredInv, DeliveryInv, KeepingInv, ReceivedIsHashed
  <2>6. vTask' = "digest"
    BY <2>1, <2>5 DEF VerifyStart
  <2> QED BY <2>4, <2>6
<1> QED BY <1>1, DeliveredAlways, PTL DEF Spec, VerificationSeesAll, SeesAll
=============================================================================
