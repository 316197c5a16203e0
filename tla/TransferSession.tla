--------------------------- MODULE TransferSession ---------------------------
(***************************************************************************)
(* sendFile and receiveFile of transfer-engine/src/transferSession.ts: one *)
(* sending and one receiving device that transfer the same file, possibly  *)
(* in several attempts, each over a data channel of its own.               *)
(*                                                                         *)
(* Both are single-threaded; an action is the code one party runs between  *)
(* two awaits that really wait: for the channel, a timer, a human, the     *)
(* disk or a digest.  Awaits that only yield to microtasks (the resume     *)
(* store is synchronous localStorage) do not split an action.              *)
(*                                                                         *)
(* A definition called a mutated form is one a mistake in the code would   *)
(* give.  It stands before the definition it varies and nothing uses it.   *)
(***************************************************************************)
EXTENDS DiskWriter, Sequences, FiniteSets

CONSTANTS
    WriterKinds,     \* the writers the receiving device may have
    CheckpointEvery, \* checkpointEveryChunks
    HighWater,       \* the watermarks of types.ts, counted in messages
    LowWater,
    MaxAttempts      \* bound: how often the user sends the file

ASSUME KindsAssumption == WriterKinds \subseteq Kinds /\ WriterKinds # {}
ASSUME LimitsAssumption ==
    /\ CheckpointEvery \in Nat \ {0} /\ MaxAttempts \in Nat \ {0}
    /\ LowWater \in Nat /\ HighWater \in Nat /\ LowWater < HighWater

VARIABLES
    \* sendFile
    spc, sIdx, sFrom,   \* where it is, the chunk index i, resumeFrom
    sCancel, sRemote,   \* opts.signal.aborted, remoteAborted
    sEvent,             \* the last event this call emitted
    source,             \* the version of the file it reads
    \* receiveFile
    rpc,                \* where it is
    rCancel, rPending,  \* opts.signal.aborted, pendingRemoteAbortReason
    received, hashes,   \* receivedIndices, chunkHashes
    queue, qStage,      \* the frames on processingQueue, what the first awaits
    since,              \* sinceCheckpoint
    lTask, lWait,       \* onLocalAbort: its await, the frames still before it
    aTask,              \* onRemoteAbort: its await
    vTask, vHash,       \* the transfer-complete handler: its await, msg.fileHash
    rEvent,             \* the last event this call emitted
    \* the receiving device
    kind, wst, disk,    \* its writer, the writer's state, what is on disk
    store,              \* the entry of this file in the resume store
    \* the data channel of the current attempt
    s2r, r2s,           \* messages sent and not yet delivered
    sOpen, rOpen,       \* readyState = "open", at each end
    link,               \* the network between the devices works
    \* the user
    attempt

senderVars == <<spc, sIdx, sFrom, sCancel, sRemote, sEvent>>
progressVars == <<received, hashes, since>>
queueVars == <<queue, qStage>>
taskVars == <<lTask, lWait, aTask, vTask, vHash>>
receiverVars == <<rpc, rCancel, rPending, progressVars, queueVars, taskVars, rEvent>>
writerVars == <<wst, disk>>
channelVars == <<s2r, r2s, sOpen, rOpen, link>>
userVars == <<source, attempt, kind>>
vars == <<senderVars, receiverVars, writerVars, store, channelVars, userVars>>

SenderDone == {"idle", "returned", "failed"}
ReceiverDone == {"idle", "returned", "failed", "crashed"}
TerminalEvents == {"complete", "rejected", "cancelled", "error"}

Frame == [i : Chunks, d : Contents]
SenderMessage ==
    [type : {"offer", "abort", "close"}]
        \cup [type : {"frame"}, i : Chunks, d : Contents]
        \cup [type : {"complete"}, h : Contents]
ReceiverMessage ==
    [type : {"reject", "abort", "close"}]
        \cup [type : {"accept"}, from : 0 .. TotalChunks]
        \cup [type : {"verified"}, ok : BOOLEAN]

\* ResumeState; loading an entry without indices is loading none.
ResumeState == [idx : SUBSET Chunks, hash : Image]
NoEntry == [idx |-> {}, hash |-> Blank]

\* resumeFromChunk: the length of the prefix of chunks that is there.
ResumeFromChunk(S) ==
    CHOOSE n \in 0 .. TotalChunks : (\A i \in Chunks : i < n => i \in S) /\ n \notin S

Init ==
    /\ spc = "idle" /\ sIdx = 0 /\ sFrom = 0 /\ sCancel = FALSE /\ sRemote = FALSE
    /\ sEvent = "none" /\ source \in Contents
    /\ rpc = "idle" /\ rCancel = FALSE /\ rPending = FALSE /\ received = {} /\ hashes = Blank
    /\ queue = <<>> /\ qStage = "idle" /\ since = 0
    /\ lTask = "none" /\ lWait = 0 /\ aTask = "none" /\ vTask = "none" /\ vHash = source
    /\ rEvent = "none"
    /\ kind \in WriterKinds /\ wst = "none" /\ disk = EmptyDisk /\ store = NoEntry
    /\ s2r = <<>> /\ r2s = <<>> /\ sOpen = FALSE /\ rOpen = FALSE /\ link = TRUE
    /\ attempt = 0

-----------------------------------------------------------------------------
(* The channel. *)

\* send() while the local end is open: a message for an end that has closed is
\* discarded, one the network does not carry stays in the buffer.
Put(ch, toOpen, m) == IF toOpen \/ ~link THEN Append(ch, m) ELSE ch

\* close() at the sending end: what is buffered is still delivered, then the
\* other end sees the close; what arrives here is discarded.
SenderForgetsClose(out) == s2r' = out /\ UNCHANGED <<r2s, sOpen, rOpen, link>>
SenderCloses(out) ==
    /\ sOpen' = FALSE
    /\ r2s' = <<>>
    /\ s2r' = IF sOpen THEN Put(out, rOpen, [type |-> "close"]) ELSE out
    /\ UNCHANGED <<rOpen, link>>

ReceiverCloses(out) ==
    /\ rOpen' = FALSE
    /\ s2r' = IF link THEN <<>> ELSE s2r
    /\ r2s' = IF rOpen THEN Put(out, sOpen, [type |-> "close"]) ELSE out
    /\ UNCHANGED <<sOpen, link>>

SenderHears(type) == link /\ sOpen /\ r2s # <<>> /\ Head(r2s).type = type
ReceiverHears(type) == link /\ rOpen /\ s2r # <<>> /\ Head(s2r).type = type

-----------------------------------------------------------------------------
(* sendFile *)

SenderActive == spc \notin SenderDone

\* sendFileToPeer's finally closes the channel as soon as sendFile settles.
SenderSettles(pc, event, out) ==
    /\ spc' = pc
    /\ sEvent' = event
    /\ SenderCloses(out)

\* send() on a closed channel throws; nothing catches it.
SenderThrows == SenderSettles("failed", sEvent, s2r)

\* bailIfCancelled with one of its two flags set.
Bail(remote) ==
    IF remote \/ sOpen
    THEN SenderSettles("returned", "cancelled",
                       IF remote THEN s2r ELSE Put(s2r, rOpen, [type |-> "abort"]))
    ELSE SenderThrows

\* The top of the for loop, or the check behind it, for chunk i.
LoopTop(i) ==
    /\ sIdx' = i
    /\ IF sCancel \/ sRemote
       THEN Bail(sRemote)
       ELSE /\ spc' = IF i < TotalChunks THEN "read" ELSE "hash"
            /\ UNCHANGED <<sEvent, channelVars>>

SendFrameOffByOne ==
    IF sCancel \/ sRemote THEN Bail(sRemote) /\ UNCHANGED sIdx
    ELSE IF ~sOpen THEN SenderThrows /\ UNCHANGED sIdx
    ELSE /\ s2r' = Put(s2r, rOpen, [type |-> "frame", i |-> sIdx, d |-> source])
         /\ sEvent' = "progress"
         /\ sIdx' = sIdx + 1
         /\ spc' = IF sIdx + 1 <= TotalChunks THEN "read" ELSE "hash"
         /\ UNCHANGED <<r2s, sOpen, rOpen, link>>

\* The frame of chunk sIdx is sent, and a "progress" event emitted.
SendFrame ==
    IF sCancel \/ sRemote THEN Bail(sRemote) /\ UNCHANGED sIdx
    ELSE IF ~sOpen THEN SenderThrows /\ UNCHANGED sIdx
    ELSE /\ s2r' = Put(s2r, rOpen, [type |-> "frame", i |-> sIdx, d |-> source])
         /\ sEvent' = "progress"
         /\ sIdx' = sIdx + 1
         /\ spc' = IF sIdx + 1 < TotalChunks THEN "read" ELSE "hash"
         /\ UNCHANGED <<r2s, sOpen, rOpen, link>>

\* The receiving call of the previous attempt has ended, or is stuck for good on
\* a channel that is closed.
ReceiverQuiescent ==
    /\ queue = <<>> /\ lTask = "none" /\ aTask = "none" /\ vTask = "none"
    /\ rpc \in ReceiverDone \/ (~rOpen /\ rpc \in {"offer", "loop"})

\* The user sends the file (again), as it is now: a new channel, a new call of
\* sendFile and of receiveFile, and the offer is on its way.
StartTransfer ==
    /\ spc \in SenderDone /\ ReceiverQuiescent /\ attempt < MaxAttempts
    /\ attempt' = attempt + 1
    /\ source' \in Contents
    /\ spc' = "accept" /\ sIdx' = 0 /\ sFrom' = 0 /\ sCancel' = FALSE /\ sRemote' = FALSE
    /\ sEvent' = "none"
    /\ rpc' = "offer" /\ rCancel' = FALSE /\ rPending' = FALSE /\ rEvent' = "none"
    /\ received' = {} /\ hashes' = Blank /\ since' = 0
    /\ s2r' = <<[type |-> "offer"]>> /\ r2s' = <<>>
    /\ sOpen' = TRUE /\ rOpen' = TRUE /\ link' = TRUE
    /\ UNCHANGED <<queueVars, taskVars, writerVars, store, kind>>

SenderGetsAccept ==
    /\ spc = "accept" /\ SenderHears("accept")
    /\ sFrom' = Head(r2s).from
    /\ sIdx' = 0
    /\ spc' = IF TotalChunks = 0 THEN "hash" ELSE "read"
    /\ r2s' = Tail(r2s)
    /\ UNCHANGED <<sCancel, sRemote, sEvent, receiverVars, writerVars, store, s2r, sOpen, rOpen, link, userVars>>

SenderGetsReject ==
    /\ spc = "accept" /\ SenderHears("reject")
    /\ SenderSettles("returned", "rejected", s2r)
    /\ UNCHANGED <<sIdx, sFrom, sCancel, sRemote, receiverVars, writerVars, store, userVars>>

\* transfer-abort ends the two waits for an answer; elsewhere it sets a flag.
SenderGetsAbort ==
    /\ SenderActive /\ SenderHears("abort")
    /\ sRemote' = TRUE
    /\ IF spc \in {"accept", "verify"}
       THEN Bail(TRUE)
       ELSE r2s' = Tail(r2s) /\ UNCHANGED <<spc, sEvent, s2r, sOpen, rOpen, link>>
    /\ UNCHANGED <<sIdx, sFrom, sCancel, receiverVars, writerVars, store, userVars>>

SenderGetsVerified ==
    /\ spc = "verify" /\ SenderHears("verified")
    /\ IF Head(r2s).ok THEN SenderSettles("returned", "complete", s2r)
                       ELSE SenderSettles("failed", "error", s2r)
    /\ UNCHANGED <<sIdx, sFrom, sCancel, sRemote, receiverVars, writerVars, store, userVars>>

\* No onclose handler is installed: the sender goes on as before.
SenderGetsClose ==
    /\ SenderHears("close") \/ (~link /\ sOpen)
    /\ sOpen' = FALSE /\ r2s' = <<>>
    /\ UNCHANGED <<senderVars, receiverVars, writerVars, store, s2r, rOpen, link, userVars>>

\* opts.signal: races with the wait for the accept, and is a flag afterwards.
SenderCancel ==
    /\ SenderActive /\ ~sCancel
    /\ sCancel' = TRUE
    /\ IF spc = "accept" THEN Bail(FALSE) ELSE UNCHANGED <<spc, sEvent, channelVars>>
    /\ UNCHANGED <<sIdx, sFrom, sRemote, receiverVars, writerVars, store, userVars>>

SenderTimeoutOnAcceptOnly ==
    /\ spc = "accept"
    /\ SenderThrows
    /\ UNCHANGED <<sIdx, sFrom, sCancel, sRemote, receiverVars, writerVars, store, userVars>>

SenderTimeoutRejects ==
    /\ spc \in {"accept", "verify"}
    /\ SenderSettles("returned", "rejected", s2r)
    /\ UNCHANGED <<sIdx, sFrom, sCancel, sRemote, receiverVars, writerVars, store, userVars>>

\* waitForControl gives up after 30 seconds; sendFile throws.
SenderTimeout ==
    /\ spc \in {"accept", "verify"}
    /\ SenderThrows
    /\ UNCHANGED <<sIdx, sFrom, sCancel, sRemote, receiverVars, writerVars, store, userVars>>

\* waitForBufferDrain: bufferedAmount is at the high water mark.
BufferNeverHigh == FALSE
BufferHigh == Len(s2r) >= HighWater

\* Chunk sIdx is read and hashed; it is skipped if the receiver has it, waits
\* for the buffer to drain, or is sent.
SenderReadChunk ==
    /\ spc = "read"
    /\ IF sIdx < sFrom THEN LoopTop(sIdx + 1)
       ELSE IF BufferHigh THEN spc' = "drain" /\ UNCHANGED <<sIdx, sEvent, channelVars>>
       ELSE SendFrame
    /\ UNCHANGED <<sFrom, sCancel, sRemote, receiverVars, writerVars, store, userVars>>

\* bufferedamountlow fires, which only an open channel does.
SenderDrained ==
    /\ spc = "drain" /\ sOpen /\ Len(s2r) <= LowWater
    /\ SendFrame
    /\ UNCHANGED <<sFrom, sCancel, sRemote, receiverVars, writerVars, store, userVars>>

\* hashOfHashes is done; the flags are not looked at again.
SenderFinishHash ==
    /\ spc = "hash"
    /\ IF sOpen
       THEN /\ spc' = "verify"
            /\ s2r' = Put(s2r, rOpen, [type |-> "complete", h |-> source])
            /\ UNCHANGED <<sEvent, r2s, sOpen, rOpen, link>>
       ELSE SenderThrows
    /\ UNCHANGED <<sIdx, sFrom, sCancel, sRemote, receiverVars, writerVars, store, userVars>>

\* The file can no longer be read.
SenderReadError ==
    /\ spc = "read"
    /\ SenderThrows
    /\ UNCHANGED <<sIdx, sFrom, sCancel, sRemote, receiverVars, writerVars, store, userVars>>
-----------------------------------------------------------------------------
(* receiveFile *)

Settled == rpc \in ReceiverDone

\* receiveFile returns or throws, and listenForNextIncomingTransfer's finally
\* closes the channel.
ReceiverSettles(pc, event, out) ==
    /\ rpc' = pc
    /\ rEvent' = event
    /\ ReceiverCloses(out)

FinishAlways(pc, event, out) == ReceiverSettles(pc, event, out)

\* finish(): only the first call has an effect.
Finish(pc, event, out) ==
    IF Settled THEN UNCHANGED <<rpc, rEvent, channelVars>>
               ELSE ReceiverSettles(pc, event, out)

ReceiverGetsOffer ==
    /\ rpc = "offer" /\ ReceiverHears("offer")
    /\ rpc' = "confirm"
    /\ s2r' = Tail(s2r)
    /\ UNCHANGED <<senderVars, rCancel, rPending, progressVars, queueVars, taskVars, rEvent, writerVars, store, r2s, sOpen, rOpen, link, userVars>>

\* onRemoteAbort: a flag at first, then the handler that winds the transfer up.
ReceiverGetsAbort ==
    /\ rpc \in {"confirm", "open", "loop"} /\ ReceiverHears("abort")
    /\ s2r' = Tail(s2r)
    /\ IF rpc = "loop" THEN aTask' = "wait" /\ UNCHANGED rPending
                       ELSE rPending' = TRUE /\ UNCHANGED aTask
    /\ UNCHANGED <<senderVars, rpc, rCancel, progressVars, queueVars, lTask, lWait, vTask, vHash, rEvent, writerVars, store, r2s, sOpen, rOpen, link, userVars>>

\* The human answers, and has picked where to save the file.  An entry of the
\* resume store older than its TTL is deleted when it is loaded.
ReceiverDecide ==
    /\ rpc = "confirm"
    /\ \E accepted, expired \in BOOLEAN :
          IF rPending THEN ReceiverSettles("returned", "cancelled", r2s) /\ UNCHANGED <<progressVars, store>>
          ELSE IF ~accepted
          THEN /\ IF rOpen THEN ReceiverSettles("returned", rEvent, Put(r2s, sOpen, [type |-> "reject"]))
                           ELSE ReceiverSettles("failed", rEvent, r2s)
               /\ UNCHANGED <<progressVars, store>>
          ELSE /\ store' = IF expired THEN NoEntry ELSE store
               /\ received' = store'.idx /\ hashes' = store'.hash
               /\ rpc' = "open"
               /\ UNCHANGED <<since, rEvent, channelVars>>
    /\ UNCHANGED <<senderVars, rCancel, rPending, queueVars, taskVars, writerVars, userVars>>

\* writer.open() returned: accept, unless the sender has given up meanwhile, and
\* set the handlers up.  A signal aborted earlier is acted on here.
ReceiverOpened ==
    /\ rpc = "open"
    /\ IF rPending
       THEN /\ disk' = Aborted(kind, "open", Opened(kind, disk)) /\ wst' = "closed"
            /\ ReceiverSettles("returned", "cancelled", r2s)
            /\ UNCHANGED <<since, lTask, lWait>>
       ELSE /\ disk' = Opened(kind, disk) /\ wst' = "open"
            /\ IF ~rOpen THEN ReceiverSettles("failed", rEvent, r2s) /\ UNCHANGED <<since, lTask, lWait>>
               ELSE LET accepted == Put(r2s, sOpen, [type |-> "accept", from |-> ResumeFromChunk(received)])
                    IN /\ rpc' = "loop" /\ since' = 0
                       /\ lTask' = IF rCancel THEN "wait" ELSE "none"
                       /\ lWait' = 0
                       /\ r2s' = IF rCancel THEN Put(accepted, sOpen, [type |-> "abort"]) ELSE accepted
                       /\ UNCHANGED <<rEvent, s2r, sOpen, rOpen, link>>
    /\ UNCHANGED <<senderVars, rCancel, rPending, received, hashes, queueVars, aTask, vTask, vHash, store, userVars>>

\* writer.open() throws.
ReceiverOpenFails ==
    /\ rpc = "open"
    /\ wst' = "closed" /\ UNCHANGED disk
    /\ ReceiverSettles("failed", rEvent, r2s)
    /\ UNCHANGED <<senderVars, rCancel, rPending, progressVars, queueVars, taskVars, store, userVars>>

\* onBinary: the frame is chained onto processingQueue.
ReceiverGetsFrame ==
    /\ rpc = "loop" /\ ReceiverHears("frame")
    /\ queue' = Append(queue, [i |-> Head(s2r).i, d |-> Head(s2r).d])
    /\ s2r' = Tail(s2r)
    /\ UNCHANGED <<senderVars, rpc, rCancel, rPending, progressVars, qStage, taskVars, rEvent, writerVars, store, r2s, sOpen, rOpen, link, userVars>>

PopFrameOnly ==
    queue' = Tail(queue) /\ qStage' = "idle" /\ UNCHANGED lWait

\* The first frame of the queue is dealt with.
PopFrame ==
    /\ queue' = Tail(queue)
    /\ lWait' = IF lWait > 0 THEN lWait - 1 ELSE 0
    /\ qStage' = "idle"

\* A frame is skipped once the transfer is settled, and if its chunk is known.
SkipFrame ==
    /\ queue # <<>> /\ qStage = "idle"
    /\ Settled \/ Head(queue).i \in received
    /\ PopFrame
    /\ UNCHANGED <<senderVars, rpc, rCancel, rPending, progressVars, lTask, aTask, vTask, vHash, rEvent, writerVars, store, channelVars, userVars>>

FrameIsDue ==
    queue # <<>> /\ qStage = "idle" /\ ~Settled /\ Head(queue).i \notin received

StartWrite ==
    /\ FrameIsDue /\ AcceptsWrites(kind, wst)
    /\ disk' = Wrote(kind, disk, Head(queue).i, Head(queue).d)
    /\ qStage' = "write"
    /\ UNCHANGED <<senderVars, rpc, rCancel, rPending, progressVars, queue, taskVars, rEvent, wst, store, channelVars, userVars>>

FrameWritten ==
    /\ qStage = "write"
    /\ qStage' = "hash"
    /\ UNCHANGED <<senderVars, rpc, rCancel, rPending, progressVars, queue, taskVars, rEvent, writerVars, store, channelVars, userVars>>

\* writeChunk rejects: at once if the writer takes no more, or when the write
\* fails.  The chain is broken, and receiveFile throws without an event.
WriteFails ==
    /\ \/ FrameIsDue /\ ~AcceptsWrites(kind, wst) /\ UNCHANGED disk
       \/ qStage = "write" /\ disk' = Wrote(kind, disk, Head(queue).i, NoData)
    /\ PopFrame
    /\ Finish("failed", rEvent, r2s)
    /\ UNCHANGED <<senderVars, rCancel, rPending, progressVars, lTask, aTask, vTask, vHash, wst, store, userVars>>

CheckpointAhead(idx, hash) ==
    store' = [idx |-> idx \cup {queue[n].i : n \in DOMAIN queue}, hash |-> hash]

\* saveCheckpoint
Checkpoint(idx, hash) == store' = [idx |-> idx, hash |-> hash]

\* hashChunk is done: the hash is kept, and unless the transfer has been settled
\* meanwhile the chunk counts as received.
FrameHashed ==
    /\ qStage = "hash"
    /\ hashes' = [hashes EXCEPT ![Head(queue).i] = Head(queue).d]
    /\ PopFrame
    /\ IF Settled THEN UNCHANGED <<received, since, rEvent, store>>
       ELSE /\ received' = received \cup {Head(queue).i}
            /\ rEvent' = "progress"
            /\ since' = IF since + 1 >= CheckpointEvery THEN 0 ELSE since + 1
            /\ IF since + 1 >= CheckpointEvery THEN Checkpoint(received', hashes') ELSE UNCHANGED store
    /\ UNCHANGED <<senderVars, rpc, rCancel, rPending, lTask, aTask, vTask, vHash, writerVars, channelVars, userVars>>

\* opts.signal is aborted: a flag before the loop; in it, onLocalAbort tells the
\* sender first, which throws in the listener if the channel is closed.
ReceiverCancel ==
    /\ rpc \in {"confirm", "open", "loop"} /\ ~rCancel
    /\ rCancel' = TRUE
    /\ IF rpc = "loop" /\ rOpen
       THEN /\ r2s' = Put(r2s, sOpen, [type |-> "abort"])
            /\ lTask' = "wait" /\ lWait' = Len(queue)
       ELSE UNCHANGED <<r2s, lTask, lWait>>
    /\ UNCHANGED <<senderVars, rpc, rPending, progressVars, queueVars, aTask, vTask, vHash, rEvent, writerVars, store, s2r, sOpen, rOpen, link, userVars>>

\* writer.abort() is called, and returns.
StartAbort ==
    /\ disk' = Aborted(kind, wst, disk)
    /\ wst' = IF wst = "open" THEN "aborting" ELSE wst
EndAbort == wst' = (IF wst = "aborting" THEN "closed" ELSE wst) /\ UNCHANGED disk

LocalAbortStart ==
    /\ lTask = "wait" /\ lWait = 0
    /\ lTask' = "abort"
    /\ StartAbort
    /\ UNCHANGED <<senderVars, rpc, rCancel, rPending, progressVars, queueVars, lWait, aTask, vTask, vHash, rEvent, store, channelVars, userVars>>

LocalAbortDone ==
    /\ lTask = "abort"
    /\ lTask' = "none"
    /\ EndAbort
    /\ Finish("returned", "cancelled", r2s)
    /\ UNCHANGED <<senderVars, rCancel, rPending, progressVars, queueVars, lWait, aTask, vTask, vHash, store, userVars>>

\* processingQueue has settled.  The sender sends no frame after an abort or a
\* completion, so for their handlers its tail is the end of the queue.
NoWait == TRUE
ProcessingQueueSettled == queue = <<>>

RemoteAbortStart ==
    /\ aTask = "wait" /\ ProcessingQueueSettled
    /\ aTask' = "abort"
    /\ StartAbort
    /\ UNCHANGED <<senderVars, rpc, rCancel, rPending, progressVars, queueVars, lTask, lWait, vTask, vHash, rEvent, store, channelVars, userVars>>

RemoteAbortDone ==
    /\ aTask = "abort"
    /\ aTask' = "none"
    /\ EndAbort
    /\ Checkpoint(received, hashes)
    /\ Finish("returned", "cancelled", r2s)
    /\ UNCHANGED <<senderVars, rCancel, rPending, progressVars, queueVars, lTask, lWait, vTask, vHash, userVars>>

ReceiverGetsComplete ==
    /\ rpc = "loop" /\ ReceiverHears("complete")
    /\ vTask' = "wait" /\ vHash' = Head(s2r).h
    /\ s2r' = Tail(s2r)
    /\ UNCHANGED <<senderVars, rpc, rCancel, rPending, progressVars, queueVars, lTask, lWait, aTask, rEvent, writerVars, store, r2s, sOpen, rOpen, link, userVars>>

\* finalFileHash throws if a chunk has no hash.
VerifyStart ==
    /\ vTask = "wait" /\ ProcessingQueueSettled
    /\ IF Settled \/ \E i \in Chunks : hashes[i] = NoData
       THEN vTask' = "none" /\ Finish("failed", rEvent, r2s)
       ELSE vTask' = "digest" /\ UNCHANGED <<rpc, rEvent, channelVars>>
    /\ UNCHANGED <<senderVars, rCancel, rPending, progressVars, queueVars, lTask, lWait, aTask, vHash, writerVars, store, userVars>>

HashesPresent == \A i \in Chunks : hashes[i] # NoData
HashesMatch == \A i \in Chunks : hashes[i] = vHash

\* The digest is there: the sender is told the verdict before the file is
\* finalized or the partial one dropped.
VerifyDigest ==
    /\ vTask = "digest"
    /\ LET told == Put(r2s, sOpen, [type |-> "verified", ok |-> HashesMatch])
           refused == HashesMatch /\ kind \in {"fsa", "tauri"} /\ wst = "aborting"
       IN IF ~rOpen THEN vTask' = "none" /\ Finish("failed", rEvent, r2s) /\ UNCHANGED writerVars
          ELSE IF refused THEN vTask' = "none" /\ Finish("failed", rEvent, told) /\ UNCHANGED writerVars
          ELSE /\ r2s' = told
               /\ IF HashesMatch
                  THEN /\ vTask' = "finalize"
                       /\ wst' = (IF wst = "open" THEN "closing" ELSE wst) /\ UNCHANGED disk
                  ELSE vTask' = "mismatch" /\ StartAbort
               /\ UNCHANGED <<rpc, rEvent, s2r, sOpen, rOpen, link>>
    /\ UNCHANGED <<senderVars, rCancel, rPending, progressVars, queueVars, lTask, lWait, aTask, vHash, store, userVars>>

VerifyFinalized ==
    /\ vTask = "finalize" /\ CanFinalize(kind, wst, disk)
    /\ vTask' = "none"
    /\ disk' = Finalized(kind, wst, disk)
    /\ wst' = IF wst = "closing" THEN "closed" ELSE wst
    /\ store' = NoEntry
    /\ Finish("returned", "complete", r2s)
    /\ UNCHANGED <<senderVars, rCancel, rPending, progressVars, queueVars, lTask, lWait, aTask, vHash, userVars>>

\* The disk is full, a row is missing, the page may not download.
FinalizeFails ==
    /\ vTask = "finalize"
    /\ vTask' = "none"
    /\ wst' = "closed" /\ UNCHANGED disk
    /\ Finish("failed", rEvent, r2s)
    /\ UNCHANGED <<senderVars, rCancel, rPending, progressVars, queueVars, lTask, lWait, aTask, vHash, store, userVars>>

VerifyMismatchDone ==
    /\ vTask = "mismatch"
    /\ vTask' = "none"
    /\ EndAbort
    /\ Finish("failed", "error", r2s)
    /\ UNCHANGED <<senderVars, rCancel, rPending, progressVars, queueVars, lTask, lWait, aTask, vHash, store, userVars>>

ReceiverGetsClose ==
    /\ ReceiverHears("close") \/ (~link /\ rOpen)
    /\ rOpen' = FALSE
    /\ s2r' = IF link THEN <<>> ELSE s2r
    /\ UNCHANGED <<senderVars, receiverVars, writerVars, store, r2s, sOpen, link, userVars>>

-----------------------------------------------------------------------------
(* The environment. *)

\* The network between the devices is gone; each end notices in its own time.
LinkFails ==
    /\ link /\ (sOpen \/ rOpen)
    /\ link' = FALSE
    /\ UNCHANGED <<senderVars, receiverVars, writerVars, store, s2r, r2s, sOpen, rOpen, userVars>>

\* The receiving page or app dies; what receiveFile knew is gone with it.
ReceiverCrash ==
    /\ rpc \notin {"idle", "crashed"}
    /\ rpc' = "crashed"
    /\ queue' = <<>> /\ qStage' = "idle"
    /\ lTask' = "none" /\ lWait' = 0 /\ aTask' = "none" /\ vTask' = "none"
    /\ disk' = Restarted(kind, disk) /\ wst' = "none"
    /\ link' = FALSE /\ rOpen' = FALSE
    /\ UNCHANGED <<senderVars, rCancel, rPending, progressVars, vHash, rEvent, store, s2r, r2s, sOpen, userVars>>

-----------------------------------------------------------------------------
SenderStep ==
    \/ SenderGetsAccept \/ SenderGetsReject \/ SenderGetsAbort \/ SenderGetsVerified
    \/ SenderGetsClose \/ SenderTimeout \/ SenderReadChunk \/ SenderDrained \/ SenderFinishHash

ReceiverStep ==
    \/ ReceiverGetsOffer \/ ReceiverGetsAbort \/ ReceiverOpened \/ ReceiverGetsFrame
    \/ SkipFrame \/ StartWrite \/ FrameWritten \/ WriteFails \/ FrameHashed
    \/ LocalAbortStart \/ LocalAbortDone \/ RemoteAbortStart \/ RemoteAbortDone
    \/ ReceiverGetsComplete \/ VerifyStart \/ VerifyDigest \/ VerifyFinalized
    \/ FinalizeFails \/ VerifyMismatchDone \/ ReceiverGetsClose

UserStep == StartTransfer \/ SenderCancel \/ ReceiverDecide \/ ReceiverCancel

Fault == SenderReadError \/ ReceiverOpenFails \/ LinkFails \/ ReceiverCrash

Next == SenderStep \/ ReceiverStep \/ UserStep \/ Fault

Spec == Init /\ [][Next]_vars

(***************************************************************************)
(* The event loop of either device runs what is ready, the network in the  *)
(* end delivers or is noticed to be down, timers fire and the disk         *)
(* answers.  Nobody promises that a human answers or cancels.              *)
(***************************************************************************)
FairSpec == Spec /\ WF_vars(SenderStep) /\ WF_vars(ReceiverStep)
-----------------------------------------------------------------------------
(* Properties. *)

SenderTypeOK ==
    /\ spc \in {"idle", "accept", "read", "drain", "hash", "verify", "returned", "failed"}
    /\ sIdx \in 0 .. TotalChunks /\ sFrom \in 0 .. TotalChunks
    /\ spc \in {"read", "drain"} => sIdx < TotalChunks
    /\ sCancel \in BOOLEAN /\ sRemote \in BOOLEAN
    /\ sEvent \in {"none", "progress"} \cup TerminalEvents

ReceiverTypeOK ==
    /\ rpc \in {"idle", "offer", "confirm", "open", "loop", "returned", "failed", "crashed"}
    /\ rCancel \in BOOLEAN /\ rPending \in BOOLEAN
    /\ rEvent \in {"none", "progress"} \cup TerminalEvents
    /\ received \in SUBSET Chunks /\ hashes \in Image /\ since \in Nat

QueueTypeOK ==
    /\ queue \in Seq(Frame) /\ qStage \in {"idle", "write", "hash"}
    /\ qStage # "idle" => queue # <<>>

TaskTypeOK ==
    /\ lTask \in {"none", "wait", "abort"} /\ lWait \in Nat /\ aTask \in {"none", "wait", "abort"}
    /\ vTask \in {"none", "wait", "digest", "finalize", "mismatch"} /\ vHash \in Contents

WriterTypeOK == wst \in WriterStates /\ disk \in Disk /\ store \in ResumeState

ChannelTypeOK ==
    /\ s2r \in Seq(SenderMessage) /\ r2s \in Seq(ReceiverMessage)
    /\ sOpen \in BOOLEAN /\ rOpen \in BOOLEAN /\ link \in BOOLEAN

UserTypeOK == source \in Contents /\ attempt \in Nat /\ kind \in WriterKinds

TypeOK ==
    /\ SenderTypeOK /\ ReceiverTypeOK /\ QueueTypeOK /\ TaskTypeOK
    /\ WriterTypeOK /\ ChannelTypeOK /\ UserTypeOK

\* sendFile emits "complete" only if the receiver holds the hash of every chunk
\* of the file as the sender read it in this attempt (transferSession.ts 85-90),
\* however many earlier attempts, with whatever contents, it resumed from.
CompleteMeansVerified ==
    sEvent = "complete" => \A i \in Chunks : hashes[i] = source

\* When the final hash is computed no chunk is missing: neither the resume offset
\* nor a skipped frame nor a control message overtaking the processing queue
\* leaves a gap (the race the comment at transferSession.ts 261-265 is about).
VerificationSeesAll ==
    [][(vTask = "wait" /\ vTask' # "wait" /\ ~Settled /\ rpc' # "crashed")
            => vTask' = "digest" /\ received = Chunks]_vars

\* Once receiveFile has emitted a terminal event it emits no other: a frame still
\* in the queue does not put the row back to "in-progress", and of a completion,
\* a cancel from here and one from there only the first is reported.
TerminalEventIsFinal ==
    [][(attempt' = attempt /\ rEvent \in TerminalEvents) => rEvent' = rEvent]_vars

\* A transfer reported complete by receiveFile has put exactly the sender's bytes
\* where the user finds them.
DeliveredIntact ==
    rEvent = "complete" => disk.file = [i \in Chunks |-> source]

\* With a writer that writes in place every index of the resume entry is that of a
\* chunk "durably written" (types.ts 52), with the bytes its saved hash is the hash
\* of, at every moment at which the app may die: otherwise a resumed transfer
\* passes verification and delivers a file with holes.
CheckpointDurable ==
    kind = "tauri" =>
        \A i \in store.idx : disk.file[i] = store.hash[i] /\ disk.file[i] # NoData

\* Backpressure: the frames waiting in the channel never exceed the high water mark.
BufferBounded ==
    Cardinality({n \in DOMAIN s2r : s2r[n].type = "frame"}) <= HighWater

\* Every call of sendFile ends, except one that waits for the buffer of a channel
\* that has died to drain.
SenderEnds == SenderActive ~> ~SenderActive \/ (spc = "drain" /\ ~sOpen)

\* A cancel of a send ends it.
CancelEndsSend == (SenderActive /\ sCancel) ~> ~SenderActive

\* An accepted transfer ends at the receiver, unless its channel closes: nothing
\* tells receiveFile about that.
ReceiverEnds == rpc = "loop" ~> Settled \/ ~rOpen

\* A cancel the receiver has begun to act on, its own or the sender's, ends the
\* transfer even if the channel dies meanwhile.
CancelEnds == (lTask # "none" \/ aTask # "none") ~> Settled

-----------------------------------------------------------------------------
(* What a transfer promises its two users (Transfer), and how the states of *)
(* the two functions show what they have been told.                        *)

SenderOutcome ==
    IF SenderActive THEN "running"
    ELSE IF spc = "returned" THEN sEvent
    ELSE IF spc = "failed" THEN "failed" ELSE "idle"

\* receiveFile returns without an event when the human has declined the file.
ReceiverOutcome ==
    IF ~Settled THEN "running"
    ELSE IF rpc = "returned" THEN IF rEvent \in TerminalEvents THEN rEvent ELSE "declined"
    ELSE IF rpc = "failed" THEN "failed" ELSE rpc

Promise == INSTANCE Transfer WITH
    sender <- SenderOutcome,
    receiver <- ReceiverOutcome,
    cancelled <- sCancel \/ rCancel,
    verified <- \A i \in Chunks : hashes[i] = source

\* sendFile and receiveFile tell their users only what is true: "complete" of a file
\* whose every hash matches, "rejected" of one the other human declined, and
\* "cancelled" of one a human cancelled, never of one that a fault or a timeout
\* ended; and whoever has been told once is not told otherwise.
KeepsPromise == Promise!Spec
=============================================================================
