\* One attempt: everything that was begun ends.
SPECIFICATION FairSpec
CONSTANTS
    v1 = v1
    v2 = v2
    NoData = NoData
    Contents = {v1}
    TotalChunks = 3
    WriterKinds = {"fsa", "idb", "tauri"}
    CheckpointEvery = 2
    HighWater = 2
    LowWater = 1
    MaxAttempts = 1
INVARIANTS DeliveredIntact BufferBounded
PROPERTIES SenderEnds ReceiverEnds CancelEnds
CHECK_DEADLOCK FALSE
