\* A file resumed after an abort passes verification with a hole in it.
SPECIFICATION Spec
CONSTANTS
    v1 = v1
    v2 = v2
    NoData = NoData
    Contents = {v1}
    TotalChunks = 2
    WriterKinds = {"fsa"}
    CheckpointEvery = 1
    HighWater = 2
    LowWater = 1
    MaxAttempts = 2
INVARIANT DeliveredIntact
CHECK_DEADLOCK FALSE
