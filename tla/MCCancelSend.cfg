\* A cancel of a sender blocked on backpressure.
SPECIFICATION FairSpec
CONSTANTS
    v1 = v1
    v2 = v2
    NoData = NoData
    Contents = {v1}
    TotalChunks = 3
    WriterKinds = {"tauri"}
    CheckpointEvery = 1
    HighWater = 2
    LowWater = 1
    MaxAttempts = 1
PROPERTY CancelEndsSend
CHECK_DEADLOCK FALSE
