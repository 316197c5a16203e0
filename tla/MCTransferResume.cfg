\* Two attempts at a file of three chunks whose contents may change in between.
SPECIFICATION Spec
CONSTANTS
    v1 = v1
    v2 = v2
    NoData = NoData
    Contents = {v1, v2}
    TotalChunks = 3
    WriterKinds = {"tauri", "idb"}
    CheckpointEvery = 1
    HighWater = 2
    LowWater = 1
    MaxAttempts = 2
SYMMETRY VersionSymmetry
INVARIANTS TypeOK CompleteMeansVerified DeliveredIntact CheckpointDurable
PROPERTIES VerificationSeesAll TerminalEventIsFinal KeepsPromise
CHECK_DEADLOCK FALSE
