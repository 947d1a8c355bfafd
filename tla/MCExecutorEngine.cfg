SPECIFICATION Spec
CONSTANTS
    Authority = {1, 2}
    Batch <- MCBatch
    NoBatch = NoBatch
    Payload <- MCPayload
    Forks <- MCForks
    MaxParked = 1
    MaxRetries = 1
    Threshold = 1
    MaxQueued = 1
    MaxUnflushed = 1
    MaxOutputs = 3
    MaxEpoch = 1
    MaxStops = 2
INVARIANTS
    Deterministic
    NothingLost
    EveryOutputSealed
CHECK_DEADLOCK FALSE
