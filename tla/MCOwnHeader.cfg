SPECIFICATION Spec
CONSTANTS
    d1 = d1
    q1 = q1
    q2 = q2
    Digest <- MCDigest
    Signers <- MCSigners
    GcDepth = 2
    Grace = 1
    MaxBatches = 1
    MaxRound = 4
    MaxUnflushed = 1
    MaxQueue = 1
    MaxLead = 1
    MaxStops = 1
    Lossy = TRUE
SYMMETRY Symmetry
CHECK_DEADLOCK FALSE
CONSTRAINT Bound
INVARIANTS
    OnceUnlessLost
    DigestsKept
PROPERTIES
    RequeuedForGood
