CONSTANTS
    Author = {a1}
    Round = {1, 2}
    Digest = {d1, d2}
    Task = {t1, t2, t3}
    None = None
    MaxQueue = 2
SYMMETRY Symmetry
CONSTRAINT QueueBound
SPECIFICATION Spec
INVARIANTS
    VoteOnce
    NoOrphanInFlight
PROPERTIES
    LedgerSpec
