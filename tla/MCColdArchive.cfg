SPECIFICATION Spec
CONSTANTS
    Chain <- MCChain
    MaxFaults = 3
INVARIANTS
    Served
    MarkedIsArchived
PROPERTIES
    EventuallyArchived
