SPECIFICATION Spec
CONSTANTS
    p1 = p1
    p2 = p2
    Peer <- MCPeer
    Quorum = 3
    LastEpoch = 3
    MaxFaults = 1
INVARIANTS
    ClosedKept
    

    
CHECK_DEADLOCK FALSE
