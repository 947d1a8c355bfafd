SPECIFICATION Spec
CONSTANTS
    t1 = t1
    t2 = t2
    p1 = p1
    p2 = p2
    p3 = p3
    Tx <- MCTx
    Before <- MCBefore
    Peer <- MCPeer
    Stake <- MCStake
    OwnStake = 1
    Threshold = 3
    BatchCap = 1
    MaxSealAhead = 2
    FirstSeq = 1
    MaxSeq = 3
    MaxBuilders = 2
    MaxFaults = 1

    
PROPERTIES
    EventuallyMined
CHECK_DEADLOCK FALSE
