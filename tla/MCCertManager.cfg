SPECIFICATION FairSpec
CONSTANTS
  a1 = a1
  a2 = a2
  Authority = {a1, a2}
  Cert <- MCCert
  Par <- MCPar
  GcDepth = 2
  CommitRound = {2, 4}
  MaxFaults = 1
CHECK_DEADLOCK FALSE
INVARIANTS
    CausalStore
    NoLostWakeup
    DemotedOnlyForHoles
    ProposerFed

    
