CONSTANTS
    a1 = a1
    a2 = a2
    a3 = a3
    a4 = a4
    d = d
    Authority = {a1, a2, a3, a4}
    Round = {5}
    Digest = {d}
    Genesis = g
    Node = {n1, n2}
    LeaderOf <- MCLeaderOf
    BodyOf <- MCBodyOf
CONSTRAINT Small
CHECK_DEADLOCK FALSE
SPECIFICATION MCSpec
INVARIANTS
    SupportedIsLinked
    CommitAgreement
