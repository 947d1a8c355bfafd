SPECIFICATION Spec
CONSTANTS
    Key = {k1, k2}
    Value = {v1, v2}
    None = None
    Empty = Empty
    MaxLog = 4
    MaxLogGet = 3
SYMMETRY Symmetry
INVARIANTS
    ReadsLatest
    CommittedPrefix
    ReadLinearizable
    
