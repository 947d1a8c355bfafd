CONSTANTS
    Authority = {a1, a2, a3, b1}
    Faulty = {b1}
    Round = {1}
    Digest = {d1, d2}
    Genesis = g
    Proposer = {a1, a2, b1}
SYMMETRY Symmetry
CONSTRAINT Small
CHECK_DEADLOCK FALSE
SPECIFICATION Spec
INVARIANTS
    NoEquivocation
PROPERTIES
    DagSpec
    
