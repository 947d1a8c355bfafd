CONSTANTS
    a1 = a1
    a2 = a2
    a3 = a3
    a4 = a4
    Authority = {a1, a2, a3, a4}
    Order <- MCOrder
    BadPercent = 33
    GcDepth = 3
    PerSchedule = 4
    Scenarios = {"start", "crash", "schedule", "scores"}
CHECK_DEADLOCK FALSE
SPECIFICATION Spec
INVARIANTS
    
    
    NothingLeft
    
    SwapsBadForBetter
