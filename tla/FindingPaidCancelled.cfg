\* The customer cancels, then the success event is finalized.
SPECIFICATION Spec
CONSTANTS
    s1 = s1
    s2 = s2
    Orders = {o1}
    Skus = {s1}
    Baskets <- OneUnitBaskets
    InitStock <- OneUnit
    Events = {e1}
    Refunders = {r1}
    Mode = "live"
    MaxFaults = 0
INVARIANTS
    FinalizedIsPaid
CHECK_DEADLOCK FALSE
