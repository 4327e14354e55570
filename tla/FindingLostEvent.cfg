\* One crash or failed enqueue after the event row is committed.
SPECIFICATION FairSpec
CONSTANTS
    s1 = s1
    s2 = s2
    Orders = {o1}
    Skus = {s1}
    Baskets <- OneUnitBaskets
    InitStock <- OneUnit
    Events = {e1}
    Refunders = {r1}
    Mode = "live"
    MaxFaults = 1
PROPERTIES
    EventIsNotLost
CHECK_DEADLOCK FALSE
