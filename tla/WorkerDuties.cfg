\* Captured money is noticed without faults, deliveries end even with them (refunds
\* start from paid orders and play no part); or jobs alert the staff or print a
\* certificate, with one fault; or orders and deposits are paid at both gateways.
SPECIFICATION WorkerSpec
CONSTANTS
    s1 = s1
    s2 = s2
    Orders = {o1}
    Skus = {s1}
    Baskets <- OneUnitBaskets
    InitStock <- OneUnit
    Events = {e1, e2}
    Refunders = {}
    Mode = "live"
    MaxFaults = 2
    Tickets = {t1}
    Goods = {g1}
    Planners = {p1, p2}
    Operators = {o1}
    Clerks = {w1, w2}
    Threshold = 1
    MaxLevel = 2
    MaxQueued = 1
    AlertMaxFaults = 1
    Certs = {d1}
    Quotes = {d2}
    Presses = {w1, w2}
    MaxVersions = 2
    DocMaxFaults = 1
    Numbers = {1, 2}
    Refs = {m1, m2}
INVARIANTS
    AlertedOnce
    PaidByEvent
PROPERTIES
    CaptureIsNoticed
    LateIsNoticed
    LowStockIsNoticed
    AskedIsPrinted
    ClearIsSettled
CHECK_DEADLOCK FALSE
