\* Two PayDeposit calls for one quote, both paid.
SPECIFICATION Spec
CONSTANTS
    Requests = {q1}
    Intents = {i1, i2}
    Prices = {x1}
    Planners = {p1}
    Refunders = {a1}
    MaxFaults = 0
SYMMETRY Symmetry
INVARIANTS
    RefundReturnsAll
CHECK_DEADLOCK FALSE
