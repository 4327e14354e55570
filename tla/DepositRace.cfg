\* Two intents, two planners quoting, one refund in flight and one fault.
SPECIFICATION FairSpec
CONSTANTS
    Requests = {q1}
    Intents = {i1, i2}
    Prices = {x1}
    Planners = {p1, p2}
    Refunders = {a1}
    MaxFaults = 1
INVARIANTS
    QuotedHasQuote
    PaidQuoteIsBacked
    CancelledQuoteIsReturned
PROPERTIES
    ImplementsLifecycle
    DepositIsNoticed
CHECK_DEADLOCK FALSE
