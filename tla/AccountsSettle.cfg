\* Mock checkout; sign-up to erasure; refreshes under a checkout or a quote.
SPECIFICATION SettleSpec
CONSTANTS
    s1 = s1
    s2 = s2
    Orders = {o1, o2}
    Skus = {s1}
    Baskets <- OneUnitBaskets
    InitStock <- OneUnit
    Events = {e1}
    Refunders = {r1}
    Mode = "mock"
    MaxFaults = 0
    AccUsers = {v1}
    AccCalls = {k1, k2}
    Links = {l1, l2}
    NoLink = NoLink
    MaxSends = 1
    MaxTries = 3
    MaxAccessTokenTTL = 2
    AccMaxFaults = 1
    RateScale = 100
    RawRates = {700, 724}
    MarkupBPS = 200
    Amounts = {1, 69301, 70001}
    Quantities = {3}
    Tiers <- TwoTiers
    Weights = {10, 11, 31}
    MaxAge = 1
    PriceMaxFaults = 1
INVARIANTS
    ActivatedOnce
    SendsAreBounded
    ErasedIsLockedOut
    PricesAreLeast
    BillHolds
PROPERTIES
    MockCheckoutSettles
    ThrottleLifts
CHECK_DEADLOCK FALSE
