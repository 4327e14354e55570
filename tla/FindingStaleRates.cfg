\* The cron entry of the rates over a month in which no refresh fails.
SPECIFICATION PriceSpec
CONSTANTS
    RateScale = 100
    RawRates = {700}
    MarkupBPS = 200
    Amounts = {350}
    Quantities = {1}
    Tiers <- TwoTiers
    Weights = {10}
    MaxAge = 2
    PriceMaxFaults = 0
INVARIANTS
    RatesAreDaily
CHECK_DEADLOCK FALSE
