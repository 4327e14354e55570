\* Two orders compete for stock while one refund request is in flight; or a customer
\* fills and orders a cart twice at once while the editor changes the SKUs; or
\* wrong codes, backup codes and enrolments race.
SPECIFICATION StorefrontSpec
CONSTANTS
    s1 = s1
    s2 = s2
    Orders = {o1, o2}
    Skus = {s1, s2}
    Baskets <- MCBaskets
    InitStock <- MCStock
    Events = {e1}
    Refunders = {r1}
    Mode = "live"
    MaxFaults = 1
    Customers = {b1}
    Wares = {w1, w2}
    ShopCalls = {k1, k2}
    MaxQty = 1
    Levels = {1}
    Purchases = {p1}
    MaxAdded = 1
    ShopMaxFaults = 1
    TfaUsers = {a1}
    SuperAdmins = {a1}
    TfaCalls = {k1, k2}
    Secrets = {t1, t2}
    NoSecret = NoSecret
    NumCodes = 1
    MaxBatches = 1
    MaxFailures = 1
    MaxGuesses = 2
    TfaMaxFaults = 1
SYMMETRY StorefrontSymmetry
INVARIANTS
    StockConserved
    PaidIsCaptured
    StockAccounted
    BoughtWasAdded
    BackupCodeOnce
    GuessesAreBounded
PROPERTIES
    ImplementsLifecycle
CHECK_DEADLOCK FALSE
