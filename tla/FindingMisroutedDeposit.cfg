\* One order and one quote, both of number 1, and one payment.
SPECIFICATION RouteSpec
CONSTANTS
    Numbers = {1}
    Refs = {m1}
INVARIANTS
    PaidForItself
CHECK_DEADLOCK FALSE
