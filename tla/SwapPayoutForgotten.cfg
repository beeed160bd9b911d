SPECIFICATION Spec
CONSTANTS
    Orders = {t1}
    TokenOrders = {t1}
    Deliveries = {d1}
    MaxBatch = 1
    MaxCrashes = 0
    MaxEdits = 0
    DbFaults = TRUE
    SwapTypeOf <- MCSwapTypeOf
CHECK_DEADLOCK FALSE
INVARIANTS
    PayoutAlwaysFollows
