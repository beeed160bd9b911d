SPECIFICATION MCSpec
CONSTANTS
    Orders = {t1}
    TokenOrders = {t1}
    Deliveries = {d1, d2}
    MaxBatch = 2
    MaxCrashes = 1
    MaxEdits = 1
    DbFaults = TRUE
    SwapTypeOf <- MCSwapTypeOf
CHECK_DEADLOCK FALSE
INVARIANTS
    TypeOK
    CompletedWasExecuted
    PayoutsAreCovered
    PaidAtMostOnce
    PayoutFollows
PROPERTIES
    ImplementsSettlement
