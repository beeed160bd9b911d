SPECIFICATION Spec
CONSTANTS
    Orders = {f1}
    TokenOrders = {}
    Deliveries = {d1, d2}
    MaxBatch = 2
    MaxCrashes = 1
    MaxEdits = 2
    DbFaults = TRUE
    SwapTypeOf <- MCSwapTypeOf
CHECK_DEADLOCK FALSE
INVARIANTS
    FailedWasNotExecuted
    ConfirmedStaysCompleted
    ChargedBeforeTokens
PROPERTIES
    FailureIsFinal
