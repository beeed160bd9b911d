SPECIFICATION Spec
CONSTANTS
    Orders = {f1}
    TokenOrders = {}
    Deliveries = {d1}
    MaxBatch = 1
    MaxCrashes = 0
    MaxEdits = 0
    DbFaults = FALSE
    SwapTypeOf <- MCSwapTypeOf
CHECK_DEADLOCK FALSE
INVARIANTS
    CompletionIsKept
