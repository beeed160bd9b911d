SPECIFICATION FairSpec
CONSTANTS
    Orders = {t1, f1}
    TokenOrders = {t1}
    Deliveries = {d1}
    MaxBatch = 2
    MaxCrashes = 0
    MaxEdits = 0
    DbFaults = FALSE
    SwapTypeOf <- MCSwapTypeOf
CHECK_DEADLOCK FALSE
PROPERTIES
    ExecutionLeavesPending
    DeliveryIsAnswered
