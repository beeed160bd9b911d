SPECIFICATION FairSpec
CONSTANTS
    Log <- MCLog
    Calls = {c1, c2}
    MaxBatch = 2
    MaxCalls = 2
    MaxRepeats = 1
    MaxFaults = 1
    MaxCrashes = 1
INVARIANTS TypeOK BalanceExplained AnsweredIsApplied RateIsLatest
PROPERTIES AllAnswered
CHECK_DEADLOCK FALSE
