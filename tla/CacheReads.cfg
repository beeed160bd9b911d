SPECIFICATION Spec
CONSTANTS
    MaxLatency = 2
    MaxTime = 5
    MaxRestarts = 1
    Keys = {"registered"}
    TTL <- MCTTL
    WriterKeys = {"registered"}
    Readers = {r1, r2}
    Writers = {w1}
    MaxVersion = 2
    Requests = {r1, r2}
    RatesTTL = 2
    SharedTTL = 1
    Pairs = {"STRK/USD", "ETH/USD"}
    MaxSockets = 4
    Limit = 2
    MaxRows = 4
    MaxChanges = 2
INVARIANTS TypeOK
    AnswersAreRecent WriteSeenUnlessRaced
    OneSubscription
    PagesAreExplained
PROPERTIES Resubscribes
CHECK_DEADLOCK FALSE
