SPECIFICATION Spec
CONSTANTS
    Requests = {r1, r2}
    MaxFiat = 2
    MaxAccounts = 2
    Users = {"u1", "u2", "u3"}
    Start <- MCStart
    Amounts = {0, 1, 2}
    MaxTime = 2
    Wallets = {w1, w2}
    Defaults = {w1}
    Tokens = {t1, t2}
    Fiat <- MCFiat
    Kobo = 2
    Naira = {3}
    MaxHeld = 1
    MaxMoves = 1
INVARIANTS TypeOK
    FlagFollowsEvent
    AnsweredIsDone
    SummaryIsExplained
PROPERTIES RemovalIsWhole
CHECK_DEADLOCK FALSE
