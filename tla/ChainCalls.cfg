SPECIFICATION SpecAll
CONSTANTS
    Base = 3
    IdLength = 4
    Cuts <- MCCuts
    Decimals = 2
    Word = 12
    MaxLength = 6
    o1 = o1
    w1 = w1
    Orders = {o1, o2}
    Amount <- MCAmount
    Wallets = {w1, w2}
    Defaults = {w1}
    NoWallet = none
    Tokens <- MCTokens
    Calls = {c1, c2}
    MaxRestarts = 1
INVARIANTS TypesOK
    ArgumentsArrive
    RevertHasCause AllowanceIsOwed
    AnswersAreTrue
PROPERTIES ImplementsLifecycle
CHECK_DEADLOCK FALSE
