SPECIFICATION Spec
CONSTANTS
    Users = {"u1", "u2", "u3"}
    Start <- MCStart
    Amounts = {0, 1, 2}
    Requests = {r1, r2}
    MaxTime = 2
INVARIANTS SoundTransferSucceeds
CHECK_DEADLOCK FALSE
