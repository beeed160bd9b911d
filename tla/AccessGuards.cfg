SPECIFICATION Spec
CONSTANTS
    Requests = {r1, r2}
    MaxTime = 3
    MaxWrong = 5
    MAX_LOGIN_ATTEMPTS = 3
    LOCKOUT_DURATION = 2
    Pins = {"p1", "p2", "p3"}
    MaxAttempts = 3
    LockTime = 2
    MaxSecrets = 4
    Sessions = {s1, s2}
    Lifetime = 2
INVARIANTS TypeOK
    AttemptsAreExact
    FactorSecretWasConfirmed
    SessionTokenIsHeld
PROPERTIES
    LocksLast
    NothingIsUndone
CHECK_DEADLOCK FALSE
