SPECIFICATION Spec
CONSTANTS
    Requests = {r1}
    MaxSecrets = 2
INVARIANTS EnabledIsConfirmed
CHECK_DEADLOCK FALSE
