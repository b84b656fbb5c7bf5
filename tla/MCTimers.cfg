SPECIFICATION Spec
CONSTANTS
    N = 2
    MOD = 10
    FOUR_MS = 2
    LATENCY = 1
    PASS = 1
    Use <- MCUse
    CbTimer = {1}
    HIGH = FALSE
    MAX_SLEEP = 2
INVARIANTS  NoRollOver OnTime NoCallbackAfterStop
PROPERTY NotEarly
