SPECIFICATION OutSpec
CONSTANTS
    MaxBytes = 4
    MaxPackets = 4
    MinimumWindow = 4
    MaxPayload = 2
    SillyWindow = 1
    Writes = {1, 3}
    MayShutdown = TRUE
    MayReset = TRUE
    ResetInCallback = FALSE
INVARIANTS
    NoByteLost
    Accounting
    NoLostWakeup
CHECK_DEADLOCK FALSE
