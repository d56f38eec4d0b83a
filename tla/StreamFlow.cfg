SPECIFICATION StreamSpec
CONSTANTS
    MaxBytes = 4
    MaxPackets = 4
    MaxBarriers = 2
    MinimumWindow = 3
    MaxPayload = 1
    SillyWindow = 1
    BarrierIncrement = 1
    Writes = {4}
    ReadSizes <- AnyAmount
    MayShutdown = FALSE
    MayReset = FALSE
    ResetInCallback = FALSE
    Eager = FALSE
    MayResetReader = FALSE
    Net = "ordered"
INVARIANTS
    WithinBarrier
    NeverStuck
CHECK_DEADLOCK FALSE
