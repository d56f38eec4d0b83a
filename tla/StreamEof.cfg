SPECIFICATION StreamSpec
CONSTANTS
    MaxBytes = 2
    MaxPackets = 3
    MaxBarriers = 1
    MinimumWindow = 20
    MaxPayload = 1
    SillyWindow = 1
    BarrierIncrement = 5
    Writes = {1}
    ReadSizes <- AnyAmount
    MayShutdown = TRUE
    MayReset = FALSE
    ResetInCallback = FALSE
    Eager = TRUE
    MayResetReader = FALSE
    Net = "any"
INVARIANT TrueMeansDelivered
CHECK_DEADLOCK FALSE
