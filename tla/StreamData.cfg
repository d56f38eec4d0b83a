SPECIFICATION StreamSpec
CONSTANTS
    MaxBytes = 4
    MaxPackets = 4
    MaxBarriers = 1
    MinimumWindow = 20
    MaxPayload = 4
    SillyWindow = 3
    BarrierIncrement = 5
    Writes = {1, 2}
    ReadSizes <- AnyOrOne
    MayShutdown = FALSE
    MayReset = FALSE
    ResetInCallback = FALSE
    Eager = TRUE
    MayResetReader = FALSE
    Net = "any"
PROPERTY ImplementsByteStream
CHECK_DEADLOCK FALSE
