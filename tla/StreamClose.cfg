SPECIFICATION StreamSpec
CONSTANTS
    MaxBytes = 2
    MaxPackets = 3
    MaxBarriers = 2
    MinimumWindow = 20
    MaxPayload = 1
    SillyWindow = 0
    BarrierIncrement = 5
    Writes = {1, 2}
    ReadSizes <- AnyAmount
    MayShutdown = TRUE
    MayReset = TRUE
    ResetInCallback = FALSE
    Eager = TRUE
    MayResetReader = TRUE
    Net = "reliable"
INVARIANTS
    PullIsSafe
    TrueMeansDelivered
    ResetIsSeen
PROPERTY ImplementsByteStream
CHECK_DEADLOCK FALSE
