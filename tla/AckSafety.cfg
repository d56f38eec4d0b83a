SPECIFICATION RenoFairSpec
CONSTANTS
    a = a
    b = b
    Peers = {a, b}
    Window = 2
    ReorderLimit = 2
    MaxTsn = 3
    Quota <- Quota31
    newWindow = 5
    minWindow = 5
    maxWindow = 8
    Overhead = 1
    Filled = {1, 2}
INVARIANTS
    NoFalseAck
    MissingHasEvidence
    FateDecidedOnce
PROPERTIES
    AcceptedInWindow
    FateDecided
    SendsAgain
    ImplementsChannel
CHECK_DEADLOCK FALSE
