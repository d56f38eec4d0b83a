SPECIFICATION Spec
CONSTANTS
    a = a
    b = b
    Peers = {a, b}
    Offers <- AllOffers
    MaxCount = 0
    MaxHalf = 2
    MaxTsn = 1
    MaxEvents = 3
INVARIANTS
    KeysAgree
    StreamsAgree
    OptionsAllowed
    WaitsForAttempt
SYMMETRY Symmetric
CHECK_DEADLOCK FALSE
