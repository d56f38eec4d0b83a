SPECIFICATION FairSpec
CONSTANTS
    a = a
    b = b
    Peers = {a, b}
    Offers <- SomeOffers
    MaxCount = 1
    MaxHalf = 2
    MaxTsn = 1
    MaxEvents = 2
PROPERTY AttemptEnds
CHECK_DEADLOCK FALSE
