SPECIFICATION FairSpec
CONSTANTS
    r1 = r1
    s1 = s1
    r2 = r2
    s2 = s2
    Requests = {r1, r2}
    ServiceIds = {s1, s2}
    MaxParts = 1
    Blocking = {r2}
    Avoided <- Hazards
INVARIANTS
    NothingFails
    NoDangling
    OneOutcome
    ExchangeIntact
PROPERTIES
    Answered
    ConnsFreed
CHECK_DEADLOCK FALSE
