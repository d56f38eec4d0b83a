SPECIFICATION FairSpec
CONSTANTS
    MaxBytes = 4
    Avoided <- Hazards
INVARIANTS
    WrittenInOrder
    ToldOnce

    
CHECK_DEADLOCK FALSE
