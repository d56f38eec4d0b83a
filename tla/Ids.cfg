SPECIFICATION Spec
CONSTANTS
    s1 = s1
    s2 = s2
    Streams = {s1, s2}
    Size <- SizeOfStream
    MayReset = {s1}
    Window = 2
    MaxSegments = 1
    MaxPackets = 3
    MaxReplies = 1
    MaxSessions = 2
    Avoided <- Hazards
INVARIANTS
    OwnReader
    AckedWasHeard
    TablesSound
CHECK_DEADLOCK FALSE
