SPECIFICATION Spec
CONSTANTS
    p1 = p1
    p2 = p2
    p3 = p3
    app = app
    lib = lib
    Places = {p1, p2, p3}
    Users = {app, lib}
    UserOf <- UserOfPlace
    FirstCells = 2
    MaxValue = 1
    MaxDepth = 1
    MaxCalls = 5
    Groups <- Meetings
    Avoided = {"invalid object", "no handler", "race", "wrong size", "wrong priority",
               "wrong service", "wrong suite", "wrong time", "negative sum",
               "late arguments", "early shutdown",
               "Host::key", "no answer", "end of channels"}
INVARIANTS
    AssertsHold
    HandlesDenote
    OneOwner
    NoLeak
    FreeListsSound
    OpenWhileInUse
SYMMETRY Symmetric
CHECK_DEADLOCK FALSE
