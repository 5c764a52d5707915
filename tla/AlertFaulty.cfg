SPECIFICATION Spec
CONSTANTS
    a1 = a1
    a2 = a2
    a3 = a3
    Alerts = {a1, a2}
    NoAlert = NoAlert
    NoClient = NoClient
    StartRows <- MixedTable
    Repeating = {a2}
    Timed = {a1}
    c1 = c1
    c2 = c2
    Clients = {c1, c2}
    HttpOps = {"create", "commit", "delete"}
    UpdateStatus = {"active"}
    MaxOps = 3
    MaxFail = 1
    MaxCrash = 1
    MaxRepeat = 1
SYMMETRY Threads
INVARIANTS
    TypeOK
    BlockedHasTask
    ToldWasSaved
    FiresOnce
CHECK_DEADLOCK FALSE
