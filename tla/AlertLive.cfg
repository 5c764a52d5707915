SPECIFICATION FairSpec
CONSTANTS
    a1 = a1
    a2 = a2
    a3 = a3
    Alerts = {a1, a2}
    NoAlert = NoAlert
    NoClient = NoClient
    StartRows <- MixedTable
    Repeating = {}
    Timed = {a1}
    c1 = c1
    c2 = c2
    Clients = {c1}
    HttpOps = {"create", "update", "delete"}
    UpdateStatus = {"active"}
    MaxOps = 2
    MaxFail = 0
    MaxCrash = 0
    MaxRepeat = 0
INVARIANTS
    StepsWait
    ToldIsDurable
PROPERTIES
    StepsMove
    SavedIsTold
CHECK_DEADLOCK FALSE
