SPECIFICATION Spec
CONSTANTS
    a1 = a1
    a2 = a2
    a3 = a3
    Alerts = {a1, a2}
    NoAlert = NoAlert
    NoClient = NoClient
    StartRows <- QueuedTable
    Repeating = {}
    Timed = {}
    c1 = c1
    c2 = c2
    Clients = {c1}
    HttpOps = {}
    UpdateStatus = {"active"}
    MaxOps = 0
    MaxFail = 1
    MaxCrash = 0
    MaxRepeat = 0
INVARIANTS
    StepsWait
CHECK_DEADLOCK FALSE
