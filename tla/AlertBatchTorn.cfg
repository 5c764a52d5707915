SPECIFICATION Spec
CONSTANTS
    a1 = a1
    a2 = a2
    a3 = a3
    Alerts = {a1, a2, a3}
    NoAlert = NoAlert
    NoClient = NoClient
    StartRows <- EmptyTable
    Repeating = {a1, a2, a3}
    Timed = {}
    c1 = c1
    c2 = c2
    Clients = {c1}
    HttpOps = {"commit"}
    UpdateStatus = {"active"}
    MaxOps = 1
    MaxFail = 1
    MaxCrash = 0
    MaxRepeat = 1
INVARIANTS
    AllOrNone
CHECK_DEADLOCK FALSE
