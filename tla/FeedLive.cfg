SPECIFICATION PartSpec
CONSTANTS
    Pairs = {p1, p2}
    MaxPrice = 2
    MaxTasks = 2
    MaxToggles = 1
    Kinds <- FourKinds
    Window = 2
    Gap = 2
    Hour = 3
    Session = 3
    Steps <- OneAndTwo
    Swings = {1}
    LastCandle = 4
    MaxQueue = 2
    MaxFailures = 1
    MaxCrashes = 1
    Calls = {"b1", "b2", "b3", "b4"}
    Keys = {"k1", "k2"}
    KeyOf <- TwoAlike
    NoKey = "none"
INVARIANTS
    TypeOK
    PendingIsServed
    ReportsInTime
    ReportsOnce
    BarsTypeOK
    NeverStalls
    EachOnce
    RightBars
PROPERTIES
    BoxSpec
    NewestIsSeen
    EachIsAnswered
CHECK_DEADLOCK FALSE
