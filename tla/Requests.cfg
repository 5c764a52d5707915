SPECIFICATION Spec
CONSTANTS
    Handlers = {"h1", "h2"}
    Alerts <- IdsMade
    PairOf <- TwoPairs
    First = "a0"
    None = "none"
    Asks <- Names
    Ask <- TenRequests
    MaxAsks = 3
    MaxFailures = 2
    MaxCrashes = 1
    Sends = {"s1", "s2"}
    Channels = {"sms", "call"}
    Limit = 1
    Creates = {"r1", "r2"}
    MaxAlerts = 1
    MaxBatch = 2
    LastDay = 1
    MaxRestarts = 1
    MaxOpen = 3
    MaxClosed = 1
    MaxLapses = 1
    MaxReturns = 1
    Shapes <- FourShapes
    Buffer = 0
    Window = 6
    Enough = 3
    LastCandle = 7
    MaxHistories = 1
    MaxBehind = 1
INVARIANTS
    PlanKept
    RequestsKept
    TrackKept
    AllOrNone
CHECK_DEADLOCK FALSE
