SPECIFICATION Spec
CONSTANTS
    Pairs = {"p"}
    Threshold = 2
    MaxHttp = 1
    MaxPosted = 1
    MaxUnrest = 3
    Conns = {"c1", "c2", "c3"}
    Users = {"u1"}
    Ips = {"i1"}
    Loops = {"l1", "l2"}
    UserOf <- OneUser
    IpOf <- OneAddress
    LoopOf <- TwoLoops
    IpLimit = 1
    Changes = {"h1"}
    OwnerOf <- HisChanges
    Nobody = "nobody"
    TrialDays = 1
    LastDay = 2
    MaxCrashes = 1
    NoDay = NoDay
    Default = "default"
    Paused = "paused"
    Shut = {2}
    MaxInFlight = 1
    LastBar = 3
    MaxWarms = 1
    MaxPolls = 1
    MaxUpsets = 2
INVARIANTS
    ObserversKept
    SessionKept
    AccountKept
    MonitorKept
PROPERTIES
    ObserversAreServed
    WatchedInTheEnd
    AccountIsServed
    MonitorIsServed
CHECK_DEADLOCK FALSE
