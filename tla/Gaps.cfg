SPECIFICATION GapsSpec
CONSTANTS
    Tapes <- Courses
    Minute = 2
    Size = 4
    Offsets = {0, 2}
    MaxQueue = 3
    MaxZones = 1
    MaxFaults = 2
INVARIANTS
    GapsKept
PROPERTIES
    GapsAreServed
CHECK_DEADLOCK FALSE
