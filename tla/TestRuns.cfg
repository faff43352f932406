SPECIFICATION MCSpec
CONSTANTS
    c1 = c1
    c2 = c2
    c3 = c3
    c4 = c4
    Req <- MCReq
    MaxConcurrentTestRuns = 2
    Limit = 2
    PageSize = 1
    MaxMisses = 2
    MaxRecords = 2
    Size <- MCSize
    MaxChunks = 5
    MaxFaults = 1
INVARIANTS
    StopsComplete
    GapMeansHole
    NewestWithinCaps
    OldestGoesFirst
PROPERTIES
    ViewerStops
    EventuallyAdmitted
CHECK_DEADLOCK FALSE
