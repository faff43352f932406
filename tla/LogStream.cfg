SPECIFICATION Spec
CONSTANTS
    Limit = 2
    PageSize = 2
    MaxMisses = 2
    Size <- MCSize
    MaxChunks = 5
    MaxFaults = 2
INVARIANTS
    HolesAreShown
    StopsComplete
    RetainedAgrees
CHECK_DEADLOCK FALSE
