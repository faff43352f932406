SPECIFICATION Spec
CONSTANTS
    hA = hA
    hB = hB
    hC = hC
    r1 = r1
    r2 = r2
    NoHook = NoHook
    Hook <- Three
    InitialHooks <- AsyncThree
    AsyncChoices = {FALSE}
    MaxEdits = 0
    Req <- TwoReq
    MaxConcurrent = 1
    MaxQueued = 1
    Secured = {}
    MaxExec = 2
    MaxAttempt = 1
    MaxCrashes = 1
    MaxFaults = 1
SYMMETRY ReqSymmetry
CONSTRAINT RestartedAlone
INVARIANTS
    TypeOK
    SingleFlight
    SlotAccounting
    IdleMeansDrained
    BusyNamesHolder
    LiveRowIsCarried
PROPERTIES
    FinishedIsFinal
