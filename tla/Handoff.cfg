SPECIFICATION Spec
CONSTANTS
    hA = hA
    hB = hB
    hC = hC
    r1 = r1
    r2 = r2
    NoHook = NoHook
    Hook <- Two
    InitialHooks <- SyncPair
    AsyncChoices = {FALSE}
    MaxEdits = 2
    Req <- TwoReq
    MaxConcurrent = 1
    MaxQueued = 1
    Secured = {}
    MaxExec = 3
    MaxAttempt = 2
    MaxCrashes = 0
    MaxFaults = 1
SYMMETRY ReqSymmetry
CONSTRAINT EditsAndFaultsAlone
INVARIANTS
    PendingIsOwned
    SuccessorsSound
    ChainNeverRepeats
PROPERTIES
    RefinesHandoff
CHECK_DEADLOCK FALSE
