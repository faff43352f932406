SPECIFICATION FairSpec
CONSTANTS
    hA = hA
    hB = hB
    hC = hC
    r1 = r1
    r2 = r2
    NoHook = NoHook
    Hook <- Two
    InitialHooks <- AsyncPair
    AsyncChoices = {FALSE}
    MaxEdits = 0
    Req <- OneReq
    MaxConcurrent = 1
    MaxQueued = 1
    Secured = {hB}
    MaxExec = 2
    MaxAttempt = 1
    MaxCrashes = 1
    MaxFaults = 0
PROPERTIES
    CancelEnds
    ExecutionEnds
    HandoffResolves
