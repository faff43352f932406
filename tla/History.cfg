SPECIFICATION Spec
CONSTANTS
    hA = hA
    hB = hB
    hC = hC
    Hook <- MCHook
    NoHook = NoHook
    Successor <- MCChain
    Entry <- MCEntry
    Logging = {2}
    NoSweep = NoSweep
    MaxExec = 4
    Days <- MCDays
    MaxTime = 2
    MaxAttempt = 2
INVARIANTS
    RelativesKept
PROPERTIES
    UnsettledStays
CHECK_DEADLOCK FALSE
