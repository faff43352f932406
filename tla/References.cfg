SPECIFICATION Spec
CONSTANTS
    hA = hA
    hB = hB
    hC = hC
    x1 = x1
    s1 = s1
    q1 = q1
    q2 = q2
    Hook <- MCHook
    NoHook = NoHook
    MaxExec = 0
    InitialHooks <- EmptyTable
    AsyncChoices = {TRUE}
    MaxEdits = 5
    Host <- MCHost
    Script <- MCScript
    None = None
    Req <- MCReq
SYMMETRY Symmetry
INVARIANTS
    SuccessGraphAcyclic
    NoDanglingTarget
    LostHostWasCrossed
PROPERTIES
    DeleteTakesNothing
