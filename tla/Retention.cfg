SPECIFICATION FairSpec
CONSTANTS
    q1 = q1
    q2 = q2
    NoReq = NoReq
    Req <- MCReq
    Days <- MCDays
    MaxSweeps = 3
    MaxFaults = 2
INVARIANTS
    PolicyInForce
PROPERTIES
    StoppedEnds
CHECK_DEADLOCK FALSE
