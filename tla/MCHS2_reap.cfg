\* Idle handles, closed sessions and the ceilings, with two calls running.
CONSTANTS
    c1 = c1
    c2 = c2
    Calls <- TwoCalls
    MaxSession = 2
    MaxOp = 3
    Start = 2
    MaxTime = 4
    idleTTLSeconds = 1
    maxSessions = 1
    maxOperations = 2
SPECIFICATION Spec
SYMMETRY SwapCalls
INVARIANTS
    CeilingsHold
PROPERTIES
    ResultsLeaveForAReason
    SessionsTakeTheirResults
    EvictionTakesTheOldest
CHECK_DEADLOCK FALSE
