\* A job reset while it runs, and what the run then reports.
CONSTANTS
    Keys = {"a", "b"}
    MaxID = 2
    MaxJobID = 1
    MaxRunNowID = 2
    maxRunJobDepth = 1
    CreateLists <- ResetPair
    ResetLists <- ResetPair
SPECIFICATION Spec
INVARIANTS
    SuccessIsEarned
CHECK_DEADLOCK FALSE
