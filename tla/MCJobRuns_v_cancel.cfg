\* A cancelled run and the child run it waits for.
CONSTANTS
    Keys = {"a", "b"}
    MaxID = 4
    MaxJobID = 2
    MaxRunNowID = 3
    maxRunJobDepth = 1
    CreateLists <- NestedLists
    ResetLists = {}
SPECIFICATION Spec
PROPERTIES
    CancelReachesChildren
CHECK_DEADLOCK FALSE
