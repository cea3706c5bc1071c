\* A two-wave job and one that runs itself, with and without an engine, reset
\* while they run: every run ends.  MaxID leaves room for every child run.
CONSTANTS
    Keys = {"a", "b"}
    MaxID = 4
    MaxJobID = 1
    MaxRunNowID = 2
    maxRunJobDepth = 2
    CreateLists <- NestedLists
    ResetLists <- ResetList
SPECIFICATION FairSpec
INVARIANTS
    EveryTaskInOnePlace
PROPERTIES
    EveryRunEnds
    CancelStopsLaterWaves
CHECK_DEADLOCK FALSE
