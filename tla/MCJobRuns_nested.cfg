\* Two jobs, child runs of child runs, deletes and cancels.
CONSTANTS
    Keys = {"a", "b"}
    MaxID = 5
    MaxJobID = 2
    MaxRunNowID = 3
    maxRunJobDepth = 2
    CreateLists <- NestedLists
    ResetLists = {}
SPECIFICATION Spec
INVARIANTS
    RecordFollowsExecutor
    ParentsReportTheirChildren
PROPERTIES
    EndedRunsKeepTheirRecord
    ImplementsLifecycle
CHECK_DEADLOCK FALSE
