\* One job, one run, every graph of the family and the for_each loops.
CONSTANTS
    Keys = {"a", "b", "c", "z"}
    MaxID = 2
    MaxJobID = 1
    MaxRunNowID = 2
    maxRunJobDepth = 1
    CreateLists <- GraphsAndLoops
    ResetLists = {}
SPECIFICATION Spec
INVARIANTS
    WavesComputeTheGraph
    DependenciesEndFirst
    SuccessIsEarned
    ForEachIsBoundedAndCounted
CHECK_DEADLOCK FALSE
