\* One warehouse, two statements or three queries, two handlers, pages of one.
CONSTANTS
    c1 = c1
    c2 = c2
    Calls <- TwoCalls
    Attached = TRUE
    MaxWarehouse = 1
    MaxID = 3
    Bases = {"daily"}
    MaxSuffix = 1
    PageSize = 1
SPECIFICATION FairSpec
INVARIANTS
    HistoryTellsTheOutcome
    OnlyRivalsShareAName
    PagingMissesNothing
PROPERTIES
    TrashedStaysTrashed
    EveryStatementEnds
CHECK_DEADLOCK FALSE
