\* One cluster and up to four contexts and commands, two handlers in flight.
CONSTANTS
    c1 = c1
    c2 = c2
    Calls <- TwoCalls
    MaxCluster = 1
    MaxID = 4
SPECIFICATION FairSpec
INVARIANTS
    NothingIsAbandoned
    CommandsFollowTheProbe
PROPERTIES
    EndedCommandsKeepTheirStatus
    EverythingSettles
CHECK_DEADLOCK FALSE
