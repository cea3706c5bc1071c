\* A command cancelled while the engine runs it.
CONSTANTS
    c1 = c1
    c2 = c2
    Calls <- TwoCalls
    MaxCluster = 1
    MaxID = 2
SPECIFICATION Spec
PROPERTIES
    CancelledCommandsStayCancelled
CHECK_DEADLOCK FALSE
