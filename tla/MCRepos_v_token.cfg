\* One repo path and one credential, two requests at a time, no crash.
CONSTANTS
    Absent = Absent
    Torn = Torn
    c1 = c1
    c2 = c2
    Calls <- TwoCalls
    Paths = {"p"}
    MaxRepo = 2
    Creds = {1}
SPECIFICATION Spec
SYMMETRY CallSymmetry
CONSTRAINT NoCrash
INVARIANTS
    TreesKeepNoToken
CHECK_DEADLOCK FALSE
