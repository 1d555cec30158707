SPECIFICATION FairSpec
CONSTANTS
    Requests = 4
    Window = 3
    MaxAsks = 2
INVARIANTS
    RequestsKept
PROPERTY WaitEndsOrBuried
CHECK_DEADLOCK FALSE
