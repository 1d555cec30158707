SPECIFICATION FairSpec
CONSTANTS
    Items = {"arch1", "index"}
    URI = {"x1", "x3", "z1", "p1"}
    NoURI = "nouri"
    Access <- MCAccess
    AccessOf <- MCAccessOf
    Method <- MCMethod
    Conf <- MCConf
    SourceSymlinks = TRUE
    HostOf <- MCHostOf
    NoHost = ""
    QueueMode = "access"
    Preferred = {}
    PipeLimit = 2
    StartOK = {TRUE, FALSE}
    Garbage = {TRUE, FALSE}
    Redirects <- Colliding
    Outcomes = {"ok", "bad", "ims", "transient", "permanent"}
    Cached = {FALSE}
    MayDie = TRUE
    MayCancel = FALSE
    MaxRuns = 1
INVARIANT QueuedIsOpen
PROPERTY RunTerminates
CHECK_DEADLOCK FALSE
