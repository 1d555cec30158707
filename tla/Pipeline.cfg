SPECIFICATION Spec
CONSTANTS
    Items = {"arch1", "arch3", "file"}
    URI = {"x1", "x3", "x9", "y1", "p1", "z1"}
    NoURI = "nouri"
    Access <- MCAccess
    AccessOf <- MCAccessOf
    Method <- MCMethod
    Conf <- MCConf
    SourceSymlinks = TRUE
    HostOf <- MCHostOf
    NoHost = ""
    QueueMode = "host"
    Preferred = {}
    PipeLimit = 2
    StartOK = {TRUE}
    Garbage = {TRUE, FALSE}
    Redirects <- ToFresh
    Outcomes = {"ok", "bad", "transient"}
    Cached = {FALSE}
    MayDie = FALSE
    MayCancel = FALSE
    MaxRuns = 1
INVARIANTS
    TypeOK
    PipeDepthExact
    NothingLost
    ReplyFindsItsItem
CHECK_DEADLOCK FALSE
