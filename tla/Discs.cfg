SPECIFICATION Spec
CONSTANTS
    Items = {"disc2", "filecd", "relcd"}
    URI = {"c1", "c2", "c3", "p1", "p2", "z1", "s1"}
    NoURI = "nouri"
    Access <- MCAccess
    AccessOf <- MCAccessOf
    Method <- MCMethod
    Conf <- MCConf
    SourceSymlinks = TRUE
    HostOf <- MCHostOf
    NoHost = ""
    QueueMode = "host"
    Preferred = {"c2"}
    PipeLimit = 2
    StartOK = {TRUE}
    Garbage = {TRUE, FALSE}
    Redirects <- NoRedirect
    Outcomes = {"ok", "bad", "transient"}
    Cached = {FALSE}
    MayDie = FALSE
    MayCancel = TRUE
    MaxRuns = 2
INVARIANTS
    ToFetchExact
    CurrentItemLive
PROPERTIES
    ContinueMeansSettled
    ImplementsDownloader
CHECK_DEADLOCK FALSE
