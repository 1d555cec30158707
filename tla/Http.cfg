SPECIFICATION FairSpec
CONSTANTS
    Item = {"one", "two", "three"}
    Uri = {"a", "b", "c", "d", "e", "f", "g", "h"}
    Host = {"h1", "h2"}
    HostOf <- TwoHosts
    Plans <- MixedPlans
    Site <- MixedSite
    Again = {"one"}
    PipelineDepth = 1
    NoUri = "nouri"
    NoHost = "nohost"
INVARIANTS
    InStep
    OwnBytes
    DoneIsWhole
    FailsForCause
PROPERTY Answered
CHECK_DEADLOCK FALSE
