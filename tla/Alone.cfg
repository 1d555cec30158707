SPECIFICATION Spec
CONSTANTS
    Item = {"one", "two"}
    Uri = {"a", "b"}
    Host = {"h1"}
    HostOf <- OneHost
    Plans <- OneOrBoth
    Site <- OwnRedirect
    Again = {"one"}
    PipelineDepth = 1
    NoUri = "nouri"
    NoHost = "nohost"
INVARIANT InStep
CHECK_DEADLOCK FALSE
