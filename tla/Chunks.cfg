SPECIFICATION Spec
CONSTANTS
    Item = {"one", "two"}
    Uri = {"a", "b"}
    Host = {"h1"}
    HostOf <- OneHost
    Plans <- OneOrBoth
    Site <- ChunkedFile
    Again = {"one"}
    PipelineDepth = 1
    NoUri = "nouri"
    NoHost = "nohost"
INVARIANT ResumedIsWhole
CHECK_DEADLOCK FALSE
