SPECIFICATION FairServerSpec
CONSTANTS
    Streams = {s1, s2}
    Calls = {c1}
    Publishers = {p1}
    Topics = {clusters}
    Events = {e}
    None = None
    BufCap = 1
    PubCap = 1
    SubCap = 1
    UnsubCap = 1
INVARIANTS
    ServerTypeOK
    HubOutlivesRequests
PROPERTIES
    PublishReturns
    StreamCallsReturn
    ProcessEnds
    GracefulShutdown
CHECK_DEADLOCK FALSE
