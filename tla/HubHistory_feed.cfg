SPECIFICATION HSpec
CONSTANTS
    Streams = {s1, s2}
    Publishers = {p1, p2}
    Topics = {clusters, clusterA}
    Events = {1, 2}
    None = None
    BufCap = 1
    PubCap = 1
    SubCap = 1
    UnsubCap = 1
INVARIANTS
    TypeOK
    StreamingIsRegistered
    ReturnedIsDetached
    ResendHasRoom
    NothingLostSilently
PROPERTIES
    NoDeliveryAfterUnsubscribe
    FeedSpec
CHECK_DEADLOCK FALSE
