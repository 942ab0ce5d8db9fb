SPECIFICATION HFairSpec
CONSTANTS
    Streams = {s1}
    Publishers = {p1}
    Topics = {clusters, clusterA}
    Events = {1, 2, 3, 4}
    None = None
    BufCap = 2
    PubCap = 1
    SubCap = 1
    UnsubCap = 1
INVARIANTS
    DropsOldestFirst
    NewestIsKept
PROPERTIES
    FeedFresh
CHECK_DEADLOCK FALSE
