SPECIFICATION FairSpec
CONSTANTS
    Requests = {r1}
    Pods = {p1, p2}
    NoPrimary = NoPrimary
    NoCluster = NoCluster
    DefaultTail = 1
    Queries <- MCQueries
    MaxLines = 2
INVARIANTS
    TypeOK
    TailIsWhole
    FollowsToTheEnd
PROPERTIES
    LogRequestEnds
