SPECIFICATION FairSpec
CONSTANTS
    Namespaces = {ns1, ns2}
    Names = {a}
    K8sNamespace = ns1
    Clusters = clusters
    Transient = {"upgrade"}
    Fault = {"failover"}
    Healthy = "healthy"
    NoPhase = ""
    PhaseOf <- MCPhaseOf
    BufCap = 1
    MaxVersion = 4
    MaxBreaks = 1
INVARIANTS
    TypeOK
    TopicsAgree
    LatestObjectIsCurrent
PROPERTIES
    NeverBackwards
    LifecycleOrder
    EventuallyShown
CHECK_DEADLOCK FALSE
