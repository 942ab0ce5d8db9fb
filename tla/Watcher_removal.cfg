SPECIFICATION Spec
CONSTANTS
    Namespaces = {ns1, ns2}
    Names = {a}
    K8sNamespace = ns1
    Clusters = clusters
    Transient = {"upgrade"}
    Fault = {"failover"}
    Healthy = "healthy"
    NoPhase = ""
    PhaseOf <- MCPhaseOf
    BufCap = 1
    MaxVersion = 3
    MaxBreaks = 2
INVARIANTS
    RemovalIsPublished
CHECK_DEADLOCK FALSE
