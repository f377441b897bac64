SPECIFICATION Spec
CONSTANTS
    c1 = c1
    c2 = c2
    ChargePoints = {c1, c2}
    Connectors = {1}
    Kinds <- ReportingKinds
    MaxRequests = 2
    MaxConnections = 1
    Pipelining = FALSE
    Resend = FALSE
SYMMETRY Symmetry
INVARIANTS
    StopAfterStart
    StopsReachSubscribers
    KeptInv
