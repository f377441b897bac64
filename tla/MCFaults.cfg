SPECIFICATION FaultsSpec
CONSTANTS
    c1 = c1
    ChargePoints = {c1}
    Connectors = {1}
    Kinds <- TransactionKinds
    MaxRequests = 3
    MaxConnections = 2
    Pipelining = TRUE
    Resend = TRUE
    MaxRestarts = 1
    MaxFailures = 1
CONSTRAINT QuietClose
INVARIANTS
    FaultsTypeOK
    IdsPerRun
    EndsKnown
    FaultsInv
PROPERTIES
    Announced
