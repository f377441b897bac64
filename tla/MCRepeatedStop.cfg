SPECIFICATION Spec
CONSTANTS
    c1 = c1
    c2 = c2
    ChargePoints = {c1}
    Connectors = {1}
    Kinds <- TransactionKinds
    MaxRequests = 5
    MaxConnections = 1
    Pipelining = FALSE
    Resend = TRUE
INVARIANTS
    OneOpenTransaction
