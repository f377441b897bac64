SPECIFICATION Spec
CONSTANTS
    c1 = c1
    c2 = c2
    ChargePoints = {c1}
    Connectors = {1, 2}
    Kinds <- TransactionKinds
    MaxRequests = 3
    MaxConnections = 2
    Pipelining = FALSE
    Resend = FALSE
INVARIANTS
    TypeOK
    BusyIffOpen
    UniqueIds
    LedgerInv
    MarksInv
    StopInv
