SPECIFICATION FirmwareSpec
CONSTANTS
    c1 = c1
    ChargePoints = {c1}
    Connectors = {1}
    Kinds <- ReportKinds
    MaxRequests = 3
    MaxConnections = 2
    Pipelining = FALSE
    Resend = FALSE
INVARIANTS
    FirmwareTypeOK
    StatusAgrees
    LastReportKept
    StatusInv
    FirmwareInv
PROPERTIES
    OrderPreserved
