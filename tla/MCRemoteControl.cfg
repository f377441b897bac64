SPECIFICATION RemoteSpec
CONSTANTS
    c1 = c1
    ChargePoints = {c1}
    Connectors = {1}
    Kinds <- TransactionKinds
    MaxRequests = 2
    MaxConnections = 2
    Pipelining = FALSE
    Resend = FALSE
    MaxRestarts = 1
    MaxFailures = 0
    NotObject = NotObject
    Words <- Texts
    Registered = {"reset", "get.configuration", "change.configuration", "change.avalability", "remote.start.transaction", "remote.stop.transaction", "unlock.connector", "clear.cache"}
    MaxCommands = 1
    ClientCommands <- Commands
CONSTRAINT Interesting
INVARIANTS
    RemoteTypeOK
    RemoteInv
PROPERTIES
    RejectedWithReason
    RightTransaction
    AcceptedIsOpen
