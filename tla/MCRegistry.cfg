SPECIFICATION FairSpec
CONSTANTS
    c1 = c1
    c2 = c2
    ChargePoints = {c1}
    Connectors = {1}
    Kinds <- OtherKinds
    MaxRequests = 2
    MaxConnections = 3
    Pipelining = FALSE
    Resend = FALSE
INVARIANTS
    RegistryMirrors
    RegistryInv
PROPERTIES
    ConnectedIsRegistered
    EveryCallAnswered
