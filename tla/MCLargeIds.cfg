SPECIFICATION Spec
CONSTANTS
    NotObject = NotObject
    Words <- Texts
    Registered <- Handlers
    MaxCommands = 1
    ClientCommands <- RemoteStops
INVARIANTS
    IntegersAccepted
