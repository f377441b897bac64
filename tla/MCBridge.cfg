SPECIFICATION FairSpec
CONSTANTS
    NotObject = NotObject
    Words <- Texts
    Registered <- AllActions
    MaxCommands = 3
    ClientCommands <- FewCommands
INVARIANTS
    TypeOK
    BridgeInv
    RepliesAreOwn
    BlockedOnlyAfterTimeout
    IdsDistinct
    ReservationReported
    CounterInv
PROPERTIES
    RepliesInOrder
    EveryRequestReplied
