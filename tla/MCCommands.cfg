SPECIFICATION Spec
CONSTANTS
    NotObject = NotObject
    Words <- Texts
    Registered <- AllActions
    MaxCommands = 1
    ClientCommands <- AllCommands
INVARIANTS
    NumbersInRange
    RepliesAreOwn
