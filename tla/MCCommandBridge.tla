--------------------------- MODULE MCCommandBridge ---------------------------
(* Instances of CommandBridge for TLC; each cfg picks the commands and the   *)
(* number of requests that its question needs.                               *)
EXTENDS CommandBridgeInvariants

Texts == {NoText, "digits", "tag", "abc", "k", "v", "Hard", "Soft", "Operative"}

Command(action, payload) ==
    [valid |-> TRUE, action |-> action, payload |-> payload]

Nothing == [field \in {} |-> Other]

\* A command without its charge point, and one that no handler has.
OddCommands == {[valid |-> FALSE, action |-> RESET, payload |-> Nothing],
                Command("data.transfer", Nothing)}

\* Numbers at the boundaries of the checks and of Sprint's exponent.
Integers == {Number(-1), Number(0), Number(1), Number(999999), Number(1000000),
             Numeral(0), Numeral(1000000), Word("abc"), Fraction, Other}

RemoteStarts ==
    {Command(REMOTE_START_TRANSACTION, p) :
       p \in {NotObject, Nothing, [connectorId |-> Number(1)], [idTag |-> Word("tag")]}
          \cup [idTag : {Word("tag")}, connectorId : Integers]
          \cup [idTag : {Word("tag")}, duration : Integers]}

RemoteStops ==
    {Command(REMOTE_STOP_TRANSACTION, p) :
       p \in {NotObject, Nothing} \cup [transactionId : Integers]}

OtherCommands ==
    {Command(UNLOCK_CONNECTOR, p) :
       p \in {NotObject, Nothing} \cup [connectorId : Integers]}
    \cup {Command(RESET, p) : p \in {NotObject, Nothing} \cup [type : {Word("Hard")}]}
    \cup {Command(GET_CONFIGURATION, p) :
            p \in {NotObject, Nothing} \cup [key : {Keys, Repeated}]}
    \cup {Command(CHANGE_CONFIGURATION, p) :
            p \in {Nothing, [key |-> Word("k")]} \cup [key : {Word("k")}, value : {Word("v")}]}
    \cup {Command(CHANGE_AVAILABILITY, p) :
            p \in {NotObject} \cup [connectorId : {Number(1)}, type : {Word("Operative")}]}
    \cup {Command(CLEAR_CACHE, Nothing)}

Reservation == [idTag |-> Word("tag"), expiryDate |-> Number(1000000)]

DormantCommands ==
    {Command(RESERVE_NOW, p) :
       p \in {NotObject, Nothing, [idTag |-> Word("tag")], Reservation}
          \cup [idTag : {Word("tag"), Word(NoText)}, expiryDate : Integers]
          \cup [idTag : {Word("tag")}, expiryDate : {Number(1)}, connectorId : Integers]}
    \cup {Command(CANCEL_RESERVATION, p) :
            p \in {NotObject, Nothing} \cup [reservationId : Integers]}
    \cup {Command(SEND_LOCAL_LIST_VERSION, p) :
            p \in {NotObject, Nothing} \cup [listVersion : Integers]}
    \cup {Command(SET_CHARGING_PROFILE, p) :
            p \in {NotObject, Nothing} \cup [connectorId : Integers]}
    \cup {Command(a, Nothing) : a \in {GET_LOCAL_LIST_VERSION, CLEAR_CHARGING_PROFILE,
                                       GET_COMPOSITE_SCHEDULE}}

AllCommands == OddCommands \cup RemoteStarts \cup RemoteStops \cup OtherCommands
                 \cup DormantCommands

\* One command of each fate.
FewCommands ==
    {[valid |-> FALSE, action |-> RESET, payload |-> Nothing],
     Command(REMOTE_START_TRANSACTION, [idTag |-> Word("tag")]),
     Command(SET_CHARGING_PROFILE, NotObject),
     Command(RESERVE_NOW, Reservation)}

=============================================================================
