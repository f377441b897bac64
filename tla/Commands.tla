------------------------------- MODULE Commands -------------------------------
(***************************************************************************)
(* The commands of the directory actions as functions of their data: which *)
(* payloads a command refuses and with what error, what it sends to the    *)
(* charge point, and the response it makes of the charge point's answer.   *)
(*                                                                         *)
(* A payload is a JSON value: an object is a function from its field names *)
(* to values, a missing or null payload is the empty object, anything else *)
(* is NotObject.  Texts that no code compares with anything are alike.     *)
(***************************************************************************)
EXTENDS Integers

CONSTANTS NotObject,   \* a payload that is not a JSON object
          Words        \* the texts in payloads, and those sent

NoText == "no text"   \* the empty text

ASSUME WordsAssumption == {NoText, "tag", "Hard", "Soft"} \subseteq Words

\* The actions main() registers with AddHandler.
RESET                    == "reset"
GET_CONFIGURATION        == "get.configuration"
CHANGE_CONFIGURATION     == "change.configuration"
CHANGE_AVAILABILITY      == "change.avalability"
REMOTE_START_TRANSACTION == "remote.start.transaction"
REMOTE_STOP_TRANSACTION  == "remote.stop.transaction"
UNLOCK_CONNECTOR         == "unlock.connector"
CLEAR_CACHE              == "clear.cache"

Handlers == {RESET, GET_CONFIGURATION, CHANGE_CONFIGURATION, CHANGE_AVAILABILITY,
             REMOTE_START_TRANSACTION, REMOTE_STOP_TRANSACTION,
             UNLOCK_CONNECTOR, CLEAR_CACHE}

\* The actions whose registration is commented out.
RESERVE_NOW              == "reserve.now"
CANCEL_RESERVATION       == "cancel.reservation"
SEND_LOCAL_LIST_VERSION  == "send.local.list.version"
GET_LOCAL_LIST_VERSION   == "get.local.list.version"
CLEAR_CHARGING_PROFILE   == "clear.charging.profile"
GET_COMPOSITE_SCHEDULE   == "get.composite.schedule"
SET_CHARGING_PROFILE     == "set.charging.profile"

Dormant == {RESERVE_NOW, CANCEL_RESERVATION, SEND_LOCAL_LIST_VERSION,
            GET_LOCAL_LIST_VERSION, CLEAR_CHARGING_PROFILE,
            GET_COMPOSITE_SCHEDULE, SET_CHARGING_PROFILE}

AllActions == Handlers \cup Dormant

\* The actions that number what they send, each with a package variable.
Numbered == {REMOTE_START_TRANSACTION, RESERVE_NOW}

-----------------------------------------------------------------------------
(* The values of a field: a JSON number that is an integer, a string that    *)
(* spells a 32-bit integer, a string that spells no number, a fraction, a    *)
(* list of keys that are all different or not, and what is none of these     *)
(* (true, an object).                                                        *)

Forms == {"number", "numeral", "word", "fraction", "keys", "repeated", "other"}

Number(n)  == [form |-> "number",   n |-> n, word |-> NoText]
Numeral(n) == [form |-> "numeral",  n |-> n, word |-> "digits"]
Word(w)    == [form |-> "word",     n |-> 0, word |-> w]
Fraction   == [form |-> "fraction", n |-> 0, word |-> NoText]
Keys       == [form |-> "keys",     n |-> 0, word |-> NoText]
Repeated   == [form |-> "repeated", n |-> 0, word |-> NoText]
Other      == [form |-> "other",    n |-> 0, word |-> NoText]

Value == [form : Forms, n : Int, word : Words]

Has(p, field) == field \in DOMAIN p

\* fmt.Sprint writes a float64, which every JSON number is decoded to, with
\* an exponent from 10^6 on ("1e+06"); the text of such a number is no integer
\* for strconv.ParseInt.
SprintExponent == 1000000

ParsesInt(v) ==
    \/ v.form = "numeral"
    \/ v.form = "number" /\ v.n \in (1 - SprintExponent) .. (SprintExponent - 1)

\* strconv.ParseFloat reads every number, with an exponent or not.
ParsesFloat(v) == v.form \in {"number", "numeral", "fraction"}

\* json.Unmarshal into the int or string field of a request: zero unless the
\* value has that type.
IntField(p, field) ==
    IF p # NotObject /\ Has(p, field) /\ p[field].form = "number"
    THEN p[field].n ELSE 0

TextField(p, field) ==
    IF p # NotObject /\ Has(p, field) /\ p[field].form \in {"word", "numeral"}
    THEN p[field].word ELSE NoText

-----------------------------------------------------------------------------
(* The error of a refused payload, "none" if the command goes on to send.    *)

\* off by one
PositiveRefusalLoose(p, field) ==
    IF ~Has(p, field) THEN "none"
    ELSE IF ~ParsesInt(p[field]) THEN "must be a integer"
    ELSE IF p[field].n < 0 THEN "must be g(0)"
    ELSE "none"

PositiveRefusal(p, field) ==
    IF ~Has(p, field) THEN "none"
    ELSE IF ~ParsesInt(p[field]) THEN "must be a integer"
    ELSE IF p[field].n < 1 THEN "must be g(0)"
    ELSE "none"

ResetRefusal(p) == IF p = NotObject THEN "no valid json" ELSE "none"

GetConfigurationRefusal(p) ==
    IF p # NotObject /\ Has(p, "key") /\ p["key"].form = "repeated"
    THEN "payload not valid" ELSE "none"

ChangeConfigurationRefusal(p) ==
    IF TextField(p, "key") = NoText \/ TextField(p, "value") = NoText
    THEN "payload not valid" ELSE "none"

RemoteStartTransactionRefusal(p) ==
    IF p = NotObject THEN "no valid json"
    ELSE IF ~Has(p, "idTag") THEN "IdTag is required"
    ELSE IF PositiveRefusal(p, "connectorId") # "none"
         THEN PositiveRefusal(p, "connectorId")
    ELSE PositiveRefusal(p, "duration")

RemoteStopTransactionRefusal(p) ==
    IF p = NotObject THEN "no valid json"
    ELSE IF ~Has(p, "transactionId") THEN "must be a integer"
    ELSE IF ~ParsesInt(p["transactionId"]) THEN "must be a integer"
    ELSE IF p["transactionId"].n < 0 THEN "must be gte(0)"
    ELSE "none"

UnlockConnectorRefusal(p) ==
    IF p = NotObject THEN "no valid json"
    ELSE IF ~Has(p, "connectorId") THEN "connectorId is required"
    ELSE IF ~ParsesInt(p["connectorId"]) THEN "must be a integer"
    ELSE "none"

\* A payload that is no JSON object is taken for one without fields.
ReserveNowRefusal(p) ==
    IF /\ p # NotObject
       /\ Has(p, "idTag") /\ p["idTag"] # Word(NoText)
       /\ Has(p, "expiryDate") /\ ParsesFloat(p["expiryDate"])
    THEN "none" ELSE "payload not valid"

CancelReservationRefusal(p) ==
    IF IntField(p, "reservationId") < 0 THEN "payload not valid" ELSE "none"

SendLocalListVersionRefusal(p) ==
    IF p = NotObject THEN "no valid json"
    ELSE IF ~Has(p, "listVersion") THEN "must be a integer"
    ELSE IF ~ParsesInt(p["listVersion"]) THEN "must be a integer"
    ELSE "none"

\* What ends the process by log.Fatal: a payload that does not fit the request.
Fatal(action, p) ==
    /\ action = SET_CHARGING_PROFILE
    /\ p # NotObject => Has(p, "connectorId") /\ p["connectorId"].form # "number"

\* ChangeAvailability, ClearCache, GetLocalListVersion check nothing.
Refusal(action, p) ==
    CASE action = RESET                    -> ResetRefusal(p)
      [] action = GET_CONFIGURATION        -> GetConfigurationRefusal(p)
      [] action = CHANGE_CONFIGURATION     -> ChangeConfigurationRefusal(p)
      [] action = REMOTE_START_TRANSACTION -> RemoteStartTransactionRefusal(p)
      [] action = REMOTE_STOP_TRANSACTION  -> RemoteStopTransactionRefusal(p)
      [] action = UNLOCK_CONNECTOR         -> UnlockConnectorRefusal(p)
      [] action = RESERVE_NOW              -> ReserveNowRefusal(p)
      [] action = CANCEL_RESERVATION       -> CancelReservationRefusal(p)
      [] action = SEND_LOCAL_LIST_VERSION  -> SendLocalListVersionRefusal(p)
      [] action = CLEAR_CHARGING_PROFILE   -> "not.implemented"
      [] action = GET_COMPOSITE_SCHEDULE   -> "not.implemented"
      [] OTHER                             -> "none"

-----------------------------------------------------------------------------
(* What is sent to the charge point, for a payload that is not refused.      *)

Message(action, text, number, duration) ==
    [action |-> action, text |-> text, number |-> number, duration |-> duration]

Messages == [action : AllActions, text : Words, number : Int, duration : Int]

\* -1 stands for a connectorId or a duration that was not given, and is sent.
OrMinusOne(p, field) == IF Has(p, field) THEN p[field].n ELSE -1

ResetMessage(p) ==
    Message(RESET, IF TextField(p, "type") = "Hard" THEN "Hard" ELSE "Soft", 0, 0)

\* What keys are asked for, and their number, make no difference here.
GetConfigurationMessage == Message(GET_CONFIGURATION, NoText, 0, 0)

ChangeConfigurationMessage(p) ==
    Message(CHANGE_CONFIGURATION, TextField(p, "key"), 0, 0)

\* Nothing is checked: what is missing is sent as zero and as the empty text.
ChangeAvailabilityMessage(p) ==
    Message(CHANGE_AVAILABILITY, TextField(p, "type"), IntField(p, "connectorId"), 0)

RemoteStartTransactionMessage(p) ==
    Message(REMOTE_START_TRANSACTION, "tag",
            OrMinusOne(p, "connectorId"), OrMinusOne(p, "duration"))

RemoteStopTransactionMessage(p) ==
    Message(REMOTE_STOP_TRANSACTION, NoText, p["transactionId"].n, 0)

UnlockConnectorMessage(p) ==
    Message(UNLOCK_CONNECTOR, NoText, p["connectorId"].n, 0)

ClearCacheMessage == Message(CLEAR_CACHE, NoText, 0, 0)

\* A connectorId that is missing or no integer is sent as zero.
ReserveNowMessage(p) ==
    Message(RESERVE_NOW, "tag",
            IF Has(p, "connectorId") /\ ParsesInt(p["connectorId"])
            THEN p["connectorId"].n ELSE 0, 0)

CancelReservationMessage(p) ==
    Message(CANCEL_RESERVATION, NoText, IntField(p, "reservationId"), 0)

SendLocalListVersionMessage(p) ==
    Message(SEND_LOCAL_LIST_VERSION, NoText, p["listVersion"].n, 0)

GetLocalListVersionMessage == Message(GET_LOCAL_LIST_VERSION, NoText, 0, 0)

SetChargingProfileMessage(p) ==
    Message(SET_CHARGING_PROFILE, NoText, IntField(p, "connectorId"), 0)

Sent(action, p) ==
    CASE action = RESET                    -> ResetMessage(p)
      [] action = GET_CONFIGURATION        -> GetConfigurationMessage
      [] action = CHANGE_CONFIGURATION     -> ChangeConfigurationMessage(p)
      [] action = CHANGE_AVAILABILITY      -> ChangeAvailabilityMessage(p)
      [] action = REMOTE_START_TRANSACTION -> RemoteStartTransactionMessage(p)
      [] action = REMOTE_STOP_TRANSACTION  -> RemoteStopTransactionMessage(p)
      [] action = UNLOCK_CONNECTOR         -> UnlockConnectorMessage(p)
      [] action = CLEAR_CACHE              -> ClearCacheMessage
      [] action = RESERVE_NOW              -> ReserveNowMessage(p)
      [] action = CANCEL_RESERVATION       -> CancelReservationMessage(p)
      [] action = SEND_LOCAL_LIST_VERSION  -> SendLocalListVersionMessage(p)
      [] action = GET_LOCAL_LIST_VERSION   -> GetLocalListVersionMessage
      [] action = SET_CHARGING_PROFILE     -> SetChargingProfileMessage(p)

-----------------------------------------------------------------------------
(* The response made of an answer.  A charge point answers with a status of  *)
(* the command, or with an error.                                            *)

Response(payload, err) == [payload |-> payload, err |-> err]

ErrorResponse(err) == Response("none", err)

Errors == {"command.format.not.valid", "command.action.not.found", "request.timeout",
           "command.message.not.send", "key.unsupported", "readonly",
           "no valid json", "payload not valid", "IdTag is required",
           "connectorId is required", "must be a integer", "must be g(0)",
           "must be gte(0)", "not.implemented", "request.error"}

ResetStatuses               == {"Accepted", "Rejected"}
ChangeConfigurationStatuses == {"Accepted", "Rejected", "RebootRequired", "NotSupported"}
ChangeAvailabilityStatuses  == {"Accepted", "Rejected", "Scheduled"}
RemoteStartStopStatuses     == {"Accepted", "Rejected"}
UnlockStatuses              == {"Unlocked", "UnlockFailed", "NotSupported"}
ClearCacheStatuses          == {"Accepted", "Rejected"}
CancelReservationStatuses   == {"Accepted", "Rejected"}
UpdateStatuses              == {"Accepted", "Failed", "NotSupported", "VersionMismatch"}
ChargingProfileStatuses     == {"Accepted", "Rejected"}

\* Faulted, Occupied and Unavailable are handled as Rejected is.
ReservationStatuses         == {"Accepted", "Rejected"}

\* The configuration keys have values, or one of them has none.
Configurations == {"Values", "MissingValue"}

\* The version of the local list, whichever it is.
ListVersions == {"Version"}

Statuses(action) ==
    CASE action = RESET                -> ResetStatuses
      [] action = GET_CONFIGURATION    -> Configurations
      [] action = CHANGE_CONFIGURATION -> ChangeConfigurationStatuses
      [] action = CHANGE_AVAILABILITY  -> ChangeAvailabilityStatuses
      [] action = UNLOCK_CONNECTOR     -> UnlockStatuses
      [] action = CLEAR_CACHE          -> ClearCacheStatuses
      [] action = RESERVE_NOW          -> ReservationStatuses
      [] action = CANCEL_RESERVATION   -> CancelReservationStatuses
      [] action = SEND_LOCAL_LIST_VERSION -> UpdateStatuses
      [] action = GET_LOCAL_LIST_VERSION  -> ListVersions
      [] action = SET_CHARGING_PROFILE    -> ChargingProfileStatuses
      [] OTHER                         -> RemoteStartStopStatuses

ChangeConfigurationResponse(status) ==
    CASE status = "NotSupported" -> ErrorResponse("key.unsupported")
      [] status = "Rejected"     -> ErrorResponse("readonly")
      [] OTHER                   -> Response(status, "none")

\* An error answer makes a response with neither payload nor error, but for the
\* commands about the local list.
ErrorAnswerResponse(action) ==
    IF action \in {SEND_LOCAL_LIST_VERSION, GET_LOCAL_LIST_VERSION}
    THEN ErrorResponse("request.error") ELSE Response("none", "none")

ResponseTo(action, answer) ==
    IF answer = "error" THEN ErrorAnswerResponse(action)
    ELSE IF action = CHANGE_CONFIGURATION THEN ChangeConfigurationResponse(answer)
    ELSE Response(answer, "none")

=============================================================================
