-------------------------- MODULE CommandBridgeProofs --------------------------
(* Theorems about CommandBridge and Commands for every value of the          *)
(* constants.                                                                *)
EXTENDS CommandBridgeInvariants, TLAPS

(***************************************************************************)
(* The commands as functions of their data.                                *)
(***************************************************************************)

Payload(p) == p # NotObject => \A field \in DOMAIN p : p[field] \in Value

\* A refused payload is answered with one of the errors.
LEMMA RefusalType ==
  ASSUME NEW a, NEW p PROVE Refusal(a, p) \in Errors \cup {"none"}
<1>1. PositiveRefusal(p, "connectorId") \in Errors \cup {"none"}
  BY DEF PositiveRefusal, Errors
<1>2. PositiveRefusal(p, "duration") \in Errors \cup {"none"}
  BY DEF PositiveRefusal, Errors
<1>3. RemoteStartTransactionRefusal(p) \in Errors \cup {"none"}
  BY <1>1, <1>2 DEF RemoteStartTransactionRefusal, Errors
<1>4. RemoteStopTransactionRefusal(p) \in Errors \cup {"none"}
  BY DEF RemoteStopTransactionRefusal, Errors
<1>5. UnlockConnectorRefusal(p) \in Errors \cup {"none"}
  BY DEF UnlockConnectorRefusal, Errors
<1>6. /\ ResetRefusal(p) \in Errors \cup {"none"}
      /\ GetConfigurationRefusal(p) \in Errors \cup {"none"}
      /\ ChangeConfigurationRefusal(p) \in Errors \cup {"none"}
  BY DEF ResetRefusal, GetConfigurationRefusal, ChangeConfigurationRefusal, Errors
<1>7. /\ ReserveNowRefusal(p) \in Errors \cup {"none"}
      /\ CancelReservationRefusal(p) \in Errors \cup {"none"}
      /\ SendLocalListVersionRefusal(p) \in Errors \cup {"none"}
      /\ "not.implemented" \in Errors
  BY DEF ReserveNowRefusal, CancelReservationRefusal, SendLocalListVersionRefusal, Errors
<1> QED
  BY <1>3, <1>4, <1>5, <1>6, <1>7
     DEF Refusal, RESET, GET_CONFIGURATION, CHANGE_CONFIGURATION,
         REMOTE_START_TRANSACTION, REMOTE_STOP_TRANSACTION, UNLOCK_CONNECTOR,
         RESERVE_NOW, CANCEL_RESERVATION, SEND_LOCAL_LIST_VERSION,
         CLEAR_CHARGING_PROFILE, GET_COMPOSITE_SCHEDULE

\* A number that a remote start accepts is positive, or was not given.
LEMMA PositiveOrMissing ==
  ASSUME NEW p, p # NotObject, Payload(p), NEW field,
         PositiveRefusal(p, field) = "none"
  PROVE  /\ OrMinusOne(p, field) \in Int
         /\ OrMinusOne(p, field) = -1 \/ OrMinusOne(p, field) > 0
BY DEF PositiveRefusal, OrMinusOne, Payload, Has, Value

LEMMA MessageType ==
  ASSUME NEW a \in AllActions, NEW text \in Words, NEW number \in Int, NEW duration \in Int
  PROVE  Message(a, text, number, duration) \in Messages
BY DEF Message, Messages

LEMMA FieldTypes ==
  ASSUME NEW p, Payload(p), NEW field
  PROVE  TextField(p, field) \in Words /\ IntField(p, field) \in Int
<1>1. p # NotObject /\ Has(p, field) => p[field].word \in Words /\ p[field].n \in Int
  BY DEF Payload, Has, Value
<1>2. TextField(p, field) \in Words
  BY <1>1, WordsAssumption DEF TextField
<1>3. IntField(p, field) \in Int
  BY <1>1 DEF IntField
<1> QED
  BY <1>2, <1>3

\* What the checks let pass is sent within the ranges they state.
LEMMA RemoteStartSent ==
  ASSUME NEW p, Payload(p), RemoteStartTransactionRefusal(p) = "none"
  PROVE  LET m == RemoteStartTransactionMessage(p) IN
         /\ m \in Messages
         /\ m.action = REMOTE_START_TRANSACTION
         /\ m.number # 0 /\ m.number >= -1
         /\ m.duration # 0 /\ m.duration >= -1
<1>1. /\ p # NotObject
      /\ PositiveRefusal(p, "connectorId") = "none"
      /\ PositiveRefusal(p, "duration") = "none"
  BY DEF RemoteStartTransactionRefusal
<1>2. /\ OrMinusOne(p, "connectorId") \in Int
      /\ OrMinusOne(p, "connectorId") = -1 \/ OrMinusOne(p, "connectorId") > 0
  BY <1>1, PositiveOrMissing
<1>3. /\ OrMinusOne(p, "duration") \in Int
      /\ OrMinusOne(p, "duration") = -1 \/ OrMinusOne(p, "duration") > 0
  BY <1>1, PositiveOrMissing
<1> QED
  <2>1. RemoteStartTransactionMessage(p) \in Messages
    BY <1>2, <1>3, MessageType, WordsAssumption DEF RemoteStartTransactionMessage, AllActions, Handlers
  <2> QED
    BY <1>2, <1>3, <2>1 DEF RemoteStartTransactionMessage, Message

LEMMA RemoteStopSent ==
  ASSUME NEW p, Payload(p), RemoteStopTransactionRefusal(p) = "none"
  PROVE  LET m == RemoteStopTransactionMessage(p) IN
         /\ m \in Messages
         /\ m.action = REMOTE_STOP_TRANSACTION
         /\ m.number >= 0
<1>1. p["transactionId"].n \in Int /\ p["transactionId"].n >= 0
  BY DEF RemoteStopTransactionRefusal, Payload, Has, Value
<1> QED
  <2>1. REMOTE_STOP_TRANSACTION \in AllActions
    BY DEF AllActions, Handlers
  <2>2. RemoteStopTransactionMessage(p) \in Messages
    BY <1>1, <2>1, MessageType, WordsAssumption DEF RemoteStopTransactionMessage
  <2> QED
    BY <1>1, <2>2 DEF RemoteStopTransactionMessage, Message

LEMMA SentType ==
  ASSUME NEW a \in AllActions, NEW p, Payload(p), Refusal(a, p) = "none"
  PROVE  Sent(a, p) \in Messages /\ InRange(Sent(a, p))
<1> USE WordsAssumption DEF RESET, GET_CONFIGURATION, CHANGE_CONFIGURATION, CHANGE_AVAILABILITY,
            REMOTE_START_TRANSACTION, REMOTE_STOP_TRANSACTION, UNLOCK_CONNECTOR,
            CLEAR_CACHE, RESERVE_NOW, CANCEL_RESERVATION, SEND_LOCAL_LIST_VERSION,
            GET_LOCAL_LIST_VERSION, CLEAR_CHARGING_PROFILE, GET_COMPOSITE_SCHEDULE,
            SET_CHARGING_PROFILE
<1>1. CASE a = REMOTE_START_TRANSACTION
  BY <1>1, RemoteStartSent DEF Refusal, Sent, InRange
<1>2. CASE a = REMOTE_STOP_TRANSACTION
  BY <1>2, RemoteStopSent DEF Refusal, Sent, InRange
<1>3. CASE a = UNLOCK_CONNECTOR
  <2>1. p["connectorId"].n \in Int
    BY <1>3 DEF Refusal, UnlockConnectorRefusal, Payload, Has, Value
  <2> QED
    BY <1>3, <2>1, MessageType DEF Sent, UnlockConnectorMessage, InRange, Message
<1>4. CASE a = RESET
  BY <1>4, MessageType DEF Sent, ResetMessage, InRange, Message
<1>5. CASE a = GET_CONFIGURATION
  BY <1>5, MessageType DEF Sent, GetConfigurationMessage, InRange, Message
<1>6. CASE a = CHANGE_CONFIGURATION
  BY <1>6, FieldTypes, MessageType DEF Sent, ChangeConfigurationMessage, InRange, Message
<1>7. CASE a = CHANGE_AVAILABILITY
  BY <1>7, FieldTypes, MessageType DEF Sent, ChangeAvailabilityMessage, InRange, Message
<1>8. CASE a = CLEAR_CACHE
  BY <1>8, MessageType DEF Sent, ClearCacheMessage, InRange, Message
<1>9. CASE a = RESERVE_NOW
  <2>1. p # NotObject /\ (Has(p, "connectorId") => p["connectorId"].n \in Int)
    BY <1>9 DEF Refusal, ReserveNowRefusal, Payload, Has, Value
  <2> QED
    BY <1>9, <2>1, MessageType DEF Sent, ReserveNowMessage, InRange, Message
<1>10. CASE a = CANCEL_RESERVATION
  <2>1. IntField(p, "reservationId") \in Int /\ IntField(p, "reservationId") >= 0
    BY <1>10, FieldTypes DEF Refusal, CancelReservationRefusal
  <2>2. CancelReservationMessage(p) \in Messages
    BY <1>10, <2>1, MessageType DEF CancelReservationMessage
  <2> QED
    BY <1>10, <2>1, <2>2 DEF Sent, CancelReservationMessage, InRange, Message
<1>11. CASE a = SEND_LOCAL_LIST_VERSION
  <2>1. p["listVersion"].n \in Int
    BY <1>11 DEF Refusal, SendLocalListVersionRefusal, Payload, Has, Value
  <2> QED
    BY <1>11, <2>1, MessageType DEF Sent, SendLocalListVersionMessage, InRange, Message
<1>12. CASE a = GET_LOCAL_LIST_VERSION
  BY <1>12, MessageType DEF Sent, GetLocalListVersionMessage, InRange, Message
<1>13. CASE a = SET_CHARGING_PROFILE
  BY <1>13, FieldTypes, MessageType DEF Sent, SetChargingProfileMessage, InRange, Message
<1>14. CASE a \in {CLEAR_CHARGING_PROFILE, GET_COMPOSITE_SCHEDULE}
  BY <1>14 DEF Refusal
<1> QED
  BY <1>1, <1>2, <1>3, <1>4, <1>5, <1>6, <1>7, <1>8, <1>9, <1>10, <1>11, <1>12, <1>13, <1>14
     DEF AllActions, Handlers, Dormant

\* Whatever a charge point answers, the response is one that clients expect.
LEMMA ResponseType ==
  ASSUME NEW a \in AllActions, NEW answer \in Statuses(a) \cup {"error"}
  PROVE  ResponseTo(a, answer) \in Responses
<1>1. \A err \in Errors : ErrorResponse(err) \in Responses
  BY DEF Responses
<1>2. Response("none", "none") \in Responses
  BY DEF Responses
<1>3. answer \in Statuses(a) => Response(answer, "none") \in Responses
  BY DEF Responses, AllStatuses
<1> QED
  BY <1>1, <1>2, <1>3
     DEF ResponseTo, ErrorAnswerResponse, ChangeConfigurationResponse, Errors

(***************************************************************************)
(* Types.                                                                  *)
(***************************************************************************)

LEMMA RequestsAreNumbers == RequestTypeOK => 1 .. Len(requests) \subseteq Numbers
BY BridgeAssumption DEF RequestTypeOK, Numbers

LEMMA RequestType ==
  ASSUME RequestTypeOK, NEW n \in 1 .. Len(requests)
  PROVE  requests[n] \in ClientCommands /\ Payload(requests[n].payload)
BY BridgeAssumption DEF RequestTypeOK, Payload

LEMMA ErrorType == \A err \in Errors : ErrorResponse(err) \in Responses
BY DEF Responses

LEMMA NoResponseType == NoResponse \in Responses /\ TimedOut \in Responses
BY DEF Responses, NoResponse, TimedOut, ErrorResponse, Errors

\* What the goroutine of a request does: it changes its task and its messages
\* only, and it has begun and not ended before and after.
Working(n) == task[n].pc \notin {"none", "done"}

LEMMA TaskStep ==
  ASSUME TaskTypeOK, MessageTypeOK, NEW n \in Numbers, Action(n) \/ Callback(n)
  PROVE  /\ UNCHANGED frame
         /\ \A k \in Numbers \ {n} : task'[k] = task[k] /\ messages'[k] = messages[k]
         /\ Working(n) /\ Working(n)'
<1> USE DEF TaskTypeOK, MessageTypeOK, Task, Working, At, Goto, Respond, frame
<1>1. ASSUME FatalPayload(n) \/ RefusePayload(n) \/ AcceptPayload(n)
      PROVE  Working(n) /\ Working(n)'
  BY <1>1 DEF FatalPayload, RefusePayload, AcceptPayload
<1>2. ASSUME IdLoad(n) \/ IdStore(n) \/ IdRead(n) PROVE Working(n) /\ Working(n)'
  BY <1>2 DEF IdLoad, IdStore, IdRead
<1>3. ASSUME Send(n) \/ SendFails(n) PROVE Working(n) /\ Working(n)'
  BY <1>3 DEF Send, SendFails
<1>4. ASSUME NEW answer \in Answers(n), Answer(n, answer) PROVE Working(n) /\ Working(n)'
  BY <1>4 DEF Answer
<1>5. ASSUME UndoLoad(n) \/ UndoStore(n) \/ Crash(n) PROVE Working(n) /\ Working(n)'
  BY <1>5 DEF UndoLoad, UndoStore, Crash
<1>6. Working(n) /\ Working(n)'
  BY <1>1, <1>2, <1>3, <1>4, <1>5 DEF Action, Callback
<1>7. /\ UNCHANGED frame
      /\ \A k \in Numbers \ {n} : task'[k] = task[k] /\ messages'[k] = messages[k]
  BY DEF Action, Callback, FatalPayload, RefusePayload, AcceptPayload, IdLoad, IdStore,
         IdRead, Send, SendFails, Answer, UndoLoad, UndoStore, Crash
<1> QED
  BY <1>6, <1>7

LEMMA GotoType ==
  ASSUME TaskTypeOK, NEW n \in Numbers, NEW label \in PCs, Goto(n, label)
  PROVE  task' \in [Numbers -> Task]
BY DEF TaskTypeOK, Goto, Task

LEMMA SeenType ==
  ASSUME TaskTypeOK, NEW n \in Numbers, NEW label \in PCs, NEW k \in Int,
         task' = [task EXCEPT ![n].pc = label, ![n].seen = k]
  PROVE  task' \in [Numbers -> Task]
BY DEF TaskTypeOK, Task

LEMMA RespondType ==
  ASSUME TaskTypeOK, NEW n \in Numbers, NEW x \in Responses, Respond(n, x)
  PROVE  task' \in [Numbers -> Task]
BY DEF TaskTypeOK, Respond, Task, PCs

LEMMA ReplyType ==
  ASSUME RequestTypeOK, NEW n \in Numbers, replies[n] = << >>,
         NEW x \in Responses, Reply(n, x)
  PROVE  /\ replies' = [replies EXCEPT ![n] = <<x>>]
         /\ replies' \in [Numbers -> Seq(Responses)]
         /\ \A k \in Numbers : Len(replies'[k]) <= 1
<1>1. replies' = [replies EXCEPT ![n] = <<x>>]
  BY DEF RequestTypeOK, Reply
<1> QED
  BY <1>1 DEF RequestTypeOK

\* What requestHandler takes next is a request that has no reply yet, and what
\* it serves has none either.
LEMMA HandlerFacts ==
  ASSUME RequestTypeOK, Unreplied
  PROVE  /\ taken < Len(requests) =>
              taken + 1 \in Numbers /\ replies[taken + 1] = << >>
         /\ serving # 0 => serving \in Numbers /\ replies[serving] = << >>
BY BridgeAssumption DEF RequestTypeOK, Unreplied, Numbers

\* requestHandler and the clients: they keep the types of what they write.
LEMMA HandlerType ==
  ASSUME RequestTypeOK, TaskTypeOK, Unreplied,
         RequestHandler \/ \E c \in ClientCommands : Publish(c)
  PROVE  /\ RequestTypeOK' /\ TaskTypeOK'
         /\ UNCHANGED <<messages, crashed>>
<1>1. ASSUME NEW c \in ClientCommands, Publish(c) PROVE RequestTypeOK' /\ TaskTypeOK'
  <2>1. requests' \in Seq(ClientCommands) /\ Len(requests') = Len(requests) + 1
    BY <1>1 DEF Publish, RequestTypeOK
  <2> QED
    BY <1>1, <2>1, BridgeAssumption DEF Publish, RequestTypeOK, TaskTypeOK
<1>2. ASSUME RefuseFormat PROVE RequestTypeOK' /\ TaskTypeOK'
  <2>1. ErrorResponse("command.format.not.valid") \in Responses
    BY ErrorType DEF Errors
  <2> QED
    BY <1>2, <2>1, HandlerFacts, ReplyType DEF RefuseFormat, Take, RequestTypeOK, TaskTypeOK
<1>3. ASSUME RefuseAction PROVE RequestTypeOK' /\ TaskTypeOK'
  <2>1. ErrorResponse("command.action.not.found") \in Responses
    BY ErrorType DEF Errors
  <2> QED
    BY <1>3, <2>1, HandlerFacts, ReplyType DEF RefuseAction, Take, RequestTypeOK, TaskTypeOK
<1>4. ASSUME Dispatch PROVE RequestTypeOK' /\ TaskTypeOK'
  <2>1. TaskTypeOK'
    BY <1>4, HandlerFacts, GotoType DEF Dispatch, Take, TaskTypeOK, PCs
  <2> QED
    BY <1>4, <2>1 DEF Dispatch, Take, RequestTypeOK
<1>5. ASSUME Deliver PROVE RequestTypeOK' /\ TaskTypeOK'
  <2>1. TaskTypeOK'
    BY <1>5, HandlerFacts, GotoType DEF Deliver, TaskTypeOK, PCs
  <2>2. serving \in Numbers /\ replies[serving] = << >> /\ task[serving].response \in Responses
    BY <1>5, HandlerFacts DEF Deliver, TaskTypeOK, Task
  <2> QED
    BY <1>5, <2>1, <2>2, ReplyType DEF Deliver, RequestTypeOK
<1>6. ASSUME TimeOut PROVE RequestTypeOK' /\ TaskTypeOK'
  <2>1. serving \in Numbers /\ replies[serving] = << >>
    BY <1>6, HandlerFacts DEF TimeOut
  <2> QED
    BY <1>6, <2>1, NoResponseType, ReplyType DEF TimeOut, RequestTypeOK, TaskTypeOK
<1>7. UNCHANGED <<messages, crashed>>
  BY DEF RequestHandler, Publish, RefuseFormat, RefuseAction, Dispatch, Deliver, TimeOut
<1> QED
  BY <1>1, <1>2, <1>3, <1>4, <1>5, <1>6, <1>7 DEF RequestHandler

\* A task keeps the types of what it writes.
LEMMA TaskType ==
  ASSUME RequestTypeOK, TaskTypeOK, MessageTypeOK, Dispatched, SentWhenChecked,
         NEW n \in 1 .. Len(requests), Action(n) \/ Callback(n)
  PROVE  TaskTypeOK' /\ MessageTypeOK'
<1> DEFINE a == requests[n].action
           p == requests[n].payload
<1>1. n \in Numbers /\ Payload(p)
  BY RequestsAreNumbers, RequestType
<1>2. Working(n) /\ a \in AllActions
  BY <1>1, TaskStep, BridgeAssumption DEF Dispatched, Working
<1> USE <1>1
<1>3. ASSUME RefusePayload(n) PROVE TaskTypeOK' /\ MessageTypeOK'
  <2>1. ErrorResponse(Refusal(a, p)) \in Responses
    BY <1>3, RefusalType, ErrorType DEF RefusePayload
  <2> QED
    BY <1>3, <2>1, RespondType DEF RefusePayload, TaskTypeOK, MessageTypeOK
<1>4. ASSUME AcceptPayload(n) PROVE TaskTypeOK' /\ MessageTypeOK'
  BY <1>4, GotoType DEF AcceptPayload, PCs, TaskTypeOK, MessageTypeOK
<1>5. ASSUME IdStore(n) \/ UndoStore(n) PROVE TaskTypeOK' /\ MessageTypeOK'
  <2>1. ids' \in [Numbered -> Int]
    BY <1>5 DEF IdStore, UndoStore, TaskTypeOK, Task
  <2>2. task' \in [Numbers -> Task]
    <3>1. "read" \in PCs /\ "respond" \in PCs /\ 0 \in Int
      BY DEF PCs
    <3>2. CASE IdStore(n)
      BY <3>1, <3>2, GotoType DEF IdStore
    <3>3. CASE UndoStore(n)
      BY <3>1, <3>3, SeenType DEF UndoStore
    <3> QED
      BY <1>5, <3>2, <3>3
  <2> QED
    BY <1>5, <2>1, <2>2 DEF IdStore, UndoStore, TaskTypeOK, MessageTypeOK
<1>6. ASSUME IdLoad(n) \/ IdRead(n) \/ UndoLoad(n)
      PROVE  TaskTypeOK' /\ MessageTypeOK'
  <2>1. a \in Numbered
    BY <1>6 DEF IdLoad, IdRead, UndoLoad, At, SentWhenChecked, Numbering
  <2>2. ids[a] \in Int
    BY <2>1 DEF TaskTypeOK
  <2>3. PICK label \in PCs : task' = [task EXCEPT ![n].pc = label, ![n].seen = ids[a]]
    BY <1>6 DEF IdLoad, IdRead, UndoLoad, PCs
  <2>4. task' \in [Numbers -> Task]
    BY <2>2, <2>3, SeenType
  <2> QED
    BY <1>6, <2>4 DEF IdLoad, IdRead, UndoLoad, TaskTypeOK, MessageTypeOK
<1>7. ASSUME Send(n) PROVE TaskTypeOK' /\ MessageTypeOK'
  <2> DEFINE m == [sent |-> Sent(a, p), id |-> task[n].seen]
  <2>1. messages[n] = << >> /\ Sent(a, p) \in Messages
    BY <1>2, <1>7, SentType DEF Send, At, SentWhenChecked, Preparing, Numbering
  <2>2. m \in Sendings
    BY <2>1 DEF TaskTypeOK, Task, Sendings
  <2>3. messages' = [messages EXCEPT ![n] = <<m>>]
    BY <1>7, <2>1 DEF Send, MessageTypeOK
  <2> HIDE DEF m
  <2>4. MessageTypeOK'
    BY <2>2, <2>3 DEF MessageTypeOK
  <2>5. task' \in [Numbers -> Task]
    <3>1. "sent" \in PCs /\ 0 \in Int
      BY DEF PCs
    <3>2. task' = [task EXCEPT ![n].pc = "sent", ![n].seen = 0]
      BY <1>7 DEF Send
    <3> QED
      BY <3>1, <3>2, SeenType
  <2> QED
    BY <1>7, <2>4, <2>5 DEF Send, TaskTypeOK
<1>8. ASSUME SendFails(n) PROVE TaskTypeOK' /\ MessageTypeOK'
  <2>1. ErrorResponse("command.message.not.send") \in Responses
    BY ErrorType DEF Errors
  <2>2. PICK label \in PCs :
          task' = [task EXCEPT ![n].pc = label,
                               ![n].response = ErrorResponse("command.message.not.send")]
    BY <1>8 DEF SendFails, PCs
  <2>3. task' \in [Numbers -> Task]
    BY <2>1, <2>2 DEF TaskTypeOK, Task
  <2> QED
    BY <1>8, <2>3 DEF SendFails, TaskTypeOK, MessageTypeOK
<1>9. ASSUME NEW answer \in Answers(n), Answer(n, answer)
      PROVE  TaskTypeOK' /\ MessageTypeOK'
  <2>1. ResponseTo(a, answer) \in Responses /\ answer \in AllStatuses \cup {"none", "error"}
    BY <1>2, ResponseType DEF Answers, AllStatuses
  <2> DEFINE label == IF TakesBack(n, answer) THEN "undoLoad" ELSE "respond"
             told == IF a = RESERVE_NOW /\ answer = "Accepted" THEN ids[RESERVE_NOW] ELSE 0
             v == [task[n] EXCEPT !.pc = label, !.answer = answer,
                                  !.response = ResponseTo(a, answer), !.reported = told]
  <2>2. task' = [task EXCEPT ![n] = v]
    BY <1>9 DEF Answer
  <2>3. label \in PCs /\ told \in Int
    BY DEF PCs, TaskTypeOK, Numbered
  <2> HIDE DEF label, told
  <2>4. v \in Task
    BY <2>1, <2>3 DEF TaskTypeOK, Task
  <2> HIDE DEF v
  <2>5. UNCHANGED <<messages, ids>>
    BY <1>9 DEF Answer
  <2> QED
    BY <2>2, <2>4, <2>5 DEF TaskTypeOK, MessageTypeOK
<1>10. ASSUME Crash(n) PROVE TaskTypeOK' /\ MessageTypeOK'
  BY <1>10 DEF Crash, TaskTypeOK, MessageTypeOK
<1>11. ASSUME FatalPayload(n) PROVE TaskTypeOK' /\ MessageTypeOK'
  BY <1>11 DEF FatalPayload, TaskTypeOK, MessageTypeOK
<1> QED
  BY <1>3, <1>4, <1>5, <1>6, <1>7, <1>8, <1>9, <1>10, <1>11 DEF Action, Callback

LEMMA CrashedType ==
  ASSUME crashed \in BOOLEAN, Next PROVE crashed' \in BOOLEAN
BY Zenon DEF Next, Publish, RequestHandler, RefuseFormat, RefuseAction, Dispatch, Deliver,
       TimeOut, Action, Callback, FatalPayload, RefusePayload, AcceptPayload, IdLoad, IdStore,
       IdRead, Send, SendFails, Answer, UndoLoad, UndoStore, Crash, Idle, Stopped, vars

LEMMA TypeStep == TypeOK /\ TasksInv /\ [Next]_vars => TypeOK'
<1> SUFFICES ASSUME TypeOK, TasksInv, Next PROVE TypeOK'
  BY DEF vars, TypeOK, RequestTypeOK, TaskTypeOK, MessageTypeOK
<1> USE DEF TypeOK, TasksInv
<1>1. CASE RequestHandler \/ \E c \in ClientCommands : Publish(c)
  BY <1>1, HandlerType DEF MessageTypeOK
<1>2. CASE \E n \in 1 .. Len(requests) : Action(n) \/ Callback(n)
  <2>1. PICK n \in 1 .. Len(requests) : Action(n) \/ Callback(n)
    BY <1>2
  <2>2. TaskTypeOK' /\ MessageTypeOK'
    BY <2>1, TaskType
  <2>3. RequestTypeOK'
    BY <2>1, RequestsAreNumbers, TaskStep DEF RequestTypeOK, frame
  <2> QED
    BY <2>2, <2>3, CrashedType
<1>3. CASE UNCHANGED vars
  BY <1>3 DEF vars, RequestTypeOK, TaskTypeOK, MessageTypeOK
<1> QED
  BY <1>1, <1>2, <1>3 DEF Next, Idle, Stopped

(***************************************************************************)
(* The inductive invariant.                                                *)
(***************************************************************************)

\* What a reply may be made of stays as it is while nobody changes it.
LEMMA OwnStays ==
  ASSUME NEW n, NEW x, requests'[n] = requests[n], messages'[n] = messages[n],
         task'[n].answer = task[n].answer, RepliedOwn(n, x)
  PROVE  RepliedOwn(n, x)'
BY DEF RepliedOwn, Answers, TimedOut

LEMMA ReplyStays ==
  ASSUME NEW n, requests'[n] = requests[n], messages'[n] = messages[n],
         task'[n].answer = task[n].answer, replies'[n] = replies[n], Replied(n)
  PROVE  Replied(n)'
BY DEF Replied, RepliedOwn, Answers, TimedOut

LEMMA ReplyMade ==
  ASSUME NEW n, NEW x, replies'[n] = <<x>>, RepliedOwn(n, x)'
  PROVE  Replied(n)'
BY DEF Replied

\* The request after those that were taken has no task yet.
LEMMA NotBegun ==
  ASSUME TypeOK, TasksInv, NEW n \in Numbers, n > taken
  PROVE  task[n].pc = "none" /\ messages[n] = << >>
BY DEF TypeOK, RequestTypeOK, Numbers, TasksInv, Dispatched, SentWhenChecked

\* Clients publish: the requests that were taken stay as they are.
LEMMA PublishInv ==
  ASSUME TypeOK, TasksInv, NEW c \in ClientCommands, Publish(c)
  PROVE  TasksInv' /\ (Served => Served') /\ (RepliesAreOwn => RepliesAreOwn')
<1>1. /\ UNCHANGED <<taken, serving, task, messages, replies>>
      /\ \A n \in 1 .. Len(requests) : requests'[n] = requests[n]
      /\ Len(requests') = Len(requests) + 1
  BY DEF Publish, TypeOK, RequestTypeOK
<1>2. \A n \in Numbers : n <= taken => requests'[n] = requests[n]
  BY <1>1 DEF TypeOK, RequestTypeOK, Numbers
<1>3. Dispatched' /\ Unreplied' /\ (Served => Served') /\ Abandoned'
  BY <1>1, <1>2 DEF TasksInv, Dispatched, Unreplied, Served, Abandoned
<1>4. SentWhenChecked'
  BY <1>1, <1>2 DEF TasksInv, Dispatched, SentWhenChecked, Preparing, Numbering
<1>5. ResponsesAreOwn'
  BY <1>1, <1>2, OwnStays DEF TasksInv, Dispatched, ResponsesAreOwn
<1>6. RepliesAreOwn => RepliesAreOwn'
  <2> SUFFICES ASSUME RepliesAreOwn, NEW n \in Numbers PROVE Replied(n)'
    BY <1>1 DEF RepliesAreOwn, Numbers
  <2>1. CASE n <= taken
    BY <1>1, <1>2, <2>1, ReplyStays DEF RepliesAreOwn
  <2>2. CASE ~(n <= taken)
    BY <1>1, <2>2 DEF TasksInv, Unreplied, Replied
  <2> QED
    BY <2>1, <2>2
<1> QED
  BY <1>3, <1>4, <1>5, <1>6 DEF TasksInv

\* A request is turned down: its reply says why, and no task begins.
LEMMA RefuseInv ==
  ASSUME TypeOK, TasksInv, RefuseFormat \/ RefuseAction
  PROVE  TasksInv' /\ (Served => Served') /\ (RepliesAreOwn => RepliesAreOwn')
<1>1. /\ serving = 0 /\ taken < Len(requests) /\ taken' = taken + 1
      /\ UNCHANGED <<requests, serving, task, messages>>
  BY DEF RefuseFormat, RefuseAction, Take
<1>2. PICK n \in Numbers : n = taken + 1 /\ replies[n] = << >>
  BY <1>1, HandlerFacts DEF TypeOK, TasksInv
<1>3. task[n].pc = "none" /\ messages[n] = << >>
  BY <1>2, NotBegun DEF TypeOK, RequestTypeOK
<1>4. PICK x \in Responses : Reply(n, x) /\ RepliedOwn(n, x)
  <2>1. CASE RefuseFormat
    BY <1>2, <1>3, <2>1, ErrorType DEF RefuseFormat, RepliedOwn, Errors
  <2>2. CASE RefuseAction
    BY <1>2, <1>3, <2>2, ErrorType DEF RefuseAction, RepliedOwn, Errors
  <2> QED
    BY <2>1, <2>2
<1>5. replies' = [replies EXCEPT ![n] = <<x>>]
  BY <1>2, <1>4, ReplyType DEF TypeOK
<1>6. Dispatched'
  BY <1>1 DEF TasksInv, Dispatched, TypeOK, RequestTypeOK, Numbers
<1>7. Unreplied' /\ (Served => Served')
  BY <1>1, <1>2, <1>5 DEF TasksInv, Unreplied, Served, TypeOK, RequestTypeOK, Numbers
<1>8. Abandoned'
  BY <1>1, <1>2, <1>3, <1>5 DEF TasksInv, Abandoned, TypeOK, RequestTypeOK, Numbers
<1>9. SentWhenChecked' /\ ResponsesAreOwn'
  BY <1>1, OwnStays
     DEF TasksInv, SentWhenChecked, ResponsesAreOwn, TypeOK, RequestTypeOK, Numbers
<1>10. RepliesAreOwn => RepliesAreOwn'
  <2> SUFFICES ASSUME RepliesAreOwn, NEW k \in Numbers PROVE Replied(k)'
    BY DEF RepliesAreOwn, Numbers
  <2>1. CASE k = n
    <3>1. RepliedOwn(n, x)'
      BY <1>1, <1>4, OwnStays
    <3> QED
      BY <1>5, <2>1, <3>1, ReplyMade DEF TypeOK, RequestTypeOK
  <2>2. CASE k # n
    BY <1>1, <1>5, <2>2, ReplyStays DEF RepliesAreOwn, TypeOK, RequestTypeOK
  <2> QED
    BY <2>1, <2>2
<1> QED
  BY <1>6, <1>7, <1>8, <1>9, <1>10 DEF TasksInv

\* A task begins.
LEMMA DispatchInv ==
  ASSUME TypeOK, TasksInv, Dispatch
  PROVE  TasksInv' /\ (Served => Served') /\ (RepliesAreOwn => RepliesAreOwn')
<1>1. /\ serving = 0 /\ taken < Len(requests) /\ taken' = taken + 1
      /\ UNCHANGED <<requests, messages, replies>>
  BY DEF Dispatch, Take
<1>2. PICK n \in Numbers : n = taken + 1 /\ replies[n] = << >>
  BY <1>1, HandlerFacts DEF TypeOK, TasksInv
<1>3. task[n].pc = "none" /\ messages[n] = << >>
  BY <1>2, NotBegun DEF TypeOK, RequestTypeOK
<1>4. /\ serving' = n /\ requests[n].action \in Registered
      /\ task' = [task EXCEPT ![n].pc = "check"]
  BY <1>2 DEF Dispatch, Goto
<1>5. /\ task'[n].pc = "check" /\ task'[n].answer = task[n].answer
      /\ \A k \in Numbers \ {n} : task'[k] = task[k]
  BY <1>4 DEF TypeOK, TaskTypeOK, Task
<1>6. Dispatched'
  BY <1>1, <1>2, <1>4, <1>5 DEF TasksInv, Dispatched, TypeOK, RequestTypeOK, Numbers
<1>7. Unreplied' /\ (Served => Served')
  BY <1>1, <1>2, <1>4 DEF TasksInv, Unreplied, Served, TypeOK, RequestTypeOK, Numbers
<1>8. Abandoned'
  BY <1>1, <1>4, <1>5 DEF TasksInv, Abandoned, TypeOK, RequestTypeOK, Numbers
<1>9. SentWhenChecked'
  BY <1>1, <1>2, <1>3, <1>5
     DEF TasksInv, SentWhenChecked, Preparing, Numbering, TypeOK, RequestTypeOK, Numbers
<1>10. ResponsesAreOwn'
  BY <1>1, <1>5, OwnStays DEF TasksInv, ResponsesAreOwn
<1>11. RepliesAreOwn => RepliesAreOwn'
  <2> SUFFICES ASSUME RepliesAreOwn, NEW k \in Numbers PROVE Replied(k)'
    BY DEF RepliesAreOwn, Numbers
  <2> QED
    BY <1>1, <1>5, ReplyStays DEF RepliesAreOwn
<1> QED
  BY <1>6, <1>7, <1>8, <1>9, <1>10, <1>11 DEF TasksInv

\* The reply to the request served, which ends its task or leaves it behind.
LEMMA EndInv ==
  ASSUME TypeOK, TasksInv, Deliver \/ TimeOut
  PROVE  TasksInv' /\ (Served => Served') /\ (RepliesAreOwn => RepliesAreOwn')
<1>1. serving # 0 /\ serving' = 0 /\ UNCHANGED <<requests, taken, messages>>
  BY DEF Deliver, TimeOut
<1>2. PICK n \in Numbers : n = serving /\ replies[n] = << >>
  BY <1>1, HandlerFacts DEF TypeOK, TasksInv
<1>3. PICK x \in Responses :
        /\ Reply(n, x) /\ RepliedOwn(n, x)
        /\ \/ task'[n].pc = "done"
           \/ x = TimedOut /\ task'[n] = task[n]
  <2>1. CASE Deliver
    <3>1. At(n, "respond") /\ Reply(n, task[n].response) /\ Goto(n, "done")
      BY <1>2, <2>1 DEF Deliver
    <3>2. task[n].response \in Responses /\ task'[n].pc = "done"
      BY <3>1 DEF Goto, TypeOK, TaskTypeOK, Task
    <3>3. RepliedOwn(n, task[n].response)
      BY <3>1 DEF At, TasksInv, ResponsesAreOwn
    <3> QED
      BY <3>1, <3>2, <3>3
  <2>2. CASE TimeOut
    BY <1>2, <2>2, NoResponseType DEF TimeOut, RepliedOwn
  <2> QED
    BY <2>1, <2>2
<1>4. /\ task'[n].answer = task[n].answer
      /\ \A k \in Numbers \ {n} : task'[k] = task[k]
      /\ task[n].pc # "none" \/ task'[n] = task[n]
  BY <1>2 DEF Deliver, TimeOut, At, Goto, TypeOK, TaskTypeOK, Task
<1>5. replies' = [replies EXCEPT ![n] = <<x>>]
  BY <1>2, <1>3, ReplyType DEF TypeOK
<1>6. Dispatched'
  BY <1>1, <1>3, <1>4 DEF TasksInv, Dispatched
<1>7. Unreplied' /\ (Served => Served')
  BY <1>1, <1>2, <1>5 DEF TasksInv, Unreplied, Served, TypeOK, RequestTypeOK, Numbers
<1>8. Abandoned'
  BY <1>1, <1>2, <1>3, <1>4, <1>5 DEF TasksInv, Abandoned, TypeOK, RequestTypeOK, Numbers
<1>9. SentWhenChecked'
  BY <1>1, <1>3, <1>4 DEF TasksInv, SentWhenChecked, Preparing, Numbering
<1>10. ResponsesAreOwn'
  <2> SUFFICES ASSUME NEW k \in Numbers, 
                      (task[k].pc \in {"undoLoad", "undoStore", "respond"})'
               PROVE  RepliedOwn(k, task[k].response)'
    BY DEF ResponsesAreOwn, Numbers
  <2>1. task'[k] = task[k]
    BY <1>3, <1>4
  <2> QED
    BY <1>1, <2>1, OwnStays DEF TasksInv, ResponsesAreOwn
<1>11. RepliesAreOwn => RepliesAreOwn'
  <2> SUFFICES ASSUME RepliesAreOwn, NEW k \in Numbers PROVE Replied(k)'
    BY DEF RepliesAreOwn, Numbers
  <2>1. CASE k = n
    <3>1. RepliedOwn(n, x)'
      BY <1>1, <1>3, <1>4, OwnStays
    <3> QED
      BY <1>5, <2>1, <3>1, ReplyMade DEF TypeOK, RequestTypeOK
  <2>2. CASE k # n
    BY <1>1, <1>4, <1>5, <2>2, ReplyStays DEF RepliesAreOwn, TypeOK, RequestTypeOK
  <2> QED
    BY <2>1, <2>2
<1> QED
  BY <1>6, <1>7, <1>8, <1>9, <1>10, <1>11 DEF TasksInv

\* The invariant's parts about the message and the response of one task.
Sound(n) ==
    /\ n > taken \/ task[n].pc \in {"check"} \cup Preparing => messages[n] = << >>
    /\ task[n].pc = "sent" => messages[n] # << >>
    /\ task[n].pc \in Preparing =>
         Refusal(requests[n].action, requests[n].payload) = "none"
    /\ task[n].pc \in Numbering => requests[n].action \in Numbered
    /\ task[n].pc \in {"undoLoad", "undoStore", "respond"}
         => RepliedOwn(n, task[n].response)

LEMMA SoundTasks == SentWhenChecked /\ ResponsesAreOwn <=> \A n \in Numbers : Sound(n)
BY DEF SentWhenChecked, ResponsesAreOwn, Sound

\* They stay true of the task that takes a step; a message stays sent.
LEMMA SoundStep ==
  ASSUME TypeOK, NEW n \in Numbers, Sound(n), n <= taken,
         requests[n].action \in Registered, Action(n) \/ Callback(n)
  PROVE  Sound(n)' /\ (messages[n] # << >> => messages'[n] = messages[n])
<1> DEFINE a == requests[n].action
           p == requests[n].payload
           Goal == Sound(n)' /\ (messages[n] # << >> => messages'[n] = messages[n])
<1>1. UNCHANGED requests /\ task \in [Numbers -> Task] /\ ~(n > taken)'
  BY TaskStep DEF frame, TypeOK, RequestTypeOK, TaskTypeOK, Numbers
<1> USE <1>1 DEF Sound, Preparing, Numbering, Numbered, At, Task
<1>2. ASSUME RefusePayload(n) PROVE Goal
  <2>1. /\ messages[n] = << >> /\ messages'[n] = << >> /\ Refusal(a, p) # "none"
        /\ task'[n].pc = "respond" /\ task'[n].response = ErrorResponse(Refusal(a, p))
    BY <1>2 DEF RefusePayload, Respond
  <2>2. RepliedOwn(n, task[n].response)'
    BY <2>1 DEF RepliedOwn
  <2> QED
    BY <2>1, <2>2
<1>3. ASSUME AcceptPayload(n) PROVE Goal
  BY <1>3 DEF AcceptPayload, Goto
<1>4. ASSUME IdLoad(n) \/ IdStore(n) \/ IdRead(n) PROVE Goal
  BY <1>4 DEF IdLoad, IdStore, IdRead, Goto
<1>5. ASSUME Send(n) PROVE Goal
  <2> DEFINE m == [sent |-> Sent(a, p), id |-> task[n].seen]
  <2>1. messages[n] = << >> /\ messages' = [messages EXCEPT ![n] = Append(@, m)]
    BY <1>5 DEF Send
  <2> HIDE DEF m
  <2>2. messages'[n] # << >>
    BY <2>1 DEF TypeOK, MessageTypeOK
  <2>3. task'[n].pc = "sent"
    BY <1>5 DEF Send, Goto
  <2> QED
    BY <2>1, <2>2, <2>3
<1>6. ASSUME SendFails(n) PROVE Goal
  <2>1. /\ messages[n] = << >> /\ messages'[n] = << >>
        /\ task'[n].pc \in {"undoLoad", "respond"}
        /\ task'[n].pc = "undoLoad" => requests[n].action = RESERVE_NOW
        /\ task'[n].response = ErrorResponse("command.message.not.send")
    BY <1>6 DEF SendFails
  <2>2. RepliedOwn(n, task[n].response)'
    BY <2>1 DEF RepliedOwn
  <2> QED
    BY <2>1, <2>2
<1>7. ASSUME NEW answer \in Answers(n), Answer(n, answer) PROVE Goal
  <2>1. /\ messages[n] # << >> /\ messages' = messages
        /\ task'[n].pc \in {"undoLoad", "respond"} /\ task'[n].answer = answer
        /\ task'[n].pc = "undoLoad" => TakesBack(n, answer)
        /\ task'[n].response = ResponseTo(a, answer)
    BY <1>7 DEF Answer
  <2>2. RepliedOwn(n, task[n].response)'
    BY <2>1 DEF RepliedOwn, Answers
  <2> QED
    BY <2>1, <2>2 DEF TakesBack
<1>8. ASSUME UndoLoad(n) \/ UndoStore(n) PROVE Goal
  <2>1. /\ messages' = messages
        /\ task'[n].pc \in {"undoStore", "respond"} /\ task'[n].answer = task[n].answer
        /\ task'[n].response = task[n].response
        /\ RepliedOwn(n, task[n].response) /\ a \in Numbered
    BY <1>8 DEF UndoLoad, UndoStore, Goto
  <2>2. RepliedOwn(n, task[n].response)'
    BY <2>1 DEF RepliedOwn, Answers, TimedOut
  <2> QED
    BY <2>1, <2>2
<1>9. ASSUME Crash(n) \/ FatalPayload(n) PROVE Goal
  BY <1>9 DEF Crash, FatalPayload, RepliedOwn, Answers, TimedOut
<1> QED
  BY <1>2, <1>3, <1>4, <1>5, <1>6, <1>7, <1>8, <1>9 DEF Action, Callback

\* The others are not concerned: their messages and tasks are their own.
LEMMA TaskInv ==
  ASSUME TypeOK, TasksInv, NEW n \in 1 .. Len(requests),
         Action(n) \/ Callback(n)
  PROVE  TasksInv' /\ (Served => Served') /\ (RepliesAreOwn => RepliesAreOwn')
<1>1. n \in Numbers
  BY RequestsAreNumbers DEF TypeOK
<1>2. /\ UNCHANGED <<requests, taken, serving, replies>>
      /\ \A k \in Numbers \ {n} : task'[k] = task[k] /\ messages'[k] = messages[k]
      /\ Working(n) /\ Working(n)'
  BY <1>1, TaskStep DEF TypeOK, frame
<1>3. requests[n].action \in Registered /\ n <= taken
  BY <1>1, <1>2 DEF TasksInv, Dispatched, Working
<1>4. Dispatched' /\ Unreplied' /\ (Served => Served') /\ Abandoned'
  BY <1>1, <1>2, <1>3 DEF TasksInv, Dispatched, Unreplied, Served, Abandoned, Working
<1>5. SentWhenChecked' /\ ResponsesAreOwn'
  <2> SUFFICES ASSUME NEW k \in Numbers PROVE Sound(k)'
    BY SoundTasks DEF SentWhenChecked, ResponsesAreOwn, Sound, Numbers
  <2>1. Sound(k)
    BY SoundTasks DEF TasksInv
  <2>2. CASE k = n
    BY <1>3, <2>1, <2>2, SoundStep
  <2>3. CASE k # n
    BY <1>2, <2>1, <2>3, OwnStays DEF Sound
  <2> QED
    BY <2>2, <2>3
<1>6. RepliesAreOwn => RepliesAreOwn'
  <2> SUFFICES ASSUME RepliesAreOwn, NEW k \in Numbers PROVE Replied(k)'
    BY DEF RepliesAreOwn, Numbers
  <2>1. CASE k = n
    <3>1. replies[n] # << >> => replies[n] = <<TimedOut>>
      BY <1>1, <1>2 DEF TasksInv, Unreplied, Abandoned, Working
    <3> QED
      BY <1>2, <2>1, <3>1 DEF Replied, RepliedOwn, TimedOut
  <2>2. CASE k # n
    BY <1>2, <2>2, ReplyStays DEF RepliesAreOwn
  <2> QED
    BY <2>1, <2>2
<1> QED
  BY <1>4, <1>5, <1>6 DEF TasksInv

LEMMA InvStep ==
  ASSUME TypeOK, TasksInv, [Next]_vars
  PROVE  TasksInv' /\ (Served => Served') /\ (RepliesAreOwn => RepliesAreOwn')
<1>1. CASE UNCHANGED vars
  BY <1>1 DEF vars, TasksInv, Dispatched, Unreplied, Served, Abandoned, SentWhenChecked,
     ResponsesAreOwn, RepliesAreOwn, Replied, RepliedOwn, Answers, TimedOut, Numbers
<1> QED
  BY <1>1, PublishInv, RefuseInv, DispatchInv, EndInv, TaskInv
     DEF Next, RequestHandler, Idle, Stopped

BridgeTypeInv == TypeOK /\ BridgeInv /\ RepliesAreOwn

LEMMA InitInv == Init => BridgeTypeInv
<1> SUFFICES ASSUME Init PROVE BridgeTypeInv
  OBVIOUS
<1> USE BridgeAssumption DEF Init
<1>1. RequestTypeOK
  BY DEF RequestTypeOK, Numbers
<1>2. TaskTypeOK
  BY NoResponseType DEF TaskTypeOK, NoTask, Task, PCs
<1>3. MessageTypeOK
  BY DEF MessageTypeOK
<1>4. BridgeInv
  BY DEF BridgeInv, TasksInv, Dispatched, Unreplied, Served, Abandoned,
         SentWhenChecked, ResponsesAreOwn, NoTask, Preparing, Numbering, Numbers
<1>5. RepliesAreOwn
  BY DEF RepliesAreOwn, Replied
<1> QED
  BY <1>1, <1>2, <1>3, <1>4, <1>5 DEF BridgeTypeInv, TypeOK

LEMMA BridgeInvariant == Spec => []BridgeTypeInv
<1>1. BridgeTypeInv /\ [Next]_vars => BridgeTypeInv'
  BY TypeStep, InvStep DEF BridgeTypeInv, BridgeInv
<1> QED
  BY <1>1, InitInv, PTL DEF Spec

(***************************************************************************)
(* What NATS clients are promised.                                         *)
(***************************************************************************)

\* Every variable keeps its type; a request has one reply and is sent to its
\* charge point once at most.
THEOREM BridgeTypeCorrect == Spec => []TypeOK
BY BridgeInvariant, PTL DEF BridgeTypeInv

\* No reply is another request's, whatever is late, refused or not sent.
THEOREM RepliesOwn == Spec => []RepliesAreOwn
BY BridgeInvariant, PTL DEF BridgeTypeInv

\* A request is replied once it was taken and is no longer served, a task that
\* goes on after that has timed out, and a message is sent for a checked payload.
THEOREM BridgeHeld == Spec => []BridgeInv
BY BridgeInvariant, PTL DEF BridgeTypeInv

\* A goroutine blocked on the response channel of a request that is not served
\* any more is one that timed out.
THEOREM BlockedTimedOut == Spec => []BlockedOnlyAfterTimeout
<1>1. BridgeTypeInv => BlockedOnlyAfterTimeout
  BY DEF BridgeTypeInv, BridgeInv, TasksInv, Abandoned, BlockedOnlyAfterTimeout, At
<1> QED
  BY <1>1, BridgeInvariant, PTL

LEMMA RangeStep == TypeOK /\ TasksInv /\ NumbersInRange /\ [Next]_vars => NumbersInRange'
<1> SUFFICES ASSUME TypeOK, TasksInv, NumbersInRange, [Next]_vars,
                    NEW k \in Numbers, (messages[k] # << >>)'
             PROVE  InRange(messages'[k][1].sent)
  BY DEF NumbersInRange, Numbers, InRange
<1>1. CASE messages'[k] = messages[k]
  BY <1>1 DEF NumbersInRange
<1>2. CASE \E n \in 1 .. Len(requests) : Action(n) \/ Callback(n)
  <2>1. PICK n \in 1 .. Len(requests) : Action(n) \/ Callback(n)
    BY <1>2
  <2>2. n \in Numbers /\ Payload(requests[n].payload)
    BY RequestsAreNumbers, RequestType DEF TypeOK
  <2>3. requests[n].action \in AllActions
    BY <2>1, <2>2, TaskStep, BridgeAssumption DEF TypeOK, TasksInv, Dispatched, Working
  <2>4. CASE Send(n) /\ k = n
    <3> DEFINE sent == Sent(requests[n].action, requests[n].payload)
               m == [sent |-> sent, id |-> task[n].seen]
    <3>1. messages[n] = << >> /\ InRange(sent)
      BY <2>2, <2>3, <2>4, SentType DEF Send, At, TasksInv, SentWhenChecked, Preparing, Numbering
    <3>2. messages' = [messages EXCEPT ![n] = Append(@, m)]
      BY <2>4 DEF Send
    <3>3. m.sent = sent
      OBVIOUS
    <3> HIDE DEF m, sent
    <3>4. messages'[n][1] = m
      BY <2>2, <3>1, <3>2 DEF TypeOK, MessageTypeOK
    <3> QED
      BY <2>4, <3>1, <3>3, <3>4
  <2>5. CASE ~(Send(n) /\ k = n)
    <3>1. messages'[k] = messages[k]
      BY <2>1, <2>2, <2>5, TaskStep
         DEF TypeOK, Action, Callback, FatalPayload, RefusePayload, AcceptPayload, IdLoad,
             IdStore, IdRead, SendFails, Answer, UndoLoad, UndoStore, Crash
    <3> QED
      BY <3>1 DEF NumbersInRange
  <2> QED
    BY <2>4, <2>5
<1>3. CASE RequestHandler \/ \E c \in ClientCommands : Publish(c)
  BY <1>1, <1>3, HandlerType DEF TypeOK, TasksInv
<1>4. CASE UNCHANGED vars
  BY <1>1, <1>4 DEF vars
<1> QED
  BY <1>2, <1>3, <1>4 DEF Next, Idle, Stopped

\* No remote start or stop is sent with a number that the checks exclude.
THEOREM RangeKept == Spec => []NumbersInRange
<1>1. Init => NumbersInRange
  BY DEF Init, NumbersInRange
<1>2. BridgeTypeInv => TypeOK /\ TasksInv
  BY DEF BridgeTypeInv, BridgeInv
<1> QED
  BY <1>1, <1>2, BridgeInvariant, RangeStep, PTL DEF Spec

LEMMA RefinementStep ==
  BridgeTypeInv /\ [Next]_vars => [RR!Next]_(RR!rrVars)
<1> SUFFICES ASSUME BridgeTypeInv, [Next]_vars PROVE [RR!Next]_(RR!rrVars)
  OBVIOUS
<1> USE DEF BridgeTypeInv, TypeOK
<1>1. ASSUME NEW c \in ClientCommands, Publish(c) PROVE RR!Ask
  BY <1>1 DEF Publish, RR!Ask, RequestTypeOK
<1>2. ASSUME NEW n \in Numbers, NEW x \in Responses,
             \/ n = serving
             \/ n = taken + 1 /\ serving = 0 /\ taken < Len(requests),
             replies[n] = << >>, Reply(n, x), UNCHANGED requests
      PROVE  RR!Next
  <2>1. n <= Len(requests)
    BY <1>2 DEF RequestTypeOK, Numbers
  <2>2. \A m \in 1 .. n - 1 : replies[m] # << >>
    <3>1. taken \in Nat /\ MaxCommands \in Nat /\ n \in 1 .. MaxCommands
      BY BridgeAssumption DEF RequestTypeOK, Numbers
    <3>2. n <= taken + 1 /\ (serving # 0 => n = serving)
      BY <1>2, <3>1 DEF RequestTypeOK
    <3>3. serving # 0 => n = taken
      BY <3>2 DEF RequestTypeOK
    <3>4. \A m \in 1 .. n - 1 : m \in Numbers /\ m <= taken /\ m # serving
      BY <3>1, <3>2, <3>3 DEF Numbers
    <3> QED
      BY <3>4 DEF BridgeInv, Served
  <2>3. replies' = [replies EXCEPT ![n] = <<x>>]
    BY <1>2, ReplyType
  <2> QED
    BY <1>2, <2>1, <2>2, <2>3 DEF RR!Next, RR!Reply, Numbers
<1>3. CASE RefuseFormat \/ RefuseAction
  <2>1. serving = 0 /\ taken < Len(requests) /\ UNCHANGED requests
    BY <1>3 DEF RefuseFormat, RefuseAction, Take
  <2>2. PICK n \in Numbers : n = taken + 1 /\ replies[n] = << >>
    BY <2>1, HandlerFacts DEF BridgeInv, TasksInv
  <2>3. PICK x \in Responses : Reply(n, x)
    BY <1>3, <2>2, ErrorType DEF RefuseFormat, RefuseAction, Errors
  <2> QED
    BY <1>2, <2>1, <2>2, <2>3
<1>4. CASE Deliver \/ TimeOut
  <2>1. serving # 0 /\ UNCHANGED requests
    BY <1>4 DEF Deliver, TimeOut
  <2>2. PICK n \in Numbers : n = serving /\ replies[n] = << >>
    BY <2>1, HandlerFacts DEF BridgeInv, TasksInv
  <2>3. PICK x \in Responses : Reply(n, x)
    BY <1>4, <2>2, NoResponseType DEF Deliver, TimeOut, TaskTypeOK, Task
  <2> QED
    BY <1>2, <2>1, <2>2, <2>3
<1>5. CASE UNCHANGED <<requests, replies>>
  BY <1>5 DEF RR!rrVars
<1>6. ASSUME NEW n \in 1 .. Len(requests), Action(n) \/ Callback(n)
      PROVE  UNCHANGED <<requests, replies>>
  BY <1>6, RequestsAreNumbers, TaskStep DEF frame
<1> QED
  BY <1>1, <1>3, <1>4, <1>5, <1>6
     DEF Next, RequestHandler, Dispatch, Idle, Stopped, vars, RR!Next

\* requestHandler implements what RequestReply promises: requests are answered
\* one after the other, in order, each once at most.
THEOREM ImplementsRequestReply == Spec => RepliesInOrder
<1>1. Init => RR!Init
  BY DEF Init, RR!Init, Numbers
<1> QED
  BY <1>1, BridgeInvariant, RefinementStep, PTL DEF Spec, RepliesInOrder, RR!Spec

=============================================================================
