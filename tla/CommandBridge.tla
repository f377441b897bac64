----------------------------- MODULE CommandBridge -----------------------------
(***************************************************************************)
(* The half of the program that NATS clients talk to: requestHandler of    *)
(* the NATS notifier takes one request at a time, starts a goroutine for   *)
(* the action, and waits for its response or for the timeout; the actions  *)
(* check the payload, send a message to the charge point, and respond from *)
(* the callback that gets the charge point's answer.                       *)
(*                                                                         *)
(* NATS (which calls a subscription's callback for one message at a time)  *)
(* and the OCPP library (which refuses a message or calls its callback at  *)
(* most once, in a goroutine of its own) are external.                     *)
(***************************************************************************)
EXTENDS Commands, Sequences, FiniteSets

CONSTANTS Registered,    \* the actions with a handler: main() adds Handlers
          MaxCommands,   \* bound: requests made by the NATS clients
          ClientCommands \* the commands the clients may send: each has an
                         \* action, a payload, and is valid unless it lacks
                         \* its action or its charge point

ASSUME BridgeAssumption ==
    /\ Registered \subseteq AllActions
    /\ MaxCommands \in Nat
    /\ \A c \in ClientCommands : c.payload # NotObject =>
          \A field \in DOMAIN c.payload : c.payload[field] \in Value

VARIABLES
    requests,           \* the commands published on the subject, in order
    taken,              \* how many of them requestHandler has taken
    serving,            \* the one it waits for at its select, 0 if none
    task,               \* the action's goroutine and callback, by request
    messages,           \* what was sent to charge points, by request
    replies,            \* the responses given to each request
    ids,                \* the package variables chargingProfileId and
                        \* reservationId, by the action that uses them
    crashed             \* has a nil pointer or log.Fatal ended the process?

vars == <<requests, taken, serving, task, messages, replies,
          ids, crashed>>

Numbers == 1 .. MaxCommands

NoResponse == Response("none", "none")
TimedOut   == ErrorResponse("request.timeout")

NoTask == [pc |-> "none", seen |-> 0, answer |-> "none", response |-> NoResponse,
           reported |-> 0]

At(n, label)     == task[n].pc = label
Goto(n, label)   == task' = [task EXCEPT ![n].pc = label]
Respond(n, resp) == task' = [task EXCEPT ![n].pc = "respond", ![n].response = resp]
Reply(n, resp)   == replies' = [replies EXCEPT ![n] = Append(@, resp)]

Init ==
    /\ requests = << >>
    /\ taken = 0
    /\ serving = 0
    /\ task = [n \in Numbers |-> NoTask]
    /\ messages = [n \in Numbers |-> << >>]
    /\ replies = [n \in Numbers |-> << >>]
    /\ ids = [a \in Numbered |-> 0]
    /\ crashed = FALSE

-----------------------------------------------------------------------------
(* Faulty variants of operators below, as plausible slips would leave them. *)

\* one response channel for all requests
DeliverAny ==
    /\ serving # 0
    /\ \E n \in 1 .. taken :
          /\ At(n, "respond")
          /\ Reply(serving, task[n].response)
          /\ Goto(n, "done")
    /\ serving' = 0
    /\ UNCHANGED <<requests, taken, messages, ids, crashed>>

\* no return after the response of a refused payload
DeliverGoesOn ==
    /\ serving # 0
    /\ At(serving, "respond")
    /\ Reply(serving, task[serving].response)
    /\ Goto(serving, IF messages[serving] = << >> THEN "send" ELSE "done")
    /\ serving' = 0
    /\ UNCHANGED <<requests, taken, messages, ids, crashed>>

\* the loop is not left after the timeout's reply
TimeOutKeepsServing ==
    /\ serving # 0
    /\ replies[serving] = << >>
    /\ Reply(serving, TimedOut)
    /\ UNCHANGED <<requests, taken, serving, task, messages, ids, crashed>>

\* the timeout is logged and not replied
TimeOutSilent ==
    /\ serving # 0
    /\ serving' = 0
    /\ UNCHANGED <<requests, taken, task, messages, replies, ids, crashed>>

\* the select has no timeout
TimeOutNever == serving # 0 /\ UNCHANGED vars

\* the message is sent again after it was sent
SendAgain(n) ==
    /\ At(n, "send")
    /\ Len(messages[n]) < 2
    /\ messages' = [messages EXCEPT ![n] =
          Append(@, [sent |-> Sent(requests[n].action, requests[n].payload),
                     id   |-> task[n].seen])]
    /\ UNCHANGED <<requests, taken, serving, task, replies, ids, crashed>>

\* the message is built before the counter is advanced
IdReadEarly(n) ==
    /\ At(n, "read")
    /\ Goto(n, "send")
    /\ UNCHANGED <<requests, taken, serving, replies, messages, ids, crashed>>

\* == for !=
TakesBackAccepted(n, answer) ==
    /\ requests[n].action \in Numbered
    /\ answer = "Accepted"

-----------------------------------------------------------------------------
(* requestHandler.                                                          *)

Publish(c) ==
    /\ Len(requests) < MaxCommands
    /\ requests' = Append(requests, c)
    /\ UNCHANGED <<taken, serving, task, messages, replies, ids, crashed>>

Take == /\ serving = 0
        /\ taken < Len(requests)
        /\ taken' = taken + 1

RefuseFormat ==
    /\ Take
    /\ ~requests[taken + 1].valid
    /\ Reply(taken + 1, ErrorResponse("command.format.not.valid"))
    /\ UNCHANGED <<requests, serving, task, messages, ids, crashed>>

RefuseAction ==
    /\ Take
    /\ requests[taken + 1].valid
    /\ requests[taken + 1].action \notin Registered
    /\ Reply(taken + 1, ErrorResponse("command.action.not.found"))
    /\ UNCHANGED <<requests, serving, task, messages, ids, crashed>>

Dispatch ==
    /\ Take
    /\ requests[taken + 1].valid
    /\ requests[taken + 1].action \in Registered
    /\ serving' = taken + 1
    /\ Goto(taken + 1, "check")
    /\ UNCHANGED <<requests, messages, replies, ids, crashed>>

\* Each request has a response channel of its own.
Deliver ==
    /\ serving # 0
    /\ At(serving, "respond")
    /\ Reply(serving, task[serving].response)
    /\ Goto(serving, "done")
    /\ serving' = 0
    /\ UNCHANGED <<requests, taken, messages, ids, crashed>>

\* Nobody will receive what the goroutine sends: it stays blocked for good.
TimeOut ==
    /\ serving # 0
    /\ Reply(serving, TimedOut)
    /\ serving' = 0
    /\ UNCHANGED <<requests, taken, task, messages, ids, crashed>>

-----------------------------------------------------------------------------
(* An action: check the payload, number the message, send it.               *)

frame == <<requests, taken, serving, replies>>

FatalPayload(n) ==
    /\ At(n, "check")
    /\ Fatal(requests[n].action, requests[n].payload)
    /\ crashed' = TRUE
    /\ UNCHANGED <<frame, task, messages, ids>>

RefusePayload(n) ==
    LET why == Refusal(requests[n].action, requests[n].payload) IN
    /\ At(n, "check")
    /\ why # "none"
    /\ Respond(n, ErrorResponse(why))
    /\ UNCHANGED <<frame, messages, ids, crashed>>

AcceptPayload(n) ==
    /\ At(n, "check")
    /\ ~Fatal(requests[n].action, requests[n].payload)
    /\ Refusal(requests[n].action, requests[n].payload) = "none"
    /\ Goto(n, IF requests[n].action \in Numbered THEN "load" ELSE "send")
    /\ UNCHANGED <<frame, messages, ids, crashed>>

\* chargingProfileId = chargingProfileId + 1, not atomic: a load and a store;
\* the profile then takes the value the variable has by that time.  Likewise
\* for reservationId and the reservation.
IdLoad(n) ==
    /\ At(n, "load")
    /\ task' = [task EXCEPT ![n].pc = "store", ![n].seen = ids[requests[n].action]]
    /\ UNCHANGED <<frame, messages, ids, crashed>>

IdStore(n) ==
    /\ At(n, "store")
    /\ ids' = [ids EXCEPT ![requests[n].action] = task[n].seen + 1]
    /\ Goto(n, "read")
    /\ UNCHANGED <<frame, messages, crashed>>

IdRead(n) ==
    /\ At(n, "read")
    /\ task' = [task EXCEPT ![n].pc = "send", ![n].seen = ids[requests[n].action]]
    /\ UNCHANGED <<frame, messages, ids, crashed>>

Send(n) ==
    /\ At(n, "send")
    /\ messages' = [messages EXCEPT ![n] =
          Append(@, [sent |-> Sent(requests[n].action, requests[n].payload),
                     id   |-> task[n].seen])]
    /\ task' = [task EXCEPT ![n].pc = "sent", ![n].seen = 0]
    /\ UNCHANGED <<frame, ids, crashed>>

\* The library refuses: the charge point is not connected, say.  A reservation
\* takes its id back.
SendFails(n) ==
    /\ At(n, "send")
    /\ task' = [task EXCEPT
          ![n].pc = IF requests[n].action = RESERVE_NOW THEN "undoLoad" ELSE "respond",
          ![n].response = ErrorResponse("command.message.not.send")]
    /\ UNCHANGED <<frame, messages, ids, crashed>>

-----------------------------------------------------------------------------
(* The callback.                                                            *)

Answers(n) == Statuses(requests[n].action) \cup {"error"}

\* A RemoteStartTransaction that was not accepted takes its profile id back; a
\* ReserveNow that was not accepted, or got no answer, its reservation id.
TakesBack(n, answer) ==
    /\ requests[n].action \in Numbered
    /\ answer # "Accepted"
    /\ answer = "error" => requests[n].action = RESERVE_NOW

\* An accepted reservation is reported with what reservationId is by then.
Answer(n, answer) ==
    /\ At(n, "sent")
    /\ answer # "MissingValue"
    /\ task' = [task EXCEPT
          ![n].pc = IF TakesBack(n, answer) THEN "undoLoad" ELSE "respond",
          ![n].answer = answer,
          ![n].response = ResponseTo(requests[n].action, answer),
          ![n].reported = IF requests[n].action = RESERVE_NOW /\ answer = "Accepted"
                          THEN ids[RESERVE_NOW] ELSE 0]
    /\ UNCHANGED <<frame, messages, ids, crashed>>

UndoLoad(n) ==
    /\ At(n, "undoLoad")
    /\ task' = [task EXCEPT ![n].pc = "undoStore", ![n].seen = ids[requests[n].action]]
    /\ UNCHANGED <<frame, messages, ids, crashed>>

UndoStore(n) ==
    /\ At(n, "undoStore")
    /\ ids' = [ids EXCEPT ![requests[n].action] = task[n].seen - 1]
    /\ task' = [task EXCEPT ![n].pc = "respond", ![n].seen = 0]
    /\ UNCHANGED <<frame, messages, crashed>>

\* The value of a configuration key is dereferenced, and is optional.
Crash(n) ==
    /\ At(n, "sent")
    /\ "MissingValue" \in Answers(n)
    /\ crashed' = TRUE
    /\ UNCHANGED <<frame, task, messages, ids>>

-----------------------------------------------------------------------------

Action(n) ==
    \/ FatalPayload(n) \/ RefusePayload(n) \/ AcceptPayload(n)
    \/ IdLoad(n) \/ IdStore(n) \/ IdRead(n)
    \/ Send(n) \/ SendFails(n)

Callback(n) ==
    \/ \E answer \in Answers(n) : Answer(n, answer)
    \/ UndoLoad(n) \/ UndoStore(n) \/ Crash(n)

RequestHandler == RefuseFormat \/ RefuseAction \/ Dispatch \/ Deliver \/ TimeOut

\* Nothing to do until a client publishes or a charge point answers.
Idle == /\ serving = 0 /\ taken = Len(requests)
        /\ UNCHANGED vars

\* A panic in any goroutine, or log.Fatal, ends the process.
Stopped == crashed /\ UNCHANGED vars

Next ==
    \/ ~crashed /\ \/ \E c \in ClientCommands : Publish(c)
                   \/ RequestHandler
                   \/ \E n \in 1 .. Len(requests) : Action(n) \/ Callback(n)
    \/ Idle
    \/ Stopped

Spec == Init /\ [][Next]_vars

\* The subscription's goroutine runs when it can, and time.After always fires.
FairSpec == Spec /\ WF_vars(~crashed /\ RequestHandler)

-----------------------------------------------------------------------------
(* Properties.                                                              *)

PCs == {"none", "check", "load", "store", "read", "send", "sent", "undoLoad",
        "undoStore", "respond", "done"}

AllStatuses == UNION {Statuses(a) : a \in AllActions}

\* Everything a client can be answered.
Responses ==
    {Response(payload, "none") : payload \in AllStatuses \cup {"none"}}
      \cup {ErrorResponse(err) : err \in Errors}

Task == [pc : PCs, seen : Int, answer : AllStatuses \cup {"none", "error"},
         response : Responses, reported : Int]

\* A message, and the id of its charging profile or reservation if it has one.
Sendings == [sent : Messages, id : Int]

RequestTypeOK ==
    /\ requests \in Seq(ClientCommands) /\ Len(requests) <= MaxCommands
    /\ taken \in 0 .. Len(requests)
    /\ serving \in {0, taken}
    /\ replies \in [Numbers -> Seq(Responses)]
    /\ \A n \in Numbers : Len(replies[n]) <= 1

TaskTypeOK ==
    /\ task \in [Numbers -> Task]
    /\ ids \in [Numbered -> Int]

\* A request is sent to its charge point once at most.
MessageTypeOK ==
    /\ messages \in [Numbers -> Seq(Sendings)]
    /\ \A n \in Numbers : Len(messages[n]) <= 1

TypeOK == RequestTypeOK /\ TaskTypeOK /\ MessageTypeOK /\ crashed \in BOOLEAN

\* The requests are answered one after the other, in order, each at most once
\* (NatsCentralSystemNotifier.go:105), late responses included.
RR == INSTANCE RequestReply WITH
          MaxRequests <- MaxCommands,
          asked       <- Len(requests)

RepliesInOrder == RR!Spec

\* Every reply is the request's own (:98, :103): a payload is the status its
\* charge point answered, and after an error of the checks or of the sending
\* nothing was sent, nor ever will be.
RepliedOwn(n, x) ==
    \/ x = TimedOut
    \/ /\ messages[n] = << >>
       /\ \/ x = ErrorResponse("command.format.not.valid") /\ ~requests[n].valid
          \/ /\ x = ErrorResponse("command.action.not.found")
             /\ requests[n].action \notin Registered
          \/ x = ErrorResponse("command.message.not.send")
          \/ /\ x = ErrorResponse(Refusal(requests[n].action, requests[n].payload))
             /\ Refusal(requests[n].action, requests[n].payload) # "none"
    \/ /\ messages[n] # << >>
       /\ task[n].answer \in Answers(n)
       /\ x = ResponseTo(requests[n].action, task[n].answer)

Replied(n) == replies[n] # << >> => RepliedOwn(n, replies[n][1])

RepliesAreOwn == \A n \in Numbers : Replied(n)

\* A goroutine that nobody receives from has been timed out (:110): no other
\* path leaves one blocked on its response channel.
BlockedOnlyAfterTimeout ==
    \A n \in Numbers : At(n, "respond") /\ serving # n => replies[n] = <<TimedOut>>

\* While no command of its kind has timed out, no two charging profiles, and no
\* two reservations, that were sent and not rejected have the same id
\* (core.go:335, :344, :354; reservation.go:161, :179-191, :201, :209): what one
\* command takes back is never what another one has sent.
NoTimeOut(action) ==
    \A n \in 1 .. Len(requests) :
      requests[n].action = action => replies[n] # <<TimedOut>>

Outstanding(n) ==
    /\ messages[n] # << >>
    /\ requests[n].action \in Numbered
    /\ \/ task[n].answer \in {"none", "Accepted"}
       \/ task[n].answer = "error" /\ requests[n].action = REMOTE_START_TRANSACTION

IdsDistinct ==
    \A m, n \in Numbers :
      /\ Outstanding(m) /\ Outstanding(n) /\ m # n
      /\ requests[m].action = requests[n].action
      /\ NoTimeOut(requests[m].action)
      => messages[m][1].id # messages[n][1].id

\* The reservation id a client is told (reservation.go:175) is the one that was
\* sent to the charge point, while no ReserveNow has timed out.
ReservationReported ==
    \A n \in Numbers :
      /\ messages[n] # << >> /\ task[n].answer = "Accepted"
      /\ requests[n].action = RESERVE_NOW
      /\ NoTimeOut(RESERVE_NOW)
      => task[n].reported = messages[n][1].id

\* A command is never sent with a number its checks exclude (core.go:292, :313,
\* :414, reservation.go:222); -1 stands for a number that was not given.
InRange(m) ==
    /\ m.action = REMOTE_START_TRANSACTION =>
         m.number # 0 /\ m.number >= -1 /\ m.duration # 0 /\ m.duration >= -1
    /\ m.action \in {REMOTE_STOP_TRANSACTION, CANCEL_RESERVATION} => m.number >= 0

NumbersInRange ==
    \A n \in Numbers : messages[n] # << >> => InRange(messages[n][1].sent)

\* Every request is answered, whatever the charge point does, unless the
\* process stops.
EveryRequestReplied ==
    \A n \in Numbers : Len(requests) >= n ~> replies[n] # << >> \/ crashed

\* README.txt marks these as implemented ("Implementado X"); main.go:34-37
\* names them.
Implemented == {"cancel.reservation", "get.local.list.version", "reserve.now",
                "send.local.list.version"}

ImplementedIsFound ==
    \A n \in Numbers :
      replies[n] = <<ErrorResponse("command.action.not.found")>>
        => requests[n].action \notin Implemented

\* "connectorId must be g(0)" (core.go:295), "duration must be g(0)" (:316).
RemoteStartPositive ==
    \A n \in Numbers : messages[n] # << >> =>
      LET m == messages[n][1].sent IN
      m.action = REMOTE_START_TRANSACTION => m.number > 0 /\ m.duration > 0

\* "transactionId must be a integer" (core.go:410) answers no integer.
IntegersAccepted ==
    \A n \in 1 .. Len(requests) :
      /\ requests[n].action = REMOTE_STOP_TRANSACTION
      /\ replies[n] = <<ErrorResponse("must be a integer")>>
      => ~ /\ requests[n].payload # NotObject
           /\ Has(requests[n].payload, "transactionId")
           /\ requests[n].payload["transactionId"].form = "number"

=============================================================================
