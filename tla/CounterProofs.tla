----------------------------- MODULE CounterProofs -----------------------------
(* Theorems about the counters of CommandBridge: the ids of charging profiles *)
(* and reservations.                                                          *)
EXTENDS CommandBridgeProofs

CountersOf(a) == CounterRead(a) /\ OutstandingBelow(a)

(***************************************************************************)
(* A command that has timed out stays so.                                  *)
(***************************************************************************)

LEMMA RepliesStay ==
  ASSUME TypeOK, TasksInv, [Next]_vars
  PROVE  /\ Len(requests) <= Len(requests')
         /\ \A n \in 1 .. Len(requests) :
              /\ requests'[n] = requests[n]
              /\ replies[n] # << >> => replies'[n] = replies[n]
<1> USE DEF TypeOK, RequestTypeOK
<1>1. ASSUME NEW c \in ClientCommands, Publish(c)
      PROVE  /\ Len(requests') = Len(requests) + 1 /\ UNCHANGED replies
             /\ \A n \in 1 .. Len(requests) : requests'[n] = requests[n]
  BY <1>1 DEF Publish
<1>2. ASSUME RefuseFormat \/ RefuseAction
      PROVE  /\ UNCHANGED requests
             /\ \A n \in Numbers : replies[n] # << >> => replies'[n] = replies[n]
  BY <1>2, HandlerFacts DEF TasksInv, RefuseFormat, RefuseAction, Take, Reply
<1>3. ASSUME Deliver \/ TimeOut
      PROVE  /\ UNCHANGED requests
             /\ \A n \in Numbers : replies[n] # << >> => replies'[n] = replies[n]
  BY <1>3, HandlerFacts DEF TasksInv, Deliver, TimeOut, Reply
<1>4. ASSUME NEW n \in 1 .. Len(requests), Action(n) \/ Callback(n)
      PROVE  UNCHANGED <<requests, replies>>
  BY <1>4, TaskStep, RequestsAreNumbers DEF frame
<1>5. ASSUME Dispatch \/ UNCHANGED vars PROVE UNCHANGED <<requests, replies>>
  BY <1>5 DEF Dispatch, vars
<1> QED
  BY <1>1, <1>2, <1>3, <1>4, <1>5, RequestsAreNumbers DEF Next, RequestHandler, Idle, Stopped

LEMMA TimeOutsStay ==
  ASSUME TypeOK, TasksInv, [Next]_vars, NEW a, NoTimeOut(a)' PROVE NoTimeOut(a)
<1> SUFFICES ASSUME NEW n \in 1 .. Len(requests), requests[n].action = a,
                    replies[n] = <<TimedOut>>
             PROVE  FALSE
  BY DEF NoTimeOut
<1>1. replies[n] # << >>
  OBVIOUS
<1>2. /\ Len(requests) <= Len(requests')
      /\ requests'[n] = requests[n]
      /\ replies'[n] = replies[n]
  BY <1>1, RepliesStay
<1>3. n \in 1 .. Len(requests')
  <2>1. Len(requests) \in Nat /\ Len(requests') \in Nat
    BY TypeStep DEF TypeOK, RequestTypeOK
  <2> QED
    BY <1>2, <2>1
<1>4. \A k \in 1 .. Len(requests') :
        requests'[k].action = a => replies'[k] # <<TimedOut>>'
  BY DEF NoTimeOut
<1>5. <<TimedOut>>' = <<TimedOut>>
  BY DEF TimedOut, ErrorResponse, Response
<1> QED
  BY <1>2, <1>3, <1>4, <1>5

\* While no command of an action has timed out, only the one that is served is
\* at work.
LEMMA OneAtWork ==
  ASSUME TypeOK, TasksInv, NEW n \in 1 .. Len(requests), NoTimeOut(requests[n].action),
         Working(n)
  PROVE  \A m \in 1 .. Len(requests) \ {n} :
           requests[m].action = requests[n].action => ~Working(m)
BY RequestsAreNumbers DEF TypeOK, TasksInv, Abandoned, NoTimeOut, Working

(***************************************************************************)
(* The steps that are not a task's.                                        *)
(***************************************************************************)

\* Such a step begins tasks or ends them.
Resumed(n) ==
    /\ task'[n].seen = task[n].seen /\ task'[n].answer = task[n].answer
    /\ task'[n].reported = task[n].reported
    /\ \/ task'[n].pc = task[n].pc
       \/ task[n].pc = "none" /\ task'[n].pc = "check"
       \/ task'[n].pc = "done"

LEMMA ResumedStep ==
  ASSUME TypeOK, TasksInv,
         \/ \E c \in ClientCommands : Publish(c)
         \/ RequestHandler \/ UNCHANGED vars
  PROVE  /\ UNCHANGED <<messages, ids>>
         /\ \A n \in Numbers : Resumed(n)
<1> USE DEF TypeOK, TaskTypeOK, Task
<1>1. ASSUME Dispatch PROVE UNCHANGED <<messages, ids>> /\ \A n \in Numbers : Resumed(n)
  <2>1. taken + 1 \in Numbers /\ task[taken + 1].pc = "none"
    BY <1>1, HandlerFacts, NotBegun DEF Dispatch, Take, TasksInv, RequestTypeOK
  <2> QED
    BY <1>1, <2>1 DEF Dispatch, Goto, Resumed
<1>2. ASSUME Deliver PROVE UNCHANGED <<messages, ids>> /\ \A n \in Numbers : Resumed(n)
  BY <1>2 DEF Deliver, Goto, Resumed
<1>3. ASSUME \/ \E c \in ClientCommands : Publish(c)
             \/ RefuseFormat \/ RefuseAction \/ TimeOut \/ UNCHANGED vars
      PROVE  UNCHANGED <<messages, ids, task>>
  BY <1>3 DEF Publish, RefuseFormat, RefuseAction, TimeOut, vars
<1> QED
  BY <1>1, <1>2, <1>3 DEF RequestHandler, Resumed

LEMMA CountersStay ==
  ASSUME TypeOK, TasksInv, NEW a, CountersOf(a), UNCHANGED <<messages, ids>>,
         \A n \in Numbers : Resumed(n),
         \A n \in 1 .. Len(requests) : requests'[n] = requests[n],
         RequestTypeOK'
  PROVE  CountersOf(a)'
<1>1. 1 .. Len(requests) \subseteq Numbers /\ 1 .. Len(requests') \subseteq Numbers
  BY RequestsAreNumbers, BridgeAssumption DEF TypeOK, RequestTypeOK, Numbers
<1>2. \A n \in 1 .. Len(requests') \ 1 .. Len(requests) :
        task[n].pc = "none" /\ messages[n] = << >>
  BY <1>1, NotBegun DEF TypeOK, RequestTypeOK
<1>3. \A n \in 1 .. Len(requests') :
        /\ task'[n].pc \in Above \cup {"store", "sent"}
             => n \in 1 .. Len(requests) /\ task'[n].pc = task[n].pc
        /\ OutstandingOf(n, a)' => n \in 1 .. Len(requests) /\ OutstandingOf(n, a)
  BY <1>1, <1>2 DEF Resumed, Above, OutstandingOf, Outstanding
<1>4. CounterRead(a)'
  BY <1>1, <1>3 DEF CountersOf, CounterRead, Above, Resumed
<1>5. OutstandingBelow(a)'
  BY <1>1, <1>3 DEF CountersOf, OutstandingBelow
<1> QED
  BY <1>4, <1>5 DEF CountersOf

(***************************************************************************)
(* The steps of a task.                                                    *)
(***************************************************************************)

\* They do not concern the commands that use no counter, or another one.
LEMMA OtherCounters ==
  ASSUME TypeOK, TasksInv, NEW n \in 1 .. Len(requests), Action(n) \/ Callback(n),
         NEW b \in Numbered \ {requests[n].action}, CountersOf(b)
  PROVE  CountersOf(b)'
<1>1. 1 .. Len(requests) \subseteq Numbers
  BY RequestsAreNumbers DEF TypeOK
<1>2. /\ UNCHANGED requests
      /\ \A k \in Numbers \ {n} : task'[k] = task[k] /\ messages'[k] = messages[k]
  BY <1>1, TaskStep DEF TypeOK, frame
<1>3. ids'[b] = ids[b]
  BY DEF Action, Callback, FatalPayload, RefusePayload, AcceptPayload, IdLoad, IdStore,
         IdRead, Send, SendFails, Answer, UndoLoad, UndoStore, Crash, TypeOK, TaskTypeOK
<1>4. \A k \in 1 .. Len(requests) : OutstandingOf(k, b)' <=> OutstandingOf(k, b)
  BY <1>1, <1>2 DEF OutstandingOf, Outstanding
<1>5. CounterRead(b)'
  BY <1>1, <1>2, <1>3 DEF CountersOf, CounterRead
<1>6. OutstandingBelow(b)'
  BY <1>1, <1>2, <1>3, <1>4 DEF CountersOf, OutstandingBelow, OutstandingOf
<1> QED
  BY <1>5, <1>6 DEF CountersOf

\* No status is named as the absence of an answer is.
LEMMA AnswersFacts == ASSUME NEW b PROVE "none" \notin Statuses(b)
<1> USE DEF ResetStatuses, Configurations, ChangeConfigurationStatuses,
            ChangeAvailabilityStatuses, UnlockStatuses, ClearCacheStatuses,
            ReservationStatuses, CancelReservationStatuses, UpdateStatuses, ListVersions,
            ChargingProfileStatuses, RemoteStartStopStatuses
<1> DEFINE All == {ResetStatuses, Configurations, ChangeConfigurationStatuses,
                   ChangeAvailabilityStatuses, UnlockStatuses, ClearCacheStatuses,
                   ReservationStatuses, CancelReservationStatuses, UpdateStatuses,
                   ListVersions, ChargingProfileStatuses, RemoteStartStopStatuses}
<1>1. \A s \in All : "none" \notin s
  OBVIOUS
<1> HIDE DEF All
<1>2. Statuses(b) \in All
  BY DEF Statuses, All
<1> QED
  BY <1>1, <1>2

\* The task at work at a counter has it for itself.
LEMMA OwnCounter ==
  ASSUME TypeOK, TasksInv, Unanswered, NEW n \in 1 .. Len(requests),
         Action(n) \/ Callback(n), requests[n].action \in Numbered,
         NoTimeOut(requests[n].action), CountersOf(requests[n].action)
  PROVE  CountersOf(requests[n].action)'
<1> DEFINE a == requests[n].action
           Others == 1 .. Len(requests) \ {n}
           Id(k) == messages[k][1].id
           Goal ==
             /\ task'[n].pc \in {"store", "send", "undoStore"} => task'[n].seen = ids'[a]
             /\ task'[n].pc = "sent" => messages'[n][1].id = ids'[a]
             /\ OutstandingOf(n, a)' =>
                  /\ messages'[n][1].id <= ids'[a]
                  /\ task'[n].pc \in Above => messages'[n][1].id < ids'[a]
                  /\ \A k \in Others : OutstandingOf(k, a) => Id(k) # messages'[n][1].id
             /\ \A k \in Others : OutstandingOf(k, a) =>
                  /\ Id(k) <= ids'[a]
                  /\ task'[n].pc \in Above => Id(k) < ids'[a]
<1>1. n \in Numbers /\ 1 .. Len(requests) \subseteq Numbers
  BY RequestsAreNumbers DEF TypeOK
<1>2. /\ UNCHANGED requests /\ Working(n)
      /\ \A k \in Others : task'[k] = task[k] /\ messages'[k] = messages[k]
  BY <1>1, TaskStep DEF TypeOK, frame
<1>3. \A k \in Others : requests[k].action = a => task[k].pc \in {"none", "done"}
  BY <1>2, OneAtWork DEF Working
<1>4. \A k \in Others : OutstandingOf(k, a)' <=> OutstandingOf(k, a)
  BY <1>2 DEF OutstandingOf, Outstanding
<1>5. /\ ids[a] \in Int /\ task[n].seen \in Int
      /\ \A k \in 1 .. Len(requests) : messages[k] # << >> => Id(k) \in Int
  <2>1. \A x \in Seq(Sendings) : x # << >> => x[1] \in Sendings
    OBVIOUS
  <2>2. \A x \in Sendings : x.id \in Int
    BY DEF Sendings
  <2>3. messages \in [Numbers -> Seq(Sendings)]
    BY DEF TypeOK, MessageTypeOK
  <2> QED
    BY <1>1, <2>1, <2>2, <2>3 DEF TypeOK, TaskTypeOK, Task
<1>6. SUFFICES Goal
  <2>1. CounterRead(a)'
    BY <1>2, <1>3, <1>6 DEF CounterRead
  <2>2. OutstandingBelow(a)'
    BY <1>2, <1>3, <1>4, <1>6 DEF CountersOf, OutstandingBelow, OutstandingOf, Above
  <2> QED
    BY <1>2, <2>1, <2>2 DEF CountersOf
<1>7. /\ task[n].pc \in {"store", "send", "undoStore"} => task[n].seen = ids[a]
      /\ task[n].pc = "sent" => messages[n][1].id = ids[a]
  BY DEF CountersOf, CounterRead
<1>8. OutstandingOf(n, a) =>
        /\ messages[n][1].id <= ids[a]
        /\ task[n].pc \in Above => messages[n][1].id < ids[a]
        /\ \A k \in Others : OutstandingOf(k, a) => Id(k) # messages[n][1].id
  BY DEF CountersOf, OutstandingBelow, OutstandingOf
<1>9. \A k \in Others : OutstandingOf(k, a) =>
        /\ Id(k) <= ids[a]
        /\ task[n].pc \in Above => Id(k) < ids[a]
  BY DEF CountersOf, OutstandingBelow, OutstandingOf
<1>10. /\ task[n].pc \in {"check"} \cup Preparing => messages[n] = << >>
       /\ task[n].pc = "sent" => messages[n] # << >> /\ task[n].answer = "none"
  BY <1>1 DEF TasksInv, SentWhenChecked, Unanswered
<1> USE <1>1 DEF TypeOK, TaskTypeOK, MessageTypeOK, Task, Above, OutstandingOf, Outstanding
<1>11. CASE FatalPayload(n) \/ Crash(n)
  BY <1>11, <1>7, <1>8, <1>9, <1>2 DEF FatalPayload, Crash
<1>12. CASE RefusePayload(n) \/ AcceptPayload(n)
  BY <1>12, <1>9, <1>10 DEF RefusePayload, AcceptPayload, At, Goto, Respond
<1>13. CASE IdLoad(n)
  BY <1>13, <1>9, <1>10 DEF IdLoad, At, Preparing
<1>14. CASE IdStore(n)
  BY <1>14, <1>5, <1>7, <1>9, <1>10 DEF IdStore, At, Goto, Preparing
<1>15. CASE IdRead(n)
  BY <1>15, <1>9, <1>10 DEF IdRead, At, Preparing
<1>16. CASE Send(n)
  BY <1>16, <1>5, <1>7, <1>9, <1>10 DEF Send, At, Preparing
<1>17. CASE SendFails(n)
  BY <1>17, <1>9, <1>10 DEF SendFails, At, Preparing
<1>18. ASSUME NEW answer \in Answers(n), Answer(n, answer) PROVE Goal
  <2>1. /\ UNCHANGED <<messages, ids>> /\ task[n].pc = "sent"
        /\ task'[n].answer = answer
        /\ task'[n].pc = IF TakesBack(n, answer) THEN "undoLoad" ELSE "respond"
    BY <1>18 DEF Answer, At
  <2>2. /\ OutstandingOf(n, a) /\ Id(n) = ids[a]
        /\ \A k \in Others : OutstandingOf(k, a) => Id(k) < ids[a]
    BY <2>1, <1>5, <1>7, <1>8, <1>9, <1>10
  <2>3. TakesBack(n, answer) => ~OutstandingOf(n, a)'
    <3>1. requests'[n] = requests[n] /\ RESERVE_NOW # REMOTE_START_TRANSACTION
      BY <1>2 DEF RESERVE_NOW, REMOTE_START_TRANSACTION
    <3>2. TakesBack(n, answer) =>
            answer # "Accepted" /\ answer # "none"
              /\ (answer = "error" => requests[n].action = RESERVE_NOW)
      BY AnswersFacts DEF TakesBack, Answers
    <3> QED
      BY <2>1, <3>1, <3>2
  <2>4. /\ task'[n].pc \in {"undoLoad", "respond"}
        /\ task'[n].pc \in Above => TakesBack(n, answer)
        /\ messages'[n][1].id = Id(n) /\ ids'[a] = ids[a]
    BY <2>1
  <2>5. \A k \in Others : OutstandingOf(k, a) => Id(k) # Id(n)
    BY <2>2, <1>8
  <2>6. /\ ids[a] \in Int
        /\ \A k \in Others : OutstandingOf(k, a) => Id(k) \in Int
    BY <1>5
  <2> HIDE DEF Above, OutstandingOf, Outstanding, TypeOK
  <2>7. Above = {"read", "send", "undoLoad", "undoStore"}
    BY DEF Above
  <2> QED
    BY <2>2, <2>3, <2>4, <2>5, <2>6, <2>7
<1>19. CASE UndoLoad(n)
  BY <1>19, <1>2, <1>8, <1>9 DEF UndoLoad, At
<1>20. CASE UndoStore(n)
  BY <1>20, <1>2, <1>5, <1>7, <1>8, <1>9 DEF UndoStore, At
<1> QED
  BY <1>11, <1>12, <1>13, <1>14, <1>15, <1>16, <1>17, <1>18, <1>19, <1>20
     DEF Action, Callback

(***************************************************************************)
(* The inductive invariant.                                                *)
(***************************************************************************)

\* The steps of [Next]_vars: those of a task, and those of ResumedStep.
LEMMA NextSteps ==
  ASSUME [Next]_vars
  PROVE  \/ \E n \in 1 .. Len(requests) : Action(n) \/ Callback(n)
         \/ \E c \in ClientCommands : Publish(c)
         \/ RequestHandler \/ UNCHANGED vars
BY DEF Next, Idle, Stopped

\* What a task is answered, and what a client will be told of it, is set by the
\* step that answers it.
LEMMA AnswerStep ==
  ASSUME TypeOK, TasksInv, Unanswered, NEW n \in 1 .. Len(requests),
         Action(n) \/ Callback(n)
  PROVE  /\ task'[n].pc \in {"none", "check", "sent"} \cup Preparing
              => task'[n].answer = "none"
         /\ \/ /\ task'[n].answer = task[n].answer /\ task'[n].reported = task[n].reported
               /\ messages'[n] = messages[n] \/ task[n].answer = "none"
            \/ /\ At(n, "sent") /\ messages'[n] = messages[n]
               /\ task'[n].reported =
                    IF requests[n].action = RESERVE_NOW /\ task'[n].answer = "Accepted"
                    THEN ids[RESERVE_NOW] ELSE 0
<1> USE DEF TypeOK, TaskTypeOK, Task, MessageTypeOK, Unanswered, Preparing, At, Goto, Respond
<1>1. n \in Numbers
  BY RequestsAreNumbers
<1>2. CASE FatalPayload(n) \/ RefusePayload(n) \/ AcceptPayload(n)
  BY <1>1, <1>2 DEF FatalPayload, RefusePayload, AcceptPayload
<1>3. CASE IdLoad(n) \/ IdStore(n) \/ IdRead(n)
  BY <1>1, <1>3 DEF IdLoad, IdStore, IdRead
<1>4. CASE Send(n) \/ SendFails(n)
  BY <1>1, <1>4 DEF Send, SendFails
<1>5. ASSUME NEW answer \in Answers(n), Answer(n, answer)
      PROVE  /\ At(n, "sent") /\ messages'[n] = messages[n]
             /\ task'[n].pc \in {"undoLoad", "respond"}
             /\ task'[n].reported =
                  IF requests[n].action = RESERVE_NOW /\ task'[n].answer = "Accepted"
                  THEN ids[RESERVE_NOW] ELSE 0
  BY <1>1, <1>5 DEF Answer
<1>6. CASE UndoLoad(n) \/ UndoStore(n) \/ Crash(n)
  BY <1>1, <1>6 DEF UndoLoad, UndoStore, Crash
<1> QED
  BY <1>2, <1>3, <1>4, <1>5, <1>6 DEF Action, Callback

LEMMA UnansweredStep ==
  ASSUME TypeOK, TasksInv, Unanswered, [Next]_vars PROVE Unanswered'
<1>1. ASSUME NEW n \in 1 .. Len(requests), Action(n) \/ Callback(n) PROVE Unanswered'
  <2>1. \A k \in Numbers \ {n} : task'[k] = task[k]
    BY <1>1, TaskStep, RequestsAreNumbers DEF TypeOK
  <2> QED
    BY <1>1, <2>1, AnswerStep DEF Unanswered
<1>2. ASSUME \A n \in Numbers : Resumed(n) PROVE Unanswered'
  BY <1>2 DEF Unanswered, Resumed, Preparing
<1> QED
  BY <1>1, <1>2, NextSteps, ResumedStep

LEMMA ReportedStep ==
  ASSUME TypeOK, TasksInv, CounterInv, [Next]_vars PROVE ReservationReported'
<1>1. RESERVE_NOW \in Numbered /\ Unanswered /\ ReservationReported
  BY DEF Numbered, CounterInv
<1>2. 1 .. Len(requests) \subseteq Numbers
  BY RequestsAreNumbers DEF TypeOK
<1>3. SUFFICES ASSUME NEW n \in Numbers, messages'[n] # << >>, task'[n].answer = "Accepted",
                      requests'[n].action = RESERVE_NOW, NoTimeOut(RESERVE_NOW)
               PROVE  task'[n].reported = messages'[n][1].id
  BY TimeOutsStay DEF ReservationReported
<1>4. \/ n \in 1 .. Len(requests) /\ requests[n].action = RESERVE_NOW
      \/ task[n].pc = "none" /\ messages[n] = << >> /\ task[n].answer = "none"
  <2>1. Len(requests) \in Nat /\ taken <= Len(requests) /\ taken \in Nat
    BY DEF TypeOK, RequestTypeOK
  <2>2. CASE n \in 1 .. Len(requests)
    BY <1>3, <2>2, RepliesStay
  <2>3. CASE n > taken
    BY <1>1, <2>3, NotBegun DEF Unanswered
  <2> QED
    BY <2>1, <2>2, <2>3 DEF Numbers
<1>5. ASSUME NEW k \in 1 .. Len(requests), Action(k) \/ Callback(k)
      PROVE  task'[n].reported = messages'[n][1].id
  <2>1. \A j \in Numbers \ {k} : task'[j] = task[j] /\ messages'[j] = messages[j]
    BY <1>2, <1>5, TaskStep DEF TypeOK
  <2>2. CASE n # k
    BY <1>1, <1>3, <1>4, <2>1, <2>2 DEF ReservationReported
  <2>3. CASE n = k
    <3>1. CASE /\ task'[n].answer = task[n].answer /\ task'[n].reported = task[n].reported
               /\ messages'[n] = messages[n] \/ task[n].answer = "none"
      <4>1. Working(n)
        BY <1>2, <1>5, <2>3, TaskStep DEF TypeOK
      <4> QED
        BY <1>1, <1>3, <1>4, <3>1, <4>1 DEF ReservationReported, Working
    <3>2. CASE /\ At(n, "sent") /\ messages'[n] = messages[n]
               /\ task'[n].reported = ids[RESERVE_NOW]
      <4>1. n \in 1 .. Len(requests) /\ requests[n].action = RESERVE_NOW
        BY <1>4, <3>2 DEF At
      <4>2. CounterRead(RESERVE_NOW)
        BY <1>1, <1>3 DEF CounterInv
      <4> QED
        BY <3>2, <4>1, <4>2 DEF CounterRead, At
    <3>3. requests'[n] = requests[n]
      BY <1>2, <1>5, TaskStep DEF TypeOK, frame
    <3> QED
      BY <1>1, <1>3, <1>5, <2>3, <3>1, <3>2, <3>3, AnswerStep
  <2> QED
    BY <2>2, <2>3
<1>6. ASSUME UNCHANGED messages, \A k \in Numbers : Resumed(k)
      PROVE  task'[n].reported = messages'[n][1].id
  BY <1>1, <1>3, <1>4, <1>6 DEF ReservationReported, Resumed
<1> QED
  BY <1>5, <1>6, NextSteps, ResumedStep

LEMMA CounterInvStep ==
  ASSUME TypeOK, TasksInv, CounterInv, [Next]_vars PROVE CounterInv'
<1>1. Unanswered /\ \A a \in Numbered : NoTimeOut(a) => CountersOf(a)
  BY DEF CounterInv, CountersOf
<1>2. ASSUME NEW a \in Numbered, NoTimeOut(a)' PROVE CountersOf(a)'
  <2>1. NoTimeOut(a) /\ CountersOf(a)
    BY <1>1, <1>2, TimeOutsStay
  <2>2. ASSUME NEW n \in 1 .. Len(requests), Action(n) \/ Callback(n) PROVE CountersOf(a)'
    <3>1. CASE a = requests[n].action
      <4>1. requests' = requests
        BY <2>2, TaskStep, RequestsAreNumbers DEF TypeOK, frame
      <4>2. CountersOf(requests[n].action)'
        BY <1>1, <2>1, <2>2, <3>1, OwnCounter
      <4> QED
        BY <3>1, <4>1, <4>2
    <3>2. CASE a # requests[n].action
      BY <2>1, <2>2, <3>2, OtherCounters
    <3> QED
      BY <3>1, <3>2
  <2>3. ASSUME \/ \E c \in ClientCommands : Publish(c)
               \/ RequestHandler \/ UNCHANGED vars
        PROVE  CountersOf(a)'
    <3>1. UNCHANGED <<messages, ids>> /\ \A n \in Numbers : Resumed(n)
      BY <2>3, ResumedStep
    <3>2. RequestTypeOK' /\ \A n \in 1 .. Len(requests) : requests'[n] = requests[n]
      BY TypeStep, RepliesStay DEF TypeOK
    <3> QED
      BY <2>1, <3>1, <3>2, CountersStay
  <2> QED
    BY <2>2, <2>3, NextSteps
<1> QED
  BY <1>1, <1>2, UnansweredStep, ReportedStep DEF CounterInv, CountersOf

LEMMA CounterInitially == Init => CounterInv
BY DEF Init, CounterInv, Unanswered, CounterRead, OutstandingBelow, OutstandingOf,
       Outstanding, ReservationReported, NoTask, Numbers

\* The counters of charging profiles and reservations, which many goroutines
\* read, advance and take back without a lock: while no command of an action has
\* timed out, its counter is at what the task that is served read of it, and no
\* id that is outstanding is above it.
THEOREM CountersHeld == Spec => []CounterInv
<1>1. BridgeTypeInv /\ CounterInv /\ [Next]_vars => CounterInv'
  BY CounterInvStep DEF BridgeTypeInv, BridgeInv
<1> QED
  BY <1>1, CounterInitially, BridgeInvariant, PTL DEF Spec

\* No two charging profiles, and no two reservations, that are outstanding have
\* the same id, while none of their kind has timed out.
THEOREM IdsNeverShared == Spec => []IdsDistinct
<1>1. BridgeTypeInv /\ CounterInv => IdsDistinct
  <2> SUFFICES ASSUME BridgeTypeInv, CounterInv, NEW m \in Numbers, NEW n \in Numbers,
                      Outstanding(m), Outstanding(n), m # n,
                      requests[m].action = requests[n].action,
                      NoTimeOut(requests[m].action)
               PROVE  messages[m][1].id # messages[n][1].id
    BY DEF IdsDistinct
  <2>1. m \in 1 .. Len(requests) /\ n \in 1 .. Len(requests)
    BY NotBegun DEF BridgeTypeInv, BridgeInv, TypeOK, RequestTypeOK, Outstanding, Numbers
  <2>2. OutstandingBelow(requests[m].action)
    BY DEF CounterInv, Outstanding
  <2> QED
    BY <2>1, <2>2 DEF OutstandingBelow, OutstandingOf
<1> QED
  BY <1>1, BridgeInvariant, CountersHeld, PTL

\* The id a client is told of its reservation is the one its charge point got.
THEOREM ReservationsReported == Spec => []ReservationReported
<1>1. CounterInv => ReservationReported
  BY DEF CounterInv
<1> QED
  BY <1>1, CountersHeld, PTL

=============================================================================
