------------------------- MODULE CentralSystemProofs -------------------------
(* Theorems about CentralSystem for every value of its constants.            *)
EXTENDS CentralSystemInvariants, TLAPS

(***************************************************************************)
(* Type correctness.                                                       *)
(***************************************************************************)

LEMMA NotificationType ==
  ASSUME TypeOK, NEW r \in Requests PROVE Notification(r) \in Message
BY DEF TypeOK, CallTypeOK, Notification, Message, Call, Requests

LEMMA NoCallType == NoCall \in Call
BY ConstantsAssumption DEF NoCall, Call, PCs, AllKinds, Places

LEMMA CallUpdateType ==
  ASSUME CallTypeOK, NEW r \in Requests, NEW v \in Call, call' = [call EXCEPT ![r] = v],
         v.kind = "start", v.connector = call[r].connector, call[r].kind = "start"
  PROVE  CallTypeOK'
BY DEF CallTypeOK

LEMMA GotoType ==
  ASSUME CallTypeOK, NEW r \in Requests, NEW label \in PCs, Goto(r, label),
         label \in Window => call[r].kind = "start"
  PROVE  CallTypeOK'
BY DEF CallTypeOK, Goto, Call

LEMMA TypeInitially == Init => TypeOK
<1> SUFFICES ASSUME Init PROVE TypeOK
  OBVIOUS
<1> USE ConstantsAssumption DEF Init
<1>1. RegistryTypeOK
  BY DEF RegistryTypeOK
<1>2. ObjectTypeOK
  BY DEF ObjectTypeOK
<1>3. NotifierTypeOK
  BY DEF NotifierTypeOK
<1>4. CounterTypeOK
  BY DEF CounterTypeOK
<1>5. CallTypeOK
  BY NoCallType DEF CallTypeOK, NoCall, Window
<1> QED
  BY <1>1, <1>2, <1>3, <1>4, <1>5 DEF TypeOK

LEMMA TypeStep == TypeOK /\ [Next]_vars => TypeOK'
<1> SUFFICES ASSUME TypeOK, [Next]_vars PROVE TypeOK'
  OBVIOUS
<1> USE ConstantsAssumption DEF TypeOK
<1>1. ASSUME NEW c \in ChargePoints, Open(c) PROVE TypeOK'
  <2>1. RegistryTypeOK'
    BY <1>1 DEF Open, RegistryTypeOK, Connections
  <2> QED
    BY <1>1, <2>1 DEF Open, objectVars, ObjectTypeOK, NotifierTypeOK, CounterTypeOK, CallTypeOK
<1>2. ASSUME NEW c \in ChargePoints, Close(c) PROVE TypeOK'
  <2>1. RegistryTypeOK'
    BY <1>2 DEF Close, RegistryTypeOK, Connections
  <2> QED
    BY <1>2, <2>1 DEF Close, objectVars, ObjectTypeOK, NotifierTypeOK, CounterTypeOK, CallTypeOK
<1>3. ASSUME NEW c \in ChargePoints, NEW in \in Inputs(c), Receive(c, in) PROVE TypeOK'
  <2>1. in.kind \in AllKinds /\ in.connector \in Places /\ in.id \in Nat
    BY DEF Inputs, AllKinds, Places, CounterTypeOK
  <2>2. <<c, issued[c] + 1>> \in Requests
    BY <1>3 DEF Receive, Requests, CounterTypeOK
  <2>3. [NoCall EXCEPT !.pc = "entered", !.kind = in.kind, !.link = link[c],
                       !.id = in.id, !.connector = in.connector] \in Call
    BY <2>1, NoCallType DEF Call, PCs, RegistryTypeOK
  <2>4. in.kind = "start" => in.connector \in Connectors
    BY DEF Inputs
  <2>5. CallTypeOK'
    BY <1>3, <2>2, <2>3, <2>4, NoCallType DEF Receive, CallTypeOK, Call, Window
  <2>6. CounterTypeOK'
    BY <1>3 DEF Receive, CounterTypeOK
  <2> QED
    BY <1>3, <2>5, <2>6 DEF Receive, registryVars, objectVars, RegistryTypeOK,
         ObjectTypeOK, NotifierTypeOK
<1>4. ASSUME NEW o \in Connections, Callback(o) PROVE TypeOK'
  <2>1. RegistryTypeOK'
    BY <1>4 DEF Callback, NewChargePoint, ChargePointDisconnected, RegistryTypeOK, Connections
  <2> QED
    BY <1>4, <2>1 DEF Callback, NewChargePoint, ChargePointDisconnected, objectVars,
         ObjectTypeOK, NotifierTypeOK, CounterTypeOK, CallTypeOK
<1>5. ASSUME NEW r \in Requests,
             Authorize(r) \/ Event(r) \/ NotSupported(r) \/ UnknownChargePoint(r)
               \/ StartBusy(r) \/ StopUnknown(r) \/ SendError(r)
      PROVE TypeOK'
  <2>1. CallTypeOK'
    BY <1>5, GotoType DEF Authorize, Event, NotSupported, UnknownChargePoint, StartBusy,
         StopUnknown, SendError, PCs, Answered, Window
  <2> QED
    BY <1>5, <2>1 DEF Authorize, Event, NotSupported, UnknownChargePoint, StartBusy,
         StopUnknown, SendError, handlerFrame, registryVars, objectVars, RegistryTypeOK,
         ObjectTypeOK, NotifierTypeOK, CounterTypeOK, CallTypeOK
<1>6. ASSUME NEW r \in Requests, StatusNotification(r) PROVE TypeOK'
  <2>1. CallTypeOK'
    BY <1>6, GotoType DEF StatusNotification, PCs, Window
  <2>2. ObjectTypeOK'
    BY <1>6, NotificationType DEF StatusNotification, ObjectTypeOK
  <2> QED
    BY <1>6, <2>1, <2>2 DEF StatusNotification, handlerFrame, registryVars,
         RegistryTypeOK, NotifierTypeOK, CounterTypeOK, CallTypeOK
<1>7. ASSUME NEW r \in Requests, StartFree(r) \/ StartTakeId(r) \/ StartLoad(r) PROVE TypeOK'
  <2>1. CallTypeOK'
    <3>0. call[r] \in Call
      BY DEF CallTypeOK
    <3>1. CASE StartFree(r)
      <4> DEFINE v == [call[r] EXCEPT !.pc = "take", !.info = chargePoints[r[1]]]
      <4>1. v \in Call
        BY <3>0 DEF Call, PCs, Window, Requests, RegistryTypeOK
      <4>2. call' = [call EXCEPT ![r] = v] /\ call[r].kind = "start"
        BY <3>1, <3>0 DEF StartFree, CallTypeOK, Call, At
      <4> QED
        BY <3>0, <4>1, <4>2, <3>1, CallUpdateType DEF StartFree, At, Call
    <3>2. CASE StartTakeId(r)
      <4> DEFINE v == [call[r] EXCEPT !.pc = "load", !.id = nextTransactionId]
      <4>1. v \in Call
        BY <3>0 DEF Call, PCs, Window, CounterTypeOK
      <4>2. call' = [call EXCEPT ![r] = v] /\ call[r].kind = "start"
        BY <3>2, <3>0 DEF StartTakeId, CallTypeOK, Call, At, Window
      <4> QED
        BY <3>0, <4>1, <4>2, <3>2, CallUpdateType DEF Call
    <3>3. CASE StartLoad(r)
      <4> DEFINE v == [call[r] EXCEPT !.pc = "store", !.seen = nextTransactionId]
      <4>1. v \in Call
        BY <3>0 DEF Call, PCs, Window, CounterTypeOK
      <4>2. call' = [call EXCEPT ![r] = v] /\ call[r].kind = "start"
        BY <3>3, <3>0 DEF StartLoad, CallTypeOK, Call, At, Window
      <4> QED
        BY <3>0, <4>1, <4>2, <3>3, CallUpdateType DEF Call
    <3> QED
      BY <1>7, <3>1, <3>2, <3>3
  <2>2. CounterTypeOK'
    BY <1>7 DEF StartFree, StartTakeId, StartLoad, CounterTypeOK, handlerFrame
  <2> QED
    BY <1>7, <2>1, <2>2 DEF StartFree, StartTakeId, StartLoad, handlerFrame, registryVars,
         objectVars, RegistryTypeOK, ObjectTypeOK, NotifierTypeOK
<1>8. ASSUME NEW r \in Requests, StartStore(r) PROVE TypeOK'
  <2>1. CallTypeOK'
    BY <1>8, GotoType DEF StartStore, PCs, Window, At, CallTypeOK
  <2>2. CounterTypeOK'
    <3>1. call[r].seen \in Nat
      BY DEF CallTypeOK, Call
    <3> QED
      BY <1>8, <3>1 DEF StartStore, CounterTypeOK, handlerFrame
  <2> QED
    BY <1>8, <2>1, <2>2 DEF StartStore, handlerFrame, registryVars, objectVars,
         RegistryTypeOK, ObjectTypeOK, NotifierTypeOK
<1>9. ASSUME NEW r \in Requests, StartCommit(r) PROVE TypeOK'
  <2>1. CallTypeOK'
    BY <1>9, GotoType DEF StartCommit, PCs, Window
  <2>2. call[r].id \in Nat /\ call[r].connector \in Connectors
    BY <1>9 DEF StartCommit, CallTypeOK, Call, Window, At
  <2>3. [id |-> call[r].id, connector |-> call[r].connector, phase |-> "open"] \in Transaction
    BY <2>2 DEF Transaction
  <2>4. ObjectTypeOK'
    BY <1>9, <2>2, <2>3 DEF StartCommit, ObjectTypeOK
  <2> QED
    BY <1>9, <2>1, <2>4 DEF StartCommit, handlerFrame, registryVars,
         RegistryTypeOK, NotifierTypeOK, CounterTypeOK, CallTypeOK
<1>10. ASSUME NEW r \in Requests, StopFound(r) PROVE TypeOK'
  <2>1. CallTypeOK'
    BY <1>10, GotoType DEF StopFound, PCs, Window
  <2>2. PICK t \in transactions[<<r[1], chargePoints[r[1]]>>] :
          /\ current' = [current EXCEPT ![<<r[1], chargePoints[r[1]]>>][t.connector] = -1]
          /\ transactions' = [transactions EXCEPT ![<<r[1], chargePoints[r[1]]>>] =
                (@ \ {t}) \cup {[t EXCEPT !.phase = "ended"]}]
    BY <1>10 DEF StopFound
  <2>3. <<r[1], chargePoints[r[1]]>> \in Connections
    BY <1>10 DEF StopFound, RegistryTypeOK, Connections, Requests
  <2>4. t \in Transaction /\ [t EXCEPT !.phase = "ended"] \in Transaction
    BY <2>3 DEF ObjectTypeOK, Transaction
  <2>5. ObjectTypeOK'
    BY <1>10, <2>2, <2>4 DEF StopFound, ObjectTypeOK
  <2> QED
    BY <1>10, <2>1, <2>5 DEF StopFound, handlerFrame, registryVars,
         RegistryTypeOK, NotifierTypeOK, CounterTypeOK, CallTypeOK
<1>11. ASSUME NEW r \in Requests, SendConfirmation(r) PROVE TypeOK'
  <2>1. CallTypeOK'
    BY <1>11, GotoType DEF SendConfirmation, PCs, Answered, Window
  <2>2. CounterTypeOK'
    <3>1. call[r].id \in Nat
      BY DEF CallTypeOK, Call
    <3> QED
      BY <1>11, <3>1 DEF SendConfirmation, CounterTypeOK
  <2> QED
    BY <1>11, <2>1, <2>2 DEF SendConfirmation, registryVars, objectVars,
         RegistryTypeOK, ObjectTypeOK, NotifierTypeOK
<1>12. ASSUME NEW r \in Requests, Handoff(r) PROVE TypeOK'
  <2>1. CallTypeOK'
    BY <1>12, GotoType DEF Handoff, PCs, Window
  <2>2. NotifierTypeOK'
    BY <1>12, NotificationType DEF Handoff, NotifierTypeOK
  <2> QED
    BY <1>12, <2>1, <2>2 DEF Handoff, registryVars, objectVars,
         RegistryTypeOK, ObjectTypeOK, CounterTypeOK, CallTypeOK
<1>13. ASSUME Publish PROVE TypeOK'
  BY <1>13 DEF Publish, registryVars, objectVars,
       RegistryTypeOK, ObjectTypeOK, NotifierTypeOK, CounterTypeOK, CallTypeOK
<1>14. CASE UNCHANGED vars
  BY <1>14 DEF vars, registryVars, objectVars,
       RegistryTypeOK, ObjectTypeOK, NotifierTypeOK, CounterTypeOK, CallTypeOK
<1> QED
  BY <1>1, <1>2, <1>3, <1>4, <1>5, <1>6, <1>7, <1>8, <1>9, <1>10, <1>11, <1>12, <1>13, <1>14
  DEF Next, Handle, Idle

\* Every variable keeps its type, and the notifier holds one message at most.
THEOREM TypeCorrect == Spec => []TypeOK
BY TypeInitially, TypeStep, PTL DEF Spec

(***************************************************************************)
(* What the steps of a handler do to the requests.                         *)
(***************************************************************************)

\* The steps of the handlers but for the confirmation, and what they keep.
Serve(r) ==
    \/ Authorize(r) \/ Event(r) \/ NotSupported(r) \/ UnknownChargePoint(r)
    \/ StatusNotification(r)
    \/ StartBusy(r) \/ StartFree(r) \/ StartTakeId(r) \/ StartLoad(r)
    \/ StartStore(r) \/ StartCommit(r)
    \/ StopFound(r) \/ StopUnknown(r) \/ SendError(r)

Served(s) ==
    /\ call'[s].kind = call[s].kind
    /\ call'[s].link = call[s].link
    /\ call[s].pc = "unsent" => call'[s].pc = "unsent"
    /\ Live(s)' => Live(s)
    /\ MayNotify(s)' => MayNotify(s)
    /\ call[s].kind = "stop" => call'[s].id = call[s].id
    /\ call'[s].pc = "confirm" /\ call[s].kind = "start"
         => call[s].pc = "confirm" /\ call'[s].id = call[s].id

LEMMA GotoServed ==
  ASSUME CallTypeOK, NEW r \in Requests, NEW label, Goto(r, label),
         MayNotify(r) \/ At(r, "refuse"),
         At(r, "refuse") => label \in Answered,
         label # "unsent",
         label = "confirm" => call[r].kind # "start"
  PROVE  \A s \in Requests : Served(s)
BY DEF CallTypeOK, Call, Goto, Served, Live, MayNotify, At, Window, Answered

LEMMA ServeStep ==
  ASSUME TypeOK, NEW r \in Requests, Serve(r)
  PROVE  /\ UNCHANGED <<known, pump, published, issued>>
         /\ \A s \in Requests : Served(s)
<1> USE DEF TypeOK
<1>1. UNCHANGED <<known, pump, published, issued>>
  BY DEF Serve, Authorize, Event, NotSupported, UnknownChargePoint, StatusNotification,
     StartBusy, StartFree, StartTakeId, StartLoad, StartStore, StartCommit, StopFound,
     StopUnknown, SendError, handlerFrame
<1>2. \A s \in Requests : Served(s)
  <2>1. CASE Authorize(r) \/ Event(r) \/ NotSupported(r) \/ UnknownChargePoint(r)
               \/ StatusNotification(r) \/ StartBusy(r) \/ StopFound(r) \/ StopUnknown(r)
    BY <2>1, GotoServed DEF Authorize, Event, NotSupported, UnknownChargePoint,
         StatusNotification, StartBusy, StopFound, StopUnknown, At, MayNotify
  <2>2. CASE StartStore(r) \/ StartCommit(r) \/ SendError(r)
    BY <2>2, GotoServed DEF StartStore, StartCommit, SendError, At, MayNotify, Window, Answered
  <2>3. CASE StartFree(r)
    BY <2>3 DEF StartFree, CallTypeOK, Call, Served, Live, MayNotify, At, Window, Answered
  <2>4. CASE StartTakeId(r)
    BY <2>4 DEF StartTakeId, CallTypeOK, Call, Served, Live, MayNotify, At, Window, Answered
  <2>5. CASE StartLoad(r)
    BY <2>5 DEF StartLoad, CallTypeOK, Call, Served, Live, MayNotify, At, Window, Answered
  <2> QED
    BY <2>1, <2>2, <2>3, <2>4, <2>5 DEF Serve
<1> QED
  BY <1>1, <1>2

\* Notifications are never taken back.
LEMMA HandedGrows ==
  ASSUME TypeOK, [Next]_vars PROVE Handed \subseteq Handed'
<1>1. CASE \E r \in Requests : Serve(r)
  BY <1>1, ServeStep DEF Handed
<1>2. CASE \E r \in Requests : SendConfirmation(r) \/ Handoff(r)
  BY <1>2 DEF SendConfirmation, Handoff, Handed
<1>3. CASE \E o \in Connections : Callback(o)
  BY <1>3 DEF Callback, NewChargePoint, ChargePointDisconnected, Handed
<1>4. CASE \E c \in ChargePoints : Open(c) \/ Close(c) \/ \E in \in Inputs(c) : Receive(c, in)
  BY <1>4 DEF Open, Close, Receive, Handed
<1>5. CASE Publish
  BY <1>5 DEF Publish, Handed
<1>6. CASE UNCHANGED vars
  BY <1>6 DEF vars, Handed
<1> QED
  BY <1>1, <1>2, <1>3, <1>4, <1>5, <1>6 DEF Next, Handle, Serve, Idle

\* A confirmed StartTransaction is the only source of ids a charge point knows.
LEMMA ConfirmationStep ==
  ASSUME TypeOK, NEW r \in Requests, SendConfirmation(r)
  PROVE  /\ UNCHANGED <<pump, published, issued>>
         /\ \A s \in Requests : Served(s)
         /\ \A c \in ChargePoints : \A id \in known'[c] :
              id \in known[c] \/ (call[r].kind = "start" /\ c = r[1] /\ id = call[r].id)
<1> USE DEF TypeOK
<1>1. UNCHANGED <<pump, published, issued>>
  BY DEF SendConfirmation
<1>2. \A s \in Requests : Served(s)
  BY DEF SendConfirmation, CallTypeOK, Call, Goto, Served, Live, MayNotify, At, Window, Answered
<1>3. \A c \in ChargePoints : \A id \in known'[c] :
        id \in known[c] \/ (call[r].kind = "start" /\ c = r[1] /\ id = call[r].id)
  BY DEF SendConfirmation, CounterTypeOK
<1> QED
  BY <1>1, <1>2, <1>3

LEMMA HandoffStep ==
  ASSUME TypeOK, NEW r \in Requests, Handoff(r)
  PROVE  /\ UNCHANGED <<known, published, issued>>
         /\ pump = {} /\ pump' = {Notification(r)}
         /\ call[r].pc = "notify" /\ call'[r].pc = "confirm" /\ call'[r].id = call[r].id
         /\ call'[r].kind = call[r].kind /\ call'[r].link = call[r].link
         /\ \A s \in Requests \ {r} : call'[s] = call[s]
BY DEF TypeOK, CallTypeOK, Call, Handoff, Goto, At

\* What a request that arrives is, and where.
LEMMA ReceiveStep ==
  ASSUME TypeOK, NEW c \in ChargePoints, NEW in \in Inputs(c), Receive(c, in)
  PROVE  LET r == <<c, issued[c] + 1>> IN
         /\ UNCHANGED <<pump, published>>
         /\ r \in Requests
         /\ issued' = [issued EXCEPT ![c] = @ + 1]
         /\ call'[r].pc = "entered" /\ call'[r].kind = in.kind
         /\ call'[r].id = in.id /\ call'[r].link = link[c]
         /\ \A s \in Requests \ {r} : call'[s] = call[s]
         /\ in.kind = "stop" => in.id \in known[c]
         /\ \A d \in ChargePoints : known'[d] \subseteq known[d]
<1> DEFINE r == <<c, issued[c] + 1>>
<1> USE DEF TypeOK
<1>1. r \in Requests
  BY ConstantsAssumption DEF Receive, Requests, CounterTypeOK
<1>2. UNCHANGED <<pump, published>> /\ issued' = [issued EXCEPT ![c] = @ + 1]
  BY DEF Receive
<1>3. /\ call'[r].pc = "entered" /\ call'[r].kind = in.kind
      /\ call'[r].id = in.id /\ call'[r].link = link[c]
      /\ \A s \in Requests \ {r} : call'[s] = call[s]
  BY <1>1 DEF Receive, CallTypeOK, NoCall
<1>4. in.kind = "stop" => in.id \in known[c]
  BY DEF Inputs
<1>5. \A d \in ChargePoints : known'[d] \subseteq known[d]
  BY DEF Receive, CounterTypeOK
<1> QED
  BY <1>1, <1>2, <1>3, <1>4, <1>5

\* The steps of the connections concern neither requests nor the notifier.
LEMMA ConnectionStep ==
  ASSUME TypeOK,
         \/ \E c \in ChargePoints : Open(c) \/ Close(c)
         \/ \E o \in Connections : Callback(o)
         \/ UNCHANGED vars
  PROVE  UNCHANGED <<call, known, pump, published, issued>>
BY DEF Open, Close, Callback, NewChargePoint, ChargePointDisconnected, vars

(***************************************************************************)
(* StopAfterStart.                                                         *)
(***************************************************************************)

LEMMA StartsInSet ==
  ASSUME NEW msgs, NEW c, NEW id
  PROVE  <<c, id>> \in StartsIn(msgs)
           <=> \E m \in msgs : m.topic = "start" /\ m.cp = c /\ m.id = id
BY DEF StartsIn

LEMMA StartsGrow ==
  ASSUME NEW more, NEW msgs \in SUBSET more PROVE StartsIn(msgs) \subseteq StartsIn(more)
BY DEF StartsIn

\* An id becomes stoppable by the Handoff of its start.transaction only.
LEMMA StoppableStep ==
  ASSUME TypeOK, [Next]_vars, NEW new, NEW old \in SUBSET new, StoppableIn(old),
         \A r \in Requests : Handoff(r) /\ call[r].kind = "start"
                               => <<r[1], call[r].id>> \in new
  PROVE  StoppableIn(new)'
<1> USE DEF StoppableIn
<1>1. ASSUME UNCHANGED <<call, known>> PROVE StoppableIn(new)'
  BY <1>1 DEF Live, At
<1>2. ASSUME NEW r \in Requests, Serve(r) PROVE StoppableIn(new)'
  BY <1>2, ServeStep DEF Served, At, Live
<1>3. ASSUME NEW r \in Requests, SendConfirmation(r) PROVE StoppableIn(new)'
  <2>1. /\ \A s \in Requests : Served(s)
        /\ \A c \in ChargePoints : \A id \in known'[c] :
             id \in known[c] \/ (call[r].kind = "start" /\ c = r[1] /\ id = call[r].id)
    BY <1>3, ConfirmationStep
  <2>2. \A c \in ChargePoints : \A id \in known'[c] : <<c, id>> \in new
    BY <1>3, <2>1 DEF SendConfirmation
  <2> QED
    BY <2>1, <2>2 DEF Served, At, Live
<1>4. ASSUME NEW r \in Requests, Handoff(r) PROVE StoppableIn(new)'
  <2>1. /\ UNCHANGED known
        /\ call[r].pc = "notify" /\ call'[r].pc = "confirm" /\ call'[r].id = call[r].id
        /\ call'[r].kind = call[r].kind /\ \A s \in Requests \ {r} : call'[s] = call[s]
    BY <1>4, HandoffStep
  <2> QED
    BY <1>4, <2>1 DEF At, Live, Answered
<1>5. ASSUME NEW c \in ChargePoints, NEW in \in Inputs(c), Receive(c, in)
      PROVE  StoppableIn(new)'
  <2>1. PICK r \in Requests :
          /\ r[1] = c
          /\ call'[r].pc = "entered" /\ call'[r].kind = in.kind /\ call'[r].id = in.id
          /\ \A s \in Requests \ {r} : call'[s] = call[s]
          /\ in.kind = "stop" => in.id \in known[c]
          /\ \A d \in ChargePoints : known'[d] \subseteq known[d]
    BY <1>5, ReceiveStep, <<c, issued[c] + 1>>[1] = c
  <2> QED
    BY <2>1 DEF At, Live
<1>6. ASSUME Publish PROVE StoppableIn(new)'
  BY <1>1, <1>6 DEF Publish
<1> QED
  BY <1>1, <1>2, <1>3, <1>4, <1>5, <1>6, ConnectionStep DEF Next, Handle, Serve, Idle

\* The notifier receives a stop.transaction of a stoppable id only, and passes
\* on what it holds before it receives again.
LEMMA FollowStep ==
  ASSUME TypeOK, [Next]_vars, NEW gone, StoppableIn(StartsIn(Handed \cup gone)),
         StopsFollow(published \cup gone)
  PROVE  StopsFollow(published \cup gone)'
<1> USE DEF StopsFollow, Handed
<1>1. ASSUME UNCHANGED <<pump, published>> PROVE StopsFollow(published \cup gone)'
  BY <1>1
<1>2. ASSUME NEW r \in Requests, Handoff(r) PROVE StopsFollow(published \cup gone)'
  <2>1. /\ UNCHANGED published /\ pump = {} /\ pump' = {Notification(r)}
        /\ call[r].pc = "notify"
    BY <1>2, HandoffStep
  <2>2. Notification(r).topic = "stop" =>
          <<Notification(r).cp, Notification(r).id>> \in StartsIn(published \cup gone)
    BY <2>1 DEF Notification, StoppableIn, Live, Answered
  <2> QED
    BY <2>1, <2>2
<1>3. ASSUME Publish PROVE StopsFollow(published \cup gone)'
  <2>1. PICK m \in pump : published' = published \cup {m} /\ pump' = pump \ {m}
    BY <1>3 DEF Publish
  <2>2. StartsIn(published \cup gone) \subseteq StartsIn(published' \cup gone)
    BY <2>1, StartsGrow
  <2> QED
    BY <2>1, <2>2
<1>4. ASSUME NEW r \in Requests, Serve(r) \/ SendConfirmation(r)
      PROVE  StopsFollow(published \cup gone)'
  BY <1>1, <1>4, ServeStep, ConfirmationStep
<1>5. ASSUME NEW c \in ChargePoints, NEW in \in Inputs(c), Receive(c, in)
      PROVE  StopsFollow(published \cup gone)'
  BY <1>1, <1>5, ReceiveStep
<1> QED
  BY <1>1, <1>2, <1>3, <1>4, <1>5, ConnectionStep DEF Next, Handle, Serve, Idle

\* With what the notifier received and lost, the invariant is kept as well.
LEMMA StopsStep ==
  ASSUME TypeOK, [Next]_vars, NEW gone, StoppableIn(StartsIn(Handed \cup gone)),
         StopsFollow(published \cup gone)
  PROVE  /\ StoppableIn(StartsIn(Handed \cup gone))'
         /\ StopsFollow(published \cup gone)'
<1>1. PICK old : old = StartsIn(Handed \cup gone)
  OBVIOUS
<1>2. PICK new : new = StartsIn(Handed' \cup gone)
  OBVIOUS
<1>3. old \subseteq new
  BY <1>1, <1>2, HandedGrows, StartsGrow
<1>4. ASSUME NEW r \in Requests, Handoff(r), call[r].kind = "start"
      PROVE  <<r[1], call[r].id>> \in new
  <2>1. Notification(r) \in Handed'
    BY <1>4, HandoffStep DEF Handed
  <2>2. /\ Notification(r).topic = "start" /\ Notification(r).cp = r[1]
        /\ Notification(r).id = call[r].id
    BY <1>4 DEF Notification
  <2> QED
    BY <1>2, <2>1, <2>2, StartsInSet
<1>5. StoppableIn(old)
  BY <1>1
<1>6. StoppableIn(new)'
  BY <1>3, <1>4, <1>5, StoppableStep
<1> QED
  BY <1>2, <1>6, FollowStep DEF StoppableIn, StartsIn, Handed

LEMMA StopInvStep == TypeOK /\ StopInv /\ [Next]_vars => StopInv'
<1> SUFFICES ASSUME TypeOK, StopInv, [Next]_vars PROVE StopInv'
  OBVIOUS
<1>1. Handed \cup {} = Handed /\ published \cup {} = published
  OBVIOUS
<1>2. (Handed \cup {} = Handed)' /\ (published \cup {} = published)'
  OBVIOUS
<1> QED
  BY <1>1, <1>2, StopsStep DEF StopInv, StoppableIn, StopsFollow, StartsIn

LEMMA StopInitially == Init => StopInv
BY DEF Init, StopInv, StoppableIn, StopsFollow, Handed, Live, At, NoCall

\* Whoever can still cause a stop.transaction holds an id whose start the
\* notifier has received, and a stop in the notifier finds its start published.
THEOREM StopsHeld == Spec => []StopInv
BY StopInitially, StopInvStep, TypeCorrect, PTL DEF Spec

\* stop.transaction is never published before the start.transaction of its id,
\* whatever races, repeated stops and lost connections there are.
THEOREM StopsFollowStarts == Spec => []StopAfterStart
<1>1. StopInv => StopAfterStart
  <2> SUFFICES ASSUME StopInv, NEW m \in published, m.topic = "stop"
               PROVE  \E s \in published : s.topic = "start" /\ s.cp = m.cp /\ s.id = m.id
    BY DEF StopAfterStart
  <2>1. <<m.cp, m.id>> \in StartsIn(published)
    BY DEF StopInv, StopsFollow, Handed
  <2> QED
    BY <2>1, StartsInSet
<1> QED
  BY <1>1, StopsHeld, PTL

(***************************************************************************)
(* OrderPreserved.                                                         *)
(***************************************************************************)

OrderedInv == OneLivePerLink /\ LiveAreLater /\ PumpIsLater

LEMMA IssuedStep == TypeOK /\ IssuedAreSent /\ [Next]_vars => IssuedAreSent'
<1> SUFFICES ASSUME TypeOK, IssuedAreSent, [Next]_vars PROVE IssuedAreSent'
  OBVIOUS
<1> USE DEF IssuedAreSent
<1>1. ASSUME UNCHANGED <<call, known, pump, published, issued>> PROVE IssuedAreSent'
  BY <1>1 DEF Handed
<1>2. ASSUME NEW r \in Requests, Serve(r) \/ SendConfirmation(r) PROVE IssuedAreSent'
  <2>1. UNCHANGED <<pump, published, issued>> /\ \A s \in Requests : Served(s)
    BY <1>2, ServeStep, ConfirmationStep
  <2> QED
    BY <2>1 DEF Served, Handed
<1>3. ASSUME NEW r \in Requests, Handoff(r) PROVE IssuedAreSent'
  <2>1. /\ UNCHANGED <<known, published, issued>> /\ pump' = {Notification(r)}
        /\ call[r].pc = "notify" /\ \A s \in Requests \ {r} : call'[s] = call[s]
    BY <1>3, HandoffStep
  <2>2. r[2] <= issued[r[1]]
    BY <2>1
  <2>3. \A m \in Handed' : m.n <= issued[m.cp]
    BY <2>1, <2>2 DEF Handed, Notification
  <2>4. \A s \in Requests : call'[s].pc # "unsent" => s[2] <= issued[s[1]]
    BY <2>1, <2>2
  <2> QED
    BY <2>1, <2>3, <2>4
<1>4. ASSUME NEW c \in ChargePoints, NEW in \in Inputs(c), Receive(c, in)
      PROVE  IssuedAreSent'
  <2> DEFINE r == <<c, issued[c] + 1>>
  <2>1. /\ UNCHANGED <<pump, published>> /\ issued' = [issued EXCEPT ![c] = @ + 1]
        /\ \A s \in Requests \ {r} : call'[s] = call[s]
    BY <1>4, ReceiveStep
  <2>2. \A d \in ChargePoints : issued[d] \in Nat /\ issued[d] <= issued'[d] /\ issued'[d] \in Nat
    BY <2>1, ConstantsAssumption DEF TypeOK, CounterTypeOK
  <2>3. \A s \in Requests : s[1] \in ChargePoints /\ s[2] \in Nat
    BY DEF Requests
  <2>4. \A s \in Requests : call'[s].pc # "unsent" => s[2] <= issued'[s[1]]
    <3> TAKE s \in Requests
    <3>1. CASE s = r
      BY <2>1, <2>2, <3>1 DEF TypeOK, CounterTypeOK
    <3>2. CASE s # r
      BY <2>1, <2>2, <2>3, <3>2
    <3> QED
      BY <3>1, <3>2
  <2>5. \A m \in Handed : m.n \in Nat /\ m.cp \in ChargePoints
    BY DEF Handed, TypeOK, NotifierTypeOK, Message
  <2>6. \A m \in Handed' : m.n <= issued'[m.cp]
    BY <2>1, <2>2, <2>5 DEF Handed
  <2> QED
    BY <2>4, <2>6
<1>5. ASSUME Publish PROVE IssuedAreSent'
  BY <1>5 DEF Publish, Handed
<1> QED
  BY <1>1, <1>2, <1>3, <1>4, <1>5, ConnectionStep DEF Next, Handle, Serve, Idle

LEMMA OrderedStep ==
  ~Pipelining /\ TypeOK /\ IssuedAreSent /\ OrderedInv /\ [Next]_vars => OrderedInv'
<1> SUFFICES ASSUME ~Pipelining, TypeOK, IssuedAreSent, OrderedInv, [Next]_vars
             PROVE  OrderedInv'
  OBVIOUS
<1> USE DEF OrderedInv
<1>1. ASSUME UNCHANGED <<call, known, pump, published, issued>> PROVE OrderedInv'
  BY <1>1 DEF OneLivePerLink, LiveAreLater, PumpIsLater, Handed, Live, MayNotify
<1>2. ASSUME NEW r \in Requests, Serve(r) \/ SendConfirmation(r) PROVE OrderedInv'
  <2>1. UNCHANGED <<pump, published>> /\ \A s \in Requests : Served(s)
    BY <1>2, ServeStep, ConfirmationStep
  <2> QED
    BY <2>1 DEF OneLivePerLink, LiveAreLater, PumpIsLater, Handed, Served
<1>3. ASSUME NEW r \in Requests, Handoff(r) PROVE OrderedInv'
  <2>1. /\ UNCHANGED published /\ pump = {} /\ pump' = {Notification(r)}
        /\ call[r].pc = "notify" /\ call'[r].pc = "confirm" /\ call'[r].link = call[r].link
        /\ \A s \in Requests \ {r} : call'[s] = call[s]
    BY <1>3, HandoffStep
  <2>2. Live(r) /\ MayNotify(r) /\ ~MayNotify(r)'
    BY <2>1 DEF Live, MayNotify, Answered, Window
  <2>3. /\ Notification(r).n = r[2] /\ Notification(r).cp = r[1]
        /\ Notification(r).link = call[r].link
    BY DEF Notification
  <2>4. \A s \in Requests : Live(s)' => Live(s) /\ call'[s].link = call[s].link
    BY <2>1, <2>2 DEF Live
  <2>5. OneLivePerLink'
    BY <2>4 DEF OneLivePerLink
  <2>6. PumpIsLater'
    BY <2>1, <2>2, <2>3 DEF PumpIsLater, LiveAreLater, Handed
  <2>7. LiveAreLater'
    <3> SUFFICES ASSUME NEW s \in Requests, NEW m \in Handed', MayNotify(s)',
                        m.cp = s[1], m.link = call'[s].link
                 PROVE  m.n < s[2]
      BY DEF LiveAreLater
    <3>1. s # r /\ MayNotify(s) /\ call'[s].link = call[s].link /\ Live(s)
      BY <2>1, <2>2 DEF MayNotify, Live, Window, Answered
    <3>2. m # Notification(r)
      BY <2>2, <2>3, <3>1 DEF OneLivePerLink
    <3> QED
      BY <2>1, <3>1, <3>2 DEF LiveAreLater, Handed
  <2> QED
    BY <2>5, <2>6, <2>7
<1>4. ASSUME NEW c \in ChargePoints, NEW in \in Inputs(c), Receive(c, in)
      PROVE  OrderedInv'
  <2> DEFINE r == <<c, issued[c] + 1>>
  <2>1. /\ UNCHANGED <<pump, published>> /\ r \in Requests
        /\ call'[r].link = link[c] /\ \A s \in Requests \ {r} : call'[s] = call[s]
    BY <1>4, ReceiveStep
  <2>2. ~Awaited(c)
    BY <1>4 DEF Receive
  <2>3. r[1] = c /\ r[2] = issued[c] + 1
    OBVIOUS
  <2>4. issued[c] \in Nat
    BY DEF TypeOK, CounterTypeOK
  <2> HIDE DEF r
  <2>5. \A s \in Requests \ {r} : ~(Live(s)' /\ s[1] = c /\ call'[s].link = link[c])
    BY <2>1, <2>2 DEF Awaited, Live
  <2>6. OneLivePerLink'
    BY <2>1, <2>3, <2>5 DEF OneLivePerLink, Live
  <2>7. LiveAreLater'
    <3> SUFFICES ASSUME NEW s \in Requests, NEW m \in Handed', MayNotify(s)',
                        m.cp = s[1], m.link = call'[s].link
                 PROVE  m.n < s[2]
      BY DEF LiveAreLater
    <3>1. m \in Handed
      BY <2>1 DEF Handed
    <3>2. m.n \in Nat
      BY <3>1 DEF Handed, TypeOK, NotifierTypeOK, Message
    <3>3. CASE s = r
      BY <3>1, <3>2, <3>3, <2>3, <2>4 DEF IssuedAreSent
    <3>4. CASE s # r
      BY <3>1, <3>4, <2>1 DEF LiveAreLater, MayNotify
    <3> QED
      BY <3>3, <3>4
  <2>8. PumpIsLater'
    BY <2>1 DEF PumpIsLater
  <2> QED
    BY <2>6, <2>7, <2>8
<1>5. ASSUME Publish PROVE OrderedInv'
  <2>1. PICK m \in pump : published' = published \cup {m} /\ pump' = pump \ {m}
    BY <1>5 DEF Publish
  <2>2. pump' = {}
    BY <2>1 DEF TypeOK, NotifierTypeOK
  <2>3. UNCHANGED call /\ Handed' = Handed
    BY <1>5, <2>1 DEF Publish, Handed
  <2> QED
    BY <2>2, <2>3 DEF OneLivePerLink, LiveAreLater, PumpIsLater, Live, MayNotify
<1> QED
  BY <1>1, <1>2, <1>3, <1>4, <1>5, ConnectionStep DEF Next, Handle, Serve, Idle

LEMMA OrderInitially == Init => OrderInv
BY DEF Init, OrderInv, IssuedAreSent, OneLivePerLink, LiveAreLater, PumpIsLater,
   Handed, Live, MayNotify, NoCall

LEMMA OrderInvStep == TypeOK /\ OrderInv /\ [Next]_vars => OrderInv'
BY IssuedStep, OrderedStep DEF OrderInv, OrderedInv

\* Only Publish publishes, and what it publishes is later.
LEMMA OrderStepHolds == TypeOK /\ OrderInv /\ [Next]_vars => OrderStep
<1> SUFFICES ASSUME TypeOK, OrderInv, [Next]_vars, ~Pipelining,
                    NEW m \in published' \ published, NEW p \in published,
                    p.cp = m.cp, p.link = m.link
             PROVE  p.n < m.n
  BY DEF OrderStep
<1>1. CASE Publish
  BY <1>1 DEF Publish, OrderInv, PumpIsLater
<1>2. CASE \E r \in Requests : Serve(r) \/ SendConfirmation(r) \/ Handoff(r)
  BY <1>2, ServeStep, ConfirmationStep, HandoffStep
<1>3. CASE \E c \in ChargePoints : \E in \in Inputs(c) : Receive(c, in)
  BY <1>3, ReceiveStep
<1>4. CASE UNCHANGED published
  BY <1>4
<1> QED
  BY <1>1, <1>2, <1>3, <1>4, ConnectionStep DEF Next, Handle, Serve, Idle

\* If charge points wait for their answers, a connection has one request under
\* way, newer than what the notifier received from it.
THEOREM OrderHeld == Spec => []OrderInv
BY OrderInitially, OrderInvStep, TypeCorrect, PTL DEF Spec

\* What one connection reports is published in the order it was sent, if its
\* charge point waits for each answer.
THEOREM OrderKept == Spec => OrderPreserved
BY OrderHeld, OrderStepHolds, TypeCorrect, PTL DEF Spec, OrderPreserved

(***************************************************************************)
(* The registry.                                                           *)
(***************************************************************************)

RegistryOf(c) == OpenIsLast(c) /\ (c \notin crossed => JoinsInOrder(c) /\ EntryIsLatest(c))

LEMMA RegistryParts == RegistryInv <=> \A c \in ChargePoints : RegistryOf(c)
BY DEF RegistryInv, RegistryOf

\* The steps of one charge point's connections do not concern the others.
LEMMA RegistryStays ==
  ASSUME NEW c \in ChargePoints, RegistryOf(c),
         link'[c] = link[c], opened'[c] = opened[c], chargePoints'[c] = chargePoints[c],
         \A e \in 1 .. MaxConnections :
           /\ <<c, e>> \in joining' <=> <<c, e>> \in joining
           /\ <<c, e>> \in leaving' <=> <<c, e>> \in leaving,
         c \in crossed => c \in crossed', opened[c] \in 0 .. MaxConnections,
         link[c] \in 0 .. MaxConnections
  PROVE  RegistryOf(c)'
BY ConstantsAssumption DEF RegistryOf, OpenIsLast, JoinsInOrder, EntryIsLatest, Pending

LEMMA OpenRegistry ==
  ASSUME TypeOK, NEW c \in ChargePoints, RegistryOf(c), Open(c) PROVE RegistryOf(c)'
<1> USE ConstantsAssumption DEF TypeOK, RegistryTypeOK, Open
<1> DEFINE e == opened[c] + 1
<1>1. /\ opened[c] \in 0 .. MaxConnections /\ chargePoints[c] \in 0 .. MaxConnections
      /\ link[c] = 0 /\ link'[c] = e /\ opened'[c] = e /\ e \in 1 .. MaxConnections
      /\ joining' = joining \cup {<<c, e>>}
      /\ UNCHANGED <<leaving, chargePoints, crossed>>
  OBVIOUS
<1>2. ~Pending(c, e)
  BY <1>1 DEF RegistryOf, OpenIsLast
<1>3. OpenIsLast(c)'
  BY <1>1, <1>2 DEF RegistryOf, OpenIsLast, Pending
<1>4. ASSUME c \notin crossed PROVE JoinsInOrder(c)'
  BY <1>1, <1>4 DEF RegistryOf, JoinsInOrder
<1>5. ASSUME c \notin crossed PROVE EntryIsLatest(c)'
  BY <1>1, <1>2, <1>5 DEF RegistryOf, OpenIsLast, EntryIsLatest, Pending
<1> QED
  BY <1>1, <1>3, <1>4, <1>5 DEF RegistryOf

LEMMA CloseRegistry ==
  ASSUME TypeOK, NEW c \in ChargePoints, RegistryOf(c), Close(c) PROVE RegistryOf(c)'
<1> USE ConstantsAssumption DEF TypeOK, RegistryTypeOK, Close
<1> DEFINE e == link[c]
<1>1. /\ opened[c] \in 0 .. MaxConnections /\ chargePoints[c] \in 0 .. MaxConnections
      /\ e = opened[c] /\ e # 0 /\ link'[c] = 0
      /\ leaving' = leaving \cup {<<c, e>>}
      /\ UNCHANGED <<joining, chargePoints, crossed, opened>>
  BY DEF RegistryOf, OpenIsLast
<1>2. OpenIsLast(c)'
  BY <1>1 DEF RegistryOf, OpenIsLast, Pending
<1>3. ASSUME c \notin crossed PROVE JoinsInOrder(c)'
  BY <1>1, <1>3 DEF RegistryOf, JoinsInOrder
<1>4. ASSUME c \notin crossed PROVE EntryIsLatest(c)'
  BY <1>1, <1>4 DEF RegistryOf, OpenIsLast, EntryIsLatest, Pending
<1> QED
  BY <1>1, <1>2, <1>3, <1>4 DEF RegistryOf

LEMMA ConnectRegistry ==
  ASSUME TypeOK, NEW c \in ChargePoints, NEW e \in 1 .. MaxConnections,
         RegistryOf(c), NewChargePoint(c, e)
  PROVE  RegistryOf(c)'
<1> USE ConstantsAssumption DEF TypeOK, RegistryTypeOK, NewChargePoint
<1>1. /\ opened[c] \in 0 .. MaxConnections /\ link[c] \in 0 .. MaxConnections
      /\ <<c, e>> \in joining /\ joining' = joining \ {<<c, e>>} /\ e \in 1 .. opened[c]
      /\ chargePoints'[c] = e
      /\ UNCHANGED <<leaving, link, opened>>
  BY DEF RegistryOf, OpenIsLast, Pending
<1>2. OpenIsLast(c)'
  BY <1>1 DEF RegistryOf, OpenIsLast, Pending
<1>3. ASSUME c \notin crossed' PROVE JoinsInOrder(c)' /\ EntryIsLatest(c)'
  <2>1. /\ \A d \in 1 .. e - 1 : ~Pending(c, d)
        /\ c \notin crossed \/ link[c] = e
    BY <1>3 DEF Pending
  <2>2. CASE c \notin crossed
    <3>1. JoinsInOrder(c) /\ EntryIsLatest(c)
      BY <2>2 DEF RegistryOf
    <3>2. JoinsInOrder(c)'
      BY <1>1, <2>1, <3>1 DEF JoinsInOrder, Pending
    <3>3. EntryIsLatest(c)'
      BY <1>1, <2>1, <3>1 DEF JoinsInOrder, EntryIsLatest, Pending
    <3> QED
      BY <3>2, <3>3
  <2>3. CASE link[c] = e
    <3>1. e = opened[c] /\ <<c, e>> \notin leaving
      BY <1>1, <2>3 DEF RegistryOf, OpenIsLast
    <3>2. \A d \in 1 .. opened[c] : ~Pending(c, d)'
      BY <1>1, <2>1, <3>1 DEF Pending
    <3> QED
      BY <1>1, <2>3, <3>1, <3>2 DEF JoinsInOrder, EntryIsLatest, Pending
  <2> QED
    BY <2>1, <2>2, <2>3
<1> QED
  BY <1>2, <1>3 DEF RegistryOf

LEMMA DisconnectRegistry ==
  ASSUME TypeOK, NEW c \in ChargePoints, NEW e \in 1 .. MaxConnections,
         RegistryOf(c), ChargePointDisconnected(c, e)
  PROVE  RegistryOf(c)'
<1> USE ConstantsAssumption DEF TypeOK, RegistryTypeOK, ChargePointDisconnected
<1>1. /\ opened[c] \in 0 .. MaxConnections /\ link[c] \in 0 .. MaxConnections
      /\ chargePoints[c] \in 0 .. MaxConnections
      /\ <<c, e>> \in leaving /\ leaving' = leaving \ {<<c, e>>} /\ e \in 1 .. opened[c]
      /\ link[c] # e /\ chargePoints'[c] = 0
      /\ UNCHANGED <<joining, link, opened>>
  BY DEF RegistryOf, OpenIsLast, Pending
<1>2. OpenIsLast(c)'
  BY <1>1 DEF RegistryOf, OpenIsLast, Pending
<1>3. ASSUME c \notin crossed' PROVE JoinsInOrder(c)' /\ EntryIsLatest(c)'
  <2>1. /\ \A d \in 1 .. e : <<c, d>> \notin joining
        /\ \A d \in 1 .. e - 1 : <<c, d>> \notin leaving
        /\ JoinsInOrder(c) /\ EntryIsLatest(c)
    BY <1>3 DEF RegistryOf
  <2>2. JoinsInOrder(c)'
    BY <1>1, <2>1 DEF JoinsInOrder
  <2>3. chargePoints[c] = e
    BY <1>1, <2>1 DEF EntryIsLatest, Pending
  <2>4. EntryIsLatest(c)'
    BY <1>1, <2>1, <2>3 DEF RegistryOf, OpenIsLast, EntryIsLatest, Pending
  <2> QED
    BY <2>2, <2>4
<1> QED
  BY <1>2, <1>3 DEF RegistryOf

\* A step of the connections of one charge point leaves the others' as they are.
LEMMA OthersStay ==
  ASSUME TypeOK, NEW c \in ChargePoints, NEW b \in ChargePoints \ {c}, RegistryOf(b),
         \/ Open(c) \/ Close(c)
         \/ \E e \in 1 .. MaxConnections :
               NewChargePoint(c, e) \/ ChargePointDisconnected(c, e)
  PROVE  RegistryOf(b)'
<1> USE DEF TypeOK, RegistryTypeOK
<1>1. /\ link'[b] = link[b] /\ opened'[b] = opened[b] /\ chargePoints'[b] = chargePoints[b]
      /\ b \in crossed => b \in crossed'
  BY DEF Open, Close, NewChargePoint, ChargePointDisconnected
<1>2. \A e \in 1 .. MaxConnections :
        /\ <<b, e>> \in joining' <=> <<b, e>> \in joining
        /\ <<b, e>> \in leaving' <=> <<b, e>> \in leaving
  <2>1. \A d, e : <<b, e>> # <<c, d>>
    OBVIOUS
  <2>2. CASE Open(c)
    BY <2>1, <2>2 DEF Open
  <2>3. CASE Close(c)
    BY <2>1, <2>3 DEF Close
  <2>4. ASSUME NEW d \in 1 .. MaxConnections, NewChargePoint(c, d)
        PROVE  /\ leaving' = leaving
               /\ \A e : <<b, e>> \in joining' <=> <<b, e>> \in joining
    BY <2>1, <2>4 DEF NewChargePoint
  <2>5. ASSUME NEW d \in 1 .. MaxConnections, ChargePointDisconnected(c, d)
        PROVE  /\ joining' = joining
               /\ \A e : <<b, e>> \in leaving' <=> <<b, e>> \in leaving
    BY <2>1, <2>5 DEF ChargePointDisconnected
  <2> QED
    BY <2>2, <2>3, <2>4, <2>5
<1> QED
  BY <1>1, <1>2, RegistryStays

LEMMA RegistryInvStep == TypeOK /\ RegistryInv /\ [Next]_vars => RegistryInv'
<1> SUFFICES ASSUME TypeOK, \A c \in ChargePoints : RegistryOf(c), [Next]_vars,
                    NEW b \in ChargePoints
             PROVE  RegistryOf(b)'
  BY RegistryParts DEF RegistryInv, RegistryOf
<1>1. ASSUME NEW c \in ChargePoints, Open(c) \/ Close(c) PROVE RegistryOf(b)'
  BY <1>1, OthersStay, OpenRegistry, CloseRegistry
<1>2. ASSUME NEW o \in Connections, Callback(o) PROVE RegistryOf(b)'
  BY <1>2, OthersStay, ConnectRegistry, DisconnectRegistry DEF Callback, Connections
<1>3. CASE UNCHANGED registryVars
  BY <1>3, RegistryStays DEF registryVars, TypeOK, RegistryTypeOK
<1>4. ASSUME NEW r \in Requests, Handle(r) PROVE UNCHANGED registryVars
  BY <1>4 DEF Handle, Authorize, Event, NotSupported, UnknownChargePoint,
     StatusNotification, StartBusy, StartFree, StartTakeId, StartLoad, StartStore,
     StartCommit, StopFound, StopUnknown, SendConfirmation, SendError, handlerFrame
<1> QED
  BY <1>1, <1>2, <1>3, <1>4 DEF Next, Receive, Handoff, Publish, Idle, vars

LEMMA RegistryInitially == Init => RegistryInv
BY ConstantsAssumption DEF Init, RegistryInv, OpenIsLast, JoinsInOrder, EntryIsLatest, Pending

LEMMA RegistryFollows == TypeOK /\ RegistryInv => RegistryMirrors
<1> SUFFICES ASSUME TypeOK, RegistryInv, NEW c \in ChargePoints \ crossed,
                    \A o \in joining \cup leaving : o[1] # c
             PROVE  chargePoints[c] = link[c]
  BY DEF RegistryMirrors
<1>1. \A e : <<c, e>> \notin joining /\ <<c, e>> \notin leaving
  <2> SUFFICES ASSUME NEW e, <<c, e>> \in joining \cup leaving PROVE FALSE
    OBVIOUS
  <2> QED
    BY <<c, e>>[1] = c
<1>2. OpenIsLast(c) /\ EntryIsLatest(c)
  BY DEF RegistryInv
<1>3. /\ opened[c] \in Nat /\ link[c] \in {0, opened[c]}
      /\ chargePoints[c] \in 0 .. opened[c]
  BY <1>2, ConstantsAssumption DEF OpenIsLast, TypeOK, RegistryTypeOK
<1>4. \A e \in 1 .. opened[c] :
        /\ e = chargePoints[c] => link[c] = e
        /\ e > chargePoints[c] => chargePoints[c] = 0 /\ link[c] # e
  BY <1>1, <1>2 DEF EntryIsLatest
<1> QED
  BY <1>3, <1>4

\* The entry of a charge point whose callbacks run in order is that of the last
\* connect callback that ran, and its connection is open or about to leave; one
\* that callbacks out of order have left is put right by the next connection.
THEOREM RegistryHeld == Spec => []RegistryInv
BY RegistryInitially, RegistryInvStep, TypeCorrect, PTL DEF Spec

\* When its callbacks have run in order, or have again since they did not, a charge
\* point is registered exactly under its open connection.
THEOREM RegistryKept == Spec => []RegistryMirrors
BY RegistryHeld, RegistryFollows, TypeCorrect, PTL

=============================================================================
