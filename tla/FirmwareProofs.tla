----------------------------- MODULE FirmwareProofs -----------------------------
(* Theorems about FirmwareHandlers: the properties of CentralSystem that hold    *)
(* with the firmware handlers, too, and the report that an object holds.         *)
EXTENDS FirmwareHandlers, NotificationProofs

(***************************************************************************)
(* What the steps change.                                                  *)
(***************************************************************************)

\* A handler moves its own report on, and keeps what was reported in it.
LEMMA ReportStep ==
  ASSUME FirmwareTypeOK, NEW r \in Requests, FirmwareHandle(r)
  PROVE  /\ UNCHANGED <<registryVars, objectVars, nextTransactionId, call, issued, known,
                        published, raced>>
         /\ \A s \in Requests \ {r} : report'[s] = report[s]
         /\ Reporting(r) /\ report'[r].pc # "unsent"
         /\ report'[r].link = report[r].link /\ report'[r].field = report[r].field
         /\ \A s \in Requests : ReportNotification(s)' = ReportNotification(s)
<1>1. UNCHANGED <<registryVars, objectVars, nextTransactionId, call, issued, known,
                  published, raced>>
  BY DEF FirmwareHandle, LookUp, ReportHandoff, RefuseReport, SetStatus, vars
<1>2. /\ \A s \in Requests \ {r} : report'[s] = report[s]
      /\ Reporting(r) /\ report'[r].pc # "unsent"
      /\ report'[r].link = report[r].link /\ report'[r].field = report[r].field
  BY DEF FirmwareHandle, LookUp, ReportHandoff, RefuseReport, SetStatus, FirmwareTypeOK,
     Report, Reporting
<1> QED
  BY <1>1, <1>2 DEF ReportNotification

\* What a firmware request that arrives is, and where.
LEMMA ReceiveReportStep ==
  ASSUME FirmwareTypeOK, NEW c \in ChargePoints, NEW field \in Fields, ReceiveReport(c, field)
  PROVE  \E r \in Requests :
           /\ r[1] = c /\ r[2] = issued[c] + 1
           /\ issued' = [issued EXCEPT ![c] = @ + 1]
           /\ report'[r].pc = "entered" /\ report'[r].link = link[c] /\ report'[r].info = 0
           /\ \A s \in Requests \ {r} : report'[s] = report[s]
           /\ UNCHANGED <<registryVars, objectVars, nextTransactionId, call, pump, known,
                          published, raced, reported>>
           /\ ~Pipelining => ~Awaited(c) /\ ~ReportAwaited(c)
<1> DEFINE r == <<c, issued[c] + 1>>
<1>1. r \in Requests /\ r[1] = c /\ r[2] = issued[c] + 1
  BY ConstantsAssumption DEF ReceiveReport, Requests, FirmwareTypeOK, TypeOK, CounterTypeOK
<1>2. /\ report'[r].pc = "entered" /\ report'[r].link = link[c] /\ report'[r].info = 0
      /\ \A s \in Requests \ {r} : report'[s] = report[s]
  BY <1>1 DEF ReceiveReport, NoReport, FirmwareTypeOK
<1>3. /\ issued' = [issued EXCEPT ![c] = @ + 1]
      /\ UNCHANGED <<registryVars, objectVars, nextTransactionId, call, pump, known,
                     published, raced, reported>>
      /\ ~Pipelining => ~Awaited(c) /\ ~ReportAwaited(c)
  BY DEF ReceiveReport
<1> HIDE DEF r
<1> QED
  BY <1>1, <1>2, <1>3

LEMMA ReportNotificationType ==
  ASSUME FirmwareTypeOK, NEW r \in Requests PROVE ReportNotification(r) \in Message
BY DEF FirmwareTypeOK, Report, ReportNotification, Message, Requests, AllKinds, Places

(***************************************************************************)
(* Type correctness.                                                       *)
(***************************************************************************)

LEMMA FirmwareTypeInitially == FirmwareInit => FirmwareTypeOK
<1> SUFFICES ASSUME FirmwareInit PROVE FirmwareTypeOK
  OBVIOUS
<1>1. NoReport \in Report
  BY ConstantsAssumption DEF NoReport, Report, Fields
<1> QED
  BY <1>1, TypeInitially DEF FirmwareInit, FirmwareTypeOK

LEMMA FirmwareTypeStep == FirmwareTypeOK /\ [FirmwareNext]_allVars => FirmwareTypeOK'
<1> SUFFICES ASSUME FirmwareTypeOK, [FirmwareNext]_allVars PROVE FirmwareTypeOK'
  OBVIOUS
<1> USE DEF FirmwareTypeOK
<1>1. ASSUME [Next]_vars, UNCHANGED firmwareVars PROVE FirmwareTypeOK'
  BY <1>1, TypeStep DEF firmwareVars
<1>2. ASSUME NEW c \in ChargePoints, NEW field \in Fields, ReceiveReport(c, field)
      PROVE  FirmwareTypeOK'
  <2>1. /\ issued' = [issued EXCEPT ![c] = @ + 1]
        /\ UNCHANGED <<registryVars, objectVars, nextTransactionId, call, pump, known,
                       published, raced, reported>>
    BY <1>2 DEF ReceiveReport
  <2>2. report' \in [Requests -> Report]
    <3>1. link[c] \in 0 .. MaxConnections
      BY DEF TypeOK, RegistryTypeOK
    <3>2. NoReport \in Report
      BY ConstantsAssumption DEF NoReport, Report, Fields
    <3>3. [NoReport EXCEPT !.pc = "entered", !.field = field, !.link = link[c]] \in Report
      BY <3>1, <3>2 DEF Report
    <3> QED
      BY <1>2, <3>3 DEF ReceiveReport
  <2>3. issued' \in [ChargePoints -> 0 .. MaxRequests]
    BY <1>2, <2>1, ConstantsAssumption DEF ReceiveReport, TypeOK, CounterTypeOK
  <2>4. TypeOK'
    BY <2>1, <2>3 DEF TypeOK, RegistryTypeOK, ObjectTypeOK, NotifierTypeOK, CounterTypeOK,
       CallTypeOK, registryVars, objectVars
  <2> QED
    BY <2>1, <2>2, <2>4
<1>3. ASSUME NEW r \in Requests, LookUp(r) PROVE FirmwareTypeOK'
  <2>1. TypeOK'
    BY <1>3, TypeStep DEF LookUp
  <2>2. [report[r] EXCEPT !.pc = "notify", !.info = chargePoints[r[1]]] \in Report
    <3>1. report[r] \in Report /\ chargePoints[r[1]] \in 0 .. MaxConnections
      BY DEF TypeOK, RegistryTypeOK, Requests
    <3> QED
      BY <3>1 DEF Report
  <2> QED
    BY <1>3, <2>1, <2>2 DEF LookUp
<1>4. ASSUME NEW r \in Requests, ReportHandoff(r) PROVE FirmwareTypeOK'
  <2>1. [report[r] EXCEPT !.pc = "set"] \in Report
    BY DEF Report
  <2>2. NotifierTypeOK'
    BY <1>4, ReportNotificationType DEF ReportHandoff, TypeOK, NotifierTypeOK
  <2>3. TypeOK'
    BY <1>4, <2>2 DEF ReportHandoff, TypeOK, RegistryTypeOK, ObjectTypeOK, CounterTypeOK,
       CallTypeOK, registryVars, objectVars
  <2> QED
    BY <1>4, <2>1, <2>3 DEF ReportHandoff
<1>5. ASSUME NEW r \in Requests, RefuseReport(r) PROVE FirmwareTypeOK'
  <2>1. TypeOK'
    BY <1>5, TypeStep DEF RefuseReport
  <2>2. [report[r] EXCEPT !.pc = "refused"] \in Report
    BY DEF Report
  <2> QED
    BY <1>5, <2>1, <2>2 DEF RefuseReport
<1>6. ASSUME NEW r \in Requests, SetStatus(r) PROVE FirmwareTypeOK'
  <2> DEFINE o == <<r[1], report[r].info>>
  <2>1. TypeOK'
    BY <1>6, TypeStep DEF SetStatus
  <2>2. [report[r] EXCEPT !.pc = "confirmed"] \in Report
    BY DEF Report
  <2>3. report' \in [Requests -> Report]
    BY <1>6, <2>2 DEF SetStatus
  <2>4. o \in Connections /\ report[r].field \in Fields
    BY <1>6, ConstantsAssumption DEF SetStatus, Report, Connections, Requests
  <2>5. reported' = [reported EXCEPT ![o][report[r].field] = {r}]
    BY <1>6 DEF SetStatus
  <2> HIDE DEF o
  <2>6. /\ reported' \in [Connections -> [Fields -> SUBSET Requests]]
        /\ \A p \in Connections, f \in Fields : reported'[p][f] \in {reported[p][f], {r}}
    BY <2>4, <2>5
  <2> QED
    BY <2>1, <2>3, <2>6
<1> QED
  BY <1>1, <1>2, <1>3, <1>4, <1>5, <1>6
     DEF FirmwareNext, CoreStep, FirmwareHandle, allVars

\* Every variable keeps its type.
THEOREM FirmwareTypeCorrect == FirmwareSpec => []FirmwareTypeOK
BY FirmwareTypeInitially, FirmwareTypeStep, PTL DEF FirmwareSpec

(***************************************************************************)
(* What a step of CentralSystem may change that concerns the reports.      *)
(***************************************************************************)

LEMMA NumbersGrow ==
  ASSUME TypeOK, [Next]_vars, NEW c \in ChargePoints
  PROVE  issued[c] \in Nat /\ issued'[c] \in Nat /\ issued[c] <= issued'[c]
<1> USE DEF TypeOK, CounterTypeOK
<1>1. issued[c] \in Nat /\ issued'[c] \in Nat
  BY TypeStep
<1>2. ASSUME NEW d \in ChargePoints, NEW in \in Inputs(d), Receive(d, in)
      PROVE  issued[c] <= issued'[c]
  BY <1>1, <1>2 DEF Receive
<1> QED
  BY <1>1, <1>2, ServeStep, ConfirmationStep, HandoffStep, ConnectionStep
     DEF Next, Handle, Serve, Idle, Publish

\* Nobody but a Handoff tells the notifier anything.
LEMMA HandedByHandoff ==
  ASSUME TypeOK, [Next]_vars, NEW m \in Handed', m \notin Handed
  PROVE  \E r \in Requests : Handoff(r) /\ m = Notification(r)
<1>1. ASSUME NEW r \in Requests, Serve(r) \/ SendConfirmation(r) PROVE FALSE
  BY <1>1, ServeStep, ConfirmationStep DEF Handed
<1>2. ASSUME NEW r \in Requests, Handoff(r) PROVE m = Notification(r)
  BY <1>2, HandoffStep DEF Handed
<1>3. ASSUME NEW c \in ChargePoints, NEW in \in Inputs(c), Receive(c, in) PROVE FALSE
  BY <1>3, ReceiveStep DEF Handed
<1>4. ASSUME Publish PROVE FALSE
  BY <1>4 DEF Publish, Handed
<1>5. ASSUME UNCHANGED <<call, known, pump, published, issued>> PROVE FALSE
  BY <1>5 DEF Handed
<1> QED
  BY <1>1, <1>2, <1>3, <1>4, <1>5, ConnectionStep DEF Next, Handle, Serve, Idle

\* The core handlers notify no firmware request: they do not support it.
LEMMA NoFirmwareNotified ==
  ASSUME TypeOK, [Next]_vars, \A r \in Requests : At(r, "notify") => call[r].kind # "firmware",
         NEW r \in Requests, At(r, "notify")'
  PROVE  call'[r].kind # "firmware"
<1> USE DEF TypeOK, CallTypeOK, Call, At, Goto
<1>1. CASE call'[r] = call[r]
  BY <1>1
<1>2. CASE Serve(r)
  <2>1. CASE Authorize(r) \/ NotSupported(r) \/ UnknownChargePoint(r) \/ StartBusy(r)
             \/ StopUnknown(r) \/ SendError(r)
    BY <2>1 DEF Authorize, NotSupported, UnknownChargePoint, StartBusy, StopUnknown, SendError
  <2>2. CASE Event(r) \/ StopFound(r) \/ StatusNotification(r)
    BY <2>2 DEF Event, StopFound, StatusNotification
  <2>3. CASE StartFree(r) \/ StartTakeId(r) \/ StartLoad(r) \/ StartStore(r)
    BY <2>3 DEF StartFree, StartTakeId, StartLoad, StartStore
  <2>4. CASE StartCommit(r)
    BY <2>4 DEF StartCommit, Window
  <2> QED
    BY <1>2, <2>1, <2>2, <2>3, <2>4 DEF Serve
<1>3. CASE SendConfirmation(r) \/ Handoff(r)
  BY <1>3 DEF SendConfirmation, Handoff
<1>4. ASSUME NEW s \in Requests \ {r}, Handle(s) \/ Handoff(s) PROVE call'[r] = call[r]
  BY <1>4, OneCallStep
<1>5. ASSUME NEW c \in ChargePoints, NEW in \in Inputs(c), Receive(c, in)
      PROVE  call'[r] = call[r]
  BY <1>5, ReceiveStep
<1> QED
  BY <1>1, <1>2, <1>3, <1>4, <1>5, ConnectionStep DEF Next, Handle, Serve, Idle, Publish

\* A connection that is new after a step was new before it.
LEMMA NewWasNew ==
  ASSUME TypeOK, [Next]_vars, NEW o \in Connections, o \in joining' \/ o[2] > opened'[o[1]]
  PROVE  o \in joining \/ o[2] > opened[o[1]]
<1>1. o[1] \in ChargePoints /\ o[2] \in Nat /\ o = <<o[1], o[2]>>
  BY DEF Connections
<1>2. opened[o[1]] \in Nat /\ opened'[o[1]] \in Nat /\ opened[o[1]] <= opened'[o[1]]
  BY <1>1, OpenedGrows
<1>3. CASE o \notin joining'
  BY <1>1, <1>2, <1>3
<1>4. ASSUME NEW c \in ChargePoints, Open(c), o \in joining', o \notin joining
      PROVE  o[2] > opened[o[1]]
  BY <1>1, <1>2, <1>4 DEF Open
<1>5. ASSUME NEW r \in Requests, Handle(r) \/ Handoff(r) PROVE joining' = joining
  BY <1>5, OneCallStep DEF registryVars
<1>6. ASSUME \/ \E c \in ChargePoints : Close(c) \/ \E in \in Inputs(c) : Receive(c, in)
             \/ \E p \in Connections : Callback(p)
             \/ Publish \/ UNCHANGED vars
      PROVE  joining' \subseteq joining
  BY <1>6 DEF Close, Receive, Callback, NewChargePoint, ChargePointDisconnected, Publish,
     vars, registryVars
<1> QED
  BY <1>3, <1>4, <1>5, <1>6 DEF Next, Idle

\* An object is registered by its connect callback only.
LEMMA RegisteredWas ==
  ASSUME TypeOK, [Next]_vars, NEW o \in Connections, chargePoints'[o[1]] = o[2]
  PROVE  chargePoints[o[1]] = o[2] \/ o \in joining
<1>1. o[1] \in ChargePoints /\ o[2] \in 1 .. MaxConnections /\ o = <<o[1], o[2]>>
  BY DEF Connections
<1>2. ASSUME NEW c \in ChargePoints, NEW e \in 1 .. MaxConnections,
             NewChargePoint(c, e) \/ ChargePointDisconnected(c, e)
      PROVE  chargePoints[o[1]] = o[2] \/ o \in joining
  <2>1. CASE o[1] # c
    BY <1>1, <1>2, <2>1 DEF NewChargePoint, ChargePointDisconnected, TypeOK, RegistryTypeOK
  <2>2. CASE o[1] = c /\ NewChargePoint(c, e)
    BY <1>1, <2>2 DEF NewChargePoint, TypeOK, RegistryTypeOK
  <2>3. CASE o[1] = c /\ ChargePointDisconnected(c, e)
    BY <1>1, <2>3 DEF ChargePointDisconnected, TypeOK, RegistryTypeOK
  <2> QED
    BY <1>2, <2>1, <2>2, <2>3
<1>3. ASSUME NEW r \in Requests, Handle(r) \/ Handoff(r) PROVE chargePoints' = chargePoints
  BY <1>3, OneCallStep DEF registryVars
<1>4. ASSUME \/ \E c \in ChargePoints : \/ Open(c) \/ Close(c)
                                       \/ \E in \in Inputs(c) : Receive(c, in)
             \/ Publish \/ UNCHANGED vars
      PROVE  chargePoints' = chargePoints
  BY <1>4 DEF Open, Close, Receive, Publish, vars, registryVars
<1> QED
  BY <1>2, <1>3, <1>4 DEF Next, Idle, Callback, Connections

(***************************************************************************)
(* The order of the notifications.                                         *)
(***************************************************************************)

\* A firmware request that arrives is only a number more to the core.
LEMMA OrderAtReceive ==
  ASSUME FirmwareTypeOK, OrderInv, NEW c \in ChargePoints, NEW field \in Fields,
         ReceiveReport(c, field)
  PROVE  OrderInv'
<1>1. /\ issued' = [issued EXCEPT ![c] = @ + 1]
      /\ UNCHANGED <<call, pump, published>>
  BY DEF ReceiveReport
<1>2. \A d \in ChargePoints : issued[d] \in Nat /\ issued[d] <= issued'[d] /\ issued'[d] \in Nat
  BY <1>1 DEF FirmwareTypeOK, TypeOK, CounterTypeOK
<1>3. IssuedAreSent'
  <2>1. \A r \in Requests : call'[r].pc # "unsent" => r[2] <= issued'[r[1]]
    BY <1>1, <1>2 DEF OrderInv, IssuedAreSent, Requests
  <2>2. \A m \in Handed' : m \in Handed /\ m.cp \in ChargePoints /\ m.n \in Nat
    BY <1>1 DEF FirmwareTypeOK, TypeOK, NotifierTypeOK, Message, Handed
  <2>3. \A m \in Handed' : m.n <= issued'[m.cp]
    BY <1>2, <2>2 DEF OrderInv, IssuedAreSent
  <2> QED
    BY <2>1, <2>3 DEF IssuedAreSent
<1>4. ASSUME ~Pipelining PROVE OneLivePerLink' /\ LiveAreLater' /\ PumpIsLater'
  BY <1>1, <1>4 DEF OrderInv, OneLivePerLink, LiveAreLater, PumpIsLater, Handed, Live, MayNotify
<1> QED
  BY <1>3, <1>4 DEF OrderInv

\* What a firmware handler hands over is later than all of its connection.
LEMMA OrderAtHandoff ==
  ASSUME FirmwareTypeOK, FirmwareInv, NEW r \in Requests, ReportHandoff(r)
  PROVE  OrderInv'
<1> DEFINE new == ReportNotification(r)
<1>1. /\ new.n = r[2] /\ new.cp = r[1] /\ new.link = report[r].link
      /\ r[1] \in ChargePoints
  BY DEF ReportNotification, Requests
<1>2. /\ report[r].pc = "notify" /\ pump = {} /\ pump' = {new}
      /\ UNCHANGED <<call, issued, published>>
  BY DEF ReportHandoff
<1> HIDE DEF new
<1>3. IssuedAreSent'
  <2>1. r[2] <= issued[r[1]]
    BY <1>2 DEF FirmwareInv, ReportsAreHanded
  <2> QED
    BY <1>1, <1>2, <2>1 DEF FirmwareInv, OrderInv, IssuedAreSent, Handed
<1>4. ASSUME ~Pipelining PROVE OneLivePerLink' /\ LiveAreLater' /\ PumpIsLater'
  <2>1. OneLivePerLink /\ LiveAreLater /\ ReportsInOrder
    BY <1>4 DEF FirmwareInv, OrderInv
  <2>2. OneLivePerLink'
    BY <1>2, <2>1 DEF OneLivePerLink, Live
  <2>3. \A s \in Requests : MayNotify(s) /\ s[1] = r[1] => call[s].link # report[r].link
    BY <1>2, <2>1 DEF ReportsInOrder, Reporting, MayNotify, Live, Window, Answered
  <2>4. LiveAreLater'
    BY <1>1, <1>2, <2>1, <2>3 DEF LiveAreLater, MayNotify, Handed
  <2>5. PumpIsLater'
    BY <1>1, <1>2, <2>1 DEF PumpIsLater, ReportsInOrder, Handed
  <2> QED
    BY <2>2, <2>4, <2>5
<1> QED
  BY <1>3, <1>4 DEF OrderInv

LEMMA OrderInAll ==
  ASSUME FirmwareTypeOK, FirmwareInv, [FirmwareNext]_allVars PROVE OrderInv'
<1>1. ASSUME [Next]_vars PROVE OrderInv'
  BY <1>1, OrderInvStep DEF FirmwareInv, FirmwareTypeOK
<1>2. ASSUME NEW r \in Requests, LookUp(r) \/ RefuseReport(r) \/ SetStatus(r) PROVE [Next]_vars
  BY <1>2 DEF LookUp, RefuseReport, SetStatus
<1> QED
  BY <1>1, <1>2, OrderAtReceive, OrderAtHandoff
     DEF FirmwareNext, CoreStep, FirmwareHandle, FirmwareInv, allVars

\* A request of either kind arrives only after the last one is answered.
LEMMA ReportsOrderedCore ==
  ASSUME ~Pipelining, FirmwareTypeOK, FirmwareInv, CoreStep PROVE ReportsInOrder'
<1>1. ReportsInOrder /\ UNCHANGED report /\ [Next]_vars /\ TypeOK
  BY DEF FirmwareInv, CoreStep, firmwareVars, FirmwareTypeOK
<1>2. \A r, s \in Requests :
        Reporting(r)' /\ report'[s].pc # "unsent" /\ SameLink(r, s)' => s[2] <= r[2]
  BY <1>1 DEF ReportsInOrder, Reporting, SameLink
<1>3. ASSUME NEW r \in Requests, NEW s \in Requests, Reporting(r), Live(s)', r[1] = s[1],
             report[r].link = call'[s].link
      PROVE  FALSE
  <2>1. ASSUME Live(s), call'[s].link = call[s].link PROVE FALSE
    BY <1>1, <1>3, <2>1 DEF ReportsInOrder
  <2>2. ASSUME NEW q \in Requests, Serve(q) \/ SendConfirmation(q) PROVE FALSE
    BY <1>1, <1>3, <2>1, <2>2, ServeStep, ConfirmationStep DEF Served
  <2>3. ASSUME NEW q \in Requests, Handoff(q) PROVE FALSE
    BY <1>1, <1>3, <2>1, <2>3, HandoffStep DEF Live, Answered
  <2>4. ASSUME NEW c \in ChargePoints, NEW in \in Inputs(c), Receive(c, in) PROVE FALSE
    <3>1. PICK q \in Requests :
            /\ q[1] = c /\ call'[q].link = link[c]
            /\ issued'[c] = issued[c] + 1
            /\ \A p \in Requests \ {q} : call'[p] = call[p]
      BY <1>1, <2>4, ReceiveStep, <<c, issued[c] + 1>>[1] = c DEF TypeOK, CounterTypeOK
    <3>2. ~ReportAwaited(c)
      BY <1>1, <3>1 DEF CoreStep, TypeOK, CounterTypeOK
    <3>3. CASE s = q
      BY <1>3, <3>1, <3>2, <3>3 DEF ReportAwaited
    <3> QED
      BY <1>3, <2>1, <3>1, <3>3 DEF Live
  <2>5. ASSUME UNCHANGED call PROVE FALSE
    BY <1>3, <2>1, <2>5 DEF Live
  <2> QED
    BY <1>1, <2>2, <2>3, <2>4, <2>5, ConnectionStep DEF Next, Handle, Serve, Idle, Publish
<1>4. ASSUME NEW r \in Requests, NEW m \in Handed', report[r].pc \in {"entered", "notify"},
             m.cp = r[1], m.link = report[r].link
      PROVE  m.n < r[2]
  <2>1. CASE m \in Handed
    BY <1>1, <1>4, <2>1 DEF ReportsInOrder
  <2>2. ASSUME NEW s \in Requests, Handoff(s), m = Notification(s) PROVE FALSE
    <3>1. Live(s) /\ s[1] = r[1] /\ call[s].link = report[r].link
      BY <1>4, <2>2 DEF Handoff, Live, At, Answered, Notification
    <3> QED
      BY <1>1, <1>4, <3>1 DEF ReportsInOrder, Reporting
  <2> QED
    BY <1>1, <2>1, <2>2, HandedByHandoff
<1> QED
  BY <1>1, <1>2, <1>3, <1>4 DEF ReportsInOrder, Reporting

LEMMA ReportsOrderedReceive ==
  ASSUME ~Pipelining, FirmwareTypeOK, FirmwareInv, NEW c \in ChargePoints, NEW field \in Fields,
         ReceiveReport(c, field)
  PROVE  ReportsInOrder'
<1>1. PICK r \in Requests :
        /\ r[1] = c /\ r[2] = issued[c] + 1
        /\ report'[r].pc = "entered" /\ report'[r].link = link[c]
        /\ \A s \in Requests \ {r} : report'[s] = report[s]
        /\ UNCHANGED <<call, pump, published>>
        /\ ~Awaited(c) /\ ~ReportAwaited(c)
  BY ReceiveReportStep
<1>2. ReportsInOrder /\ ReportsAreHanded /\ IssuedAreSent
  BY DEF FirmwareInv, OrderInv
<1>3. issued[c] \in Nat
  BY DEF FirmwareTypeOK, TypeOK, CounterTypeOK
<1>4. ASSUME NEW p \in Requests, NEW s \in Requests,
             Reporting(p)', report'[s].pc # "unsent", SameLink(p, s)'
      PROVE  s[2] <= p[2]
  <2>1. p[1] = s[1] /\ report'[p].link = report'[s].link /\ s[2] \in Nat /\ p[2] \in Nat
    BY <1>4 DEF SameLink, Requests
  <2>2. CASE p = r /\ s = r
    BY <2>1, <2>2
  <2>3. CASE p = r /\ s # r
    BY <1>1, <1>2, <1>3, <1>4, <2>1, <2>3 DEF ReportsAreHanded
  <2>4. CASE p # r /\ s = r
    BY <1>1, <1>4, <2>1, <2>4 DEF ReportAwaited, Reporting
  <2>5. CASE p # r /\ s # r
    BY <1>1, <1>2, <1>4, <2>1, <2>5 DEF ReportsInOrder, Reporting, SameLink
  <2> QED
    BY <2>2, <2>3, <2>4, <2>5
<1>5. ASSUME NEW p \in Requests, NEW s \in Requests, Reporting(p)', Live(s)', p[1] = s[1]
      PROVE  report'[p].link # call'[s].link
  <2>1. CASE p = r
    BY <1>1, <1>5, <2>1 DEF Awaited, Live
  <2>2. CASE p # r
    BY <1>1, <1>2, <1>5, <2>2 DEF ReportsInOrder, Reporting, Live
  <2> QED
    BY <2>1, <2>2
<1>6. ASSUME NEW p \in Requests, NEW m \in Handed', report'[p].pc \in {"entered", "notify"},
             m.cp = p[1], m.link = report'[p].link
      PROVE  m.n < p[2]
  <2>1. m \in Handed /\ m.n \in Nat
    BY <1>1 DEF Handed, FirmwareTypeOK, TypeOK, NotifierTypeOK, Message
  <2>2. CASE p = r
    BY <1>1, <1>2, <1>3, <1>6, <2>1, <2>2 DEF IssuedAreSent
  <2>3. CASE p # r
    BY <1>1, <1>2, <1>6, <2>1, <2>3 DEF ReportsInOrder
  <2> QED
    BY <2>2, <2>3
<1> QED
  BY <1>4, <1>5, <1>6 DEF ReportsInOrder

LEMMA ReportsOrderedHandle ==
  ASSUME ~Pipelining, FirmwareTypeOK, FirmwareInv, NEW r \in Requests, FirmwareHandle(r)
  PROVE  ReportsInOrder'
<1>1. ReportsInOrder
  BY DEF FirmwareInv
<1>2. /\ UNCHANGED <<call, published>>
      /\ \A s \in Requests \ {r} : report'[s] = report[s]
      /\ Reporting(r) /\ report'[r].pc # "unsent" /\ report'[r].link = report[r].link
  BY ReportStep
<1>3. /\ \A p, s \in Requests :
           Reporting(p)' /\ report'[s].pc # "unsent" /\ SameLink(p, s)' => s[2] <= p[2]
      /\ \A p, s \in Requests :
           Reporting(p)' /\ Live(s)' /\ p[1] = s[1] => report'[p].link # call'[s].link
  <2>1. \A s \in Requests : /\ Reporting(s)' => Reporting(s)
                            /\ report'[s].pc # "unsent" => report[s].pc # "unsent"
                            /\ report'[s].link = report[s].link
                            /\ Live(s)' => Live(s)
    BY <1>2 DEF Reporting, Live
  <2> QED
    BY <1>1, <1>2, <2>1 DEF ReportsInOrder, SameLink
<1>4. ASSUME NEW p \in Requests, NEW m \in Handed', report'[p].pc \in {"entered", "notify"},
             m.cp = p[1], m.link = report'[p].link
      PROVE  m.n < p[2]
  <2>1. report[p].pc \in {"entered", "notify"}
    <3>1. CASE p # r
      BY <1>2, <1>4, <3>1
    <3>2. CASE p = r
      <4>1. report[r].pc \in {"entered", "notify"} \/ report'[r].pc \in {"refused", "confirmed"}
        <5>1. CASE LookUp(r) \/ ReportHandoff(r)
          BY <5>1 DEF LookUp, ReportHandoff
        <5>2. CASE RefuseReport(r) \/ SetStatus(r)
          BY <5>2 DEF RefuseReport, SetStatus, FirmwareTypeOK, Report
        <5> QED
          BY <5>1, <5>2 DEF FirmwareHandle
      <4> QED
        BY <1>4, <3>2, <4>1
    <3> QED
      BY <3>1, <3>2
  <2>2. CASE m \in Handed
    BY <1>1, <1>2, <1>4, <2>1, <2>2 DEF ReportsInOrder
  <2>3. CASE ReportHandoff(r) /\ m = ReportNotification(r)
    <3>1. p # r
      BY <1>4, <2>3 DEF ReportHandoff, FirmwareTypeOK
    <3>2. p[1] = r[1] /\ SameLink(r, p) /\ SameLink(p, r) /\ Reporting(p)
      BY <1>2, <1>4, <2>1, <2>3, <3>1 DEF ReportNotification, SameLink, Reporting
    <3>3. p[2] <= r[2] /\ r[2] <= p[2] /\ p[2] \in Nat /\ r[2] \in Nat
      BY <1>1, <1>2, <3>2 DEF ReportsInOrder, Reporting, Requests
    <3>4. p = <<p[1], p[2]>> /\ r = <<r[1], r[2]>>
      BY DEF Requests
    <3> QED
      BY <3>1, <3>2, <3>3, <3>4
  <2>4. m \in Handed \/ (ReportHandoff(r) /\ m = ReportNotification(r))
    BY <1>4 DEF FirmwareHandle, LookUp, ReportHandoff, RefuseReport, SetStatus, Handed, vars
  <2> QED
    BY <2>2, <2>3, <2>4
<1> QED
  BY <1>3, <1>4 DEF ReportsInOrder

(***************************************************************************)
(* What is stored.                                                         *)
(***************************************************************************)

\* What SetStatus writes, and where; no other step writes a field.
LEMMA ReportWritten ==
  ASSUME FirmwareTypeOK, NEW r \in Requests, SetStatus(r)
  PROVE  \E o \in Connections :
           /\ o[1] = r[1] /\ o[2] = report[r].info
           /\ reported'[o][report[r].field] = {r}
           /\ \A p \in Connections, f \in Fields :
                p # o \/ f # report[r].field => reported'[p][f] = reported[p][f]
<1> DEFINE o == <<r[1], report[r].info>>
<1>1. o \in Connections /\ report[r].field \in Fields
  BY ConstantsAssumption DEF SetStatus, Report, Connections, Requests, FirmwareTypeOK
<1>2. reported' = [reported EXCEPT ![o][report[r].field] = {r}]
  BY DEF SetStatus
<1>3. o[1] = r[1] /\ o[2] = report[r].info
  OBVIOUS
<1> HIDE DEF o
<1> QED
  BY <1>1, <1>2, <1>3 DEF FirmwareTypeOK

LEMMA HandledReport ==
  ASSUME FirmwareTypeOK, NEW r \in Requests, FirmwareHandle(r)
  PROVE  /\ Handed \subseteq Handed'
         /\ \A m \in Handed' \ Handed : ReportHandoff(r) /\ m = ReportNotification(r)
         /\ report'[r].pc \in {"set", "confirmed", "refused"} =>
              report[r].pc = "set" \/ ReportNotification(r) \in Handed'
<1>1. CASE LookUp(r) \/ RefuseReport(r) \/ SetStatus(r)
  BY <1>1 DEF LookUp, RefuseReport, SetStatus, vars, Handed, FirmwareTypeOK, Report
<1>2. CASE ReportHandoff(r)
  BY <1>2 DEF ReportHandoff, Handed
<1> QED
  BY <1>1, <1>2 DEF FirmwareHandle

LEMMA HandedStep ==
  ASSUME FirmwareTypeOK, FirmwareInv, [FirmwareNext]_allVars PROVE ReportsAreHanded'
<1>1. ReportsAreHanded /\ IssuedAreSent /\ TypeOK
  BY DEF FirmwareInv, OrderInv, FirmwareTypeOK
<1>2. ASSUME [Next]_vars, UNCHANGED firmwareVars PROVE ReportsAreHanded'
  <2>1. UNCHANGED <<report, reported>> /\ Handed \subseteq Handed'
    BY <1>1, <1>2, HandedGrows DEF firmwareVars
  <2>2. ASSUME NEW r \in Requests
        PROVE  /\ report'[r].pc # "unsent" => r[2] <= issued'[r[1]]
               /\ report'[r].pc \in {"set", "confirmed", "refused"} =>
                    ReportNotification(r)' \in Handed'
               /\ At(r, "notify")' => call'[r].kind # "firmware"
    <3>1. r[1] \in ChargePoints /\ r[2] \in Nat
      BY DEF Requests
    <3>2. ReportNotification(r)' = ReportNotification(r)
      BY <2>1 DEF ReportNotification
    <3> QED
      BY <1>1, <1>2, <2>1, <3>1, <3>2, NumbersGrow, NoFirmwareNotified DEF ReportsAreHanded
  <2>3. ASSUME NEW m \in Handed', m.topic = "firmware" PROVE m \in Handed
    BY <1>1, <1>2, <2>3, HandedByHandoff DEF ReportsAreHanded, Handoff, Notification
  <2> QED
    BY <1>1, <2>1, <2>2, <2>3 DEF ReportsAreHanded
<1>3. ASSUME NEW c \in ChargePoints, NEW field \in Fields, ReceiveReport(c, field)
      PROVE  ReportsAreHanded'
  <2>1. PICK r \in Requests :
          /\ r[1] = c /\ r[2] = issued[c] + 1
          /\ issued' = [issued EXCEPT ![c] = @ + 1]
          /\ report'[r].pc = "entered"
          /\ \A s \in Requests \ {r} : report'[s] = report[s]
          /\ UNCHANGED <<call, pump, published, reported>>
    BY <1>3, ReceiveReportStep
  <2>2. /\ issued[c] \in Nat /\ issued'[c] = issued[c] + 1
        /\ \A d \in ChargePoints : d # c => issued'[d] = issued[d]
    BY <1>1, <2>1 DEF TypeOK, CounterTypeOK
  <2>3. ASSUME NEW s \in Requests
        PROVE  /\ report'[s].pc # "unsent" => s[2] <= issued'[s[1]]
               /\ report'[s].pc \in {"set", "confirmed", "refused"} =>
                    ReportNotification(s)' \in Handed'
               /\ At(s, "notify")' => call'[s].kind # "firmware"
    <3>1. s[1] \in ChargePoints /\ s[2] \in Nat
      BY DEF Requests
    <3>2. CASE s = r
      BY <1>1, <2>1, <2>2, <3>1, <3>2 DEF ReportsAreHanded, At
    <3>3. CASE s # r
      BY <1>1, <2>1, <2>2, <3>1, <3>3 DEF ReportsAreHanded, At, Handed, ReportNotification
    <3> QED
      BY <3>2, <3>3
  <2>4. ASSUME NEW m \in Handed', m.topic = "firmware"
        PROVE  report'[<<m.cp, m.n>>] = report[<<m.cp, m.n>>]
    <3>1. m \in Handed /\ <<m.cp, m.n>> \in Requests
      BY <1>1, <2>1 DEF Handed, TypeOK, NotifierTypeOK, Message, Requests
    <3>2. m.n <= issued[m.cp] /\ m.n \in Nat
      BY <1>1, <3>1 DEF IssuedAreSent, Handed, TypeOK, NotifierTypeOK, Message
    <3> QED
      BY <2>1, <2>2, <3>1, <3>2
  <2> QED
    BY <1>1, <2>1, <2>3, <2>4 DEF ReportsAreHanded, Handed
<1>4. ASSUME NEW r \in Requests, FirmwareHandle(r) PROVE ReportsAreHanded'
  <2>1. /\ UNCHANGED <<call, issued>>
        /\ \A s \in Requests \ {r} : report'[s] = report[s]
        /\ report[r].pc # "unsent" /\ report'[r].pc # "unsent"
        /\ report'[r].link = report[r].link
        /\ \A s \in Requests : ReportNotification(s)' = ReportNotification(s)
    BY <1>4, ReportStep DEF Reporting
  <2>2. /\ Handed \subseteq Handed'
        /\ \A m \in Handed' \ Handed : m = ReportNotification(r)
        /\ report'[r].pc \in {"set", "confirmed", "refused"} =>
             report[r].pc = "set" \/ ReportNotification(r) \in Handed'
    BY <1>4, HandledReport
  <2>3. ASSUME NEW s \in Requests
        PROVE  /\ report'[s].pc # "unsent" => s[2] <= issued'[s[1]]
               /\ report'[s].pc \in {"set", "confirmed", "refused"} =>
                    ReportNotification(s)' \in Handed'
               /\ At(s, "notify")' => call'[s].kind # "firmware"
    BY <1>1, <2>1, <2>2 DEF ReportsAreHanded, At
  <2>4. ASSUME NEW m \in Handed', m.topic = "firmware"
        PROVE  /\ report'[<<m.cp, m.n>>].pc # "unsent"
               /\ report'[<<m.cp, m.n>>].link = m.link
    <3>1. CASE m \in Handed
      <4>1. <<m.cp, m.n>> \in Requests
        BY <1>1, <3>1 DEF Handed, TypeOK, NotifierTypeOK, Message, Requests
      <4> QED
        BY <1>1, <2>1, <2>4, <3>1, <4>1 DEF ReportsAreHanded
    <3>2. CASE m = ReportNotification(r)
      <4>1. <<m.cp, m.n>> = r /\ m.link = report[r].link
        BY <3>2 DEF ReportNotification, Requests
      <4> QED
        BY <2>1, <4>1
    <3> QED
      BY <2>2, <3>1, <3>2
  <2> QED
    BY <2>3, <2>4 DEF ReportsAreHanded
<1> QED
  BY <1>2, <1>3, <1>4 DEF FirmwareNext, CoreStep, allVars

\* A request that was confirmed is not handled again, and no other step writes.
LEMMA FieldStep ==
  ASSUME FirmwareTypeOK, FirmwareInv, [FirmwareNext]_allVars PROVE StoredAreConfirmed'
<1>1. StoredAreConfirmed /\ ReportsAreHanded /\ TypeOK
  BY DEF FirmwareInv, FirmwareTypeOK
<1>2. SUFFICES ASSUME NEW o \in Connections, NEW f \in Fields, NEW q \in reported'[o][f]
               PROVE  /\ q[1] = o[1] /\ report'[q].pc = "confirmed"
                      /\ report'[q].info = o[2] /\ report'[q].field = f
  BY DEF StoredAreConfirmed
<1>3. CASE q \in reported[o][f] /\ report'[q] = report[q]
  BY <1>1, <1>3 DEF StoredAreConfirmed
<1>4. q \in reported[o][f] => q \in Requests /\ report[q].pc = "confirmed"
  BY <1>1 DEF StoredAreConfirmed, FirmwareTypeOK
<1>5. ASSUME NEW c \in ChargePoints, NEW field \in Fields, ReceiveReport(c, field)
      PROVE  q \in reported[o][f] /\ report'[q] = report[q]
  <2>1. PICK r \in Requests :
          /\ r[1] = c /\ r[2] = issued[c] + 1
          /\ \A s \in Requests \ {r} : report'[s] = report[s]
          /\ UNCHANGED reported
    BY <1>5, ReceiveReportStep
  <2>2. issued[c] \in Nat
    BY <1>1 DEF TypeOK, CounterTypeOK
  <2>3. report[r].pc = "unsent"
    BY <1>1, <2>1, <2>2 DEF ReportsAreHanded
  <2> QED
    BY <1>2, <1>4, <2>1, <2>3
<1>6. ASSUME NEW r \in Requests, FirmwareHandle(r)
      PROVE  \/ q \in reported[o][f] /\ report'[q] = report[q]
             \/ SetStatus(r) /\ q = r /\ r[1] = o[1] /\ report[r].info = o[2]
                /\ report[r].field = f
  <2>1. Reporting(r) /\ \A s \in Requests \ {r} : report'[s] = report[s]
    BY <1>6, ReportStep
  <2>2. CASE q \in reported[o][f]
    BY <1>4, <2>1, <2>2 DEF Reporting
  <2>3. CASE q \notin reported[o][f]
    <3>1. SetStatus(r)
      BY <1>2, <1>6, <2>3 DEF FirmwareHandle, LookUp, ReportHandoff, RefuseReport
    <3>2. PICK p \in Connections :
            /\ p[1] = r[1] /\ p[2] = report[r].info
            /\ reported'[p][report[r].field] = {r}
            /\ \A d \in Connections, g \in Fields :
                 d # p \/ g # report[r].field => reported'[d][g] = reported[d][g]
      BY <3>1, ReportWritten
    <3>3. o = p /\ f = report[r].field
      BY <1>2, <2>3, <3>2
    <3> QED
      BY <1>2, <3>1, <3>2, <3>3
  <2> QED
    BY <2>2, <2>3
<1>7. ASSUME NEW r \in Requests, SetStatus(r), q = r, r[1] = o[1], report[r].info = o[2],
             report[r].field = f
      PROVE  /\ q[1] = o[1] /\ report'[q].pc = "confirmed"
             /\ report'[q].info = o[2] /\ report'[q].field = f
  BY <1>7 DEF SetStatus, FirmwareTypeOK, Report
<1>8. ASSUME UNCHANGED firmwareVars PROVE q \in reported[o][f] /\ report'[q] = report[q]
  BY <1>2, <1>8 DEF firmwareVars
<1> QED
  BY <1>3, <1>5, <1>6, <1>7, <1>8 DEF FirmwareNext, CoreStep, allVars

LEMMA FieldsStep ==
  ASSUME FirmwareTypeOK, RegistryInv, ObjectsAreNew, FirmwareInv, [FirmwareNext]_allVars
  PROVE  FieldsAreNew'
<1>1. FieldsAreNew /\ TypeOK
  BY DEF FirmwareInv, FirmwareTypeOK
<1>2. ASSUME [Next]_vars, UNCHANGED firmwareVars PROVE FieldsAreNew'
  BY <1>1, <1>2, NewWasNew DEF FieldsAreNew, firmwareVars
<1>3. ASSUME NEW c \in ChargePoints, NEW field \in Fields, ReceiveReport(c, field)
      PROVE  FieldsAreNew'
  <2>1. PICK r \in Requests :
          /\ report'[r].info = 0
          /\ \A s \in Requests \ {r} : report'[s] = report[s]
          /\ UNCHANGED <<registryVars, reported>>
    BY <1>3, ReceiveReportStep
  <2>2. \A o \in Connections : o[2] # 0
    BY DEF Connections
  <2> QED
    BY <1>1, <2>1, <2>2 DEF FieldsAreNew, registryVars
<1>4. ASSUME NEW r \in Requests, LookUp(r) PROVE FieldsAreNew'
  <2>1. /\ report'[r].info = chargePoints[r[1]] /\ UNCHANGED <<vars, reported>>
        /\ \A s \in Requests \ {r} : report'[s] = report[s]
    BY <1>4 DEF LookUp, FirmwareTypeOK, Report
  <2>2. ASSUME NEW o \in Connections, o \in joining \/ o[2] > opened[o[1]], r[1] = o[1]
        PROVE  chargePoints[r[1]] # o[2]
    <3>1. r[1] \in ChargePoints /\ o = <<o[1], o[2]>> /\ o[2] \in Nat
      BY DEF Requests, Connections
    <3>2. chargePoints[r[1]] <= opened[r[1]] /\ <<r[1], chargePoints[r[1]]>> \notin joining
      BY <3>1 DEF RegistryInv, OpenIsLast, ObjectsAreNew
    <3>3. chargePoints[r[1]] \in Nat /\ opened[r[1]] \in Nat
      BY <1>1, <3>1, ConstantsAssumption DEF TypeOK, RegistryTypeOK
    <3> QED
      BY <2>2, <3>1, <3>2, <3>3
  <2> QED
    BY <1>1, <2>1, <2>2 DEF FieldsAreNew, vars, registryVars
<1>5. ASSUME NEW r \in Requests, ReportHandoff(r) \/ RefuseReport(r) \/ SetStatus(r)
      PROVE  FieldsAreNew'
  <2>1. /\ UNCHANGED registryVars /\ \A s \in Requests \ {r} : report'[s] = report[s]
    BY <1>5, ReportStep DEF FirmwareHandle
  <2>2. report'[r].info = report[r].info
    BY <1>5 DEF ReportHandoff, RefuseReport, SetStatus, FirmwareTypeOK, Report
  <2>3. ASSUME NEW o \in Connections, o \in joining \/ o[2] > opened[o[1]], NEW f \in Fields
        PROVE  reported'[o][f] = {}
    <3>1. reported[o][f] = {} /\ (r[1] = o[1] => report[r].info # o[2])
      BY <1>1, <2>3 DEF FieldsAreNew
    <3>2. CASE SetStatus(r)
      BY <3>1, <3>2, ReportWritten
    <3>3. CASE ~SetStatus(r)
      BY <1>5, <3>1, <3>3 DEF ReportHandoff, RefuseReport
    <3> QED
      BY <3>2, <3>3
  <2> QED
    BY <1>1, <2>1, <2>2, <2>3 DEF FieldsAreNew, registryVars
<1> QED
  BY <1>2, <1>3, <1>4, <1>5 DEF FirmwareNext, CoreStep, FirmwareHandle, allVars

\* What LastIsReported says of one request.
Settled(r, o) ==
    \/ report[r].pc \in {"unsent", "entered"}
    \/ report[r].pc \in {"notify", "set"} /\ report[r].info = o[2]

LEMMA LastReportStep ==
  ASSUME ~Pipelining, FirmwareTypeOK, FirmwareInv, [FirmwareNext]_allVars
  PROVE  LastIsReported'
<1>1. LastIsReported /\ StoredAreConfirmed /\ FieldsAreNew /\ ReportsInOrder /\ TypeOK
  BY DEF FirmwareInv, FirmwareTypeOK
<1>2. SUFFICES ASSUME NEW o \in Connections, NEW f \in Fields, chargePoints'[o[1]] = o[2],
                      NEW m \in reported'[o][f], report'[m].link = o[2],
                      NEW s \in Requests, s[1] = o[1], report'[s].link = o[2],
                      report'[s].field = f, m[2] < s[2]
               PROVE  Settled(s, o)'
  BY DEF LastIsReported, Settled
<1> m \in Requests /\ m[1] = o[1] /\ m[2] \in Nat /\ s[2] \in Nat
  BY <1>2, FirmwareTypeStep, FieldStep DEF FirmwareTypeOK, StoredAreConfirmed, Requests
<1>3. ASSUME chargePoints[o[1]] = o[2], m \in reported[o][f], report[m].link = o[2],
             report[s].link = o[2], report[s].field = f
      PROVE  Settled(s, o)
  BY <1>1, <1>2, <1>3 DEF LastIsReported, Settled
<1>4. ASSUME [Next]_vars, UNCHANGED firmwareVars PROVE Settled(s, o)'
  <2>1. chargePoints[o[1]] = o[2]
    BY <1>1, <1>2, <1>4, RegisteredWas DEF FieldsAreNew, firmwareVars
  <2> QED
    BY <1>2, <1>3, <1>4, <2>1 DEF Settled, firmwareVars
<1>5. ASSUME NEW c \in ChargePoints, NEW field \in Fields, ReceiveReport(c, field)
      PROVE  Settled(s, o)'
  <2>1. PICK r \in Requests :
          /\ report'[r].pc = "entered"
          /\ \A q \in Requests \ {r} : report'[q] = report[q]
          /\ UNCHANGED <<registryVars, reported>>
    BY <1>5, ReceiveReportStep
  <2>2. report'[m].pc = "confirmed"
    BY <1>2, FieldStep, FirmwareTypeStep DEF StoredAreConfirmed
  <2> QED
    BY <1>2, <1>3, <2>1, <2>2 DEF Settled, registryVars
<1>6. ASSUME NEW r \in Requests, FirmwareHandle(r) PROVE Settled(s, o)'
  <2>1. /\ chargePoints[o[1]] = o[2]
        /\ \A q \in Requests \ {r} : report'[q] = report[q]
        /\ report[s].link = o[2] /\ report[s].field = f /\ report[m].link = o[2]
        /\ Reporting(r)
    BY <1>2, <1>6, ReportStep DEF registryVars
  <2>2. CASE m \in reported[o][f]
    <3>1. Settled(s, o)
      BY <1>3, <2>1, <2>2
    <3>2. CASE s # r
      BY <2>1, <3>1, <3>2 DEF Settled
    <3>3. CASE s = r /\ LookUp(r)
      BY <1>2, <2>1, <3>3 DEF LookUp, FirmwareTypeOK, Report, Settled
    <3>4. CASE s = r /\ (ReportHandoff(r) \/ RefuseReport(r))
      <4>1. o[2] # 0
        BY DEF Connections
      <4> QED
        BY <3>1, <3>4, <4>1 DEF ReportHandoff, RefuseReport, FirmwareTypeOK, Report, Settled
    <3>5. CASE s = r /\ SetStatus(r)
      <4>1. PICK p \in Connections :
              /\ p[1] = r[1] /\ p[2] = report[r].info /\ reported'[p][report[r].field] = {r}
        BY <3>5, ReportWritten
      <4>2. o = p
        BY <1>2, <3>1, <3>5, <4>1 DEF Settled, SetStatus, Connections
      <4> QED
        BY <1>2, <2>1, <3>5, <4>1, <4>2
    <3> QED
      BY <1>6, <3>2, <3>3, <3>4, <3>5 DEF FirmwareHandle
  <2>3. CASE m \notin reported[o][f]
    <3>1. SetStatus(r)
      BY <1>2, <1>6, <2>3 DEF FirmwareHandle, LookUp, ReportHandoff, RefuseReport
    <3>2. m = r /\ s # r
      BY <1>2, <2>3, <3>1, ReportWritten
    <3>3. report[s].pc = "unsent"
      BY <1>1, <1>2, <2>1, <3>2 DEF ReportsInOrder, SameLink
    <3> QED
      BY <2>1, <3>2, <3>3 DEF Settled
  <2> QED
    BY <2>2, <2>3
<1> QED
  BY <1>4, <1>5, <1>6 DEF FirmwareNext, CoreStep, allVars

(***************************************************************************)
(* The invariants of CentralSystem, with the firmware handlers.            *)
(***************************************************************************)

\* To the core, a step of a firmware request is a number more, or a
\* notification handed over, or nothing.
LEMMA FirmwareSteps ==
  ASSUME FirmwareTypeOK, [FirmwareNext]_allVars
  PROVE  \/ [Next]_vars
         \/ /\ UNCHANGED <<registryVars, objectVars, call, published>>
            /\ \/ UNCHANGED pump
               \/ \E r \in Requests : pump' = pump \cup {ReportNotification(r)}
<1>1. ASSUME NEW c \in ChargePoints, NEW field \in Fields, ReceiveReport(c, field)
      PROVE  UNCHANGED <<registryVars, objectVars, call, pump, published>>
  BY <1>1 DEF ReceiveReport
<1>2. ASSUME NEW r \in Requests, ReportHandoff(r)
      PROVE  /\ UNCHANGED <<registryVars, objectVars, call, published>>
             /\ pump' = pump \cup {ReportNotification(r)}
  BY <1>2 DEF ReportHandoff
<1>3. ASSUME NEW r \in Requests, LookUp(r) \/ RefuseReport(r) \/ SetStatus(r) PROVE [Next]_vars
  BY <1>3 DEF LookUp, RefuseReport, SetStatus
<1> QED
  BY <1>1, <1>2, <1>3 DEF FirmwareNext, CoreStep, FirmwareHandle, allVars

LEMMA RegistryInAll ==
  ASSUME FirmwareTypeOK, RegistryInv, [FirmwareNext]_allVars PROVE RegistryInv'
<1>1. CASE [Next]_vars
  BY <1>1, RegistryInvStep DEF FirmwareTypeOK
<1>2. CASE UNCHANGED registryVars
  BY <1>2 DEF registryVars, RegistryInv, OpenIsLast, JoinsInOrder, EntryIsLatest, Pending
<1> QED
  BY <1>1, <1>2, FirmwareSteps

LEMMA StatusInAll ==
  ASSUME FirmwareTypeOK, RegistryInv, OrderInv, StatusInv, [FirmwareNext]_allVars
  PROVE  StatusInv'
<1>1. CASE [Next]_vars
  BY <1>1, StatusInvStep DEF FirmwareTypeOK
<1>2. CASE /\ UNCHANGED <<registryVars, objectVars, call, published>>
           /\ \/ UNCHANGED pump
              \/ \E r \in Requests : pump' = pump \cup {ReportNotification(r)}
  <2>1. /\ Made \subseteq Made'
        /\ \A m \in Made' : m.topic = "status" => m \in Made
    BY <1>2 DEF Made, Handed, Notification, At, ReportNotification
  <2>2. StoredAreMade' /\ ObjectsAreNew'
    BY <1>2, <2>1 DEF StatusInv, StoredAreMade, ObjectsAreNew, registryVars, objectVars
  <2>3. ~Pipelining => LastIsStored'
    BY <1>2, <2>1 DEF StatusInv, LastIsStored, SameStatus, registryVars, objectVars
  <2> QED
    BY <2>2, <2>3 DEF StatusInv
<1> QED
  BY <1>1, <1>2, FirmwareSteps

(***************************************************************************)
(* The theorems.                                                           *)
(***************************************************************************)

FirmwareAll == RegistryInv /\ StatusInv /\ FirmwareInv

LEMMA FirmwareAllStep == FirmwareTypeOK /\ FirmwareAll /\ [FirmwareNext]_allVars => FirmwareAll'
<1> SUFFICES ASSUME FirmwareTypeOK, RegistryInv, StatusInv, FirmwareInv, [FirmwareNext]_allVars
             PROVE  FirmwareAll'
  BY DEF FirmwareAll
<1>1. OrderInv /\ ObjectsAreNew
  BY DEF FirmwareInv, StatusInv
<1>2. RegistryInv' /\ StatusInv'
  BY <1>1, RegistryInAll, StatusInAll
<1>3. OrderInv' /\ ReportsAreHanded' /\ StoredAreConfirmed' /\ FieldsAreNew'
  BY <1>1, OrderInAll, HandedStep, FieldStep, FieldsStep
<1>4. ASSUME ~Pipelining PROVE ReportsInOrder' /\ LastIsReported'
  <2>1. ReportsInOrder'
    <3>1. CASE UNCHANGED allVars
      BY <1>4, <3>1 DEF FirmwareInv, ReportsInOrder, Reporting, SameLink, Handed, Live,
         allVars, firmwareVars, vars
    <3> QED
      BY <1>4, <3>1, ReportsOrderedCore, ReportsOrderedReceive, ReportsOrderedHandle
         DEF FirmwareNext
  <2> QED
    BY <1>4, <2>1, LastReportStep
<1> QED
  BY <1>2, <1>3, <1>4 DEF FirmwareAll, FirmwareInv

LEMMA FirmwareAllInitially == FirmwareInit => FirmwareAll
<1> SUFFICES ASSUME FirmwareInit PROVE FirmwareAll
  OBVIOUS
<1>1. RegistryInv /\ StatusInv /\ OrderInv /\ Handed = {}
  BY RegistryInitially, StatusInitially, OrderInitially DEF FirmwareInit, Init, Handed
<1>2. /\ \A r \in Requests : report[r].pc = "unsent" /\ report[r].info = 0
      /\ \A r \in Requests : ~At(r, "notify")
      /\ \A o \in Connections, f \in Fields : reported[o][f] = {}
  BY DEF FirmwareInit, Init, NoReport, NoCall, At
<1> QED
  BY <1>1, <1>2 DEF FirmwareAll, FirmwareInv, ReportsAreHanded, StoredAreConfirmed, FieldsAreNew,
     ReportsInOrder, LastIsReported, Reporting, Connections

\* The firmware handlers look up and store in objects that are connected, and in
\* the order of their requests, if charge points wait for their answers.
THEOREM FirmwareHeld == FirmwareSpec => [](RegistryInv /\ StatusInv /\ FirmwareInv)
<1>1. FirmwareSpec => []FirmwareAll
  BY FirmwareAllInitially, FirmwareAllStep, FirmwareTypeCorrect, PTL DEF FirmwareSpec
<1> QED
  BY <1>1 DEF FirmwareAll

\* With the firmware handlers, too, what one connection reports is published in
\* the order it was sent, if its charge point waits for each answer.
THEOREM FirmwareOrderKept == FirmwareSpec => OrderPreserved
<1>1. FirmwareTypeOK /\ FirmwareInv /\ [FirmwareNext]_allVars => [OrderStep]_vars
  <2> SUFFICES ASSUME FirmwareTypeOK, FirmwareInv, [FirmwareNext]_allVars, ~(UNCHANGED vars)
               PROVE  OrderStep
    OBVIOUS
  <2>1. CASE UNCHANGED published
    BY <2>1 DEF OrderStep
  <2>2. CASE [Next]_vars
    BY <2>2, OrderStepHolds DEF FirmwareTypeOK, FirmwareInv
  <2> QED
    BY <2>1, <2>2, FirmwareSteps
<1> QED
  BY <1>1, FirmwareHeld, FirmwareTypeCorrect, PTL DEF FirmwareSpec, OrderPreserved

\* With the firmware handlers, too, the status stored for a connector is the last
\* that subscribers were told.
THEOREM FirmwareStatusesAgree == FirmwareSpec => []StatusAgrees
<1>1. FirmwareTypeOK /\ StatusInv => StatusAgrees
  BY StatusInvAgrees DEF FirmwareTypeOK
<1> QED
  BY <1>1, FirmwareHeld, FirmwareTypeCorrect, PTL

\* With reconnections under running handlers, the report of its own connection
\* that a registered object holds is the last that connection had answered.
THEOREM ReportsKept == FirmwareSpec => []LastReportKept
<1>1. FirmwareTypeOK /\ FirmwareInv => LastReportKept
  <2> SUFFICES ASSUME FirmwareTypeOK, FirmwareInv, ~Pipelining,
                      NEW o \in Connections, NEW f \in Fields, chargePoints[o[1]] = o[2],
                      NEW q \in reported[o][f], report[q].link = o[2],
                      NEW r \in Requests, r[1] = o[1], report[r].link = o[2],
                      report[r].field = f, report[r].pc \in {"confirmed", "refused"},
                      ~(r[2] <= q[2])
               PROVE  FALSE
    BY DEF LastReportKept
  <2>1. q[2] \in Nat /\ r[2] \in Nat
    BY DEF FirmwareTypeOK, Requests
  <2>2. Settled(r, o)
    BY <2>1 DEF FirmwareInv, LastIsReported, Settled
  <2> QED
    BY <2>2 DEF Settled
<1> QED
  BY <1>1, FirmwareHeld, FirmwareTypeCorrect, PTL

=============================================================================
