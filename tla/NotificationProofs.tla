--------------------------- MODULE NotificationProofs ---------------------------
(* Theorems about CentralSystem: what subscribers are told of the stops that a  *)
(* charge point was confirmed and of the status of its connectors.              *)
EXTENDS CentralSystemProofs

(***************************************************************************)
(* What a step leaves alone.                                               *)
(***************************************************************************)

LEMMA OneCallStep ==
  ASSUME TypeOK, NEW r \in Requests, Handle(r) \/ Handoff(r)
  PROVE  /\ \A s \in Requests \ {r} : call'[s] = call[s]
         /\ UNCHANGED registryVars
BY DEF TypeOK, CallTypeOK, Goto, Handoff,
   Handle, Authorize, Event, NotSupported, UnknownChargePoint,
   StatusNotification, StartBusy, StartFree, StartTakeId, StartLoad, StartStore,
   StartCommit, StopFound, StopUnknown, SendConfirmation, SendError, handlerFrame, registryVars

\* Connections are only added.
LEMMA OpenedGrows ==
  ASSUME TypeOK, [Next]_vars, NEW c \in ChargePoints
  PROVE  opened[c] \in Nat /\ opened'[c] \in Nat /\ opened[c] <= opened'[c]
<1> USE ConstantsAssumption DEF TypeOK, RegistryTypeOK
<1>1. opened[c] \in Nat /\ opened'[c] \in Nat
  BY TypeStep
<1>2. CASE \E r \in Requests : Handle(r) \/ Handoff(r)
  BY <1>1, <1>2, OneCallStep DEF registryVars
<1>3. CASE \E d \in ChargePoints : Open(d)
  <2>1. PICK d \in ChargePoints : opened' = [opened EXCEPT ![d] = @ + 1]
    BY <1>3 DEF Open
  <2> QED
    BY <1>1, <2>1
<1>4. ASSUME \/ \E d \in ChargePoints : Close(d) \/ \E in \in Inputs(d) : Receive(d, in)
             \/ \E o \in Connections : Callback(o)
             \/ Publish \/ UNCHANGED vars
      PROVE  UNCHANGED opened
  BY <1>4 DEF Close, Receive, Callback, NewChargePoint, ChargePointDisconnected, Publish,
     vars, registryVars
<1> QED
  BY <1>1, <1>2, <1>3, <1>4 DEF Next, Idle

\* An object keeps the ids of its transactions.
LEMMA IdsStay ==
  ASSUME TypeOK, [Next]_vars, NEW c \in ChargePoints, NEW id, Keeps(c, id)
  PROVE  Keeps(c, id)'
<1> DEFINE o == <<c, 1>>
<1>1. PICK t \in transactions[o] : t.id = id
  BY DEF Keeps
<1>2. CASE UNCHANGED transactions
  BY <1>2 DEF Keeps
<1>3. CASE Connections = {}
  <2>1. transactions \in [{} -> SUBSET Transaction] /\ transactions' \in [{} -> SUBSET Transaction]
    BY <1>3, TypeStep DEF TypeOK, ObjectTypeOK
  <2> QED
    BY <2>1, <1>2
<1>4. ASSUME NEW r \in Requests, StartCommit(r), o \in Connections PROVE Keeps(c, id)'
  <2> DEFINE p   == <<r[1], call[r].info>>
             new == [id |-> call[r].id, connector |-> call[r].connector, phase |-> "open"]
  <2>1. transactions' = [transactions EXCEPT ![p] = {x \in @ : x.id # call[r].id} \cup {new}]
    BY <1>4 DEF StartCommit
  <2>2. new.id = call[r].id
    OBVIOUS
  <2> HIDE DEF new
  <2>3. CASE p = o
    BY <1>1, <1>4, <2>1, <2>2, <2>3 DEF Keeps, TypeOK, ObjectTypeOK
  <2>4. CASE p # o
    BY <1>1, <1>4, <2>1, <2>4 DEF Keeps, TypeOK, ObjectTypeOK
  <2> QED
    BY <2>3, <2>4
<1>5. ASSUME NEW r \in Requests, StopFound(r), o \in Connections PROVE Keeps(c, id)'
  <2> DEFINE p == <<r[1], chargePoints[r[1]]>>
  <2>1. PICK x \in transactions[p] :
          transactions' = [transactions EXCEPT ![p] = (@ \ {x}) \cup {[x EXCEPT !.phase = "ended"]}]
    BY <1>5 DEF StopFound
  <2>2. CASE p = o
    <3>1. x \in Transaction
      BY <1>5, <2>1, <2>2 DEF TypeOK, ObjectTypeOK
    <3>2. [x EXCEPT !.phase = "ended"].id = x.id
      BY <3>1 DEF Transaction
    <3> QED
      BY <1>1, <1>5, <2>1, <2>2, <3>2 DEF Keeps, TypeOK, ObjectTypeOK
  <2>3. CASE p # o
    BY <1>1, <1>5, <2>1, <2>3 DEF Keeps, TypeOK, ObjectTypeOK
  <2> QED
    BY <2>2, <2>3
<1>6. Connections # {} => o \in Connections
  BY ConstantsAssumption DEF Connections
<1>7. ASSUME NEW r \in Requests, Handle(r) \/ Handoff(r) PROVE Keeps(c, id)'
  <2>1. CASE StartCommit(r) \/ StopFound(r)
    BY <2>1, <1>3, <1>4, <1>5, <1>6
  <2>2. CASE ~(StartCommit(r) \/ StopFound(r))
    <3>1. UNCHANGED transactions
      BY <1>7, <2>2 DEF Handle, Authorize, Event, NotSupported, UnknownChargePoint,
         StatusNotification, StartBusy, StartFree, StartTakeId, StartLoad, StartStore,
         StopUnknown, SendConfirmation, SendError, Handoff, objectVars
    <3> QED
      BY <1>2, <3>1
  <2> QED
    BY <2>1, <2>2
<1>8. ASSUME \/ \E d \in ChargePoints : Open(d) \/ Close(d) \/ \E in \in Inputs(d) : Receive(d, in)
             \/ \E p \in Connections : Callback(p)
             \/ Publish \/ UNCHANGED vars
      PROVE  UNCHANGED transactions
  BY <1>8 DEF Open, Close, Receive, Callback, NewChargePoint, ChargePointDisconnected, Publish,
     vars, objectVars
<1> QED
  BY <1>2, <1>7, <1>8 DEF Next, Idle

(***************************************************************************)
(* StopsReachSubscribers.                                                  *)
(***************************************************************************)

KeptBy(r) ==
    /\ call[r].pc \in Window => call[r].info = 1
    /\ Holding(r) => Keeps(r[1], call[r].id)
    /\ call[r].kind = "stop" /\ call[r].pc \in {"confirm", "confirmed"}
         => Notification(r) \in Handed

KeptOf(c) ==
    opened[c] <= 1 =>
      /\ \A id \in known[c] : Keeps(c, id)
      /\ \A r \in Requests : r[1] = c => KeptBy(r)

LEMMA KeptParts == KeptInv <=> \A c \in ChargePoints : KeptOf(c)
BY DEF KeptInv, KeptOf, KeptBy

\* A request that a step does not concern.
LEMMA KeptByStays ==
  ASSUME TypeOK, [Next]_vars, NEW r \in Requests, KeptBy(r), call'[r] = call[r]
  PROVE  KeptBy(r)'
<1>1. Keeps(r[1], call[r].id) => Keeps(r[1], call[r].id)'
  BY IdsStay DEF Requests
<1>2. Notification(r)' = Notification(r)
  BY DEF Notification
<1> QED
  BY <1>1, <1>2, HandedGrows DEF KeptBy, Holding, Keeps

LEMMA KeptByServe ==
  ASSUME TypeOK, RegistryInv, [Next]_vars, NEW r \in Requests, opened[r[1]] <= 1, KeptBy(r),
         Serve(r)
  PROVE  KeptBy(r)'
<1> USE DEF TypeOK, CallTypeOK, Call, At, Goto, KeptBy, Holding
<1>1. r[1] \in ChargePoints
  BY DEF Requests
<1>2. chargePoints[r[1]] # 0 => chargePoints[r[1]] = 1
  <2>1. /\ opened[r[1]] \in 0 .. MaxConnections /\ chargePoints[r[1]] \in 0 .. MaxConnections
        /\ chargePoints[r[1]] <= opened[r[1]]
    BY <1>1 DEF RegistryInv, OpenIsLast, RegistryTypeOK
  <2> QED
    BY <2>1, ConstantsAssumption
<1>3. CASE \/ Authorize(r) \/ Event(r) \/ NotSupported(r) \/ UnknownChargePoint(r)
           \/ StatusNotification(r) \/ StartBusy(r) \/ StopFound(r) \/ SendError(r)
  BY <1>3 DEF Authorize, Event, NotSupported, UnknownChargePoint, StatusNotification,
     StartBusy, StopFound, SendError, Window
<1>4. CASE StartFree(r) \/ StartTakeId(r) \/ StartLoad(r) \/ StartStore(r)
  BY <1>2, <1>4 DEF StartFree, StartTakeId, StartLoad, StartStore, Window
<1>5. CASE StartCommit(r)
  <2>1. /\ call[r].kind = "start" /\ call'[r] = [call[r] EXCEPT !.pc = "notify"]
        /\ call[r].info = 1
    BY <1>5 DEF StartCommit, Window
  <2>2. <<r[1], 1>> \in Connections
    BY <1>1, <2>1 DEF Connections
  <2>3. [id |-> call[r].id, connector |-> call[r].connector, phase |-> "open"]
          \in transactions'[<<r[1], 1>>]
    BY <1>5, <2>1, <2>2 DEF StartCommit, ObjectTypeOK
  <2>4. Keeps(r[1], call[r].id)'
    BY <2>1, <2>3 DEF Keeps
  <2> QED
    BY <2>1, <2>4 DEF Window, Keeps
<1>6. CASE StopUnknown(r)
  BY <1>2, <1>6 DEF StopUnknown, Keeps
<1> QED
  BY <1>3, <1>4, <1>5, <1>6 DEF Serve

LEMMA KeptInvStep == TypeOK /\ RegistryInv /\ KeptInv /\ [Next]_vars => KeptInv'
<1> SUFFICES ASSUME TypeOK, RegistryInv, \A c \in ChargePoints : KeptOf(c), [Next]_vars,
                    NEW c \in ChargePoints, opened'[c] <= 1
             PROVE  /\ \A id \in known'[c] : Keeps(c, id)'
                    /\ \A r \in Requests : r[1] = c => KeptBy(r)'
  BY KeptParts DEF KeptInv, KeptOf, KeptBy
<1>1. /\ opened[c] <= 1
      /\ \A id \in known[c] : Keeps(c, id)'
      /\ \A r \in Requests : r[1] = c => KeptBy(r)
  BY OpenedGrows, IdsStay DEF KeptOf
<1>2. \A r \in Requests : r[1] = c /\ call'[r] = call[r] => KeptBy(r)'
  BY <1>1, KeptByStays
<1>3. ASSUME NEW s \in Requests, Serve(s)
      PROVE  /\ \A id \in known'[c] : Keeps(c, id)'
             /\ \A r \in Requests : r[1] = c => KeptBy(r)'
  <2>1. UNCHANGED known /\ \A r \in Requests \ {s} : call'[r] = call[r]
    BY <1>3, ServeStep, OneCallStep DEF Serve, Handle
  <2>2. s[1] = c => KeptBy(s)'
    BY <1>1, <1>3, KeptByServe
  <2> QED
    BY <1>1, <1>2, <2>1, <2>2
<1>4. ASSUME NEW s \in Requests, SendConfirmation(s)
      PROVE  /\ \A id \in known'[c] : Keeps(c, id)'
             /\ \A r \in Requests : r[1] = c => KeptBy(r)'
  <2>1. /\ \A r \in Requests \ {s} : call'[r] = call[r]
        /\ call[s].pc = "confirm" /\ call'[s] = [call[s] EXCEPT !.pc = "confirmed"]
        /\ UNCHANGED Handed
    BY <1>4, OneCallStep DEF Handle, SendConfirmation, Goto, At, TypeOK, CallTypeOK, Handed
  <2>2. \A id \in known'[c] :
          id \in known[c] \/ (call[s].kind = "start" /\ c = s[1] /\ id = call[s].id)
    BY <1>4, ConfirmationStep
  <2>3. s[1] = c /\ call[s].kind = "start" => Keeps(c, call[s].id)
    BY <1>1, <2>1 DEF KeptBy, Holding
  <2>4. s[1] = c /\ call[s].kind = "start" => \A id : id = call[s].id => Keeps(c, id)'
    BY <2>3, IdsStay
  <2>5. call[s] \in Call
    BY DEF TypeOK, CallTypeOK
  <2>6. Notification(s)' = Notification(s) /\ call'[s].kind = call[s].kind
    BY <2>1, <2>5 DEF Notification, Call
  <2>7. s[1] = c => KeptBy(s)'
    BY <1>1, <2>1, <2>5, <2>6 DEF KeptBy, Holding, Window, Call
  <2> QED
    BY <1>1, <1>2, <2>1, <2>2, <2>4, <2>7
<1>5. ASSUME NEW s \in Requests, Handoff(s)
      PROVE  /\ \A id \in known'[c] : Keeps(c, id)'
             /\ \A r \in Requests : r[1] = c => KeptBy(r)'
  <2>1. /\ \A r \in Requests \ {s} : call'[r] = call[r]
        /\ call[s].pc = "notify" /\ call'[s] = [call[s] EXCEPT !.pc = "confirm"]
        /\ UNCHANGED known /\ Notification(s) \in Handed'
    BY <1>5, HandoffStep DEF Handoff, Goto, At, TypeOK, CallTypeOK, Handed
  <2>2. call[s] \in Call
    BY DEF TypeOK, CallTypeOK
  <2>3. Notification(s)' = Notification(s) /\ call'[s].kind = call[s].kind
        /\ call'[s].id = call[s].id
    BY <2>1, <2>2 DEF Notification, Call
  <2>4. s[1] = c /\ call[s].kind = "start" => Keeps(c, call[s].id)
    BY <1>1, <2>1 DEF KeptBy, Holding
  <2>5. s[1] = c /\ call[s].kind = "start" => Keeps(s[1], call[s].id)'
    <3>1. PICK id : id = call[s].id /\ id = call'[s].id
      BY <2>3
    <3> QED
      BY <2>4, <3>1, IdsStay DEF Keeps
  <2>6. s[1] = c => KeptBy(s)'
    BY <2>1, <2>2, <2>3, <2>5 DEF KeptBy, Holding, Window, Call
  <2> QED
    BY <1>1, <1>2, <2>1, <2>6
<1>6. ASSUME NEW d \in ChargePoints, NEW in \in Inputs(d), Receive(d, in)
      PROVE  /\ \A id \in known'[c] : Keeps(c, id)'
             /\ \A r \in Requests : r[1] = c => KeptBy(r)'
  <2>1. PICK s \in Requests :
          /\ s[1] = d
          /\ call'[s].pc = "entered" /\ call'[s].kind = in.kind /\ call'[s].id = in.id
          /\ \A r \in Requests \ {s} : call'[r] = call[r]
          /\ in.kind = "stop" => in.id \in known[d]
          /\ \A b \in ChargePoints : known'[b] \subseteq known[b]
    BY <1>6, ReceiveStep, <<d, issued[d] + 1>>[1] = d
  <2>2. s[1] = c => KeptBy(s)'
    BY <1>1, <2>1 DEF KeptBy, Holding, Window, Keeps
  <2> QED
    BY <1>1, <1>2, <2>1, <2>2
<1>7. ASSUME \/ \E d \in ChargePoints : Open(d) \/ Close(d)
             \/ \E o \in Connections : Callback(o)
             \/ Publish \/ UNCHANGED vars
      PROVE  UNCHANGED <<call, known>>
  BY <1>7, ConnectionStep DEF Publish
<1> QED
  BY <1>1, <1>2, <1>3, <1>4, <1>5, <1>6, <1>7 DEF Next, Handle, Serve, Idle

LEMMA KeptInitially == Init => KeptInv
BY DEF Init, KeptInv, Holding, NoCall, Window

\* The object of a charge point that never reconnected keeps what may be stopped.
THEOREM KeptHeld == Spec => []KeptInv
BY KeptInitially, KeptInvStep, TypeCorrect, RegistryHeld, PTL DEF Spec

\* A StopTransaction that was confirmed has reached the notifier, as long as its
\* charge point never reconnected.
THEOREM StopsReach == Spec => []StopsReachSubscribers
<1>1. KeptInv => StopsReachSubscribers
  BY DEF KeptInv, StopsReachSubscribers, At, Requests
<1> QED
  BY <1>1, KeptHeld, PTL

(***************************************************************************)
(* StatusAgrees.                                                           *)
(***************************************************************************)

\* A handler's step makes one notification at most: that of its own request.
LEMMA MadeByServe ==
  ASSUME TypeOK, NEW r \in Requests, Serve(r)
  PROVE  /\ Made \subseteq Made'
         /\ \A m \in Made' \ Made :
              /\ m = Notification(r)' /\ At(r, "notify")'
              /\ m.topic = "status" => StatusNotification(r)
              /\ m.topic = "start" => StartCommit(r)
<1>1. UNCHANGED Handed /\ \A s \in Requests \ {r} : call'[s] = call[s]
  BY ServeStep, OneCallStep DEF Serve, Handle, Handed
<1>2. \A s \in Requests \ {r} :
        Notification(s)' = Notification(s) /\ (At(s, "notify")' <=> At(s, "notify"))
  BY <1>1 DEF Notification, At
<1>3. ~At(r, "notify")
  BY DEF Serve, Authorize, Event, NotSupported, UnknownChargePoint, StatusNotification,
     StartBusy, StartFree, StartTakeId, StartLoad, StartStore, StartCommit, StopFound,
     StopUnknown, SendError, At
<1>4. At(r, "notify")' => /\ call'[r].kind = "status" => StatusNotification(r)
                          /\ call'[r].kind = "start" => StartCommit(r)
  <2> USE DEF TypeOK, CallTypeOK, Call, At, Goto
  <2>1. CASE Authorize(r) \/ NotSupported(r) \/ UnknownChargePoint(r) \/ StartBusy(r)
             \/ StopUnknown(r) \/ SendError(r)
    BY <2>1 DEF Authorize, NotSupported, UnknownChargePoint, StartBusy, StopUnknown, SendError
  <2>2. CASE Event(r) \/ StopFound(r) \/ StatusNotification(r)
    BY <2>2 DEF Event, StopFound, StatusNotification
  <2>3. CASE StartFree(r) \/ StartTakeId(r) \/ StartLoad(r) \/ StartStore(r)
    BY <2>3 DEF StartFree, StartTakeId, StartLoad, StartStore
  <2>4. CASE StartCommit(r)
    BY <2>4 DEF StartCommit, Window
  <2> QED
    BY <2>1, <2>2, <2>3, <2>4 DEF Serve
<1>5. Notification(r)'.topic = call'[r].kind
  BY DEF Notification
<1> QED
  BY <1>1, <1>2, <1>3, <1>4, <1>5 DEF Made

\* No other step makes a notification.
LEMMA MadeStays ==
  ASSUME TypeOK, IssuedAreSent,
         \/ \E r \in Requests : SendConfirmation(r) \/ Handoff(r)
         \/ \E c \in ChargePoints : Open(c) \/ Close(c) \/ \E in \in Inputs(c) : Receive(c, in)
         \/ \E o \in Connections : Callback(o)
         \/ Publish \/ UNCHANGED vars
  PROVE  Made' = Made
<1>1. ASSUME NEW r \in Requests, SendConfirmation(r) PROVE Made' = Made
  <2>1. /\ UNCHANGED Handed /\ \A s \in Requests \ {r} : call'[s] = call[s]
        /\ ~At(r, "notify") /\ ~At(r, "notify")'
    BY <1>1, OneCallStep DEF Handle, SendConfirmation, Handed, Goto, At, TypeOK, CallTypeOK
  <2> QED
    BY <2>1 DEF Made, Notification, At
<1>2. ASSUME NEW r \in Requests, Handoff(r) PROVE Made' = Made
  <2>1. /\ Handed' = Handed \cup {Notification(r)}
        /\ \A s \in Requests \ {r} : call'[s] = call[s]
        /\ At(r, "notify") /\ ~At(r, "notify")'
    BY <1>2, HandoffStep DEF Handed, At
  <2>2. \A s \in Requests \ {r} :
          Notification(s)' = Notification(s) /\ (At(s, "notify")' <=> At(s, "notify"))
    BY <2>1 DEF Notification, At
  <2> QED
    BY <2>1, <2>2 DEF Made
<1>3. ASSUME NEW c \in ChargePoints, NEW in \in Inputs(c), Receive(c, in) PROVE Made' = Made
  <2>1. PICK r \in Requests :
          /\ r[1] = c /\ r[2] = issued[c] + 1
          /\ UNCHANGED <<pump, published>>
          /\ call'[r].pc = "entered"
          /\ \A s \in Requests \ {r} : call'[s] = call[s]
    BY <1>3, ReceiveStep, <<c, issued[c] + 1>>[1] = c, <<c, issued[c] + 1>>[2] = issued[c] + 1
  <2>2. ~At(r, "notify") /\ ~At(r, "notify")'
    BY <2>1 DEF IssuedAreSent, At, TypeOK, CounterTypeOK
  <2> QED
    BY <2>1, <2>2 DEF Made, Handed, Notification, At
<1>4. ASSUME Publish PROVE Made' = Made
  BY <1>4 DEF Publish, Made, Handed, Notification, At
<1>5. ASSUME \/ \E c \in ChargePoints : Open(c) \/ Close(c)
             \/ \E o \in Connections : Callback(o) \/ UNCHANGED vars
      PROVE  UNCHANGED <<call, pump, published>>
  BY <1>5, ConnectionStep
<1>6. ASSUME UNCHANGED <<call, pump, published>> PROVE Made' = Made
  BY <1>6 DEF Made, Handed, Notification, At
<1> QED
  BY <1>1, <1>2, <1>3, <1>4, <1>5, <1>6, ConnectionStep

\* What a report writes, and where; no other step writes a status.
Stores(r, o, k) ==
    /\ o[1] = r[1] /\ o[2] = chargePoints[r[1]] /\ k = call[r].connector
    /\ status'[o][k] = {Notification(r)'}
    /\ \A p \in Connections, j \in Places :
         p # o \/ j # k => status'[p][j] = status[p][j]

LEMMA StatusWritten ==
  ASSUME TypeOK, NEW r \in Requests, StatusNotification(r)
  PROVE  /\ \E o \in Connections, k \in Places : Stores(r, o, k)
         /\ Notification(r)' = [Notification(r) EXCEPT !.topic = "status"]
         /\ Notification(r)' \in Made'
         /\ UNCHANGED registryVars
<1> DEFINE o == <<r[1], chargePoints[r[1]]>>
           k == call[r].connector
<1> USE DEF TypeOK, CallTypeOK
<1>1. o \in Connections /\ k \in Places
  BY DEF StatusNotification, RegistryTypeOK, Connections, Requests, Call
<1>2. /\ call'[r] = [call[r] EXCEPT !.pc = "notify"] /\ call[r].kind = "status"
      /\ call[r] \in Call /\ UNCHANGED registryVars
      /\ status' = [status EXCEPT ![o][k] = {Notification(r)}]
  BY DEF StatusNotification, Goto, handlerFrame
<1>3. Notification(r)' = Notification(r) /\ Notification(r).topic = "status"
  BY <1>2 DEF Notification, Call
<1>4. Notification(r)' = [Notification(r) EXCEPT !.topic = "status"]
  BY <1>2, <1>3 DEF Notification
<1>5. Notification(r)' \in Made'
  BY <1>2 DEF Made, At, Call
<1>6. status \in [Connections -> [Places -> SUBSET Message]]
  BY DEF ObjectTypeOK
<1> HIDE DEF o, k
<1>7. /\ status'[o][k] = {Notification(r)'}
      /\ \A p \in Connections, j \in Places :
           p # o \/ j # k => status'[p][j] = status[p][j]
  BY <1>1, <1>2, <1>3, <1>6
<1> QED
  BY <1>1, <1>2, <1>4, <1>5, <1>7 DEF Stores, o, k

LEMMA StatusKept ==
  ASSUME [Next]_vars, \A r \in Requests : ~StatusNotification(r) PROVE UNCHANGED status
BY DEF Next, Idle, Open, Close, Receive, Callback, NewChargePoint, ChargePointDisconnected,
   Handle, Authorize, Event, NotSupported, UnknownChargePoint,
   StartBusy, StartFree, StartTakeId, StartLoad, StartStore,
   StartCommit, StopFound, StopUnknown, SendConfirmation, SendError, Handoff, Publish,
   vars, objectVars

LEMMA ObjectsStep ==
  ASSUME TypeOK, RegistryInv, ObjectsAreNew, [Next]_vars PROVE ObjectsAreNew'
<1>1. ASSUME NEW r \in Requests, StatusNotification(r) PROVE ObjectsAreNew'
  <2>1. PICK o \in Connections, k \in Places : Stores(r, o, k)
    BY <1>1, StatusWritten
  <2>2. UNCHANGED registryVars
    BY <1>1, StatusWritten
  <2>3. o[1] \in ChargePoints /\ o[1] = r[1] /\ o = <<o[1], o[2]>>
    BY <2>1 DEF Stores, Connections
  <2>4. o \notin joining
    BY <2>1, <2>3 DEF ObjectsAreNew, Stores
  <2>5. ~(o[2] > opened[o[1]])
    <3>1. chargePoints[o[1]] <= opened[o[1]] /\ o[2] = chargePoints[o[1]]
      BY <2>1, <2>3 DEF RegistryInv, OpenIsLast, Stores
    <3>2. chargePoints[o[1]] \in Nat /\ opened[o[1]] \in Nat
      BY <2>3, ConstantsAssumption DEF TypeOK, RegistryTypeOK
    <3> QED
      BY <3>1, <3>2
  <2> QED
    BY <2>1, <2>2, <2>4, <2>5 DEF ObjectsAreNew, Stores, registryVars
<1>2. ASSUME UNCHANGED <<registryVars, status>> PROVE ObjectsAreNew'
  BY <1>2 DEF ObjectsAreNew, registryVars
<1>3. ASSUME NEW r \in Requests, Handle(r) \/ Handoff(r) PROVE ObjectsAreNew'
  BY <1>1, <1>2, <1>3, OneCallStep, StatusKept DEF Next
<1>4. ASSUME NEW c \in ChargePoints, Open(c) PROVE ObjectsAreNew'
  <2>1. /\ opened' = [opened EXCEPT ![c] = @ + 1]
        /\ joining' = joining \cup {<<c, opened[c] + 1>>}
        /\ UNCHANGED <<chargePoints, status>>
    BY <1>4 DEF Open, objectVars
  <2>2. \A d \in ChargePoints : opened[d] \in Nat /\ chargePoints[d] \in Nat
                                /\ chargePoints[d] <= opened[d]
    <3>1. \A d \in ChargePoints : opened[d] \in 0 .. MaxConnections
                                  /\ chargePoints[d] \in 0 .. MaxConnections
      BY DEF TypeOK, RegistryTypeOK
    <3>2. \A d \in ChargePoints : chargePoints[d] <= opened[d]
      BY DEF RegistryInv, OpenIsLast
    <3> QED
      BY <3>1, <3>2
  <2>3. \A d \in ChargePoints : <<d, chargePoints'[d]>> \notin joining'
    BY <2>1, <2>2 DEF ObjectsAreNew
  <2>4. ASSUME NEW o \in Connections, o \in joining' \/ o[2] > opened'[o[1]]
        PROVE  o \in joining \/ o[2] > opened[o[1]]
    <3>1. o[1] \in ChargePoints /\ o[2] \in Nat /\ o = <<o[1], o[2]>>
      BY DEF Connections
    <3>2. opened[o[1]] <= opened'[o[1]] /\ opened'[o[1]] \in Nat
      BY <2>1, <2>2, <3>1 DEF TypeOK, RegistryTypeOK
    <3>3. CASE o = <<c, opened[c] + 1>>
      BY <2>2, <3>1, <3>3
    <3>4. CASE o # <<c, opened[c] + 1>>
      BY <2>1, <2>2, <2>4, <3>1, <3>2, <3>4
    <3> QED
      BY <3>3, <3>4
  <2> QED
    BY <2>1, <2>3, <2>4 DEF ObjectsAreNew
<1>5. ASSUME NEW c \in ChargePoints, NEW e \in 1 .. MaxConnections, NewChargePoint(c, e)
      PROVE  ObjectsAreNew'
  BY <1>5 DEF ObjectsAreNew, NewChargePoint, objectVars, TypeOK, RegistryTypeOK
<1>6. ASSUME NEW c \in ChargePoints, NEW e \in 1 .. MaxConnections,
             ChargePointDisconnected(c, e)
      PROVE  ObjectsAreNew'
  <2>1. <<c, 0>> \notin joining
    BY ConstantsAssumption DEF TypeOK, RegistryTypeOK, Connections
  <2> QED
    BY <1>6, <2>1 DEF ObjectsAreNew, ChargePointDisconnected, objectVars, TypeOK, RegistryTypeOK
<1>7. ASSUME NEW c \in ChargePoints, Close(c) PROVE ObjectsAreNew'
  BY <1>7 DEF ObjectsAreNew, Close, objectVars
<1>8. ASSUME \/ \E c \in ChargePoints : \E in \in Inputs(c) : Receive(c, in)
             \/ Publish \/ UNCHANGED vars
      PROVE  UNCHANGED <<registryVars, status>>
  BY <1>8 DEF Receive, Publish, vars, objectVars
<1> QED
  BY <1>2, <1>3, <1>4, <1>5, <1>6, <1>7, <1>8 DEF Next, Idle, Callback, Connections

LEMMA StoredStep ==
  ASSUME TypeOK, IssuedAreSent, StoredAreMade, [Next]_vars PROVE StoredAreMade'
<1>1. Made \subseteq Made'
  BY MadeByServe, MadeStays DEF Next, Handle, Serve, Idle
<1>2. ASSUME NEW r \in Requests, StatusNotification(r) PROVE StoredAreMade'
  <2>1. PICK o \in Connections, k \in Places : Stores(r, o, k)
    BY <1>2, StatusWritten
  <2>2. /\ Notification(r)' \in Made' /\ Notification(r)'.topic = "status"
        /\ Notification(r)'.cp = r[1] /\ Notification(r)'.connector = call[r].connector
    BY <1>2, StatusWritten DEF Notification
  <2> QED
    BY <1>1, <2>1, <2>2 DEF StoredAreMade, Stores
<1>3. CASE UNCHANGED status
  BY <1>1, <1>3 DEF StoredAreMade
<1> QED
  BY <1>2, <1>3, StatusKept

LEMMA LastStep ==
  ASSUME ~Pipelining, TypeOK, OrderInv, StatusInv, [Next]_vars PROVE LastIsStored'
<1>1. LastIsStored /\ StoredAreMade /\ ObjectsAreNew /\ OneLivePerLink /\ LiveAreLater
  BY DEF StatusInv, OrderInv
<1>2. ASSUME NEW r \in Requests, StatusNotification(r) PROVE LastIsStored'
  <2>1. PICK o \in Connections, k \in Places : Stores(r, o, k)
    BY <1>2, StatusWritten
  <2> DEFINE new == Notification(r)'
  <2>2. /\ new.n = r[2] /\ new.cp = r[1] /\ new.link = call[r].link
        /\ new.connector = call[r].connector
    BY <1>2, StatusWritten DEF Notification
  <2>3. /\ At(r, "entered") /\ MayNotify(r) /\ Live(r)
        /\ UNCHANGED chargePoints
        /\ \A p \in Made' : p \in Made \/ p = new
    BY <1>2, MadeByServe DEF StatusNotification, MayNotify, Live, At, Answered, Serve,
       handlerFrame, registryVars
  <2>4. r[2] \in Nat
    BY DEF Requests
  <2> HIDE DEF new
  <2>5. \A p \in Made : p.cp = r[1] /\ p.link = call[r].link => p.n < r[2]
    <3> SUFFICES ASSUME NEW p \in Made, p.cp = r[1], p.link = call[r].link
                 PROVE  p.n < r[2]
      OBVIOUS
    <3>1. CASE p \in Handed
      BY <1>1, <2>3, <3>1 DEF LiveAreLater
    <3>2. ASSUME NEW s \in Requests, At(s, "notify"), p = Notification(s) PROVE FALSE
      <4>1. s[1] = r[1] /\ call[s].link = call[r].link /\ Live(s)
        BY <3>2 DEF Notification, Live, At, Answered
      <4> QED
        BY <1>1, <2>3, <3>2, <4>1 DEF OneLivePerLink, At
    <3> QED
      BY <3>1, <3>2 DEF Made
  <2>6. SUFFICES ASSUME NEW q \in Connections, NEW j \in Places, chargePoints[q[1]] = q[2],
                        NEW m \in status'[q][j], m.link = q[2],
                        NEW p \in Made', SameStatus(p, m)
                 PROVE  p.n <= m.n
    BY <2>3 DEF LastIsStored, SameStatus
  <2>7. CASE q = o /\ j = k
    <3>1. m = new
      BY <2>1, <2>7 DEF Stores, new
    <3>2. CASE p = new
      BY <3>1, <3>2, <2>2, <2>4
    <3>3. CASE p \in Made
      <4>1. p.n < r[2]
        BY <3>1, <3>3, <2>2, <2>5, <2>6 DEF SameStatus
      <4>2. p.n \in Nat
        BY <3>3, NotificationType DEF Made, Handed, TypeOK, NotifierTypeOK, Message
      <4> QED
        BY <3>1, <4>1, <4>2, <2>2, <2>4
    <3> QED
      BY <2>3, <3>2, <3>3
  <2>8. CASE q # o \/ j # k
    <3>1. m \in status[q][j]
      BY <2>1, <2>8 DEF Stores
    <3>2. m.cp = q[1] /\ m.connector = j
      BY <1>1, <3>1 DEF StoredAreMade
    <3>3. CASE p = new
      <4>1. q[1] = o[1] /\ q[2] = o[2] /\ j = k
        BY <2>1, <2>2, <2>6, <3>2, <3>3 DEF SameStatus, Stores
      <4> QED
        BY <2>8, <4>1 DEF Connections
    <3>4. CASE p \in Made
      BY <1>1, <2>6, <3>1, <3>4 DEF LastIsStored
    <3> QED
      BY <2>3, <3>3, <3>4
  <2> QED
    BY <2>7, <2>8
<1>3. ASSUME UNCHANGED status,
             \A p \in Made' : p.topic = "status" => p \in Made,
             \A o \in Connections, k \in Places :
               chargePoints'[o[1]] = o[2] =>
                 chargePoints[o[1]] = o[2] \/ status[o][k] = {}
      PROVE  LastIsStored'
  BY <1>1, <1>3 DEF LastIsStored, SameStatus
<1>4. ASSUME NEW r \in Requests, Serve(r), ~StatusNotification(r) PROVE LastIsStored'
  <2>1. UNCHANGED <<status, registryVars>>
    BY <1>4, OneCallStep DEF Serve, Handle, Authorize, Event, NotSupported,
       UnknownChargePoint, StartBusy, StartFree, StartTakeId, StartLoad, StartStore,
       StartCommit, StopFound, StopUnknown, SendError, objectVars
  <2> QED
    BY <1>3, <1>4, <2>1, MadeByServe DEF registryVars
<1>5. ASSUME \/ \E r \in Requests : SendConfirmation(r) \/ Handoff(r)
             \/ \E c \in ChargePoints : Open(c) \/ Close(c)
             \/ \E c \in ChargePoints : \E in \in Inputs(c) : Receive(c, in)
             \/ Publish \/ UNCHANGED vars
      PROVE  LastIsStored'
  <2>1. Made' = Made
    BY <1>5, MadeStays DEF OrderInv
  <2>2. UNCHANGED <<status, chargePoints>>
    BY <1>5 DEF SendConfirmation, Handoff, Open, Close, Receive, Publish, vars, registryVars,
       objectVars
  <2> QED
    BY <1>3, <2>1, <2>2
<1>6. ASSUME NEW c \in ChargePoints, NEW e \in 1 .. MaxConnections,
             NewChargePoint(c, e) \/ ChargePointDisconnected(c, e)
      PROVE  LastIsStored'
  <2>1. Callback(<<c, e>>) /\ <<c, e>> \in Connections
    BY <1>6 DEF Callback, Connections
  <2>2. Made' = Made
    BY <2>1, MadeStays DEF OrderInv
  <2>3. UNCHANGED status
    BY <1>6 DEF NewChargePoint, ChargePointDisconnected, objectVars
  <2>4. ASSUME NEW o \in Connections, NEW k \in Places, chargePoints'[o[1]] = o[2]
        PROVE  chargePoints[o[1]] = o[2] \/ status[o][k] = {}
    <3>1. o[1] \in ChargePoints /\ o[2] \in 1 .. MaxConnections /\ o = <<o[1], o[2]>>
      BY DEF Connections
    <3>2. CASE o[1] # c
      BY <1>6, <2>4, <3>1, <3>2 DEF NewChargePoint, ChargePointDisconnected, TypeOK,
         RegistryTypeOK
    <3>3. CASE o[1] = c /\ NewChargePoint(c, e)
      BY <1>1, <2>4, <3>1, <3>3 DEF NewChargePoint, ObjectsAreNew, TypeOK, RegistryTypeOK
    <3>4. CASE o[1] = c /\ ChargePointDisconnected(c, e)
      BY <2>4, <3>1, <3>4 DEF ChargePointDisconnected, TypeOK, RegistryTypeOK
    <3> QED
      BY <1>6, <3>2, <3>3, <3>4
  <2> QED
    BY <1>3, <2>2, <2>3, <2>4
<1> QED
  BY <1>2, <1>4, <1>5, <1>6 DEF Next, Handle, Serve, Idle, Callback, Connections

LEMMA StatusInvStep ==
  ASSUME TypeOK, RegistryInv, OrderInv, StatusInv, [Next]_vars PROVE StatusInv'
BY ObjectsStep, StoredStep, LastStep DEF StatusInv, OrderInv

LEMMA StatusInitially == Init => StatusInv
<1> SUFFICES ASSUME Init PROVE StatusInv
  OBVIOUS
<1> USE DEF Init
<1>1. \A o \in Connections, k \in Places : status[o][k] = {}
  OBVIOUS
<1> QED
  BY <1>1 DEF StatusInv, StoredAreMade, ObjectsAreNew, LastIsStored

\* What is stored of a connector was notified, and, if charge points wait for
\* their answers, is the last that the registered connection reported of it.
THEOREM StatusHeld == Spec => []StatusInv
BY StatusInitially, StatusInvStep, TypeCorrect, RegistryHeld, OrderHeld, PTL DEF Spec

LEMMA StatusInvAgrees == TypeOK /\ StatusInv => StatusAgrees
<1> SUFFICES ASSUME TypeOK, StatusInv, ~Pipelining,
                    NEW c \in ChargePoints, NEW k \in Places,
                    link[c] # 0, link[c] = chargePoints[c],
                    \A m \in pump : m.cp # c,
                    \A r \in Requests : r[1] = c => ~Live(r),
                    NEW m \in status[<<c, link[c]>>][k], m.link = link[c]
             PROVE  /\ m \in published
                    /\ \A p \in published : p.topic = "status" /\ p.cp = c
                         /\ p.link = link[c] /\ p.connector = k => p.n <= m.n
  BY DEF StatusAgrees
<1>1. <<c, link[c]>> \in Connections
  BY DEF TypeOK, RegistryTypeOK, Connections
<1>2. m \in Made /\ m.cp = c /\ m.connector = k
  BY <1>1 DEF StatusInv, StoredAreMade
<1>3. m \in published
  <2>1. ASSUME NEW r \in Requests, At(r, "notify"), m = Notification(r) PROVE FALSE
    BY <1>2, <2>1 DEF Notification, Live, At, Answered
  <2> QED
    BY <1>2, <2>1 DEF Made, Handed
<1>4. \A p \in Made : SameStatus(p, m) => p.n <= m.n
  BY <1>1 DEF StatusInv, LastIsStored
<1> QED
  BY <1>2, <1>3, <1>4 DEF Made, Handed, SameStatus

\* Once the requests of a charge point are answered and published, the status
\* stored for a connector is the last that subscribers were told.
THEOREM StatusesAgree == Spec => []StatusAgrees
BY StatusInvAgrees, StatusHeld, TypeCorrect, PTL

=============================================================================
