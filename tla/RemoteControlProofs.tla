-------------------------- MODULE RemoteControlProofs --------------------------
(* Theorems about RemoteControl: which transaction a remote stop is of, and why *)
(* a charge point rejects it, in any number of runs of the process.             *)
EXTENDS RemoteControl, FaultProofs

(***************************************************************************)
(* The starts that are confirmed.                                          *)
(***************************************************************************)

\* The request that comes is a new one.
LEMMA ReceiveIsNew ==
  ASSUME TypeOK, IssuedAreSent, NEW c \in ChargePoints, NEW in \in Inputs(c), Receive(c, in),
         NEW r \in Requests, call[r].pc # "unsent"
  PROVE  call'[r] = call[r]
<1>1. \A s \in Requests \ {<<c, issued[c] + 1>>} : call'[s] = call[s]
  BY ReceiveStep
<1>2. issued[c] \in Nat /\ r[2] <= issued[r[1]]
  BY DEF TypeOK, CounterTypeOK, IssuedAreSent
<1>3. r # <<c, issued[c] + 1>>
  BY <1>2
<1> QED
  BY <1>1, <1>3

\* No step but the confirmation concerns a start that is to be confirmed.
LEMMA ConfirmingStays ==
  ASSUME TypeOK, IssuedAreSent, [Next]_vars, NEW r \in Requests, Confirming(r)
  PROVE  /\ Confirming(r)' /\ Notification(r)' = Notification(r)
         /\ call'[r].id = call[r].id /\ call'[r].link = call[r].link
         /\ At(r, "confirmed") => At(r, "confirmed")'
<1> USE DEF Confirming, Notification, At
<1>1. CASE call'[r] = call[r]
  BY <1>1
<1>2. ASSUME SendConfirmation(r) PROVE call'[r] = [call[r] EXCEPT !.pc = "confirmed"]
  BY <1>2 DEF SendConfirmation, Goto, TypeOK, CallTypeOK
<1>3. CASE call'[r] = [call[r] EXCEPT !.pc = "confirmed"]
  <2>1. call[r] \in Call
    BY DEF TypeOK, CallTypeOK
  <2> QED
    BY <1>3, <2>1 DEF Call
<1>4. ASSUME NEW s \in Requests, Handle(s) \/ Handoff(s), s # r PROVE call'[r] = call[r]
  BY <1>4, OneCallStep
<1>5. ~Handoff(r) /\ (Handle(r) => SendConfirmation(r))
  BY DEF Handoff, Handle, Authorize, Event, NotSupported, UnknownChargePoint,
     StatusNotification, StartBusy, StartFree, StartTakeId, StartLoad, StartStore,
     StartCommit, StopFound, StopUnknown, SendError
<1>6. ASSUME NEW c \in ChargePoints, NEW in \in Inputs(c), Receive(c, in)
      PROVE  call'[r] = call[r]
  BY <1>6, ReceiveIsNew
<1>7. ASSUME UNCHANGED call PROVE call'[r] = call[r]
  BY <1>7
<1> QED
  BY <1>1, <1>2, <1>3, <1>4, <1>5, <1>6, <1>7, ConnectionStep DEF Next, Idle, Publish

\* Only what the notifier receives comes to be confirmed.
LEMMA ConfirmingComes ==
  ASSUME TypeOK, [Next]_vars, NEW r \in Requests, Confirming(r)', ~Confirming(r)
  PROVE  Handoff(r) /\ call[r].kind = "start"
<1> USE DEF Confirming
<1>1. ASSUME NEW s \in Requests, Handle(s) \/ Handoff(s), s # r PROVE FALSE
  BY <1>1, OneCallStep
<1>2. ASSUME Handle(r) PROVE FALSE
  BY <1>2 DEF Handle, Authorize, Event, NotSupported, UnknownChargePoint, At, Goto,
     StatusNotification, StartBusy, StartFree, StartTakeId, StartLoad, StartStore,
     StartCommit, StopFound, StopUnknown, SendConfirmation, SendError, TypeOK, CallTypeOK, Call
<1>3. ASSUME NEW c \in ChargePoints, NEW in \in Inputs(c), Receive(c, in) PROVE FALSE
  <2>1. PICK s \in Requests :
          call'[s].pc = "entered" /\ \A q \in Requests \ {s} : call'[q] = call[q]
    BY <1>3, ReceiveStep
  <2> QED
    BY <2>1
<1>4. ASSUME UNCHANGED call PROVE FALSE
  BY <1>4
<1>5. Handoff(r) => call[r].kind = "start"
  BY HandoffStep
<1> QED
  BY <1>1, <1>2, <1>3, <1>4, <1>5, ConnectionStep DEF Next, Idle, Publish

\* A restart forgets the starts to be confirmed, and keeps those that were.
LEMMA ConfirmedAtRestart ==
  ASSUME FaultsTypeOK, Restart, NEW r \in Requests, Confirming(r)'
  PROVE  Confirming(r) /\ Notification(r)' = Notification(r) /\ call'[r] = call[r]
<1>1. call'[r] = call[r]
  BY RestartFacts DEF Confirming, NoCall
<1> QED
  BY <1>1 DEF Confirming, Notification

LEMMA ReceivedStarts ==
  ASSUME FaultsTypeOK, FaultsInv, StartsAreReceived, [FaultsNext]_allVars
  PROVE  StartsAreReceived'
<1>1. ASSUME [Next]_vars, UNCHANGED faultVars PROVE StartsAreReceived'
  <2>1. TypeOK /\ IssuedAreSent /\ UNCHANGED <<lost, era, restarts>> /\ Received \subseteq Received'
    BY <1>1, HandedGrows DEF FaultsTypeOK, FaultsInv, faultVars, Received
  <2>2. ASSUME NEW r \in Requests, Confirming(r)' PROVE Notification(r)' \in Received'
    <3>1. CASE Confirming(r)
      BY <1>1, <2>1, <3>1, ConfirmingStays DEF StartsAreReceived
    <3>2. CASE ~Confirming(r)
      <4>1. Handoff(r)
        BY <1>1, <2>1, <2>2, <3>2, ConfirmingComes
      <4>2. Notification(r)' = Notification(r) /\ pump' = {Notification(r)}
        BY <2>1, <4>1, HandoffStep DEF Notification, Handoff, Goto, TypeOK, CallTypeOK, Call
      <4> QED
        BY <4>2 DEF Received, Handed
    <3> QED
      BY <3>1, <3>2
  <2>3. ASSUME NEW m \in OfThisRun', m.topic = "start"
        PROVE  Confirming(<<m.cp, m.n>>)' /\ Notification(<<m.cp, m.n>>)' = m
    <3>1. CASE m \in Received
      <4>1. m \in OfThisRun
        BY <2>1, <2>3, <3>1 DEF OfThisRun, RunOf
      <4>2. <<m.cp, m.n>> \in Requests
        BY <3>1 DEF Received, Handed, FaultsTypeOK, TypeOK, NotifierTypeOK, Message, Requests
      <4> QED
        BY <1>1, <2>1, <2>3, <4>1, <4>2, ConfirmingStays DEF StartsAreReceived
    <3>2. CASE m \notin Received
      <4>1. PICK r \in Requests : Handoff(r) /\ m = Notification(r)
        BY <1>1, <2>1, <2>3, <3>2, ReceivedStep DEF OfThisRun
      <4>2. r = <<m.cp, m.n>> /\ call[r].kind = "start"
        BY <2>3, <4>1 DEF Notification, Requests
      <4>3. Confirming(r)' /\ Notification(r)' = Notification(r)
        BY <2>1, <4>1, <4>2, HandoffStep
           DEF Confirming, Notification, Handoff, Goto, TypeOK, CallTypeOK, Call
      <4> QED
        BY <4>1, <4>2, <4>3
    <3> QED
      BY <3>1, <3>2
  <2> QED
    BY <2>2, <2>3 DEF StartsAreReceived
<1>2. ASSUME Restart PROVE StartsAreReceived'
  <2>1. Received' = Received
    BY <1>2, RestartFacts
  <2>2. \A r \in Requests : Confirming(r)' => Notification(r)' \in Received'
    BY <1>2, <2>1, ConfirmedAtRestart DEF StartsAreReceived
  <2>3. \A m : m \notin OfThisRun'
    BY <1>2, <2>1, ReceivedAreOld DEF OfThisRun, FaultsInv
  <2> QED
    BY <2>2, <2>3 DEF StartsAreReceived
<1>3. ASSUME PublishFails PROVE StartsAreReceived'
  BY <1>3, FailureFacts
     DEF StartsAreReceived, Confirming, Notification, OfThisRun, RunOf
<1> QED
  BY <1>1, <1>2, <1>3 DEF FaultsNext, allVars

(***************************************************************************)
(* The ids that charge points are told.                                    *)
(***************************************************************************)

\* A StopTransaction is never forgotten within a run.
LEMMA StopsStay ==
  ASSUME TypeOK, IssuedAreSent, [Next]_vars, NEW c \in ChargePoints, NEW id
  PROVE  Stops(c, id) \subseteq Stops(c, id)'
<1> SUFFICES ASSUME NEW r \in Stops(c, id)
             PROVE  call'[r].pc # "unsent" /\ call'[r].kind = "stop" /\ call'[r].id = id
  BY DEF Stops, At
<1>1. r \in Requests /\ call[r].pc # "unsent" /\ call[r].kind = "stop" /\ call[r].id = id
  BY DEF Stops, At
<1>2. CASE call'[r] = call[r]
  BY <1>1, <1>2
<1>3. ASSUME NEW s \in Requests, Handle(s) \/ Handoff(s), s # r PROVE call'[r] = call[r]
  BY <1>1, <1>3, OneCallStep
<1>4. ASSUME Handle(r) \/ Handoff(r)
      PROVE  call'[r].pc # "unsent" /\ call'[r].kind = "stop" /\ call'[r].id = id
  BY <1>1, <1>4 DEF Handoff, Handle, Authorize, Event, NotSupported, UnknownChargePoint, At,
     Goto, StatusNotification, StartBusy, StartFree, StartTakeId, StartLoad, StartStore,
     StartCommit, StopFound, StopUnknown, SendConfirmation, SendError, TypeOK, CallTypeOK,
     Call, Window
<1>5. ASSUME NEW d \in ChargePoints, NEW in \in Inputs(d), Receive(d, in)
      PROVE  call'[r] = call[r]
  BY <1>1, <1>5, ReceiveIsNew
<1>6. ASSUME UNCHANGED call PROVE call'[r] = call[r]
  BY <1>6
<1> QED
  BY <1>2, <1>3, <1>4, <1>5, <1>6, ConnectionStep DEF Next, Idle, Publish

\* A charge point learns ids by confirmations, and gives them up for stops.
LEMMA KnownStep ==
  ASSUME TypeOK, [Next]_vars, NEW c \in ChargePoints
  PROVE  /\ \A id \in known[c] : id \in known'[c] \/ Stops(c, id)' # {}
         /\ \A id \in known'[c] : \/ id \in known[c]
                                  \/ \E r \in Requests :
                                       /\ SendConfirmation(r) /\ call[r].kind = "start"
                                       /\ c = r[1] /\ id = call[r].id
<1>1. CASE UNCHANGED known
  BY <1>1
<1>2. ASSUME NEW r \in Requests, SendConfirmation(r)
      PROVE  /\ known[c] \subseteq known'[c]
             /\ \A id \in known'[c] : \/ id \in known[c]
                                      \/ call[r].kind = "start" /\ c = r[1] /\ id = call[r].id
  BY <1>2 DEF SendConfirmation, TypeOK, CounterTypeOK
<1>3. ASSUME NEW d \in ChargePoints, NEW in \in Inputs(d), Receive(d, in)
      PROVE  /\ \A id \in known[c] : id \in known'[c] \/ Stops(c, id)' # {}
             /\ known'[c] \subseteq known[c]
  <2>1. PICK r \in Requests :
          /\ r[1] = d /\ call'[r].pc = "entered" /\ call'[r].kind = in.kind
          /\ call'[r].id = in.id
          /\ \A b \in ChargePoints : known'[b] \subseteq known[b]
    BY <1>3, ReceiveStep, <<d, issued[d] + 1>>[1] = d
  <2>2. ASSUME NEW id \in known[c], id \notin known'[c]
        PROVE  c = d /\ in.kind = "stop" /\ in.id = id
    BY <1>3, <2>2 DEF Receive, TypeOK, CounterTypeOK
  <2>3. ASSUME NEW id \in known[c], id \notin known'[c] PROVE r \in Stops(c, id)'
    BY <2>1, <2>2, <2>3 DEF Stops, At
  <2> QED
    BY <2>1, <2>3
<1>4. ASSUME NEW r \in Requests, Serve(r) \/ Handoff(r) PROVE UNCHANGED known
  BY <1>4, ServeStep, HandoffStep
<1> QED
  BY <1>1, <1>2, <1>3, <1>4, ConnectionStep DEF Next, Handle, Serve, Idle, Publish

\* A request is confirmed by the step that tells its charge point.
LEMMA ConfirmedComes ==
  ASSUME TypeOK, [Next]_vars, NEW r \in Requests, Confirming(r)', At(r, "confirmed")',
         ~(Confirming(r) /\ At(r, "confirmed"))
  PROVE  SendConfirmation(r)
<1>1. Confirming(r) /\ At(r, "confirm")
  <2>1. Handoff(r) => call'[r].pc = "confirm"
    BY HandoffStep
  <2> QED
    BY <2>1, ConfirmingComes DEF Confirming, At
<1>2. call'[r] # call[r]
  BY <1>1 DEF At
<1>3. ASSUME NEW s \in Requests, Handle(s) \/ Handoff(s), s # r PROVE FALSE
  BY <1>2, <1>3, OneCallStep
<1>4. ~Handoff(r) /\ (Handle(r) => SendConfirmation(r))
  BY <1>1 DEF Confirming, At, Handoff, Handle, Authorize, Event, NotSupported,
     UnknownChargePoint, StatusNotification, StartBusy, StartFree, StartTakeId, StartLoad,
     StartStore, StartCommit, StopFound, StopUnknown, SendError
<1>5. ASSUME NEW c \in ChargePoints, NEW in \in Inputs(c), Receive(c, in) PROVE FALSE
  <2>1. PICK s \in Requests :
          call'[s].pc = "entered" /\ \A q \in Requests \ {s} : call'[q] = call[q]
    BY <1>5, ReceiveStep
  <2> QED
    BY <1>2, <2>1 DEF At
<1> QED
  BY <1>2, <1>3, <1>4, <1>5, ConnectionStep DEF Next, Idle, Publish

\* A start that was confirmed came by a connection that was opened.
LEMMA ConfirmingLink ==
  ASSUME FaultsTypeOK, EraInv, StartsAreReceived, NEW r \in Requests, Confirming(r)
  PROVE  /\ r[1] \in ChargePoints /\ opened[r[1]] \in Nat
         /\ call[r].link \in 1 .. opened[r[1]]
<1>1. Notification(r) \in Received
  BY DEF StartsAreReceived
<1>2. Notification(r).link = call[r].link /\ Notification(r).cp = r[1]
  BY DEF Notification
<1> QED
  BY <1>1, <1>2 DEF EraInv, Requests, FaultsTypeOK, TypeOK, RegistryTypeOK

LEMMA ConfirmedStay ==
  ASSUME TypeOK, IssuedAreSent, [Next]_vars, UNCHANGED faultVars, NEW c, NEW id
  PROVE  Confirmed(c, id) \subseteq Confirmed(c, id)'
<1> SUFFICES ASSUME NEW r \in Confirmed(c, id) PROVE r \in Confirmed(c, id)'
  OBVIOUS
<1>1. r \in Requests /\ Confirming(r) /\ At(r, "confirmed") /\ r[1] = c /\ call[r].id = id
      /\ era[<<c, call[r].link>>] = restarts
  BY DEF Confirmed, Starts, Confirming, At
<1>2. /\ Confirming(r)' /\ call'[r].id = id /\ call'[r].link = call[r].link
      /\ At(r, "confirmed")' /\ UNCHANGED <<era, restarts>>
  BY <1>1, ConfirmingStays DEF faultVars
<1> QED
  BY <1>1, <1>2 DEF Confirmed, Starts, Confirming

LEMMA ToldStarts ==
  ASSUME FaultsTypeOK, FaultsInv, StartsAreReceived, StartsAreTold, [FaultsNext]_allVars
  PROVE  StartsAreTold'
<1>1. ASSUME [Next]_vars, UNCHANGED faultVars PROVE StartsAreTold'
  <2>1. TypeOK /\ IssuedAreSent /\ RegistryInv /\ EraInv /\ UNCHANGED <<era, restarts, stale>>
    BY <1>1 DEF FaultsTypeOK, FaultsInv, faultVars
  <2>2. ASSUME NEW r \in Requests, Confirming(r)', At(r, "confirmed")',
               call'[r].link = link'[r[1]]
        PROVE  (call[r].id \in known[r[1]] \/ Stops(r[1], call[r].id) # {})'
    <3>1. r[1] \in ChargePoints
      BY DEF Requests
    <3>2. CASE Confirming(r) /\ At(r, "confirmed")
      <4>1. call'[r].id = call[r].id /\ call'[r].link = call[r].link
        BY <1>1, <2>1, <3>2, ConfirmingStays
      <4>2. link'[r[1]] \in 1 .. opened[r[1]] /\ opened[r[1]] \in Nat
        BY <2>2, <3>2, <4>1, <2>1, ConfirmingLink
      <4>3. link[r[1]] = call[r].link
        <5>1. link'[r[1]] # 0 /\ ~(link'[r[1]] > opened[r[1]])
          BY <4>2
        <5>2. link'[r[1]] = link[r[1]]
          BY <1>1, <2>1, <3>1, <5>1, LinkStep
        <5> QED
          BY <2>2, <4>1, <5>2
      <4>4. call[r].id \in known[r[1]] \/ Stops(r[1], call[r].id) # {}
        BY <3>2, <4>3 DEF StartsAreTold
      <4>5. \/ call[r].id \in known'[r[1]]
            \/ \E id : id = call[r].id /\ Stops(r[1], id)' # {}
        BY <1>1, <2>1, <3>1, <4>4, KnownStep, StopsStay
      <4>6. PICK id : id = call[r].id
        OBVIOUS
      <4>7. id \in known'[r[1]] \/ Stops(r[1], id)' # {}
        BY <4>5, <4>6
      <4>8. id = call'[r].id
        BY <4>1, <4>6
      <4> QED
        BY <4>7, <4>8 DEF Stops
    <3>3. CASE ~(Confirming(r) /\ At(r, "confirmed"))
      <4>1. SendConfirmation(r)
        BY <1>1, <2>1, <2>2, <3>3, ConfirmedComes
      <4>2. /\ call'[r] = [call[r] EXCEPT !.pc = "confirmed"] /\ call[r] \in Call
            /\ link' = link
        BY <2>1, <4>1 DEF SendConfirmation, Goto, TypeOK, CallTypeOK, registryVars
      <4>3. /\ call'[r].kind = call[r].kind /\ call'[r].link = call[r].link
            /\ call'[r].id = call[r].id
        BY <4>2 DEF Call
      <4> QED
        BY <2>1, <2>2, <3>1, <4>1, <4>2, <4>3
           DEF SendConfirmation, Confirming, TypeOK, CounterTypeOK
    <3> QED
      BY <3>2, <3>3
  <2>3. ASSUME NEW c \in ChargePoints, NEW id \in known'[c] \ stale'[c]
        PROVE  Confirmed(c, id)' # {}
    <3>1. CASE id \in known[c]
      BY <1>1, <2>1, <2>3, <3>1, ConfirmedStay DEF StartsAreTold
    <3>2. ASSUME NEW r \in Requests, SendConfirmation(r), call[r].kind = "start",
                 c = r[1], id = call[r].id
          PROVE  r \in Confirmed(c, id)'
      <4>1. /\ call'[r] = [call[r] EXCEPT !.pc = "confirmed"] /\ call[r] \in Call
            /\ Live(r)
        BY <2>1, <3>2 DEF SendConfirmation, Goto, TypeOK, CallTypeOK, At, Live, Answered
      <4>2. /\ call'[r].kind = "start" /\ call'[r].link = call[r].link
            /\ call'[r].id = id /\ call'[r].pc = "confirmed"
        BY <3>2, <4>1 DEF Call
      <4>3. era'[<<c, call'[r].link>>] = restarts'
        BY <2>1, <3>2, <4>1, <4>2 DEF EraInv
      <4> QED
        BY <3>2, <4>2, <4>3 DEF Confirmed, Starts, At
    <3> QED
      BY <1>1, <2>1, <2>3, <3>1, <3>2, KnownStep
  <2> QED
    BY <2>2, <2>3 DEF StartsAreTold
<1>2. ASSUME Restart PROVE StartsAreTold'
  <2>1. \A c \in ChargePoints : link'[c] = 0 /\ known'[c] \subseteq stale'[c]
    BY <1>2 DEF Restart
  <2>2. ASSUME NEW r \in Requests, Confirming(r)' PROVE call'[r].link # link'[r[1]]
    <3>1. Confirming(r) /\ call'[r] = call[r]
      BY <1>2, <2>2, ConfirmedAtRestart
    <3> QED
      BY <2>1, <3>1, ConfirmingLink DEF FaultsInv
  <2> QED
    BY <2>1, <2>2 DEF StartsAreTold
<1>3. ASSUME PublishFails PROVE StartsAreTold'
  <2>1. UNCHANGED <<link, known, call, stale, era, restarts>>
    BY <1>3, FailureFacts DEF registryVars
  <2> QED
    BY <2>1 DEF StartsAreTold, Confirming, Confirmed, Starts, Stops, At
<1> QED
  BY <1>1, <1>2, <1>3 DEF FaultsNext, allVars

(***************************************************************************)
(* The first connection of a charge point.                                 *)
(***************************************************************************)

\* Before its first connection a charge point knows no ids and has sent nothing.
LEMMA BeforeFirst ==
  ASSUME FaultsTypeOK, FaultsInv, NEW c \in ChargePoints, opened[c] = 0
  PROVE  known[c] = {} /\ \A r \in Requests : r[1] = c => ~Live(r)
<1>1. ASSUME NEW id \in known[c] PROVE FALSE
  <2>1. <<c, id>> \in StartsIn(Received)
    BY DEF FaultsInv, AccountInv, StoppableIn
  <2>2. PICK m \in Received : m.cp = c
    BY <2>1, StartsInSet
  <2>3. m.link \in 1 .. opened[c]
    BY <2>2 DEF FaultsInv, EraInv
  <2> QED
    BY <2>3
<1>2. ASSUME NEW r \in Requests, r[1] = c, Live(r) PROVE FALSE
  <2>1. call[r].link \in 1 .. opened[c]
    BY <1>2 DEF FaultsInv, EraInv
  <2> QED
    BY <2>1
<1> QED
  BY <1>1, <1>2

\* A transaction of the first object stays open until it is stopped.
LEMMA OpenStays ==
  ASSUME TypeOK, [Next]_vars, NEW c \in ChargePoints, NEW id, HasOpen(c, id),
         \A r \in Requests : StopFound(r) => r[1] # c \/ call[r].id # id
  PROVE  HasOpen(c, id)'
<1> DEFINE o == <<c, 1>>
<1>1. PICK t \in transactions[o] : t.id = id /\ t.phase = "open"
  BY DEF HasOpen
<1>2. CASE UNCHANGED transactions
  BY <1>2 DEF HasOpen
<1>3. CASE Connections = {}
  <2>1. transactions \in [{} -> SUBSET Transaction] /\ transactions' \in [{} -> SUBSET Transaction]
    BY <1>3, TypeStep DEF TypeOK, ObjectTypeOK
  <2> QED
    BY <2>1, <1>2
<1>4. ASSUME NEW r \in Requests, StartCommit(r), o \in Connections PROVE HasOpen(c, id)'
  <2> DEFINE p   == <<r[1], call[r].info>>
             new == [id |-> call[r].id, connector |-> call[r].connector, phase |-> "open"]
  <2>1. transactions' = [transactions EXCEPT ![p] = {x \in @ : x.id # call[r].id} \cup {new}]
    BY <1>4 DEF StartCommit
  <2>2. new.id = call[r].id /\ new.phase = "open"
    OBVIOUS
  <2> HIDE DEF new
  <2>3. CASE p = o
    BY <1>1, <1>4, <2>1, <2>2, <2>3 DEF HasOpen, TypeOK, ObjectTypeOK
  <2>4. CASE p # o
    BY <1>1, <1>4, <2>1, <2>4 DEF HasOpen, TypeOK, ObjectTypeOK
  <2> QED
    BY <2>3, <2>4
<1>5. ASSUME NEW r \in Requests, StopFound(r), o \in Connections PROVE HasOpen(c, id)'
  <2> DEFINE p == <<r[1], chargePoints[r[1]]>>
  <2>1. PICK x \in transactions[p] :
          /\ x.id = call[r].id
          /\ transactions' = [transactions EXCEPT ![p] = (@ \ {x}) \cup {[x EXCEPT !.phase = "ended"]}]
    BY <1>5 DEF StopFound
  <2>2. p = o => x # t
    BY <1>1, <1>5, <2>1
  <2>3. t \in transactions'[o]
    BY <1>1, <1>5, <2>1, <2>2 DEF TypeOK, ObjectTypeOK
  <2> QED
    BY <1>1, <2>3 DEF HasOpen
<1>6. Connections # {} => o \in Connections
  BY ConstantsAssumption DEF Connections
<1>7. ASSUME NEW r \in Requests, Handle(r) \/ Handoff(r) PROVE HasOpen(c, id)'
  <2>1. CASE StartCommit(r) \/ StopFound(r)
    BY <2>1, <1>3, <1>4, <1>5, <1>6
  <2>2. CASE ~(StartCommit(r) \/ StopFound(r))
    <3>1. UNCHANGED transactions
      BY <1>7, <2>2 DEF Handle, Authorize, Event, NotSupported, UnknownChargePoint,
         StatusNotification, StartBusy, StartFree, StartTakeId, StartLoad, StartStore,
         StopUnknown, SendConfirmation, SendError, Handoff, objectVars
    <3> QED
      BY <1>2, <3>1
  <2> QED
    BY <2>1, <2>2
<1>8. ASSUME \/ \E d \in ChargePoints : Open(d) \/ Close(d) \/ \E in \in Inputs(d) : Receive(d, in)
             \/ \E p \in Connections : Callback(p)
             \/ Publish \/ UNCHANGED vars
      PROVE  UNCHANGED transactions
  BY <1>8 DEF Open, Close, Receive, Callback, NewChargePoint, ChargePointDisconnected, Publish,
     vars, objectVars
<1> QED
  BY <1>2, <1>7, <1>8 DEF Next, Idle

\* If charge points wait for their answers, one request is under way on the first
\* connection.
LEMMA OneOnFirst ==
  ASSUME EraInv, HeardInv, ~Pipelining, NEW c \in ChargePoints, opened[c] = 1,
         NEW r \in Requests, NEW s \in Requests, Live(r), Live(s), r[1] = c, s[1] = c
  PROVE  r = s
<1>1. call[r].link \in 1 .. opened[c] /\ call[s].link \in 1 .. opened[c]
  BY DEF EraInv
<1>2. call[r].link = call[s].link
  BY <1>1
<1> QED
  BY <1>2 DEF HeardInv, OneLivePerLink

\* A first connection that is open has been opened in this step, or was open.
LEMMA FirstLink ==
  ASSUME TypeOK, RegistryInv, [Next]_vars, NEW c \in ChargePoints, opened'[c] = 1,
         link'[c] = 1
  PROVE  \/ opened[c] = 0 /\ UNCHANGED <<call, known>>
         \/ opened[c] = 1 /\ link[c] = 1
<1>1. opened[c] \in Nat /\ opened[c] <= 1
  BY OpenedGrows
<1>2. CASE link'[c] = link[c] /\ link[c] \in 1 .. opened[c]
  BY <1>1, <1>2
<1>3. CASE link'[c] > opened[c]
  <2>1. opened[c] = 0
    BY <1>1, <1>3
  <2>2. ASSUME \A d \in ChargePoints : ~Open(d) PROVE FALSE
    <3>1. UNCHANGED opened
      BY <2>2, OneCallStep DEF Next, Idle, Close, Receive, Callback, NewChargePoint,
         ChargePointDisconnected, Publish, vars, registryVars
    <3> QED
      BY <2>1, <3>1
  <2>3. UNCHANGED <<call, known>>
    BY <2>2, ConnectionStep
  <2> QED
    BY <2>1, <2>3
<1> QED
  BY <1>2, <1>3, LinkStep

\* While its first connection is open, a charge point that is registered stays so.
LEMMA RegisteredStays ==
  ASSUME TypeOK, RegistryInv, [Next]_vars, NEW c \in ChargePoints, opened[c] = 1,
         link[c] = 1, chargePoints[c] = 1
  PROVE  chargePoints'[c] = 1
<1>1. /\ <<c, 1>> \notin leaving
      /\ \A e \in 1 .. MaxConnections : Pending(c, e) => e <= 1
  BY DEF RegistryInv, OpenIsLast
<1>2. ASSUME NEW o \in Connections, Callback(o) PROVE chargePoints'[c] = 1
  <2>1. CASE o[1] # c
    BY <1>2, <2>1 DEF Callback, NewChargePoint, ChargePointDisconnected, TypeOK, RegistryTypeOK
  <2>2. CASE o[1] = c
    <3>1. o = <<c, o[2]>> /\ o[2] \in 1 .. MaxConnections
      BY <2>2 DEF Connections
    <3>2. Pending(c, o[2])
      BY <1>2, <2>2 DEF Callback, NewChargePoint, ChargePointDisconnected, Pending
    <3>3. o[2] = 1
      BY <1>1, <3>1, <3>2
    <3> QED
      BY <1>1, <1>2, <2>2, <3>3 DEF Callback, NewChargePoint, ChargePointDisconnected, TypeOK,
         RegistryTypeOK
  <2> QED
    BY <2>1, <2>2
<1>3. ASSUME \A o \in Connections : ~Callback(o) PROVE UNCHANGED chargePoints
  BY <1>3, OneCallStep DEF Next, Idle, Open, Close, Receive, Publish, vars, registryVars
<1> QED
  BY <1>2, <1>3

\* What FirstInv says of a request, and of a charge point.
FirstBy(c, r) ==
  /\ call[r].pc \in Window => call[r].info = 1 /\ chargePoints[c] = 1
  /\ call[r].kind = "start" /\ call[r].pc \in {"notify", "confirm"} =>
       HasOpen(c, call[r].id) /\ chargePoints[c] = 1
  /\ call[r].kind = "stop" /\ At(r, "entered") => call[r].id \notin known[c]

FirstOf(c) ==
  /\ \A id \in known[c] : HasOpen(c, id) /\ chargePoints[c] = 1
  /\ \A r \in Requests : r[1] = c => FirstBy(c, r)

LEMMA FirstParts ==
  FirstInv <=> (~Pipelining /\ ~Resend =>
                  \A c \in ChargePoints : opened[c] = 1 /\ link[c] = 1 => FirstOf(c))
BY DEF FirstInv, FirstOf, FirstBy

\* While its first connection is open, what a charge point may stop stays open.
LEMMA HeldStay ==
  ASSUME FaultsTypeOK, EraInv, HeardInv, [Next]_vars, ~Pipelining,
         NEW c \in ChargePoints, opened[c] = 1, FirstOf(c)
  PROVE  /\ \A id \in known[c] : HasOpen(c, id)'
         /\ \A r \in Requests : \A id :
              /\ r[1] = c /\ call[r].kind = "start" /\ call[r].pc \in {"notify", "confirm"}
              /\ id = call[r].id
              => HasOpen(c, id)'
<1>1. ASSUME NEW q \in Requests, StopFound(q) PROVE call[q].kind = "stop" /\ At(q, "entered")
  BY <1>1 DEF StopFound
<1>2. ASSUME NEW id \in known[c] PROVE HasOpen(c, id)'
  <2>1. \A q \in Requests : StopFound(q) => q[1] # c \/ call[q].id # id
    BY <1>1, <1>2 DEF FirstOf, FirstBy
  <2>2. HasOpen(c, id) /\ TypeOK
    BY <1>2 DEF FirstOf, FaultsTypeOK
  <2> QED
    BY <2>1, <2>2, OpenStays
<1>3. ASSUME NEW r \in Requests, r[1] = c, call[r].kind = "start",
             call[r].pc \in {"notify", "confirm"}, NEW id, id = call[r].id
      PROVE  HasOpen(c, id)'
  <2>1. \A q \in Requests : StopFound(q) => q[1] # c
    <3> SUFFICES ASSUME NEW q \in Requests, StopFound(q), q[1] = c PROVE FALSE
      OBVIOUS
    <3>1. Live(q) /\ Live(r)
      BY <1>1, <1>3 DEF Live, At, Answered
    <3>2. q = r
      BY <1>3, <3>1, OneOnFirst
    <3> QED
      BY <1>1, <1>3, <3>2
  <2>2. HasOpen(c, id) /\ TypeOK
    BY <1>3 DEF FirstOf, FirstBy, FaultsTypeOK
  <2> QED
    BY <2>1, <2>2, OpenStays
<1> QED
  BY <1>2, <1>3

LEMMA FirstKnown ==
  ASSUME FaultsTypeOK, FaultsInv, [Next]_vars, ~Pipelining,
         NEW c \in ChargePoints, opened[c] = 1, link[c] = 1, FirstOf(c),
         NEW id \in known'[c]
  PROVE  HasOpen(c, id)' /\ chargePoints'[c] = 1
<1>1. TypeOK /\ EraInv /\ HeardInv /\ RegistryInv
  BY DEF FaultsTypeOK, FaultsInv
<1>2. CASE id \in known[c]
  BY <1>1, <1>2, HeldStay, RegisteredStays DEF FirstOf
<1>3. ASSUME NEW q \in Requests, SendConfirmation(q), call[q].kind = "start", c = q[1],
             id = call[q].id
      PROVE  HasOpen(c, id)' /\ chargePoints'[c] = 1
  <2>1. call[q].pc \in {"notify", "confirm"}
    BY <1>3 DEF SendConfirmation, At
  <2>2. chargePoints[c] = 1 /\ HasOpen(c, id)
    BY <1>3, <2>1 DEF FirstOf, FirstBy
  <2>3. UNCHANGED transactions
    BY <1>3 DEF SendConfirmation, objectVars
  <2> QED
    BY <1>1, <2>2, <2>3, RegisteredStays DEF HasOpen
<1> QED
  BY <1>1, <1>2, <1>3, KnownStep

\* A request that a step does not concern, and one whose handler takes a step.
LEMMA FirstStays ==
  ASSUME FaultsTypeOK, FaultsInv, [Next]_vars, ~Pipelining,
         NEW c \in ChargePoints, opened[c] = 1, link[c] = 1, FirstOf(c),
         NEW r \in Requests, r[1] = c, call'[r] = call[r]
  PROVE  FirstBy(c, r)'
<1>1. TypeOK /\ EraInv /\ HeardInv /\ RegistryInv /\ FirstBy(c, r)
  BY DEF FaultsTypeOK, FaultsInv, FirstOf
<1>2. chargePoints[c] = 1 => chargePoints'[c] = 1
  BY <1>1, RegisteredStays
<1>3. ASSUME call[r].kind = "start", call[r].pc \in {"notify", "confirm"}
      PROVE  HasOpen(c, call[r].id)'
  <2>1. \A id : id = call[r].id => HasOpen(c, id)'
    BY <1>1, <1>3, HeldStay
  <2> QED
    BY <2>1 DEF HasOpen
<1>4. ASSUME call[r].kind = "stop", At(r, "entered"), call[r].id \in known'[c] PROVE FALSE
  <2>1. call[r].id \notin known[c]
    BY <1>1, <1>4 DEF FirstBy
  <2>2. PICK q \in Requests : SendConfirmation(q) /\ call[q].kind = "start" /\ c = q[1]
    BY <1>1, <1>4, <2>1, KnownStep
  <2>3. Live(q) /\ Live(r)
    BY <1>4, <2>2 DEF SendConfirmation, At, Live, Answered
  <2>4. q = r
    BY <1>1, <2>2, <2>3, OneOnFirst
  <2> QED
    BY <1>4, <2>2, <2>4
<1> QED
  BY <1>1, <1>2, <1>3, <1>4 DEF FirstBy, At

LEMMA FirstServed ==
  ASSUME FaultsTypeOK, FaultsInv, [Next]_vars, ~Pipelining,
         NEW c \in ChargePoints, opened[c] = 1, link[c] = 1, FirstOf(c),
         NEW r \in Requests, r[1] = c, Handle(r) \/ Handoff(r)
  PROVE  FirstBy(c, r)'
<1>1. TypeOK /\ EraInv /\ RegistryInv /\ FirstBy(c, r)
  BY DEF FaultsTypeOK, FaultsInv, FirstOf
<1>2. /\ UNCHANGED registryVars
      /\ chargePoints[c] <= 1 /\ chargePoints[c] \in Nat
  <2>1. OpenIsLast(c) /\ chargePoints[c] \in 0 .. MaxConnections
    BY <1>1 DEF RegistryInv, TypeOK, RegistryTypeOK
  <2> QED
    BY <1>1, <2>1, OneCallStep, ConstantsAssumption DEF OpenIsLast
<1>3. call'[r].pc # "entered"
  BY <1>1 DEF Handoff, Handle, Authorize, Event, NotSupported, UnknownChargePoint, At,
     Goto, StatusNotification, StartBusy, StartFree, StartTakeId, StartLoad, StartStore,
     StartCommit, StopFound, StopUnknown, SendConfirmation, SendError, TypeOK, CallTypeOK,
     Call
<1>4. CASE StartCommit(r)
  <2> DEFINE new == [id |-> call[r].id, connector |-> call[r].connector, phase |-> "open"]
  <2>1. call[r].info = 1 /\ chargePoints[c] = 1
    BY <1>1, <1>4 DEF FirstBy, StartCommit, At, Window
  <2>2. opened[c] \in 0 .. MaxConnections
    BY <1>1 DEF TypeOK, RegistryTypeOK
  <2>3. <<c, 1>> \in Connections
    BY <2>2, ConstantsAssumption DEF Connections
  <2>4. transactions' = [transactions EXCEPT
                           ![<<c, 1>>] = {x \in @ : x.id # call[r].id} \cup {new}]
    BY <1>4, <2>1 DEF StartCommit
  <2>5. new \in transactions'[<<c, 1>>]
    BY <1>1, <2>3, <2>4 DEF TypeOK, ObjectTypeOK
  <2>6. call'[r].id = call[r].id /\ call'[r].pc = "notify"
    BY <1>1, <1>4 DEF StartCommit, Goto, TypeOK, CallTypeOK, Call
  <2>7. new.id = call'[r].id /\ new.phase = "open"
    BY <2>6
  <2>8. HasOpen(c, call[r].id)'
    BY <2>5, <2>7 DEF HasOpen
  <2> QED
    BY <1>2, <1>3, <2>1, <2>6, <2>8 DEF FirstBy, Window, registryVars, At
<1>5. CASE Handoff(r)
  <2>1. /\ call[r].pc = "notify" /\ call'[r].pc = "confirm"
        /\ call'[r].id = call[r].id /\ call'[r].kind = call[r].kind
        /\ UNCHANGED transactions
    BY <1>1, <1>5, HandoffStep DEF Handoff, objectVars
  <2> QED
    BY <1>1, <1>2, <2>1 DEF FirstBy, HasOpen, Window, registryVars, At
<1>6. CASE StartFree(r)
  <2>1. call'[r].info = chargePoints[c] /\ chargePoints[c] # 0 /\ call'[r].pc = "take"
    BY <1>1, <1>6 DEF StartFree, TypeOK, CallTypeOK, Call
  <2> QED
    BY <1>2, <1>3, <2>1 DEF FirstBy, Window, registryVars, At
<1>7. CASE Handle(r) /\ ~StartCommit(r) /\ ~StartFree(r)
  <2>1. /\ call'[r].pc \in Window => call[r].pc \in Window /\ call'[r].info = call[r].info
        /\ call'[r].kind = "start" => call'[r].pc \notin {"notify", "confirm"}
    BY <1>1, <1>7 DEF Handle, Authorize, Event, NotSupported, UnknownChargePoint, At,
       Goto, StatusNotification, StartBusy, StartTakeId, StartLoad, StartStore,
       StopFound, StopUnknown, SendConfirmation, SendError, TypeOK, CallTypeOK, Call, Window
  <2> QED
    BY <1>1, <1>2, <1>3, <2>1 DEF FirstBy, registryVars, At
<1> QED
  BY <1>4, <1>5, <1>6, <1>7

LEMMA FirstReceived ==
  ASSUME FaultsTypeOK, FaultsInv, [Next]_vars, ~Pipelining, ~Resend,
         NEW c \in ChargePoints, opened[c] = 1, link[c] = 1, FirstOf(c),
         NEW d \in ChargePoints, NEW in \in Inputs(d), Receive(d, in),
         NEW r \in Requests, r[1] = c
  PROVE  FirstBy(c, r)'
<1>1. TypeOK
  BY DEF FaultsTypeOK
<1>2. PICK s \in Requests :
        /\ s = <<d, issued[d] + 1>> /\ call'[s].pc = "entered"
        /\ call'[s].kind = in.kind /\ call'[s].id = in.id
        /\ \A q \in Requests \ {s} : call'[q] = call[q]
  BY <1>1, ReceiveStep
<1>3. CASE r = s
  <2>1. c = d
    BY <1>2, <1>3
  <2>2. in.kind = "stop" => in.id \notin known'[c]
    BY <1>1, <2>1 DEF Receive, TypeOK, CounterTypeOK
  <2> QED
    BY <1>2, <1>3, <2>2 DEF FirstBy, Window, At
<1>4. CASE r # s
  BY <1>2, <1>4, FirstStays
<1> QED
  BY <1>3, <1>4

LEMMA FirstOfStep ==
  ASSUME FaultsTypeOK, FaultsInv, FirstInv, [Next]_vars, ~Pipelining, ~Resend,
         NEW c \in ChargePoints, opened'[c] = 1, link'[c] = 1
  PROVE  FirstOf(c)'
<1>1. TypeOK /\ RegistryInv
  BY DEF FaultsTypeOK, FaultsInv
<1>2. CASE opened[c] = 0 /\ UNCHANGED <<call, known>>
  <2>1. known[c] = {} /\ \A r \in Requests : r[1] = c => ~Live(r)
    BY <1>2, BeforeFirst
  <2> QED
    BY <1>2, <2>1 DEF FirstOf, FirstBy, Live, At, Answered, Window
<1>3. CASE opened[c] = 1 /\ link[c] = 1
  <2>1. FirstOf(c)
    BY <1>3, FirstParts
  <2>2. ASSUME NEW r \in Requests, r[1] = c PROVE FirstBy(c, r)'
    <3>1. CASE call'[r] = call[r]
      BY <1>3, <2>1, <2>2, <3>1, FirstStays
    <3>2. ASSUME NEW s \in Requests, Handle(s) \/ Handoff(s) PROVE FirstBy(c, r)'
      <4>1. r # s => call'[r] = call[r]
        BY <1>1, <3>2, OneCallStep
      <4> QED
        BY <1>3, <2>1, <2>2, <3>1, <3>2, <4>1, FirstServed
    <3>3. ASSUME NEW d \in ChargePoints, NEW in \in Inputs(d), Receive(d, in)
          PROVE  FirstBy(c, r)'
      BY <1>3, <2>1, <2>2, <3>3, FirstReceived
    <3>4. ASSUME UNCHANGED call PROVE FirstBy(c, r)'
      BY <3>1, <3>4
    <3> QED
      BY <1>1, <3>2, <3>3, <3>4, ConnectionStep DEF Next, Idle, Publish
  <2>3. \A id \in known'[c] : HasOpen(c, id)' /\ chargePoints'[c] = 1
    BY <1>3, <2>1, FirstKnown
  <2>4. ASSUME NEW id \in known'[c] PROVE HasOpen(c, id)' /\ chargePoints'[c] = 1
    BY <2>3
  <2> QED
    BY <2>2, <2>4 DEF FirstOf
<1> QED
  BY <1>1, <1>2, <1>3, FirstLink

LEMMA FirstStep ==
  ASSUME FaultsTypeOK, FaultsInv, FirstInv, [FaultsNext]_allVars PROVE FirstInv'
<1>1. ASSUME [Next]_vars PROVE FirstInv'
  <2>1. ~Pipelining /\ ~Resend =>
          \A c \in ChargePoints : opened'[c] = 1 /\ link'[c] = 1 => FirstOf(c)'
    BY <1>1, FirstOfStep
  <2> QED
    BY <2>1 DEF FirstInv, FirstOf, FirstBy
<1>2. ASSUME Restart PROVE FirstInv'
  <2>1. \A c \in ChargePoints : link'[c] = 0
    BY <1>2 DEF Restart
  <2> QED
    BY <2>1 DEF FirstInv
<1>3. ASSUME PublishFails PROVE FirstInv'
  <2>1. UNCHANGED <<registryVars, objectVars, call, known>>
    BY <1>3, FailureFacts
  <2> QED
    BY <2>1 DEF registryVars, objectVars, FirstInv, HasOpen, At
<1> QED
  BY <1>1, <1>2, <1>3 DEF FaultsNext, allVars

(***************************************************************************)
(* What the clients mean, and what they are answered.                      *)
(***************************************************************************)

\* Of the types of the bridge, what the steps below need.
BridgeShape ==
  /\ requests \in Seq(ClientCommands) /\ Len(requests) <= MaxCommands
  /\ \A n \in CB!Numbers : n \in DOMAIN task /\ {"pc", "answer"} \subseteq DOMAIN task[n]
  /\ DOMAIN meant = CB!Numbers

LEMMA ShapeOfTypes == RemoteTypeOK => BridgeShape
BY DEF RemoteTypeOK, BridgeShape, CB!TypeOK, CB!RequestTypeOK, CB!TaskTypeOK, CB!Task

\* What CentralSystem and its faults do is all that happens to its variables.
LEMMA CentralMapped == [RemoteNext]_remoteVars => [FaultsNext]_allVars
BY DEF RemoteNext, remoteVars, CentralStep, Ask, Relay, Act, CallBack, RestartBoth, Ended,
   FaultsNext

\* The steps of the bridge, and the one that forgets its tasks.
LEMMA TaskStep ==
  ASSUME BridgeShape, [RemoteNext]_remoteVars, NEW n \in CB!Numbers
  PROVE  /\ n \in DOMAIN task'
         /\ {"pc", "answer"} \subseteq DOMAIN task'[n]
         /\ \/ task'[n].answer \in {task[n].answer, "none"}
            \/ /\ ~crashed /\ UNCHANGED crashed
               /\ task[n].pc = "sent" /\ CallBack(n)
<1> USE DEF BridgeShape
<1>1. CASE UNCHANGED task
  BY <1>1
<1>2. CASE Relay
  BY <1>1, <1>2 DEF Relay, CB!RequestHandler, CB!RefuseFormat, CB!RefuseAction, CB!Dispatch,
     CB!Deliver, CB!TimeOut, CB!Goto
<1>3. ASSUME NEW k \in 1 .. Len(requests), Act(k)
      PROVE  /\ n \in DOMAIN task'
             /\ {"pc", "answer"} \subseteq DOMAIN task'[n]
             /\ task'[n].answer = task[n].answer
  BY <1>1, <1>3 DEF Act, CB!Action, CB!FatalPayload, CB!RefusePayload, CB!AcceptPayload,
     CB!IdLoad, CB!IdStore, CB!IdRead, CB!Send, CB!SendFails, CB!Goto, CB!Respond
<1>4. ASSUME NEW k \in 1 .. Len(requests), CallBack(k), ~crashed
      PROVE  /\ n \in DOMAIN task'
             /\ {"pc", "answer"} \subseteq DOMAIN task'[n]
             /\ \/ task'[n].answer = task[n].answer
                \/ UNCHANGED crashed /\ task[n].pc = "sent" /\ k = n
  <2>1. CASE CB!UndoLoad(k) \/ CB!UndoStore(k) \/ CB!Crash(k)
    BY <1>1, <2>1 DEF CB!UndoLoad, CB!UndoStore, CB!Crash
  <2>2. ASSUME NEW answer, CB!Answer(k, answer)
        PROVE  /\ n \in DOMAIN task'
               /\ {"pc", "answer"} \subseteq DOMAIN task'[n]
               /\ \/ task'[n].answer = task[n].answer
                  \/ UNCHANGED crashed /\ task[n].pc = "sent" /\ k = n
    BY <2>2 DEF CB!Answer, CB!At
  <2> QED
    BY <1>4, <2>1, <2>2 DEF CallBack, CB!Callback
<1>5. CASE RestartBoth
  BY <1>5 DEF RestartBoth, CB!NoTask
<1>6. ASSUME CentralStep \/ Ended \/ UNCHANGED remoteVars \/ \E in \in ClientCommands : Ask(in)
      PROVE  UNCHANGED task
  BY <1>6 DEF CentralStep, Ended, remoteVars, bridgeVars, Ask, CB!Publish
<1> QED
  BY <1>1, <1>2, <1>3, <1>4, <1>5, <1>6 DEF RemoteNext

\* The clients send commands, and nothing that was sent changes.
LEMMA RequestsStep ==
  ASSUME [RemoteNext]_remoteVars
  PROVE  \/ UNCHANGED <<requests, meant>>
         \/ \E in \in ClientCommands : Ask(in)
BY DEF RemoteNext, remoteVars, bridgeVars, CentralStep, Ended, RestartBoth, Relay,
   CB!RequestHandler, CB!RefuseFormat, CB!RefuseAction, CB!Dispatch, CB!Deliver, CB!TimeOut,
   Act, CB!Action, CB!FatalPayload, CB!RefusePayload, CB!AcceptPayload, CB!IdLoad, CB!IdStore,
   CB!IdRead, CB!Send, CB!SendFails, CallBack, CB!Callback, CB!Answer, CB!UndoLoad,
   CB!UndoStore, CB!Crash, CB!frame

LEMMA MeantStep ==
  ASSUME FaultsTypeOK, BridgeShape, MeantAreSeen, [RemoteNext]_remoteVars
  PROVE  MeantAreSeen'
<1>1. published \subseteq published'
  <2>1. ASSUME [Next]_vars PROVE published \subseteq published'
    BY <2>1, ConnectionStep, ReceiveStep, ServeStep, HandoffStep, ConfirmationStep
       DEF Next, Idle, Handle, Serve, Publish, FaultsTypeOK
  <2> QED
    BY <2>1, CentralMapped, RestartFacts, FailureFacts DEF FaultsNext, allVars
<1>2. CASE UNCHANGED <<requests, meant>>
  BY <1>1, <1>2 DEF MeantAreSeen, IsRemoteStop, StopId
<1>3. ASSUME NEW in \in ClientCommands, Ask(in) PROVE MeantAreSeen'
  <2>1. /\ requests' = Append(requests, in) /\ Len(requests) + 1 \in CB!Numbers
        /\ Len(requests') = Len(requests) + 1 /\ requests'[Len(requests) + 1] = in
        /\ \A n \in 1 .. Len(requests) : requests'[n] = requests[n]
    BY <1>3, RemoteAssumption DEF BridgeShape, Ask, CB!Publish, CB!Numbers
  <2>2. PICK m \in published :
          /\ m.topic = "start" /\ m.cp = in.cp
          /\ in.action = CB!REMOTE_STOP_TRANSACTION => m.id = in.payload["transactionId"].n
          /\ meant' = [meant EXCEPT ![Len(requests) + 1] = {m}]
    BY <1>3 DEF Ask
  <2>3. meant'[Len(requests) + 1] = {m}
    BY <2>1, <2>2 DEF BridgeShape
  <2>4. \A n \in 1 .. Len(requests) : meant'[n] = meant[n]
    BY <2>1, <2>2 DEF BridgeShape
  <2>5. ASSUME NEW n \in 1 .. Len(requests'), NEW q \in meant'[n]
        PROVE  /\ q \in published' /\ q.topic = "start" /\ q.cp = requests'[n].cp
               /\ IsRemoteStop(n)' => q.id = StopId(n)'
    <3>1. CASE n = Len(requests) + 1
      BY <1>1, <2>1, <2>2, <2>3, <2>5, <3>1 DEF IsRemoteStop, StopId
    <3>2. CASE n \in 1 .. Len(requests)
      BY <1>1, <2>1, <2>4, <2>5, <3>2 DEF MeantAreSeen, IsRemoteStop, StopId
    <3>3. Len(requests) \in Nat
      BY DEF BridgeShape
    <3> QED
      BY <2>1, <3>1, <3>2, <3>3
  <2>6. \A n \in 1 .. Len(requests') : n \in 1 .. Len(requests) \/ n = Len(requests) + 1
    BY <2>1 DEF BridgeShape
  <2>7. \A n \in 1 .. Len(requests') : meant'[n] # {}
    BY <2>3, <2>4, <2>6 DEF MeantAreSeen
  <2> QED
    BY <2>5, <2>7 DEF MeantAreSeen
<1> QED
  BY <1>2, <1>3, RequestsStep

\* What a charge point answers to a remote stop shows what it knows.
LEMMA AnswerGiven ==
  ASSUME BridgeShape, MeantAreSeen, [RemoteNext]_remoteVars, NEW n \in 1 .. Len(requests),
         NEW answer \in {"Accepted", "Rejected"}, Gets(n, answer), NEW m \in meant[n]
  PROVE  /\ m \in published /\ m.topic = "start" /\ link[m.cp] # 0
         /\ answer = "Accepted" <=> m.id \in known[m.cp]
<1>1. n \in CB!Numbers
  BY RemoteAssumption DEF BridgeShape, CB!Numbers
<1>2. ~crashed /\ UNCHANGED crashed /\ task[n].pc = "sent" /\ CallBack(n)
  BY <1>1, TaskStep DEF Gets
<1>3. Gives(n, answer)
  BY <1>2 DEF CallBack, Gets
<1> QED
  BY <1>3 DEF Gives, Gets, MeantAreSeen

(***************************************************************************)
(* The inductive invariant, and what it is for.                            *)
(***************************************************************************)

\* To the bridge every step is one of its own, but for the restart, which leaves it
\* with no request to be taken and with no task.
LEMMA BridgeMapped == [RemoteNext]_remoteVars => [CB!Next]_(CB!vars) \/ RestartBoth
BY DEF RemoteNext, remoteVars, bridgeVars, CentralStep, Ask, Relay, Act, CallBack, Ended,
   CB!Next, CB!vars

LEMMA RestartedBridge ==
  ASSUME CB!TypeOK, CB!TasksInv, RestartBoth PROVE CB!TypeOK' /\ CB!TasksInv'
<1>1. /\ UNCHANGED <<requests, messages, replies>> /\ crashed' = FALSE /\ serving' = 0
      /\ taken' = Len(requests)
      /\ \A n \in CB!Numbers : task'[n] = CB!NoTask
  BY DEF RestartBoth
<1>2. CB!RequestTypeOK' /\ CB!MessageTypeOK'
  BY <1>1, RemoteAssumption DEF CB!TypeOK, CB!RequestTypeOK, CB!MessageTypeOK, CB!Numbers
<1>3. CB!TaskTypeOK'
  <2>1. CB!NoTask \in CB!Task
    BY RemoteAssumption, CB!NoResponseType DEF CB!NoTask, CB!Task, CB!PCs
  <2> QED
    BY <2>1 DEF RestartBoth, CB!TaskTypeOK
<1>4. CB!TasksInv'
  BY <1>1 DEF CB!TypeOK, CB!RequestTypeOK, CB!TasksInv, CB!Dispatched, CB!Unreplied,
     CB!Abandoned, CB!SentWhenChecked, CB!ResponsesAreOwn, CB!NoTask, CB!Preparing,
     CB!Numbering, CB!Numbers
<1> QED
  BY <1>1, <1>2, <1>3, <1>4 DEF CB!TypeOK

LEMMA BridgeStep ==
  ASSUME CB!TypeOK, CB!TasksInv, [RemoteNext]_remoteVars PROVE CB!TypeOK' /\ CB!TasksInv'
BY RemoteAssumption, BridgeMapped, RestartedBridge, CB!TypeStep, CB!InvStep

\* A command goes out by a connection that its charge point has, which is one of
\* those whose start.transaction a client has seen.
LEMMA ViaStep ==
  ASSUME RemoteTypeOK, MeantAreSeen, [RemoteNext]_remoteVars
  PROVE  via' \in [CB!Numbers -> 0 .. MaxConnections]
<1>1. ASSUME NEW n \in 1 .. Len(requests), via' = [via EXCEPT ![n] = link[requests[n].cp]]
      PROVE  via' \in [CB!Numbers -> 0 .. MaxConnections]
  <2>1. requests[n].cp \in ChargePoints
    <3>1. PICK m \in meant[n] : m \in published /\ m.cp = requests[n].cp
      BY DEF MeantAreSeen
    <3> QED
      BY <3>1 DEF RemoteTypeOK, FaultsTypeOK, TypeOK, NotifierTypeOK, Message
  <2>2. link[requests[n].cp] \in 0 .. MaxConnections
    BY <2>1 DEF RemoteTypeOK, FaultsTypeOK, TypeOK, RegistryTypeOK
  <2> QED
    BY <1>1, <2>2 DEF RemoteTypeOK
<1>2. ASSUME NEW n \in 1 .. Len(requests), Act(n)
      PROVE  UNCHANGED via \/ via' = [via EXCEPT ![n] = link[requests[n].cp]]
  BY <1>2 DEF Act
<1> QED
  BY <1>1, <1>2 DEF RemoteNext, remoteVars, CentralStep, Ask, Relay, CallBack, RestartBoth,
     Ended, RemoteTypeOK

LEMMA RemoteTypeStep ==
  ASSUME RemoteTypeOK, CB!TasksInv, MeantAreSeen, [RemoteNext]_remoteVars
  PROVE  RemoteTypeOK'
<1>1. FaultsTypeOK' /\ CB!TypeOK'
  BY CentralMapped, FaultsTypeStep, BridgeStep DEF RemoteTypeOK
<1>2. meant' \in [CB!Numbers -> SUBSET Message]
  <2>1. ASSUME NEW in \in ClientCommands, Ask(in)
        PROVE  meant' \in [CB!Numbers -> SUBSET Message]
    <3>1. PICK m \in Message : meant' = [meant EXCEPT ![Len(requests) + 1] = {m}]
      BY <2>1 DEF Ask, RemoteTypeOK, FaultsTypeOK, TypeOK, NotifierTypeOK
    <3> QED
      BY <3>1 DEF RemoteTypeOK
  <2> QED
    BY <2>1, RequestsStep DEF RemoteTypeOK
<1> QED
  BY <1>1, <1>2, ViaStep DEF RemoteTypeOK

LEMMA RemoteInitially == RemoteInit => RemoteTypeOK /\ RemoteInv
<1> SUFFICES ASSUME RemoteInit PROVE RemoteTypeOK /\ RemoteInv
  OBVIOUS
<1>1. FaultsTypeOK /\ FaultsInv
  BY FaultsTypeInitially, FaultsInitially DEF RemoteInit
<1>2. CB!TypeOK /\ CB!TasksInv
  BY RemoteAssumption, CB!InitInv DEF RemoteInit, CB!BridgeTypeInv, CB!BridgeInv
<1>3. \A r \in Requests : call[r] = NoCall
  BY DEF RemoteInit, FaultsInit, Init
<1>4. Received = {} /\ \A c \in ChargePoints : known[c] = {} /\ opened[c] = 0
  BY DEF RemoteInit, FaultsInit, Init, Received, Handed
<1>5. StartsAreReceived /\ StartsAreTold /\ FirstInv
  BY <1>3, <1>4 DEF StartsAreReceived, OfThisRun, Confirming, StartsAreTold, FirstInv, NoCall
<1>6. MeantAreSeen
  BY DEF RemoteInit, CB!Init, MeantAreSeen
<1>7. RemoteTypeOK
  BY <1>1, <1>2, ConstantsAssumption DEF RemoteInit, RemoteTypeOK
<1> QED
  BY <1>1, <1>2, <1>5, <1>6, <1>7 DEF RemoteInv

LEMMA RemoteInvStep ==
  RemoteTypeOK /\ RemoteInv /\ [RemoteNext]_remoteVars => RemoteTypeOK' /\ RemoteInv'
<1> SUFFICES ASSUME RemoteTypeOK, RemoteInv, [RemoteNext]_remoteVars
             PROVE  RemoteTypeOK' /\ RemoteInv'
  OBVIOUS
<1>1. FaultsTypeOK /\ CB!TypeOK /\ BridgeShape /\ [FaultsNext]_allVars
  BY ShapeOfTypes, CentralMapped DEF RemoteTypeOK
<1> QED
  BY <1>1, RemoteTypeStep, BridgeStep, FaultsInvStep, ReceivedStarts, ToldStarts, FirstStep,
     MeantStep DEF RemoteInv

LEMMA RemoteAlways == RemoteSpec => [](RemoteTypeOK /\ RemoteInv)
BY RemoteInitially, RemoteInvStep, PTL DEF RemoteSpec

LEMMA RemoteShaped == RemoteSpec => [](FaultsTypeOK /\ BridgeShape /\ RemoteInv)
<1>1. RemoteTypeOK => FaultsTypeOK /\ BridgeShape
  BY ShapeOfTypes DEF RemoteTypeOK
<1> QED
  BY <1>1, RemoteAlways, PTL

\* Every variable of both halves keeps its type, across restarts that forget what
\* the bridge was working on.
THEOREM RemoteTypeCorrect == RemoteSpec => []RemoteTypeOK
BY RemoteAlways, PTL

\* What a client means, what the notifier received, what was confirmed and what
\* the charge point knows are about the same transactions, whatever both halves
\* of the program, the faults and the restarts do.
THEOREM RemoteHeld == RemoteSpec => []RemoteInv
BY RemoteAlways, PTL

\* Whatever restarts forget, only goroutines that timed out are left blocked on
\* their response channel, and no command is sent with a number that its checks
\* exclude: a later run takes up nothing that an earlier one had under way.
THEOREM BridgePromises ==
  RemoteSpec => [](CB!BlockedOnlyAfterTimeout /\ CB!NumbersInRange)
<1>1. RemoteTypeOK /\ RemoteInv => CB!BlockedOnlyAfterTimeout
  BY DEF RemoteInv, CB!TasksInv, CB!Abandoned, CB!BlockedOnlyAfterTimeout, CB!At
<1>2. RemoteInit => CB!NumbersInRange
  BY DEF RemoteInit, CB!Init, CB!NumbersInRange
<1>3. RemoteTypeOK /\ RemoteInv /\ CB!NumbersInRange /\ [RemoteNext]_remoteVars
        => CB!NumbersInRange'
  <2>1. CASE RestartBoth
    BY <2>1 DEF RestartBoth, CB!NumbersInRange, CB!InRange
  <2> QED
    BY <2>1, RemoteAssumption, BridgeMapped, CB!RangeStep DEF RemoteTypeOK, RemoteInv
<1> QED
  BY <1>1, <1>2, <1>3, RemoteAlways, PTL DEF RemoteSpec

\* To what CentralSystem is promised with faults, the other half of the program
\* adds nothing: commands, their answers and the end of the process after a fatal
\* command leave it alone, and the restart of both halves is its restart.
THEOREM RemoteFaults == RemoteSpec => FaultsSpec
<1>1. RemoteInit => FaultsInit
  BY DEF RemoteInit
<1> QED
  BY <1>1, CentralMapped, PTL DEF RemoteSpec, FaultsSpec

\* What subscribers are promised, they get from the whole program.
THEOREM WholeIsAnnounced == RemoteSpec => Announced
BY RemoteFaults, SubscribersAreTold

\* What a client saw started in this run is a start that is being confirmed.
LEMMA SeenStart ==
  ASSUME FaultsTypeOK, StartsAreReceived, NEW m \in published, m.topic = "start",
         RunOf(m) = restarts
  PROVE  /\ m \in Received /\ <<m.cp, m.n>> \in Requests /\ m.cp \in ChargePoints
         /\ Confirming(<<m.cp, m.n>>) /\ Notification(<<m.cp, m.n>>) = m
         /\ call[<<m.cp, m.n>>].id = m.id /\ call[<<m.cp, m.n>>].link = m.link
<1>1. m \in Received /\ m \in OfThisRun
  BY DEF Received, Handed, OfThisRun
<1>2. <<m.cp, m.n>> \in Requests /\ m.cp \in ChargePoints
  BY DEF FaultsTypeOK, TypeOK, NotifierTypeOK, Message, Requests
<1>3. Confirming(<<m.cp, m.n>>) /\ Notification(<<m.cp, m.n>>) = m
  BY <1>1 DEF StartsAreReceived
<1>4. /\ Notification(<<m.cp, m.n>>).id = call[<<m.cp, m.n>>].id
      /\ Notification(<<m.cp, m.n>>).link = call[<<m.cp, m.n>>].link
  BY DEF Notification
<1> QED
  BY <1>1, <1>2, <1>3, <1>4

\* A charge point rejects a remote stop of a transaction of this run only because
\* the client was earlier than the answer, the answer missed the connection, or
\* the charge point is stopping the transaction already.
THEOREM RejectionsExplained == RemoteSpec => RejectedWithReason
<1>1. ASSUME FaultsTypeOK, BridgeShape, RemoteInv, [RemoteNext]_remoteVars,
             NEW n \in 1 .. Len(requests), Gets(n, "Rejected"),
             NEW m \in meant[n], RunOf(m) = restarts
      PROVE  \/ \E r \in Starts(m.cp, m.id) : \/ At(r, "confirm")
                                              \/ call[r].link # link[m.cp]
             \/ Stops(m.cp, m.id) # {}
  <2> DEFINE r == <<m.cp, m.n>>
  <2>1. m \in published /\ m.topic = "start" /\ m.id \notin known[m.cp]
    BY <1>1, AnswerGiven DEF RemoteInv
  <2>2. r \in Requests /\ Confirming(r) /\ call[r].id = m.id /\ r[1] = m.cp
    BY <1>1, <2>1, SeenStart DEF RemoteInv
  <2>3. r \in Starts(m.cp, m.id)
    BY <2>2 DEF Starts, Confirming
  <2>4. At(r, "confirm") \/ At(r, "confirmed")
    BY <2>2 DEF Confirming, At
  <2>5. At(r, "confirmed") /\ call[r].link = link[m.cp] => Stops(m.cp, m.id) # {}
    BY <1>1, <2>1, <2>2 DEF RemoteInv, StartsAreTold
  <2> QED
    BY <2>3, <2>4, <2>5
<1>2. FaultsTypeOK /\ BridgeShape /\ RemoteInv /\ [RemoteNext]_remoteVars
        => [\A n \in 1 .. Len(requests) : Gets(n, "Rejected") =>
              \A m \in meant[n] : RunOf(m) = restarts =>
                \/ \E r \in Starts(m.cp, m.id) : \/ At(r, "confirm")
                                                 \/ call[r].link # link[m.cp]
                \/ Stops(m.cp, m.id) # {}]_remoteVars
  BY <1>1
<1> QED
  BY <1>2, RemoteShaped, PTL DEF RemoteSpec, RejectedWithReason

\* A remote stop that the charge point accepts is of the transaction the client
\* saw started, confirmed by then, and of no other one, unless StartTransaction
\* handlers overlapped, or the start or the id is of an earlier run.
THEOREM RightTransactionHit == RemoteSpec => RightTransaction
<1>1. ASSUME FaultsTypeOK, BridgeShape, RemoteInv, [RemoteNext]_remoteVars,
             NEW n \in 1 .. Len(requests), Gets(n, "Accepted"), NEW m \in meant[n],
             raced = "no", RunOf(m) = restarts, m.id \notin stale[m.cp]
      PROVE  Confirmed(m.cp, m.id) = {<<m.cp, m.n>>}
  <2>1. m \in published /\ m.topic = "start" /\ m.id \in known[m.cp]
    BY <1>1, AnswerGiven DEF RemoteInv
  <2>2. m \in Received /\ m.cp \in ChargePoints
    BY <1>1, <2>1, SeenStart DEF RemoteInv
  <2>3. Confirmed(m.cp, m.id) # {}
    BY <1>1, <2>1, <2>2 DEF RemoteInv, StartsAreTold
  <2>4. ASSUME NEW q \in Confirmed(m.cp, m.id) PROVE q = <<m.cp, m.n>>
    <3>1. /\ q \in Requests /\ Confirming(q) /\ q[1] = m.cp /\ call[q].id = m.id
          /\ call[q].kind = "start" /\ era[<<q[1], call[q].link>>] = restarts
      BY <2>4 DEF Confirmed, Starts, Confirming, At
    <3>2. /\ Notification(q) \in Received /\ Notification(q).topic = "start"
          /\ Notification(q).id = m.id /\ RunOf(Notification(q)) = restarts
          /\ Notification(q).n = q[2]
      BY <1>1, <3>1 DEF RemoteInv, StartsAreReceived, Notification, RunOf
    <3>3. Notification(q) = m
      BY <1>1, <2>1, <2>2, <3>2 DEF RemoteInv, FaultsInv, StartsInv, StartsMade, Made, Received
    <3>4. q[2] = m.n
      BY <3>2, <3>3
    <3> QED
      BY <3>1, <3>4 DEF Requests
  <2> QED
    BY <2>3, <2>4
<1>2. FaultsTypeOK /\ BridgeShape /\ RemoteInv /\ [RemoteNext]_remoteVars
        => [\A n \in 1 .. Len(requests) : Gets(n, "Accepted") =>
              \A m \in meant[n] :
                raced = "no" /\ RunOf(m) = restarts /\ m.id \notin stale[m.cp] =>
                  Confirmed(m.cp, m.id) = {<<m.cp, m.n>>}]_remoteVars
  BY <1>1
<1> QED
  BY <1>2, RemoteShaped, PTL DEF RemoteSpec, RightTransaction

\* The transaction of an accepted remote stop is open in the charge point's
\* object, if the charge point never reconnected, waits for its answers and
\* repeats no stop.
THEOREM AcceptedAreOpen == RemoteSpec => AcceptedIsOpen
<1>1. ASSUME FaultsTypeOK, BridgeShape, RemoteInv, [RemoteNext]_remoteVars,
             NEW n \in 1 .. Len(requests), Gets(n, "Accepted"), NEW m \in meant[n],
             opened[m.cp] = 1, ~Pipelining, ~Resend
      PROVE  \E t \in transactions[<<m.cp, chargePoints[m.cp]>>] :
               t.id = m.id /\ t.phase = "open"
  <2>1. m \in published /\ link[m.cp] # 0 /\ m.id \in known[m.cp]
    BY <1>1, AnswerGiven DEF RemoteInv
  <2>2. m.cp \in ChargePoints
    BY <1>1, <2>1 DEF FaultsTypeOK, TypeOK, NotifierTypeOK, Message
  <2>3. link[m.cp] = 1
    BY <1>1, <2>1, <2>2 DEF RemoteInv, FaultsInv, RegistryInv, OpenIsLast
  <2>4. HasOpen(m.cp, m.id) /\ chargePoints[m.cp] = 1
    BY <1>1, <2>1, <2>2, <2>3 DEF RemoteInv, FirstInv
  <2> QED
    BY <2>4 DEF HasOpen
<1>2. FaultsTypeOK /\ BridgeShape /\ RemoteInv /\ [RemoteNext]_remoteVars
        => [\A n \in 1 .. Len(requests) : Gets(n, "Accepted") =>
              \A m \in meant[n] : opened[m.cp] = 1 /\ ~Pipelining /\ ~Resend =>
                \E t \in transactions[<<m.cp, chargePoints[m.cp]>>] :
                  t.id = m.id /\ t.phase = "open"]_remoteVars
  BY <1>1
<1> QED
  BY <1>2, RemoteShaped, PTL DEF RemoteSpec, AcceptedIsOpen

=============================================================================
