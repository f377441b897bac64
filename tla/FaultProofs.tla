------------------------------ MODULE FaultProofs ------------------------------
(* Theorems about Faults: what the invariants of one run of the process become  *)
(* when it may stop and be started again, and when notifications may be lost.   *)
EXTENDS Faults, NotificationProofs, TransactionProofs

(***************************************************************************)
(* The steps that are faults.                                              *)
(***************************************************************************)

\* After a restart nothing is under way.
LEMMA RestartFacts ==
  ASSUME FaultsTypeOK, Restart
  PROVE  /\ \A r \in Requests : ~Live(r)' /\ (call'[r] = call[r] \/ call'[r] = NoCall)
         /\ \A r \in Requests : call'[r].pc \in Answered \cup {"unsent"}
         /\ UNCHANGED <<known, opened, issued, published, raced, Received>>
         /\ pump' = {} /\ Handed' = published /\ lost' = lost \cup pump
         /\ restarts' = restarts + 1
<1>1. \A r \in Requests : call'[r] = IF Live(r) THEN NoCall ELSE call[r]
  BY DEF Restart
<1> QED
  BY <1>1 DEF Restart, Live, NoCall, Handed, Received, Answered

LEMMA FailureFacts ==
  ASSUME PublishFails
  PROVE  /\ UNCHANGED <<registryVars, objectVars, nextTransactionId, call, known, issued,
                        published, raced, restarts, stale, era, Received>>
         /\ pump' = {} /\ Handed' = published /\ lost' = lost \cup pump
BY DEF PublishFails, Handed, Received

LEMMA FaultsTypeInitially == FaultsInit => FaultsTypeOK
BY TypeInitially, FaultsAssumption DEF FaultsInit, FaultsTypeOK

LEMMA RestartType == ASSUME FaultsTypeOK, Restart PROVE FaultsTypeOK'
<1> USE DEF FaultsTypeOK, TypeOK
<1>1. RegistryTypeOK'
  BY ConstantsAssumption DEF Restart, RegistryTypeOK
<1>2. ObjectTypeOK'
  BY DEF Restart, ObjectTypeOK
<1>3. NotifierTypeOK'
  BY DEF Restart, NotifierTypeOK
<1>4. CounterTypeOK'
  BY DEF Restart, CounterTypeOK
<1>5. CallTypeOK'
  BY NoCallType DEF Restart, CallTypeOK, NoCall, Window
<1>6. restarts' \in 0 .. MaxRestarts /\ failures' \in 0 .. MaxFailures
  BY FaultsAssumption DEF Restart
<1>7. lost' \in SUBSET Message
  BY DEF Restart, NotifierTypeOK
<1>8. stale' \in [ChargePoints -> SUBSET Nat]
  BY DEF Restart, CounterTypeOK
<1>9. era' \in [Connections -> 0 .. MaxRestarts]
  BY FaultsAssumption DEF Restart
<1> QED
  BY <1>1, <1>2, <1>3, <1>4, <1>5, <1>6, <1>7, <1>8, <1>9

LEMMA FailureType == ASSUME FaultsTypeOK, PublishFails PROVE FaultsTypeOK'
<1> USE DEF FaultsTypeOK, TypeOK
<1>1. /\ UNCHANGED <<registryVars, objectVars, nextTransactionId, call, issued, known,
                     published, raced, restarts, stale, era>>
      /\ pump' = {} /\ lost' \in SUBSET Message /\ failures' \in 0 .. MaxFailures
  BY FaultsAssumption DEF PublishFails, NotifierTypeOK
<1> QED
  BY <1>1 DEF registryVars, objectVars, RegistryTypeOK, ObjectTypeOK, NotifierTypeOK,
     CounterTypeOK, CallTypeOK

LEMMA FaultsTypeStep == FaultsTypeOK /\ [FaultsNext]_allVars => FaultsTypeOK'
<1> SUFFICES ASSUME FaultsTypeOK, [FaultsNext]_allVars PROVE FaultsTypeOK'
  OBVIOUS
<1>1. ASSUME [Next]_vars, UNCHANGED faultVars PROVE FaultsTypeOK'
  BY <1>1, TypeStep DEF FaultsTypeOK, faultVars
<1> QED
  BY <1>1, RestartType, FailureType DEF FaultsNext, allVars

\* The types are kept by faults as well.
THEOREM FaultsTypeCorrect == FaultsSpec => []FaultsTypeOK
BY FaultsTypeInitially, FaultsTypeStep, PTL DEF FaultsSpec

(***************************************************************************)
(* What holds of one run of the process.                                   *)
(***************************************************************************)

RunInv == RegistryInv /\ LedgerInv /\ IssuedAreSent

LEMMA RunInitially == FaultsInit => RunInv
BY RegistryInitially, LedgerInitially, OrderInitially DEF FaultsInit, RunInv, OrderInv

LEMMA RunInvStep ==
  ASSUME FaultsTypeOK, RunInv, [FaultsNext]_allVars PROVE RunInv'
<1> USE DEF RunInv
<1>1. ASSUME [Next]_vars PROVE RunInv'
  BY <1>1, RegistryInvStep, LedgerInvStep, IssuedStep DEF FaultsTypeOK
<1>2. ASSUME Restart PROVE RunInv'
  <2>1. RegistryInv'
    <3>1. \A c \in ChargePoints : opened'[c] \in 0 .. MaxConnections
      BY <1>2, RestartType DEF FaultsTypeOK, TypeOK, RegistryTypeOK
    <3>2. /\ \A c \in ChargePoints : chargePoints'[c] = 0 /\ link'[c] = 0
          /\ joining' = {} /\ leaving' = {}
      BY <1>2 DEF Restart
    <3> QED
      BY <3>1, <3>2 DEF RegistryInv, OpenIsLast, JoinsInOrder, EntryIsLatest, Pending
  <2>2. LedgerInv'
    <3>1. \A r \in Requests : call'[r].pc \in Answered \cup {"unsent"}
      BY <1>2, RestartFacts
    <3>2. \A o \in Connections : transactions'[o] = {}
      BY <1>2 DEF Restart
    <3> QED
      BY <3>1, <3>2 DEF LedgerInv, UniqueIds, OneStarter, WindowIds, StoredAreOld,
         StoredBelow, Window, Answered, At
  <2>3. IssuedAreSent'
    <3>1. /\ \A r \in Requests : call'[r] = call[r] \/ call'[r].pc = "unsent"
          /\ issued' = issued /\ Handed' \subseteq Handed
      BY <1>2, RestartFacts DEF NoCall, Handed
    <3> QED
      BY <3>1 DEF IssuedAreSent
  <2> QED
    BY <2>1, <2>2, <2>3
<1>3. ASSUME PublishFails PROVE RunInv'
  <2>1. /\ UNCHANGED <<registryVars, transactions, nextTransactionId, call, issued, raced>>
        /\ Handed' \subseteq Handed
    BY <1>3, FailureFacts DEF objectVars, Handed
  <2>2. RegistryInv'
    BY <2>1 DEF registryVars, RegistryInv, OpenIsLast, JoinsInOrder, EntryIsLatest, Pending
  <2>3. LedgerInv'
    BY <2>1 DEF LedgerInv, UniqueIds, OneStarter, WindowIds, StoredAreOld, StoredBelow, At
  <2>4. IssuedAreSent'
    BY <2>1 DEF IssuedAreSent
  <2> QED
    BY <2>2, <2>3, <2>4
<1> QED
  BY <1>1, <1>2, <1>3 DEF FaultsNext, allVars

(***************************************************************************)
(* The starts that the notifier received before their stops.               *)
(***************************************************************************)

LEMMA AccountStep ==
  ASSUME FaultsTypeOK, AccountInv, [FaultsNext]_allVars PROVE AccountInv'
<1>1. ASSUME [Next]_vars, UNCHANGED faultVars PROVE AccountInv'
  <2>1. PICK gone : gone = lost /\ gone = lost'
    BY <1>1 DEF faultVars
  <2>2. StoppableIn(StartsIn(Handed \cup gone)) /\ StopsFollow(published \cup gone)
    BY <2>1 DEF AccountInv, Received
  <2>3. /\ StoppableIn(StartsIn(Handed \cup gone))'
        /\ StopsFollow(published \cup gone)'
    BY <1>1, <2>2, StopsStep DEF FaultsTypeOK
  <2> QED
    BY <2>1, <2>3 DEF AccountInv, Received, StoppableIn, StopsFollow, StartsIn, Handed
<1>2. ASSUME Restart PROVE AccountInv'
  <2>1. /\ \A r \in Requests : ~Live(r)'
        /\ UNCHANGED <<known, published, Received>>
        /\ Handed' = published /\ lost \subseteq lost'
    BY <1>2, RestartFacts
  <2>2. \A r \in Requests : ~At(r, "confirm")'
    BY <2>1 DEF At, Live, Answered
  <2>3. StartsIn(published \cup lost) \subseteq StartsIn(published \cup lost)'
    BY <2>1 DEF StartsIn
  <2>4. StoppableIn(StartsIn(Received))'
    BY <2>1, <2>2 DEF AccountInv, StoppableIn, StartsIn
  <2>5. StopsFollow(published \cup lost)'
    BY <2>1, <2>3 DEF AccountInv, StopsFollow, Handed
  <2> QED
    BY <2>4, <2>5 DEF AccountInv
<1>3. ASSUME PublishFails PROVE AccountInv'
  <2>1. /\ UNCHANGED <<call, known, published, Received>>
        /\ Handed' = published /\ lost \subseteq lost'
    BY <1>3, FailureFacts
  <2>2. StartsIn(published \cup lost) \subseteq StartsIn(published \cup lost)'
    BY <2>1 DEF StartsIn
  <2>3. StoppableIn(StartsIn(Received))'
    BY <2>1 DEF AccountInv, StoppableIn, StartsIn, Live, At
  <2>4. StopsFollow(published \cup lost)'
    BY <2>1, <2>2 DEF AccountInv, StopsFollow, Handed
  <2> QED
    BY <2>3, <2>4 DEF AccountInv
<1> QED
  BY <1>1, <1>2, <1>3 DEF FaultsNext, allVars

LEMMA AccountInitially == FaultsInit => AccountInv
BY DEF FaultsInit, Init, AccountInv, StoppableIn, StopsFollow, Handed, Live, At, NoCall

(***************************************************************************)
(* The runs that connections belong to.                                    *)
(***************************************************************************)

\* What a live request is, it was, or it has just come on the open connection.
LEMMA LiveStep ==
  ASSUME TypeOK, [Next]_vars, NEW r \in Requests, Live(r)'
  PROVE  \/ Live(r) /\ call'[r].link = call[r].link
         \/ call'[r].link = link[r[1]] /\ link[r[1]] # 0
<1>1. ASSUME NEW s \in Requests, Serve(s) \/ SendConfirmation(s)
      PROVE  Live(r) /\ call'[r].link = call[r].link
  BY <1>1, ServeStep, ConfirmationStep DEF Served
<1>2. ASSUME NEW s \in Requests, Handoff(s) PROVE Live(r) /\ call'[r].link = call[r].link
  BY <1>2, HandoffStep DEF Live, Answered
<1>3. ASSUME NEW c \in ChargePoints, NEW in \in Inputs(c), Receive(c, in)
      PROVE  \/ Live(r) /\ call'[r].link = call[r].link
             \/ call'[r].link = link[r[1]] /\ link[r[1]] # 0
  <2>1. PICK s \in Requests :
          /\ s[1] = c /\ call'[s].link = link[c]
          /\ \A q \in Requests \ {s} : call'[q] = call[q]
    BY <1>3, ReceiveStep, <<c, issued[c] + 1>>[1] = c
  <2>2. link[c] # 0
    BY <1>3 DEF Receive
  <2> QED
    BY <2>1, <2>2 DEF Live
<1>4. ASSUME UNCHANGED call PROVE Live(r) /\ call'[r].link = call[r].link
  BY <1>4 DEF Live
<1> QED
  BY <1>1, <1>2, <1>3, <1>4, ConnectionStep DEF Next, Handle, Serve, Idle, Publish

\* What the notifier receives, a request that is under way hands to it.
LEMMA ReceivedStep ==
  ASSUME TypeOK, [Next]_vars, UNCHANGED lost, NEW m \in Received', m \notin Received
  PROVE  \E r \in Requests : Handoff(r) /\ m = Notification(r)
<1>1. ASSUME NEW r \in Requests, Handoff(r) PROVE m = Notification(r)
  BY <1>1, HandoffStep DEF Received, Handed
<1>2. ASSUME NEW r \in Requests, Serve(r) \/ SendConfirmation(r) PROVE FALSE
  BY <1>2, ServeStep, ConfirmationStep DEF Received, Handed
<1>3. ASSUME NEW c \in ChargePoints, NEW in \in Inputs(c), Receive(c, in) PROVE FALSE
  BY <1>3, ReceiveStep DEF Received, Handed
<1>4. ASSUME Publish PROVE FALSE
  BY <1>4 DEF Publish, Received, Handed
<1>5. ASSUME UNCHANGED <<pump, published>> PROVE FALSE
  BY <1>5 DEF Received, Handed
<1> QED
  BY <1>1, <1>2, <1>3, <1>4, <1>5, ConnectionStep DEF Next, Handle, Serve, Idle

\* An open connection is the last that was opened, or one that this step opens.
LEMMA LinkStep ==
  ASSUME TypeOK, RegistryInv, [Next]_vars, NEW c \in ChargePoints, link'[c] # 0
  PROVE  \/ link'[c] = link[c] /\ link[c] \in 1 .. opened[c]
         \/ link'[c] > opened[c] /\ link'[c] \in 1 .. MaxConnections
<1>1. /\ opened[c] \in 0 .. MaxConnections /\ link[c] \in 0 .. MaxConnections
      /\ link[c] \in {0, opened[c]}
  BY DEF TypeOK, RegistryTypeOK, RegistryInv, OpenIsLast
<1>2. CASE link'[c] = link[c]
  BY <1>1, <1>2, ConstantsAssumption
<1>3. ASSUME NEW d \in ChargePoints, Open(d), link'[c] # link[c]
      PROVE  link'[c] > opened[c] /\ link'[c] \in 1 .. MaxConnections
  BY <1>1, <1>3, ConstantsAssumption DEF Open, TypeOK, RegistryTypeOK
<1>4. ASSUME NEW d \in ChargePoints, Close(d) PROVE link'[c] = link[c]
  BY <1>4 DEF Close, TypeOK, RegistryTypeOK
<1>5. ASSUME NEW r \in Requests, Handle(r) \/ Handoff(r) PROVE link' = link
  BY <1>5, OneCallStep DEF registryVars
<1>6. ASSUME \/ \E d \in ChargePoints : \E in \in Inputs(d) : Receive(d, in)
             \/ \E o \in Connections : Callback(o)
             \/ Publish \/ UNCHANGED vars
      PROVE  link' = link
  BY <1>6 DEF Receive, Callback, NewChargePoint, ChargePointDisconnected, Publish, vars,
     registryVars
<1> QED
  BY <1>2, <1>3, <1>4, <1>5, <1>6 DEF Next, Idle

LEMMA EraStep ==
  ASSUME FaultsTypeOK, RunInv, EraInv, [FaultsNext]_allVars PROVE EraInv'
<1>1. ASSUME [Next]_vars, UNCHANGED faultVars PROVE EraInv'
  <2>1. UNCHANGED <<era, restarts, lost>> /\ TypeOK /\ RegistryInv
    BY <1>1 DEF faultVars, FaultsTypeOK, RunInv
  <2>2. \A c \in ChargePoints :
          /\ opened[c] \in Nat /\ opened'[c] \in Nat /\ opened[c] <= opened'[c]
    BY <1>1, <2>1, OpenedGrows
  <2>3. \A o \in Connections : /\ era'[o] <= restarts'
                               /\ o[2] > opened'[o[1]] => era'[o] = restarts'
    <3>1. \A o \in Connections : o[1] \in ChargePoints /\ o[2] \in Nat
      BY DEF Connections
    <3> QED
      BY <2>1, <2>2, <3>1 DEF EraInv
  <2>4. \A c \in ChargePoints : link'[c] # 0 => era'[<<c, link'[c]>>] = restarts'
    <3> SUFFICES ASSUME NEW c \in ChargePoints, link'[c] # 0
                 PROVE  era[<<c, link'[c]>>] = restarts
      BY <2>1
    <3>1. CASE link'[c] = link[c]
      BY <3>1 DEF EraInv
    <3>2. CASE link'[c] > opened[c] /\ link'[c] \in 1 .. MaxConnections
      <4>1. /\ <<c, link'[c]>> \in Connections
            /\ <<c, link'[c]>>[1] = c /\ <<c, link'[c]>>[2] = link'[c]
        BY <3>2 DEF Connections
      <4> QED
        BY <3>2, <4>1 DEF EraInv
    <3> QED
      BY <1>1, <2>1, <3>1, <3>2, LinkStep
  <2>5. ASSUME NEW r \in Requests, Live(r)'
        PROVE  call'[r].link \in 1 .. opened'[r[1]] /\ era'[<<r[1], call'[r].link>>] = restarts'
    <3>1. r[1] \in ChargePoints
      BY DEF Requests
    <3>2. call'[r].link \in 1 .. opened[r[1]] /\ era[<<r[1], call'[r].link>>] = restarts
      <4>1. CASE Live(r) /\ call'[r].link = call[r].link
        BY <4>1 DEF EraInv
      <4>2. CASE call'[r].link = link[r[1]] /\ link[r[1]] # 0
        <5>1. link[r[1]] = opened[r[1]]
          BY <2>1, <3>1, <4>2 DEF RegistryInv, OpenIsLast
        <5> QED
          BY <2>2, <3>1, <4>2, <5>1 DEF EraInv
      <4> QED
        BY <1>1, <2>1, <2>5, <4>1, <4>2, LiveStep
    <3> QED
      BY <2>1, <2>2, <3>1, <3>2
  <2>6. ASSUME NEW m \in Received' PROVE m.link \in 1 .. opened'[m.cp]
    <3>1. CASE m \in Received
      <4>1. m.cp \in ChargePoints
        BY <3>1 DEF Received, Handed, FaultsTypeOK, TypeOK, NotifierTypeOK, Message
      <4> QED
        BY <2>2, <3>1, <4>1 DEF EraInv
    <3>2. CASE m \notin Received
      <4>1. PICK r \in Requests : Handoff(r) /\ m = Notification(r)
        BY <1>1, <2>1, <2>6, <3>2, ReceivedStep
      <4>2. Live(r) /\ m.cp = r[1] /\ m.link = call[r].link /\ r[1] \in ChargePoints
        BY <4>1 DEF Handoff, At, Live, Answered, Notification, Requests
      <4>3. call[r].link \in 1 .. opened[r[1]]
        BY <4>2 DEF EraInv
      <4> QED
        BY <2>2, <4>2, <4>3
    <3> QED
      BY <3>1, <3>2
  <2> QED
    BY <2>3, <2>4, <2>5, <2>6 DEF EraInv
<1>2. ASSUME Restart PROVE EraInv'
  <2>1. /\ \A r \in Requests : ~Live(r)'
        /\ UNCHANGED <<opened, Received>> /\ restarts' = restarts + 1
    BY <1>2, RestartFacts
  <2>2. /\ \A c \in ChargePoints : link'[c] = 0
        /\ \A o \in Connections : era'[o] = IF o[2] > opened[o[1]] THEN restarts + 1 ELSE era[o]
    BY <1>2 DEF Restart
  <2>3. restarts \in Nat /\ \A o \in Connections : era[o] \in Nat
    BY FaultsAssumption DEF FaultsTypeOK
  <2> QED
    BY <2>1, <2>2, <2>3 DEF EraInv
<1>3. ASSUME PublishFails PROVE EraInv'
  BY <1>3, FailureFacts DEF EraInv, registryVars, Live
<1> QED
  BY <1>1, <1>2, <1>3 DEF FaultsNext, allVars

LEMMA EraInitially == FaultsInit => EraInv
BY DEF FaultsInit, Init, EraInv, Received, Handed, Live, NoCall

\* What was received came by connections of runs before the restart.
LEMMA ReceivedAreOld ==
  ASSUME FaultsTypeOK, EraInv, Restart, NEW m \in Received
  PROVE  RunOf(m)' = RunOf(m) /\ RunOf(m) # restarts'
<1>1. m.link \in 1 .. opened[m.cp] /\ m.cp \in ChargePoints
  BY DEF EraInv, Received, Handed, FaultsTypeOK, TypeOK, NotifierTypeOK, Message
<1>2. opened[m.cp] \in 0 .. MaxConnections
  BY <1>1 DEF FaultsTypeOK, TypeOK, RegistryTypeOK
<1>3. <<m.cp, m.link>> \in Connections
  BY <1>1, <1>2, ConstantsAssumption DEF Connections
<1>4. /\ <<m.cp, m.link>>[1] = m.cp /\ <<m.cp, m.link>>[2] = m.link
      /\ ~(m.link > opened[m.cp])
  BY <1>1, <1>2, ConstantsAssumption
<1>5. era'[<<m.cp, m.link>>] = era[<<m.cp, m.link>>]
  BY <1>3, <1>4 DEF Restart
<1>6. restarts \in Nat /\ era[<<m.cp, m.link>>] \in Nat /\ era[<<m.cp, m.link>>] <= restarts
  BY <1>3, FaultsAssumption DEF FaultsTypeOK, EraInv
<1>7. restarts' = restarts + 1
  BY DEF Restart
<1> QED
  BY <1>5, <1>6, <1>7 DEF RunOf

(***************************************************************************)
(* EndsKnown.                                                              *)
(***************************************************************************)

LEMMA EndableIds ==
  ASSUME NEW c \in ChargePoints, NEW id
  PROVE  <<c, id>> \in Endable
           <=> \/ id \in stale[c]
               \/ \E m \in Received : /\ RunOf(m) = restarts
                                      /\ m.topic = "start" /\ m.cp = c /\ m.id = id
<1>1. <<c, id>> \in OldIds <=> id \in stale[c]
  <2>1. \A d, i : <<d, i>> = <<c, id>> => d = c /\ i = id
    OBVIOUS
  <2> QED
    BY <2>1 DEF OldIds
<1>2. <<c, id>> \in StartsIn(OfThisRun)
        <=> \E m \in Received : /\ RunOf(m) = restarts
                                /\ m.topic = "start" /\ m.cp = c /\ m.id = id
  BY DEF StartsIn, OfThisRun
<1> QED
  BY <1>1, <1>2 DEF Endable

\* Only a StopTransaction that finds its transaction ends one.
LEMMA EndedStep ==
  ASSUME TypeOK, [Next]_vars, NEW o \in Connections, NEW t \in transactions'[o],
         t.phase = "ended"
  PROVE  \/ t \in transactions[o]
         \/ \E r \in Requests : StopFound(r) /\ o[1] = r[1] /\ t.id = call[r].id
<1> USE DEF TypeOK, ObjectTypeOK
<1>1. ASSUME NEW r \in Requests, StartCommit(r) PROVE t \in transactions[o]
  <2> DEFINE p   == <<r[1], call[r].info>>
             new == [id |-> call[r].id, connector |-> call[r].connector, phase |-> "open"]
  <2>1. /\ transactions' = [transactions EXCEPT ![p] = {x \in @ : x.id # call[r].id} \cup {new}]
        /\ new.phase = "open"
    BY <1>1 DEF StartCommit
  <2>2. t # new
    BY <2>1
  <2> HIDE DEF new
  <2> QED
    BY <2>1, <2>2
<1>2. ASSUME NEW r \in Requests, StopFound(r)
      PROVE  t \in transactions[o] \/ (o[1] = r[1] /\ t.id = call[r].id)
  <2> DEFINE p == <<r[1], chargePoints[r[1]]>>
  <2>1. PICK x \in transactions[p] :
          /\ x.id = call[r].id
          /\ transactions' = [transactions EXCEPT ![p] =
                (@ \ {x}) \cup {[x EXCEPT !.phase = "ended"]}]
    BY <1>2 DEF StopFound
  <2>2. CASE o = p
    <3>1. x \in Transaction
      BY <2>1, <2>2
    <3>2. [x EXCEPT !.phase = "ended"].id = x.id
      BY <3>1 DEF Transaction
    <3> QED
      BY <2>1, <2>2, <3>2
  <2>3. CASE o # p
    BY <2>1, <2>3
  <2> QED
    BY <2>2, <2>3
<1>3. ASSUME NEW r \in Requests, Handle(r) \/ Handoff(r), ~StartCommit(r), ~StopFound(r)
      PROVE  transactions' = transactions
  BY <1>3 DEF Handle, Authorize, Event, NotSupported, UnknownChargePoint,
     StatusNotification, StartBusy, StartFree, StartTakeId, StartLoad, StartStore,
     StopUnknown, SendConfirmation, SendError, Handoff, objectVars
<1>4. ASSUME \/ \E c \in ChargePoints : Open(c) \/ Close(c)
             \/ \E c \in ChargePoints : \E in \in Inputs(c) : Receive(c, in)
             \/ \E p \in Connections : Callback(p)
             \/ Publish \/ UNCHANGED vars
      PROVE  transactions' = transactions
  BY <1>4 DEF Open, Close, Receive, Callback, NewChargePoint, ChargePointDisconnected, Publish,
     vars, objectVars
<1> QED
  BY <1>1, <1>2, <1>3, <1>4 DEF Next, Idle

LEMMA EndsStep ==
  ASSUME FaultsTypeOK, EraInv, EndsInv, [FaultsNext]_allVars PROVE EndsInv'
<1>1. ASSUME [Next]_vars, UNCHANGED faultVars PROVE EndsInv'
  <2>1. PICK old : old = Endable
    OBVIOUS
  <2>2. PICK new : new = Endable'
    OBVIOUS
  <2>3. UNCHANGED <<stale, era, restarts, lost>> /\ Received \subseteq Received' /\ TypeOK
    BY <1>1, HandedGrows DEF faultVars, Received, FaultsTypeOK
  <2>4. old \subseteq new
    <3>1. OfThisRun \subseteq OfThisRun'
      BY <2>3 DEF OfThisRun, RunOf
    <3>2. StartsIn(OfThisRun) \subseteq StartsIn(OfThisRun)'
      BY <3>1 DEF StartsIn
    <3>3. OldIds' = OldIds
      BY <2>3 DEF OldIds
    <3> QED
      BY <2>1, <2>2, <3>2, <3>3 DEF Endable
  <2>5. ASSUME NEW r \in Requests, Handoff(r), call[r].kind = "start"
        PROVE  <<r[1], call[r].id>> \in new
    <3>1. PICK m : m = Notification(r)
      OBVIOUS
    <3>2. m \in Received' /\ Live(r)
      BY <2>3, <2>5, <3>1, HandoffStep DEF Received, Handed, Live, Answered
    <3>3. m.topic = "start" /\ m.cp = r[1] /\ m.id = call[r].id /\ m.link = call[r].link
      BY <2>5, <3>1 DEF Notification
    <3>4. era'[<<m.cp, m.link>>] = restarts'
      BY <2>3, <3>2, <3>3 DEF EraInv
    <3>5. m \in OfThisRun'
      BY <3>2, <3>4 DEF OfThisRun, RunOf
    <3>6. <<r[1], call[r].id>> \in StartsIn(OfThisRun)'
      BY <3>3, <3>5 DEF StartsIn
    <3> QED
      BY <2>2, <3>6 DEF Endable
  <2>6. StoppableIn(old) /\ StoppableIn(new)'
    BY <1>1, <2>1, <2>3, <2>4, <2>5, StoppableStep DEF EndsInv
  <2>7. ASSUME NEW o \in Connections, NEW t \in transactions'[o], t.phase = "ended"
        PROVE  <<o[1], t.id>> \in new
    <3>1. CASE t \in transactions[o]
      BY <2>1, <2>4, <2>7, <3>1 DEF EndsInv
    <3>2. ASSUME NEW r \in Requests, StopFound(r), o[1] = r[1], t.id = call[r].id
          PROVE  <<o[1], t.id>> \in new
      BY <2>4, <2>6, <3>2 DEF StopFound, At, Live, Answered, StoppableIn
    <3> QED
      BY <1>1, <2>3, <2>7, <3>1, <3>2, EndedStep
  <2> QED
    BY <2>2, <2>6, <2>7 DEF EndsInv, StoppableIn
<1>2. ASSUME Restart PROVE EndsInv'
  <2>1. /\ \A r \in Requests : ~Live(r)'
        /\ \A r \in Requests : ~At(r, "confirm")'
        /\ known' = known
    BY <1>2, RestartFacts DEF At, Live, Answered
  <2>2. /\ \A c \in ChargePoints : known[c] \subseteq stale'[c]
        /\ \A o \in Connections : transactions'[o] = {}
    BY <1>2 DEF Restart
  <2>3. \A c \in ChargePoints : \A id \in known'[c] : <<c, id>> \in Endable'
    <3> SUFFICES ASSUME NEW c \in ChargePoints, NEW id \in known'[c]
                 PROVE  <<c, id>> \in Endable'
      OBVIOUS
    <3>1. <<c, id>> \in {<<c, i>> : i \in stale'[c]}
      BY <2>1, <2>2
    <3> QED
      BY <3>1 DEF Endable, OldIds
  <2> QED
    BY <2>1, <2>2, <2>3 DEF EndsInv, StoppableIn
<1>3. ASSUME PublishFails PROVE EndsInv'
  <2>1. UNCHANGED <<known, call, transactions, stale, era, restarts, Received>>
    BY <1>3, FailureFacts DEF objectVars
  <2>2. Endable' = Endable
    BY <2>1 DEF Endable, OldIds, OfThisRun, StartsIn, RunOf
  <2> QED
    BY <2>1, <2>2 DEF EndsInv, StoppableIn, Live, At
<1> QED
  BY <1>1, <1>2, <1>3 DEF FaultsNext, allVars

LEMMA EndsInitially == FaultsInit => EndsInv
BY DEF FaultsInit, Init, EndsInv, StoppableIn, Live, At, NoCall

(***************************************************************************)
(* IdsPerRun.                                                              *)
(***************************************************************************)

\* How a step moves the counter, while StartTransaction handlers do not overlap.
LEMMA CounterStep ==
  ASSUME TypeOK, LedgerInv, [Next]_vars, raced' = "no"
  PROVE  /\ raced = "no"
         /\ nextTransactionId \in Nat /\ nextTransactionId' \in Nat
         /\ nextTransactionId <= nextTransactionId'
         /\ \A r \in Requests : At(r, "commit")' =>
              \/ At(r, "commit") /\ call'[r].id = call[r].id
              \/ call'[r].id = nextTransactionId /\ nextTransactionId < nextTransactionId'
<1> USE DEF At
<1>1. nextTransactionId \in Nat
  BY DEF TypeOK, CounterTypeOK
<1>2. ASSUME NEW r \in Requests, Handle(r) \/ Handoff(r), ~StartStore(r)
      PROVE  /\ raced = "no" /\ UNCHANGED nextTransactionId
             /\ \A s \in Requests : At(s, "commit")' =>
                  At(s, "commit") /\ call'[s].id = call[s].id
  <2>1. \A s \in Requests \ {r} : call'[s] = call[s]
    BY <1>2, OneCallStep
  <2>2. raced = "no" /\ UNCHANGED nextTransactionId /\ call'[r].pc # "commit"
    BY <1>2 DEF Handle, Authorize, Event, NotSupported, UnknownChargePoint,
       StatusNotification, StartBusy, StartFree, StartTakeId, StartLoad, StartCommit,
       StopFound, StopUnknown, SendConfirmation, SendError, Handoff, Goto, TypeOK,
       CallTypeOK, Call
  <2> QED
    BY <2>1, <2>2
<1>3. ASSUME NEW r \in Requests, StartStore(r)
      PROVE  /\ raced = "no" /\ nextTransactionId' = nextTransactionId + 1
             /\ call'[r].id = nextTransactionId
             /\ \A s \in Requests \ {r} : call'[s] = call[s]
  <2>1. raced = "no"
    BY <1>3 DEF StartStore
  <2>2. WindowIds
    BY <2>1 DEF LedgerInv
  <2> QED
    BY <1>3, <2>1, <2>2 DEF StartStore, Goto, WindowIds, TypeOK, CallTypeOK, Call
<1>4. ASSUME NEW c \in ChargePoints, NEW in \in Inputs(c), Receive(c, in)
      PROVE  /\ raced = "no" /\ UNCHANGED nextTransactionId
             /\ \A s \in Requests : At(s, "commit")' =>
                  At(s, "commit") /\ call'[s].id = call[s].id
  <2>1. PICK r \in Requests :
          call'[r].pc = "entered" /\ \A s \in Requests \ {r} : call'[s] = call[s]
    BY <1>4, ReceiveStep
  <2> QED
    BY <1>4, <2>1 DEF Receive
<1>5. ASSUME \/ \E c \in ChargePoints : Open(c) \/ Close(c)
             \/ \E p \in Connections : Callback(p)
             \/ Publish \/ UNCHANGED vars
      PROVE  raced = "no" /\ UNCHANGED <<nextTransactionId, call>>
  BY <1>5 DEF Open, Close, Callback, NewChargePoint, ChargePointDisconnected, Publish, vars
<1> QED
  BY <1>1, <1>2, <1>3, <1>4, <1>5 DEF Next, Idle

\* Only a StartTransaction that is stored is notified as started.
LEMMA StartedStep ==
  ASSUME TypeOK, IssuedAreSent, [Next]_vars, UNCHANGED lost,
         NEW s \in StartsMade', s \notin StartsMade
  PROVE  \E r \in Requests : StartCommit(r) /\ s = Notification(r)'
<1>1. s \in Made' \ Made /\ s.topic = "start"
  BY DEF StartsMade
<1>2. PICK r \in Requests : Serve(r)
  BY <1>1, MadeStays DEF Next, Handle, Serve, Idle
<1> QED
  BY <1>1, <1>2, MadeByServe

LEMMA StartIds ==
  ASSUME FaultsTypeOK, NEW s \in StartsMade
  PROVE  s.id \in Nat /\ s.cp \in ChargePoints
BY NotificationType DEF StartsMade, Made, Handed, FaultsTypeOK, TypeOK, NotifierTypeOK, Message

LEMMA StartsStep ==
  ASSUME FaultsTypeOK, RunInv, EraInv, StartsInv, [FaultsNext]_allVars PROVE StartsInv'
<1>1. ASSUME [Next]_vars, UNCHANGED faultVars, raced' = "no" PROVE StartsInv'
  <2>1. UNCHANGED <<era, restarts, lost>> /\ TypeOK
    BY <1>1 DEF faultVars, FaultsTypeOK
  <2>2. /\ raced = "no"
        /\ nextTransactionId \in Nat /\ nextTransactionId' \in Nat
        /\ nextTransactionId <= nextTransactionId'
        /\ \A r \in Requests : At(r, "commit")' =>
             \/ At(r, "commit") /\ call'[r].id = call[r].id
             \/ call'[r].id = nextTransactionId /\ nextTransactionId < nextTransactionId'
    BY <1>1, <2>1, CounterStep DEF RunInv
  <2>3. /\ \A s1, s2 \in StartsMade : s1.id = s2.id /\ RunOf(s1) = RunOf(s2) => s1 = s2
        /\ \A s \in StartsMade : RunOf(s) = restarts =>
             /\ s.id < nextTransactionId
             /\ \A r \in Requests : At(r, "commit") => s.id < call[r].id
    BY <2>2 DEF StartsInv
  <2>4. \A s : RunOf(s)' = RunOf(s)
    BY <2>1 DEF RunOf
  <2>5. ASSUME NEW s \in StartsMade', s \notin StartsMade
        PROVE  /\ RunOf(s) = restarts /\ s.id \in Nat /\ s.id < nextTransactionId'
               /\ \A q \in StartsMade : RunOf(q) = restarts => q.id < s.id
               /\ \A q \in StartsMade' : q \notin StartsMade => q = s
               /\ \A r \in Requests : ~At(r, "commit")'
    <3>1. PICK r \in Requests : StartCommit(r) /\ s = Notification(r)'
      BY <1>1, <2>1, <2>5, StartedStep DEF RunInv
    <3>2. /\ At(r, "commit") /\ Live(r)
          /\ call' = [call EXCEPT ![r].pc = "notify"] /\ call[r] \in Call
          /\ nextTransactionId' = nextTransactionId
      BY <2>1, <3>1 DEF StartCommit, Goto, At, Live, Answered, TypeOK, CallTypeOK
    <3>3. /\ call'[r].id = call[r].id /\ call'[r].link = call[r].link
          /\ call'[r].pc = "notify" /\ call[r].id \in Nat
      BY <2>1, <3>2 DEF Call, TypeOK, CallTypeOK
    <3>4. s.id = call[r].id /\ s.cp = r[1] /\ s.link = call[r].link
      BY <3>1, <3>3 DEF Notification
    <3>5. OneStarter /\ call[r].id + 1 = nextTransactionId
      BY <2>2, <3>2 DEF RunInv, LedgerInv, WindowIds
    <3>6. RunOf(s) = restarts
      BY <3>2, <3>4 DEF RunOf, EraInv
    <3>7. \A q \in Requests : ~At(q, "commit")'
      <4>1. \A q \in Requests \ {r} : ~At(q, "commit")
        BY <3>2, <3>5 DEF OneStarter, At, Window
      <4> QED
        BY <3>2, <3>3, <4>1 DEF At
    <3>8. \A q \in StartsMade' : q \notin StartsMade => q = s
      <4> SUFFICES ASSUME NEW q \in StartsMade', q \notin StartsMade PROVE q = s
        OBVIOUS
      <4>1. q \in Made' /\ q \notin Made /\ Serve(r)
        BY <2>1, <3>1 DEF StartsMade, Serve
      <4> QED
        BY <2>1, <3>1, <4>1, MadeByServe
    <3> QED
      BY <2>2, <2>3, <3>2, <3>3, <3>4, <3>5, <3>6, <3>7, <3>8
  <2>6. \A s \in StartsMade : s.id \in Nat
    BY StartIds
  <2>7. ASSUME NEW s1 \in StartsMade', NEW s2 \in StartsMade', s1.id = s2.id, RunOf(s1) = RunOf(s2)
        PROVE  s1 = s2
    BY <2>3, <2>5, <2>6, <2>7
  <2>8. ASSUME NEW s \in StartsMade', RunOf(s) = restarts
        PROVE  /\ s.id < nextTransactionId'
               /\ \A r \in Requests : At(r, "commit")' => s.id < call'[r].id
    <3>1. CASE s \in StartsMade
      BY <2>2, <2>3, <2>6, <2>8, <3>1
    <3>2. CASE s \notin StartsMade
      BY <2>5, <3>2
    <3> QED
      BY <3>1, <3>2
  <2> QED
    BY <2>1, <2>4, <2>7, <2>8 DEF StartsInv
<1>2. ASSUME Restart PROVE StartsInv'
  <2>1. /\ raced' = raced /\ Received' = Received /\ restarts' = restarts + 1
        /\ \A r \in Requests : ~At(r, "notify")'
    BY <1>2, RestartFacts DEF At, Live, Answered
  <2>2. \A s \in StartsMade' : s \in StartsMade /\ s \in Received
    BY <2>1 DEF StartsMade, Made, Received
  <2>3. \A s \in Received : RunOf(s)' = RunOf(s) /\ RunOf(s) # restarts'
    BY <1>2, ReceivedAreOld
  <2> QED
    BY <2>1, <2>2, <2>3 DEF StartsInv
<1>3. ASSUME PublishFails PROVE StartsInv'
  <2>1. UNCHANGED <<nextTransactionId, call, raced, restarts, era, Received>>
    BY <1>3, FailureFacts
  <2>2. StartsMade' = StartsMade
    BY <2>1 DEF StartsMade, Made, Received, Notification, At
  <2> QED
    BY <2>1, <2>2 DEF StartsInv, RunOf, At
<1>4. raced' # "no" => StartsInv'
  BY DEF StartsInv
<1> QED
  BY <1>1, <1>2, <1>3, <1>4 DEF FaultsNext, allVars

LEMMA StartsInitially == FaultsInit => StartsInv
BY DEF FaultsInit, Init, StartsInv, StartsMade, Made, Handed, At, NoCall

(***************************************************************************)
(* What the notifier may still receive.                                    *)
(***************************************************************************)

LEMMA IssuedGrows ==
  ASSUME TypeOK, [Next]_vars, NEW c \in ChargePoints
  PROVE  issued[c] \in Nat /\ issued'[c] \in Nat /\ issued[c] <= issued'[c]
<1>1. issued[c] \in Nat /\ issued'[c] \in Nat
  BY ConstantsAssumption, TypeStep DEF TypeOK, CounterTypeOK
<1>2. ASSUME NEW d \in ChargePoints, NEW in \in Inputs(d), Receive(d, in)
      PROVE  issued[c] <= issued'[c]
  BY <1>1, <1>2 DEF Receive, TypeOK, CounterTypeOK
<1>3. CASE UNCHANGED issued
  BY <1>1, <1>3
<1> QED
  BY <1>1, <1>2, <1>3, ConnectionStep, ServeStep, ConfirmationStep, HandoffStep
     DEF Next, Handle, Serve, Idle, Publish

\* A request that may notify could do so before, or is new.
LEMMA MayNotifyStep ==
  ASSUME TypeOK, [Next]_vars, NEW r \in Requests, MayNotify(r)'
  PROVE  \/ MayNotify(r) /\ call'[r].link = call[r].link
         \/ r[2] = issued[r[1]] + 1
<1>1. ASSUME NEW s \in Requests, Serve(s) \/ SendConfirmation(s)
      PROVE  MayNotify(r) /\ call'[r].link = call[r].link
  BY <1>1, ServeStep, ConfirmationStep DEF Served
<1>2. ASSUME NEW s \in Requests, Handoff(s)
      PROVE  MayNotify(r) /\ call'[r].link = call[r].link
  BY <1>2, HandoffStep DEF MayNotify, Window
<1>3. ASSUME NEW c \in ChargePoints, NEW in \in Inputs(c), Receive(c, in)
      PROVE  \/ MayNotify(r) /\ call'[r].link = call[r].link
             \/ r[2] = issued[r[1]] + 1
  <2>1. \A s \in Requests \ {<<c, issued[c] + 1>>} : call'[s] = call[s]
    BY <1>3, ReceiveStep
  <2>2. <<c, issued[c] + 1>>[1] = c /\ <<c, issued[c] + 1>>[2] = issued[c] + 1
    OBVIOUS
  <2> QED
    BY <2>1, <2>2 DEF MayNotify
<1>4. ASSUME UNCHANGED call PROVE MayNotify(r) /\ call'[r].link = call[r].link
  BY <1>4 DEF MayNotify
<1> QED
  BY <1>1, <1>2, <1>3, <1>4, ConnectionStep DEF Next, Handle, Serve, Idle, Publish

LEMMA OneLiveStep ==
  ASSUME TypeOK, ~Pipelining, OneLivePerLink, [Next]_vars PROVE OneLivePerLink'
<1>1. ASSUME NEW r \in Requests, Serve(r) \/ SendConfirmation(r) PROVE OneLivePerLink'
  BY <1>1, ServeStep, ConfirmationStep DEF Served, OneLivePerLink
<1>2. ASSUME NEW r \in Requests, Handoff(r) PROVE OneLivePerLink'
  BY <1>2, HandoffStep DEF OneLivePerLink, Live, Answered
<1>3. ASSUME NEW c \in ChargePoints, NEW in \in Inputs(c), Receive(c, in)
      PROVE  OneLivePerLink'
  <2>1. PICK r \in Requests :
          /\ r[1] = c /\ call'[r].link = link[c]
          /\ \A s \in Requests \ {r} : call'[s] = call[s]
    BY <1>3, ReceiveStep, <<c, issued[c] + 1>>[1] = c
  <2>2. \A s \in Requests \ {r} : ~(Live(s)' /\ s[1] = c /\ call'[s].link = link[c])
    BY <1>3, <2>1 DEF Receive, Awaited, Live
  <2> QED
    BY <2>1, <2>2 DEF OneLivePerLink, Live
<1>4. ASSUME UNCHANGED call PROVE OneLivePerLink'
  BY <1>4 DEF OneLivePerLink, Live
<1> QED
  BY <1>1, <1>2, <1>3, <1>4, ConnectionStep DEF Next, Handle, Serve, Idle, Publish

LEMMA ReceivedType ==
  ASSUME FaultsTypeOK, NEW m \in Received
  PROVE  /\ m \in Message /\ m.cp \in ChargePoints /\ m.n \in Nat
         /\ <<m.cp, m.n>> \in Requests
BY DEF Received, Handed, FaultsTypeOK, TypeOK, NotifierTypeOK, Message, Requests

LEMMA HeardStep ==
  ASSUME FaultsTypeOK, RunInv, HeardInv, [FaultsNext]_allVars PROVE HeardInv'
<1>1. ASSUME [Next]_vars, UNCHANGED faultVars PROVE HeardInv'
  <2>1. UNCHANGED lost /\ TypeOK /\ IssuedAreSent
    BY <1>1 DEF faultVars, FaultsTypeOK, RunInv
  <2>2. ASSUME NEW m \in Received', m \notin Received
        PROVE  \E r \in Requests :
                 /\ Handoff(r) /\ m.cp = r[1] /\ m.n = r[2] /\ m.link = call[r].link
                 /\ r = <<m.cp, m.n>> /\ Live(r) /\ MayNotify(r) /\ ~MayNotify(r)'
                 /\ r[2] <= issued[r[1]]
    <3>1. PICK r \in Requests : Handoff(r) /\ m = Notification(r)
      BY <1>1, <2>1, <2>2, ReceivedStep
    <3>2. m.cp = r[1] /\ m.n = r[2] /\ m.link = call[r].link
      BY <3>1 DEF Notification
    <3>3. r = <<m.cp, m.n>>
      BY <3>2 DEF Requests
    <3>4. call[r].pc = "notify" /\ call'[r].pc = "confirm"
      BY <2>1, <3>1, HandoffStep
    <3>5. r[2] <= issued[r[1]]
      BY <2>1, <3>4 DEF IssuedAreSent
    <3>6. Live(r) /\ MayNotify(r) /\ ~MayNotify(r)'
      BY <3>4 DEF Live, MayNotify, Window, Answered
    <3> QED
      BY <3>1, <3>2, <3>3, <3>5, <3>6
  <2>3. ASSUME NEW m \in Received'
        PROVE  m.n <= issued'[m.cp] /\ ~MayNotify(<<m.cp, m.n>>)'
    <3>1. CASE m \in Received
      <4> DEFINE r == <<m.cp, m.n>>
      <4>1. /\ m.cp \in ChargePoints /\ m.n \in Nat /\ r \in Requests
            /\ r[1] = m.cp /\ r[2] = m.n
        BY <3>1, ReceivedType
      <4>2. m.n <= issued[m.cp] /\ ~MayNotify(r)
        BY <3>1 DEF HeardInv
      <4>3. /\ issued[m.cp] \in Nat /\ issued'[m.cp] \in Nat
            /\ issued[m.cp] <= issued'[m.cp]
        BY <1>1, <2>1, <4>1, IssuedGrows
      <4> HIDE DEF r
      <4>4. ~MayNotify(r)'
        BY <1>1, <2>1, <4>1, <4>2, <4>3, MayNotifyStep
      <4> QED
        BY <4>1, <4>2, <4>3, <4>4 DEF r
    <3>2. CASE m \notin Received
      <4>1. PICK r \in Requests :
              /\ m.cp = r[1] /\ m.n = r[2] /\ r = <<m.cp, m.n>> /\ ~MayNotify(r)'
              /\ r[2] <= issued[r[1]]
        BY <2>2, <3>2
      <4>2. r[1] \in ChargePoints /\ r[2] \in Nat
        BY DEF Requests
      <4> QED
        BY <1>1, <2>1, <4>1, <4>2, IssuedGrows
    <3> QED
      BY <3>1, <3>2
  <2>4. ASSUME ~Pipelining, NEW r \in Requests, NEW m \in Received', MayNotify(r)',
               m.cp = r[1], m.link = call'[r].link
        PROVE  m.n < r[2]
    <3>1. CASE m \in Received /\ r[2] = issued[r[1]] + 1
      <4>1. m.n \in Nat /\ m.cp \in ChargePoints /\ m.n <= issued[m.cp]
        BY <3>1, ReceivedType DEF HeardInv
      <4>2. issued[m.cp] \in Nat
        BY <1>1, <2>1, <4>1, IssuedGrows
      <4> QED
        BY <2>4, <3>1, <4>1, <4>2
    <3>2. CASE m \in Received /\ MayNotify(r) /\ call'[r].link = call[r].link
      BY <2>4, <3>2 DEF HeardInv
    <3>3. CASE m \notin Received
      <4>1. PICK s \in Requests :
              /\ m.cp = s[1] /\ m.n = s[2] /\ m.link = call[s].link
              /\ Live(s) /\ ~MayNotify(s)' /\ s[2] <= issued[s[1]] /\ Handoff(s)
        BY <2>2, <3>3
      <4>2. s # r /\ call'[r] = call[r]
        BY <2>1, <2>4, <4>1, HandoffStep
      <4>3. Live(r) /\ call[r].link = call[s].link
        BY <2>4, <4>1, <4>2 DEF MayNotify, Live, Window, Answered
      <4> QED
        BY <2>4, <4>1, <4>2, <4>3 DEF HeardInv, OneLivePerLink
    <3> QED
      BY <1>1, <2>1, <2>4, <3>1, <3>2, <3>3, MayNotifyStep
  <2>5. ~Pipelining => OneLivePerLink'
    BY <1>1, <2>1, OneLiveStep DEF HeardInv
  <2> QED
    BY <2>3, <2>4, <2>5 DEF HeardInv
<1>2. ASSUME Restart PROVE HeardInv'
  <2>1. UNCHANGED <<issued, Received>> /\ \A r \in Requests : ~Live(r)' /\ ~MayNotify(r)'
    BY <1>2, RestartFacts DEF MayNotify, Live, Window, Answered
  <2>2. \A m \in Received : <<m.cp, m.n>> \in Requests
    BY ReceivedType
  <2> QED
    BY <2>1, <2>2 DEF HeardInv, OneLivePerLink
<1>3. ASSUME PublishFails PROVE HeardInv'
  <2>1. UNCHANGED <<issued, Received, call>>
    BY <1>3, FailureFacts
  <2> QED
    BY <2>1 DEF HeardInv, OneLivePerLink, Live, MayNotify
<1> QED
  BY <1>1, <1>2, <1>3 DEF FaultsNext, allVars

LEMMA HeardInitially == FaultsInit => HeardInv
BY DEF FaultsInit, Init, HeardInv, Received, Handed, OneLivePerLink, Live, MayNotify, NoCall

(***************************************************************************)
(* The inductive invariant, and what it is for.                            *)
(***************************************************************************)

LEMMA FaultsInitially == FaultsInit => FaultsInv
BY RunInitially, AccountInitially, EraInitially, EndsInitially, StartsInitially,
   HeardInitially
   DEF FaultsInv, RunInv

LEMMA FaultsInvStep == FaultsTypeOK /\ FaultsInv /\ [FaultsNext]_allVars => FaultsInv'
BY RunInvStep, AccountStep, EraStep, EndsStep, StartsStep, HeardStep DEF FaultsInv, RunInv

\* Of what one run is promised, this survives stops, restarts and lost
\* notifications.
THEOREM FaultsHeld == FaultsSpec => []FaultsInv
BY FaultsInitially, FaultsInvStep, FaultsTypeCorrect, PTL DEF FaultsSpec

(***************************************************************************)
(* Announced.                                                              *)
(***************************************************************************)

\* The notifier receives what may be announced next.
LEMMA HandoffHeard ==
  ASSUME FaultsTypeOK, FaultsInv, NEW r \in Requests, Handoff(r), UNCHANGED faultVars
  PROVE  AN!Next
<1> DEFINE m == Notification(r)
<1>1. TypeOK /\ UNCHANGED <<lost, era, restarts>>
  BY DEF FaultsTypeOK, faultVars
<1>2. /\ pump = {} /\ pump' = {m} /\ published' = published /\ raced' = raced
      /\ call[r].pc = "notify"
  BY <1>1, HandoffStep DEF Handoff
<1>3. /\ m.topic = call[r].kind /\ m.cp = r[1] /\ m.n = r[2]
      /\ m.link = call[r].link /\ m.id = call[r].id /\ m \in Message
  BY <1>1, NotificationType DEF Notification
<1>4. Live(r) /\ MayNotify(r)
  BY <1>2 DEF Live, MayNotify, Window, Answered
<1>5. Received = published \cup lost /\ Received' = Received \cup {m}
  BY <1>1, <1>2 DEF Received, Handed
<1>6. AN!IsNew(m)
  <2> SUFFICES ASSUME NEW p \in Received, p.cp = m.cp, p.n = m.n PROVE FALSE
    BY <1>5 DEF AN!IsNew, AN!Earlier
  <2>1. r = <<p.cp, p.n>>
    BY <1>3 DEF Requests
  <2> QED
    BY <1>4, <2>1 DEF FaultsInv, HeardInv
<1>7. m.topic = "stop" => AN!HasStarted(m)
  <2>1. call[r].kind = "stop" => <<r[1], call[r].id>> \in StartsIn(Received)
    BY <1>4 DEF FaultsInv, AccountInv, StoppableIn
  <2> QED
    BY <1>3, <1>5, <2>1, StartsInSet DEF AN!HasStarted, AN!Earlier
<1>8. RunOf(m) = restarts
  BY <1>3, <1>4 DEF FaultsInv, EraInv, RunOf
<1>9. m.topic = "start" /\ raced = "no" => AN!HasFreshId(m)
  <2> SUFFICES ASSUME m.topic = "start", raced = "no", NEW s \in OfThisRun,
                      s.topic = "start", s.id = m.id
               PROVE  FALSE
    BY DEF AN!HasFreshId
  <2>1. s \in Received /\ RunOf(s) = restarts
    BY DEF OfThisRun
  <2>2. s \in StartsMade /\ m \in StartsMade
    BY <1>2, <2>1 DEF StartsMade, Made, Received, At
  <2>3. s = m
    BY <1>8, <2>1, <2>2 DEF FaultsInv, StartsInv
  <2> QED
    BY <1>5, <1>6, <2>1, <2>3 DEF AN!IsNew, AN!Earlier
<1>10. ~Pipelining => AN!IsLast(m)
  BY <1>3, <1>4, <1>5 DEF FaultsInv, HeardInv, AN!IsLast, AN!Earlier
<1>11. OfThisRun' = OfThisRun \cup {m}
  BY <1>1, <1>5, <1>8 DEF OfThisRun, RunOf
<1>12. AN!Hear(m)
  BY <1>1, <1>2, <1>3, <1>6, <1>7, <1>9, <1>10, <1>11 DEF AN!Hear
<1> QED
  BY <1>2, <1>12 DEF AN!Next

LEMMA AnnouncedStep ==
  FaultsTypeOK /\ FaultsInv /\ [FaultsNext]_allVars => [AN!Next]_(AN!announceVars)
<1> SUFFICES ASSUME FaultsTypeOK, FaultsInv, [FaultsNext]_allVars
             PROVE  [AN!Next]_(AN!announceVars)
  OBVIOUS
<1> USE DEF AN!announceVars
<1>1. ASSUME [Next]_vars, UNCHANGED faultVars PROVE [AN!Next]_(AN!announceVars)
  <2>1. TypeOK /\ UNCHANGED <<lost, era, restarts>>
    BY <1>1 DEF FaultsTypeOK, faultVars
  <2>2. Received' = Received => OfThisRun' = OfThisRun
    BY <2>1 DEF OfThisRun, RunOf
  <2>3. ASSUME UNCHANGED <<pump, published>> PROVE OfThisRun' = OfThisRun
    BY <2>1, <2>2, <2>3 DEF Received, Handed
  <2>4. ASSUME UNCHANGED <<pump, published, raced>> PROVE UNCHANGED AN!announceVars
    BY <2>1, <2>3, <2>4
  <2>5. ASSUME NEW r \in Requests, Handle(r) PROVE [AN!Next]_(AN!announceVars)
    <3>1. UNCHANGED <<pump, published>>
      BY <2>1, <2>5, ServeStep, ConfirmationStep DEF Handle, Serve
    <3>2. raced' = raced \/ raced' = "yes"
      BY <2>5 DEF Handle, Authorize, Event, NotSupported, UnknownChargePoint,
         StatusNotification, StartBusy, StartFree, StartTakeId, StartLoad, StartStore,
         StartCommit, StopFound, StopUnknown, SendConfirmation, SendError
    <3>3. CASE raced' = "yes"
      BY <2>1, <2>3, <3>1, <3>3 DEF AN!Next, AN!Overlap
    <3> QED
      BY <2>4, <3>1, <3>2, <3>3
  <2>6. ASSUME NEW r \in Requests, Handoff(r) PROVE AN!Next
    BY <1>1, <2>6, HandoffHeard
  <2>7. ASSUME Publish PROVE AN!Next
    <3>1. PICK m \in pump : published' = published \cup {m} /\ pump' = pump \ {m}
      BY <2>7 DEF Publish
    <3>2. pump = {m}
      BY <2>1, <3>1 DEF TypeOK, NotifierTypeOK
    <3>3. Received' = Received
      BY <2>1, <3>1, <3>2 DEF Received, Handed
    <3>4. AN!Deliver
      BY <2>1, <2>2, <2>7, <3>1, <3>2, <3>3 DEF Publish, AN!Deliver
    <3> QED
      BY <3>4 DEF AN!Next
  <2>8. ASSUME \/ \E c \in ChargePoints : Open(c) \/ Close(c)
               \/ \E c \in ChargePoints : \E in \in Inputs(c) : Receive(c, in)
               \/ \E o \in Connections : Callback(o)
               \/ UNCHANGED vars
        PROVE  UNCHANGED <<pump, published, raced>>
    BY <2>8 DEF Open, Close, Receive, Callback, NewChargePoint, ChargePointDisconnected, vars
  <2> QED
    BY <1>1, <2>4, <2>5, <2>6, <2>7, <2>8 DEF Next, Idle
<1>2. ASSUME Restart PROVE AN!Next
  <2>1. /\ UNCHANGED <<published, raced, Received>>
        /\ pump' = {} /\ lost' = lost \cup pump
    BY <1>2, RestartFacts
  <2>2. OfThisRun' = {}
    BY <1>2, <2>1, ReceivedAreOld DEF OfThisRun, FaultsInv
  <2>3. AN!Restart
    BY <2>1, <2>2 DEF AN!Restart
  <2> QED
    BY <2>3 DEF AN!Next
<1>3. ASSUME PublishFails PROVE AN!Next
  <2>1. /\ UNCHANGED <<published, raced, restarts, era, Received>>
        /\ pump # {} /\ pump' = {} /\ lost' = lost \cup pump
    BY <1>3, FailureFacts DEF PublishFails
  <2>2. OfThisRun' = OfThisRun
    BY <2>1 DEF OfThisRun, RunOf
  <2>3. AN!Lose
    BY <2>1, <2>2 DEF AN!Lose
  <2> QED
    BY <2>3 DEF AN!Next
<1> QED
  BY <1>1, <1>2, <1>3 DEF FaultsNext, allVars

\* Whatever stops, fails or is lost, subscribers are told of each request once at
\* most, of a stop only after its start was received, of starts with ids of their
\* own within a run unless handlers overlapped, and in order if charge points wait.
THEOREM SubscribersAreTold == FaultsSpec => Announced
<1>1. FaultsInit => AN!Init
  BY DEF FaultsInit, Init, AN!Init, OfThisRun, Received, Handed
<1> QED
  BY <1>1, FaultsTypeCorrect, FaultsHeld, AnnouncedStep, PTL
     DEF FaultsSpec, Announced, AN!Spec

\* A StopTransaction ends a transaction before its start.transaction was received
\* only if the charge point has the id from an earlier run.
THEOREM EndsAreKnown == FaultsSpec => []EndsKnown
<1>1. FaultsInv => EndsKnown
  <2> SUFFICES ASSUME FaultsInv, NEW o \in Connections, NEW t \in transactions[o],
                      t.phase = "ended"
               PROVE  \/ t.id \in stale[o[1]]
                      \/ \E s \in Received : /\ s.topic = "start" /\ s.cp = o[1] /\ s.id = t.id
                                            /\ RunOf(s) = restarts
    BY DEF EndsKnown
  <2>1. <<o[1], t.id>> \in Endable /\ o[1] \in ChargePoints
    BY DEF FaultsInv, EndsInv, Connections
  <2> QED
    BY <2>1, EndableIds
<1> QED
  BY <1>1, FaultsHeld, PTL

\* Transactions that share an id are of different runs of the process, unless
\* two StartTransaction handlers overlapped at the counter.
THEOREM IdsUniquePerRun == FaultsSpec => []IdsPerRun
<1>1. FaultsInv => IdsPerRun
  BY DEF FaultsInv, StartsInv, IdsPerRun, StartsMade, Made, Received
<1> QED
  BY <1>1, FaultsHeld, PTL

=============================================================================
