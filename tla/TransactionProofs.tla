------------------------- MODULE TransactionProofs -------------------------
(* Theorems about the transactions of CentralSystem: their ids, and the      *)
(* marks of the connectors.                                                  *)
EXTENDS CentralSystemProofs

(***************************************************************************)
(* UniqueIds.                                                              *)
(***************************************************************************)

Distinct ==
    \A o1, o2 \in Connections : \A t1 \in transactions[o1], t2 \in transactions[o2] :
      t1.id = t2.id => o1 = o2 /\ t1 = t2

LedgerNow == Distinct /\ OneStarter /\ WindowIds /\ StoredAreOld

LEMMA LedgerParts == LedgerInv <=> (raced = "no" => LedgerNow)
BY DEF LedgerInv, UniqueIds, LedgerNow, Distinct

\* Whoever leaves the Window, or waits in it, disturbs nothing.
LEMMA LedgerStays ==
  ASSUME LedgerNow, UNCHANGED <<transactions, nextTransactionId>>,
         \A r \in Requests : call'[r].pc \in Window => call'[r] = call[r]
  PROVE  LedgerNow'
<1>1. Distinct'
  BY DEF LedgerNow, Distinct
<1>2. OneStarter'
  BY DEF LedgerNow, OneStarter
<1>3. WindowIds'
  BY DEF LedgerNow, WindowIds, At, Window
<1>4. StoredAreOld'
  BY DEF LedgerNow, StoredAreOld, StoredBelow, At, Window
<1> QED
  BY <1>1, <1>2, <1>3, <1>4 DEF LedgerNow

\* Taking the id, and reading and advancing the counter, one at a time.
LEMMA LedgerWindow ==
  ASSUME TypeOK, LedgerNow, NEW r \in Requests,
         StartTakeId(r) \/ StartLoad(r) \/ StartStore(r)
  PROVE  LedgerNow'
<1> USE DEF TypeOK
<1>1. /\ UNCHANGED transactions
      /\ call[r].pc \in Window /\ call'[r].pc \in Window
      /\ \A s \in Requests \ {r} : call'[s] = call[s] /\ call[s].pc \notin Window
  BY DEF LedgerNow, OneStarter, StartTakeId, StartLoad, StartStore, objectVars, Goto, At,
     Window, CallTypeOK, Call
<1>2. Distinct'
  BY <1>1 DEF LedgerNow, Distinct
<1>3. OneStarter'
  BY <1>1 DEF OneStarter
<1>4. WindowIds' /\ StoredAreOld'
  <2>1. StoredBelow(nextTransactionId) /\ nextTransactionId \in Nat
    BY DEF LedgerNow, StoredAreOld, CounterTypeOK
  <2>2. \A s \in Requests \ {r} :
          (call'[s]).pc \notin {"load", "store", "commit"}
    BY <1>1 DEF Window
  <2>3. CASE StartTakeId(r)
    <3>1. /\ UNCHANGED nextTransactionId
          /\ call'[r].pc = "load" /\ call'[r].id = nextTransactionId
      BY <2>3 DEF StartTakeId, CallTypeOK, Call
    <3> QED
      BY <1>1, <2>1, <2>2, <3>1 DEF WindowIds, StoredAreOld, StoredBelow, At
  <2>4. CASE StartLoad(r)
    <3>1. /\ UNCHANGED nextTransactionId /\ call[r].id = nextTransactionId
          /\ call'[r].pc = "store" /\ call'[r].id = nextTransactionId
          /\ call'[r].seen = nextTransactionId
      BY <2>4 DEF StartLoad, CallTypeOK, Call, LedgerNow, WindowIds, At
    <3> QED
      BY <1>1, <2>1, <2>2, <3>1 DEF WindowIds, StoredAreOld, StoredBelow, At
  <2>5. CASE StartStore(r)
    <3>1. /\ nextTransactionId' = nextTransactionId + 1
          /\ call'[r].pc = "commit" /\ call'[r].id = nextTransactionId
      BY <2>5 DEF StartStore, Goto, CallTypeOK, Call, LedgerNow, WindowIds, At
    <3>2. \A o \in Connections : \A t \in transactions[o] : t.id \in Nat
      BY DEF ObjectTypeOK, Transaction
    <3> QED
      BY <1>1, <2>1, <2>2, <3>1, <3>2 DEF WindowIds, StoredAreOld, StoredBelow, At
  <2> QED
    BY <2>3, <2>4, <2>5
<1> QED
  BY <1>2, <1>3, <1>4 DEF LedgerNow

\* A new transaction is stored under an id above those of all others.
LEMMA LedgerCommit ==
  ASSUME TypeOK, LedgerNow, NEW r \in Requests, StartCommit(r)
  PROVE  LedgerNow'
<1> USE DEF TypeOK
<1> DEFINE p == <<r[1], call[r].info>>
           id == call[r].id
<1>1. /\ call[r].pc = "commit" /\ call'[r].pc = "notify" /\ id + 1 = nextTransactionId
      /\ UNCHANGED nextTransactionId /\ id \in Nat
      /\ \A s \in Requests \ {r} : call'[s] = call[s] /\ call[s].pc \notin Window
  BY DEF LedgerNow, OneStarter, WindowIds, StartCommit, Goto, At, Window, CallTypeOK, Call
<1>2. StoredBelow(id)
  BY <1>1 DEF LedgerNow, StoredAreOld, At
<1>3. PICK new : /\ new.id = id
                 /\ transactions' = [transactions EXCEPT
                       ![p] = {t \in @ : t.id # id} \cup {new}]
  BY DEF StartCommit
<1>4. \A o \in Connections : \A t \in transactions'[o] :
        t \in transactions[o] \/ (o = p /\ t = new)
  BY <1>3 DEF ObjectTypeOK
<1>5. \A o \in Connections : \A t \in transactions[o] : t.id \in Nat /\ t.id < id
  BY <1>2 DEF ObjectTypeOK, Transaction, StoredBelow
<1>6. Distinct'
  <2> SUFFICES ASSUME NEW o1 \in Connections, NEW o2 \in Connections,
                      NEW t1 \in transactions'[o1], NEW t2 \in transactions'[o2],
                      t1.id = t2.id
               PROVE  o1 = o2 /\ t1 = t2
    BY DEF Distinct
  <2>1. CASE t1 \in transactions[o1] /\ t2 \in transactions[o2]
    BY <2>1 DEF LedgerNow, Distinct
  <2> QED
    BY <1>1, <1>3, <1>4, <1>5, <2>1
<1>7. OneStarter' /\ WindowIds'
  BY <1>1 DEF OneStarter, WindowIds, At, Window
<1>8. StoredAreOld'
  BY <1>1, <1>3, <1>4, <1>5 DEF StoredAreOld, StoredBelow, At, Window
<1> QED
  BY <1>6, <1>7, <1>8 DEF LedgerNow

\* A transaction that ends keeps its id.
LEMMA LedgerStop ==
  ASSUME TypeOK, LedgerNow, NEW r \in Requests, StopFound(r)
  PROVE  LedgerNow'
<1> USE DEF TypeOK
<1> DEFINE p == <<r[1], chargePoints[r[1]]>>
<1>1. /\ UNCHANGED nextTransactionId /\ call'[r].pc = "notify"
      /\ \A s \in Requests \ {r} : call'[s] = call[s]
  BY DEF StopFound, Goto, CallTypeOK, Call
<1>2. p \in Connections
  BY DEF StopFound, RegistryTypeOK, Connections, Requests
<1>3. PICK t \in transactions[p] :
        transactions' = [transactions EXCEPT
           ![p] = (@ \ {t}) \cup {[t EXCEPT !.phase = "ended"]}]
  BY DEF StopFound
<1>4. [t EXCEPT !.phase = "ended"].id = t.id
  BY <1>2 DEF ObjectTypeOK, Transaction
<1>5. PICK u : u = [t EXCEPT !.phase = "ended"]
  OBVIOUS
<1>6. \A o \in Connections : \A v \in transactions'[o] :
        \/ v \in transactions[o] /\ (o = p => v # t)
        \/ o = p /\ v = u
  BY <1>3, <1>5 DEF ObjectTypeOK
<1>7. Distinct'
  <2> SUFFICES ASSUME NEW o1 \in Connections, NEW o2 \in Connections,
                      NEW t1 \in transactions'[o1], NEW t2 \in transactions'[o2],
                      t1.id = t2.id
               PROVE  o1 = o2 /\ t1 = t2
    BY DEF Distinct
  <2>1. u.id = t.id
    BY <1>4, <1>5
  <2>2. CASE t1 \in transactions[o1] /\ t2 \in transactions[o2]
    BY <2>2 DEF LedgerNow, Distinct
  <2>3. CASE o1 = p /\ t1 = u /\ o2 = p /\ t2 = u
    BY <2>3
  <2>4. CASE o1 = p /\ t1 = u /\ t2 \in transactions[o2] /\ (o2 = p => t2 # t)
    BY <2>4, <2>1, <1>2 DEF LedgerNow, Distinct
  <2>5. CASE o2 = p /\ t2 = u /\ t1 \in transactions[o1] /\ (o1 = p => t1 # t)
    BY <2>5, <2>1, <1>2 DEF LedgerNow, Distinct
  <2> QED
    BY <1>6, <2>2, <2>3, <2>4, <2>5
<1>8. OneStarter' /\ WindowIds'
  BY <1>1 DEF LedgerNow, OneStarter, WindowIds, At, Window
<1>9. StoredAreOld'
  <2>1. \A n : StoredBelow(n) => \A o \in Connections : \A v \in transactions'[o] : v.id < n
    BY <1>2, <1>3, <1>4, <1>5, <1>6 DEF StoredBelow
  <2> QED
    BY <1>1, <2>1 DEF LedgerNow, StoredAreOld, StoredBelow, At, Window
<1> QED
  BY <1>7, <1>8, <1>9 DEF LedgerNow

LEMMA LedgerInvStep == TypeOK /\ LedgerInv /\ [Next]_vars => LedgerInv'
<1> SUFFICES ASSUME TypeOK, LedgerInv, [Next]_vars PROVE LedgerInv'
  OBVIOUS
<1> USE DEF TypeOK
<1>1. ASSUME raced' = raced, raced = "no" => LedgerNow' PROVE LedgerInv'
  BY <1>1 DEF LedgerInv, UniqueIds, LedgerNow, Distinct
<1>2. ASSUME UNCHANGED <<call, transactions, nextTransactionId, raced>> PROVE LedgerInv'
  BY <1>1, <1>2, LedgerParts, LedgerStays
<1>3. ASSUME \/ \E c \in ChargePoints : Open(c) \/ Close(c)
             \/ \E o \in Connections : Callback(o)
             \/ Publish \/ UNCHANGED vars
      PROVE  LedgerInv'
  BY <1>2, <1>3 DEF Open, Close, Callback, NewChargePoint, ChargePointDisconnected, Publish,
     objectVars, vars
<1>4. ASSUME NEW c \in ChargePoints, NEW in \in Inputs(c), Receive(c, in) PROVE LedgerInv'
  <2>1. /\ <<c, issued[c] + 1>> \in Requests /\ call'[<<c, issued[c] + 1>>].pc = "entered"
        /\ \A s \in Requests \ {<<c, issued[c] + 1>>} : call'[s] = call[s]
    BY <1>4, ReceiveStep
  <2>2. UNCHANGED <<transactions, nextTransactionId, raced>>
    BY <1>4 DEF Receive, objectVars
  <2> QED
    BY <1>1, <2>1, <2>2, LedgerParts, LedgerStays DEF Window
<1>5. ASSUME NEW r \in Requests,
             \/ Authorize(r) \/ Event(r) \/ NotSupported(r) \/ UnknownChargePoint(r)
             \/ StatusNotification(r) \/ StartBusy(r) \/ StopUnknown(r)
             \/ SendConfirmation(r) \/ SendError(r) \/ Handoff(r)
      PROVE  LedgerInv'
  <2>1. UNCHANGED <<transactions, nextTransactionId, raced>>
    BY <1>5 DEF Authorize, Event, NotSupported, UnknownChargePoint, StatusNotification,
       StartBusy, StopUnknown, SendConfirmation, SendError, Handoff, objectVars
  <2>2. call'[r].pc \notin Window /\ \A s \in Requests \ {r} : call'[s] = call[s]
    BY <1>5 DEF Authorize, Event, NotSupported, UnknownChargePoint, StatusNotification,
       StartBusy, StopUnknown, SendConfirmation, SendError, Handoff, Goto, Window,
       CallTypeOK, Call
  <2> QED
    BY <1>1, <2>1, <2>2, LedgerParts, LedgerStays
<1>6. ASSUME NEW r \in Requests, StartFree(r) PROVE LedgerInv'
  <2> SUFFICES ASSUME raced' = "no" PROVE LedgerNow'
    BY DEF LedgerInv, UniqueIds, LedgerNow, Distinct
  <2>1. /\ UNCHANGED <<transactions, nextTransactionId>>
        /\ call'[r].pc = "take" /\ \A s \in Requests \ {r} : call'[s] = call[s]
    BY <1>6 DEF StartFree, objectVars, CallTypeOK, Call
  <2>2. raced = "no" /\ \A s \in Requests : call[s].pc \notin Window
    BY <1>6 DEF StartFree
  <2>3. LedgerNow
    BY <2>2, LedgerParts
  <2>4. Distinct'
    BY <2>1, <2>3 DEF LedgerNow, Distinct
  <2>5. OneStarter' /\ WindowIds' /\ StoredAreOld'
    BY <2>1, <2>2, <2>3 DEF LedgerNow, OneStarter, WindowIds, StoredAreOld, StoredBelow,
         At, Window
  <2> QED
    BY <2>4, <2>5 DEF LedgerNow
<1>7. ASSUME NEW r \in Requests, StartTakeId(r) \/ StartLoad(r) \/ StartStore(r)
      PROVE  LedgerInv'
  BY <1>1, <1>7, LedgerParts, LedgerWindow DEF StartTakeId, StartLoad, StartStore
<1>8. ASSUME NEW r \in Requests, StartCommit(r) PROVE LedgerInv'
  BY <1>1, <1>8, LedgerParts, LedgerCommit DEF StartCommit
<1>9. ASSUME NEW r \in Requests, StopFound(r) PROVE LedgerInv'
  BY <1>1, <1>9, LedgerParts, LedgerStop DEF StopFound
<1> QED
  BY <1>3, <1>4, <1>5, <1>6, <1>7, <1>8, <1>9 DEF Next, Handle, Idle

LEMMA LedgerInitially == Init => LedgerInv
BY DEF Init, LedgerInv, UniqueIds, OneStarter, WindowIds, StoredAreOld, StoredBelow, At,
   Window, NoCall

\* While StartTransaction handlers do not overlap, the ids that are stored and
\* the one that is being taken are below the counter, each in its own way.
THEOREM LedgerHeld == Spec => []LedgerInv
BY LedgerInitially, LedgerInvStep, TypeCorrect, PTL DEF Spec

\* No two transactions share an id, unless two StartTransaction handlers
\* overlapped at the counter.
THEOREM IdsUnique == Spec => []UniqueIds
<1>1. LedgerInv => UniqueIds
  BY DEF LedgerInv
<1> QED
  BY <1>1, LedgerHeld, PTL

(***************************************************************************)
(* BusyIffOpen.                                                            *)
(***************************************************************************)

MarkAgrees(o, k) ==
    /\ \A t \in OpenTransactions(o) : t.connector = k => current[o][k] = t.id
    /\ current[o][k] >= 0 =>
         \E t \in OpenTransactions(o) : t.connector = k /\ t.id = current[o][k]

Marks == \A o \in Connections, k \in Connectors : MarkAgrees(o, k)

MarksNow == Marks /\ HeldOnce /\ HeldAreOld /\ HeldNotEnded /\ ConnectorFree

LEMMA MarksParts == MarksInv <=> (raced = "no" /\ ~Resend => MarksNow)
BY ConstantsAssumption DEF MarksInv, BusyIffOpen, MarksNow, Marks, MarkAgrees

\* What a step that neither stores a transaction nor hands out an id may do.
Kept(s) ==
    /\ Holding(s)' => Holding(s) /\ call'[s].id = call[s].id
    /\ call'[s].pc \in Window =>
         /\ call[s].pc \in Window
         /\ call'[s].info = call[s].info /\ call'[s].connector = call[s].connector
    /\ At(s, "commit")' => At(s, "commit") /\ call'[s].id = call[s].id

LEMMA MarksStay ==
  ASSUME MarksNow, UNCHANGED <<current, transactions, nextTransactionId, known>>,
         \A s \in Requests : Kept(s)
  PROVE  MarksNow'
<1>1. Marks'
  BY DEF MarksNow, Marks, MarkAgrees, OpenTransactions
<1>2. HeldOnce' /\ HeldNotEnded'
  BY DEF MarksNow, HeldOnce, HeldNotEnded, Kept
<1>3. HeldAreOld'
  BY DEF MarksNow, HeldAreOld, HeldBelow, Kept
<1>4. ConnectorFree'
  BY DEF MarksNow, ConnectorFree, Kept
<1> QED
  BY <1>1, <1>2, <1>3, <1>4 DEF MarksNow

LEMMA KeptIfSame ==
  ASSUME NEW s \in Requests, call'[s] = call[s] PROVE Kept(s)
BY DEF Kept, Holding, At

\* A charge point that stops a transaction does not know its id any longer.
LEMMA MarksReceive ==
  ASSUME TypeOK, MarksNow, ~Resend, NEW c \in ChargePoints, NEW in \in Inputs(c),
         Receive(c, in)
  PROVE  MarksNow'
<1> USE DEF TypeOK
<1>1. PICK r \in Requests :
        /\ r = <<c, issued[c] + 1>>
        /\ call'[r].pc = "entered" /\ call'[r].kind = in.kind /\ call'[r].id = in.id
        /\ \A s \in Requests \ {r} : call'[s] = call[s]
  BY ReceiveStep
<1>2. UNCHANGED <<current, transactions, nextTransactionId>>
  BY DEF Receive, objectVars
<1>3. in.kind = "stop" => in.id \in known[c]
  BY ReceiveStep
<1>4. known' = IF in.kind = "stop" THEN [known EXCEPT ![c] = @ \ {in.id}] ELSE known
  BY DEF Receive
<1>5. /\ \A d \in ChargePoints : known'[d] \subseteq known[d]
      /\ in.kind = "stop" => in.id \notin known'[c]
  BY <1>4 DEF CounterTypeOK
<1>6. Holding(r)' => in.kind = "stop" /\ call'[r].id = in.id
  BY <1>1 DEF Holding
<1>7. \A s \in Requests \ {r} :
        (Holding(s)' <=> Holding(s)) /\ call'[s].id = call[s].id
  BY <1>1 DEF Holding
<1>8. Marks'
  BY <1>2 DEF MarksNow, Marks, MarkAgrees, OpenTransactions
<1>9. HeldOnce'
  <2>1. \A s, q \in Requests :
          (Holding(s) /\ Holding(q) /\ call[s].id = call[q].id)' => s = q
    BY <1>3, <1>6, <1>7 DEF MarksNow, HeldOnce
  <2>2. \A s \in Requests, d \in ChargePoints : Holding(s)' => call'[s].id \notin known'[d]
    BY <1>3, <1>5, <1>6, <1>7 DEF MarksNow, HeldOnce
  <2>3. \A d, e \in ChargePoints : d # e => known'[d] \cap known'[e] = {}
    BY <1>5 DEF MarksNow, HeldOnce
  <2> QED
    BY <2>1, <2>2, <2>3 DEF HeldOnce
<1>10. HeldAreOld'
  BY <1>1, <1>2, <1>3, <1>5, <1>6, <1>7 DEF MarksNow, HeldAreOld, HeldBelow, At
<1>11. HeldNotEnded'
  BY <1>2, <1>3, <1>5, <1>6, <1>7 DEF MarksNow, HeldNotEnded
<1>12. ConnectorFree'
  BY <1>1, <1>2 DEF MarksNow, ConnectorFree, Window
<1> QED
  BY <1>8, <1>9, <1>10, <1>11, <1>12 DEF MarksNow

\* An answered StartTransaction leaves its id to the charge point.
LEMMA MarksConfirm ==
  ASSUME TypeOK, MarksNow, NEW r \in Requests, SendConfirmation(r)
  PROVE  MarksNow'
<1> USE DEF TypeOK
<1>1. /\ UNCHANGED <<current, transactions, nextTransactionId>>
      /\ call[r].pc = "confirm" /\ call'[r].pc = "confirmed"
      /\ \A s \in Requests \ {r} : call'[s] = call[s]
  BY DEF SendConfirmation, objectVars, Goto, At, CallTypeOK, Call
<1>2. \A c \in ChargePoints : \A id \in known'[c] :
        id \in known[c] \/ (Holding(r) /\ c = r[1] /\ id = call[r].id)
  BY <1>1, ConfirmationStep DEF Holding
<1>3. /\ ~Holding(r)'
      /\ \A s \in Requests \ {r} : (Holding(s)' <=> Holding(s)) /\ call'[s].id = call[s].id
  BY <1>1 DEF Holding
<1>4. Marks'
  BY <1>1 DEF MarksNow, Marks, MarkAgrees, OpenTransactions
<1>5. HeldOnce'
  <2>1. \A s, q \in Requests :
          (Holding(s) /\ Holding(q) /\ call[s].id = call[q].id)' => s = q
    BY <1>3 DEF MarksNow, HeldOnce
  <2>2. \A s \in Requests, d \in ChargePoints : Holding(s)' => call'[s].id \notin known'[d]
    BY <1>2, <1>3 DEF MarksNow, HeldOnce
  <2>3. \A d, e \in ChargePoints : d # e => known'[d] \cap known'[e] = {}
    BY <1>2 DEF MarksNow, HeldOnce
  <2> QED
    BY <2>1, <2>2, <2>3 DEF HeldOnce
<1>6. HeldAreOld'
  BY <1>1, <1>2, <1>3 DEF MarksNow, HeldAreOld, HeldBelow, At
<1>7. HeldNotEnded'
  BY <1>1, <1>2, <1>3 DEF MarksNow, HeldNotEnded
<1>8. ConnectorFree'
  BY <1>1 DEF MarksNow, ConnectorFree, Window
<1> QED
  BY <1>4, <1>5, <1>6, <1>7, <1>8 DEF MarksNow

\* The connector that the check finds free stays so: no other handler is past it.
LEMMA MarksFree ==
  ASSUME TypeOK, MarksNow, NEW r \in Requests, StartFree(r), raced' = "no"
  PROVE  MarksNow'
<1> USE DEF TypeOK
<1> DEFINE p == <<r[1], chargePoints[r[1]]>>
<1>1. /\ UNCHANGED <<current, transactions, nextTransactionId, known>>
      /\ call[r].pc = "entered" /\ call[r].kind = "start"
      /\ call'[r].pc = "take" /\ call'[r].kind = "start"
      /\ call'[r].info = chargePoints[r[1]] /\ call'[r].connector = call[r].connector
      /\ \A s \in Requests \ {r} : call'[s] = call[s]
  BY DEF StartFree, objectVars, handlerFrame, At, CallTypeOK, Call
<1>2. \A s \in Requests : call[s].pc \notin Window
  BY DEF StartFree
<1>3. /\ \A s \in Requests : Holding(s)' => Holding(s) /\ call'[s].id = call[s].id
      /\ \A s \in Requests : ~At(s, "commit")'
  BY <1>1, <1>2 DEF Holding, At, Window
<1>4. current[p][call[r].connector] = -1 /\ chargePoints[r[1]] # 0
  <2>1. p \in Connections /\ call[r].connector \in Connectors
    BY <1>1 DEF StartFree, RegistryTypeOK, Connections, Requests, CallTypeOK
  <2>2. current[p][call[r].connector] \in Nat \cup {-1}
    BY <2>1 DEF ObjectTypeOK
  <2> QED
    BY <2>2 DEF StartFree, Busy
<1>5. Marks' /\ HeldOnce' /\ HeldNotEnded'
  BY <1>1, <1>3 DEF MarksNow, Marks, MarkAgrees, OpenTransactions, HeldOnce, HeldNotEnded
<1>6. HeldAreOld'
  BY <1>1, <1>3 DEF MarksNow, HeldAreOld, HeldBelow
<1>7. ConnectorFree'
  BY <1>1, <1>2, <1>4 DEF ConnectorFree
<1> QED
  BY <1>5, <1>6, <1>7 DEF MarksNow

LEMMA MarksStore ==
  ASSUME TypeOK, LedgerNow, MarksNow, NEW r \in Requests, StartStore(r)
  PROVE  MarksNow'
<1> USE DEF TypeOK
<1>1. /\ UNCHANGED <<current, transactions, known>>
      /\ nextTransactionId' = nextTransactionId + 1 /\ nextTransactionId \in Nat
      /\ call[r].pc = "store" /\ call'[r].pc = "commit" /\ call'[r].id = nextTransactionId
      /\ call'[r].info = call[r].info /\ call'[r].connector = call[r].connector
      /\ \A s \in Requests \ {r} : call'[s] = call[s] /\ call[s].pc \notin Window
  BY DEF StartStore, objectVars, handlerFrame, Goto, At, CallTypeOK, Call, CounterTypeOK,
     LedgerNow, WindowIds, OneStarter, Window
<1>2. /\ \A s \in Requests : Holding(s)' => Holding(s) /\ call'[s].id = call[s].id
      /\ \A s \in Requests : At(s, "commit")' => s = r
  BY <1>1 DEF Holding, At, Window
<1>3. /\ \A s \in Requests : call[s].id \in Nat
      /\ \A c \in ChargePoints : known[c] \subseteq Nat
  BY DEF CallTypeOK, Call, CounterTypeOK
<1>4. Marks' /\ HeldOnce' /\ HeldNotEnded'
  BY <1>1, <1>2 DEF MarksNow, Marks, MarkAgrees, OpenTransactions, HeldOnce, HeldNotEnded
<1>5. HeldAreOld'
  <2>1. HeldBelow(nextTransactionId)
    BY DEF MarksNow, HeldAreOld
  <2> QED
    BY <1>1, <1>2, <1>3, <2>1 DEF HeldAreOld, HeldBelow
<1>6. ConnectorFree'
  BY <1>1 DEF MarksNow, ConnectorFree, Window
<1> QED
  BY <1>4, <1>5, <1>6 DEF MarksNow

\* A transaction is opened on the connector found free, under an id nobody holds.
LEMMA MarksCommit ==
  ASSUME TypeOK, LedgerNow, MarksNow, NEW r \in Requests, StartCommit(r)
  PROVE  MarksNow'
<1> USE DEF TypeOK
<1> DEFINE p  == <<r[1], call[r].info>>
           id == call[r].id
           k  == call[r].connector
<1>1. /\ UNCHANGED <<nextTransactionId, known>>
      /\ call[r].pc = "commit" /\ call'[r].pc = "notify" /\ call'[r].id = id
      /\ id + 1 = nextTransactionId /\ id \in Nat
      /\ call[r].kind = "start" /\ k \in Connectors
      /\ \A s \in Requests \ {r} : call'[s] = call[s] /\ call[s].pc \notin Window
  BY DEF StartCommit, handlerFrame, Goto, At, CallTypeOK, Call, LedgerNow, WindowIds,
     OneStarter, Window
<1>2. StoredBelow(id) /\ HeldBelow(id)
  BY <1>1 DEF LedgerNow, StoredAreOld, MarksNow, HeldAreOld, At
<1>3. p \in Connections /\ current[p][k] = -1
  <2>1. call[r].info # 0 /\ current[p][k] = -1
    BY <1>1 DEF MarksNow, ConnectorFree, Window
  <2>2. call[r].info \in 0 .. MaxConnections
    BY DEF CallTypeOK, Call
  <2>3. r[1] \in ChargePoints
    BY DEF Requests
  <2> QED
    BY <2>1, <2>2, <2>3, ConstantsAssumption DEF Connections, ConstantsAssumption
<1>4. PICK new : /\ new.id = id /\ new.connector = k /\ new.phase = "open"
                 /\ transactions' = [transactions EXCEPT
                       ![p] = {t \in @ : t.id # id} \cup {new}]
  BY DEF StartCommit
<1>5. /\ \A o \in Connections : \A t \in transactions[o] : t.id \in Nat /\ t.id < id
      /\ \A s \in Requests : call[s].id \in Nat
      /\ \A c \in ChargePoints : known[c] \subseteq Nat
  BY <1>2 DEF StoredBelow, ObjectTypeOK, Transaction, CallTypeOK, Call, CounterTypeOK
<1>6. \A o \in Connections : transactions'[o] =
        IF o = p THEN transactions[o] \cup {new} ELSE transactions[o]
  <2>1. \A t \in transactions[p] : t.id # id
    BY <1>1, <1>3, <1>5
  <2>2. {t \in transactions[p] : t.id # id} = transactions[p]
    BY <2>1
  <2>3. transactions' = [transactions EXCEPT ![p] = transactions[p] \cup {new}]
    BY <2>2, <1>4
  <2> QED
    BY <1>3, <2>3 DEF ObjectTypeOK
<1>7. \A o \in Connections, j \in Connectors : current'[o][j] =
        IF o = p /\ j = k THEN id ELSE current[o][j]
  BY <1>1, <1>3 DEF StartCommit, ObjectTypeOK
<1>8. /\ \A s \in Requests \ {r} : (Holding(s)' <=> Holding(s)) /\ call'[s].id = call[s].id
      /\ \A s \in Requests : call'[s].pc \notin Window
  BY <1>1 DEF Holding, Window
<1>9. Marks'
  <2> SUFFICES ASSUME NEW o \in Connections, NEW j \in Connectors PROVE MarkAgrees(o, j)'
    BY DEF Marks
  <2>1. MarkAgrees(o, j)
    BY DEF MarksNow, Marks
  <2>2. CASE o = p /\ j = k
    <3>1. \A t \in OpenTransactions(o) : t.connector # k
      BY <2>1, <2>2, <1>3, <1>5 DEF MarkAgrees, OpenTransactions
    <3>2. current'[o][j] = id /\ transactions'[o] = transactions[o] \cup {new}
      BY <2>2, <1>6, <1>7
    <3> QED
      BY <2>2, <1>4, <3>1, <3>2 DEF MarkAgrees, OpenTransactions
  <2>3. CASE o = p /\ j # k
    <3>1. current'[o][j] = current[o][j] /\ transactions'[o] = transactions[o] \cup {new}
      BY <2>3, <1>6, <1>7
    <3> QED
      BY <2>1, <2>3, <1>4, <3>1 DEF MarkAgrees, OpenTransactions
  <2>4. CASE o # p
    BY <2>1, <2>4, <1>6, <1>7 DEF MarkAgrees, OpenTransactions
  <2> QED
    BY <2>2, <2>3, <2>4
<1>10. HeldOnce'
  <2>1. \A s \in Requests : Holding(s) => call[s].id # id
    BY <1>1, <1>2, <1>5 DEF HeldBelow
  <2>2. \A c \in ChargePoints : id \notin known[c]
    BY <1>1, <1>2, <1>5 DEF HeldBelow
  <2> QED
    BY <1>1, <1>8, <2>1, <2>2 DEF MarksNow, HeldOnce
<1>11. HeldAreOld'
  <2>1. HeldBelow(nextTransactionId)'
    BY <1>1, <1>2, <1>5, <1>8 DEF HeldBelow
  <2> QED
    BY <1>8, <2>1 DEF HeldAreOld, At, Window
<1>12. HeldNotEnded'
  <2> SUFFICES ASSUME NEW o \in Connections, NEW t \in transactions'[o], t.phase = "ended"
               PROVE  /\ \A s \in Requests : Holding(s)' => call'[s].id # t.id
                      /\ \A c \in ChargePoints : t.id \notin known'[c]
    BY DEF HeldNotEnded
  <2>1. t \in transactions[o]
    BY <1>4, <1>6
  <2> QED
    BY <2>1, <1>1, <1>5, <1>8 DEF MarksNow, HeldNotEnded
<1>13. ConnectorFree'
  BY <1>8 DEF ConnectorFree
<1> QED
  BY <1>9, <1>10, <1>11, <1>12, <1>13 DEF MarksNow

\* A stop ends the transaction that its connector has, and nobody else holds it.
LEMMA MarksStop ==
  ASSUME TypeOK, LedgerNow, MarksNow, NEW r \in Requests, StopFound(r)
  PROVE  MarksNow'
<1> USE DEF TypeOK
<1> DEFINE p == <<r[1], chargePoints[r[1]]>>
<1>1. /\ UNCHANGED <<nextTransactionId, known>>
      /\ Holding(r) /\ ~Holding(r)' /\ call'[r].pc = "notify"
      /\ \A s \in Requests \ {r} : call'[s] = call[s]
  BY DEF StopFound, handlerFrame, Goto, At, Holding, CallTypeOK, Call
<1>2. p \in Connections
  BY DEF StopFound, RegistryTypeOK, Connections, Requests
<1>3. PICK t \in transactions[p] :
        /\ t.id = call[r].id
        /\ current' = [current EXCEPT ![p][t.connector] = -1]
        /\ transactions' = [transactions EXCEPT
              ![p] = (@ \ {t}) \cup {[t EXCEPT !.phase = "ended"]}]
  BY DEF StopFound
<1>4. t \in Transaction
  BY <1>2 DEF ObjectTypeOK
<1>5. PICK u : u = [t EXCEPT !.phase = "ended"] /\ u.id = t.id /\ u.phase = "ended"
  BY <1>4 DEF Transaction
<1>6. \A o \in Connections : transactions'[o] =
        IF o = p THEN (transactions[o] \ {t}) \cup {u} ELSE transactions[o]
  BY <1>2, <1>3, <1>5 DEF ObjectTypeOK
<1>7. \A o \in Connections, j \in Connectors : current'[o][j] =
        IF o = p /\ j = t.connector THEN -1 ELSE current[o][j]
  BY <1>2, <1>3, <1>4 DEF ObjectTypeOK, Transaction
<1>8. t \in OpenTransactions(p) /\ current[p][t.connector] = t.id
  <2>1. t.phase # "ended"
    BY <1>1, <1>2, <1>3 DEF MarksNow, HeldNotEnded
  <2>2. t \in OpenTransactions(p) /\ t.connector \in Connectors
    BY <2>1, <1>4 DEF OpenTransactions, Transaction
  <2> QED
    BY <2>2, <1>2 DEF MarksNow, Marks, MarkAgrees
<1>9. \A o \in Connections : OpenTransactions(o)' =
        IF o = p THEN OpenTransactions(o) \ {t} ELSE OpenTransactions(o)
  BY <1>5, <1>6 DEF OpenTransactions
<1>10. Marks'
  <2> SUFFICES ASSUME NEW o \in Connections, NEW j \in Connectors PROVE MarkAgrees(o, j)'
    BY DEF Marks
  <2>1. MarkAgrees(o, j)
    BY DEF MarksNow, Marks
  <2>2. CASE o = p /\ j = t.connector
    <3>1. \A v \in OpenTransactions(p) : v.connector = j => v = t
      BY <2>1, <2>2, <1>2, <1>8 DEF MarkAgrees, LedgerNow, Distinct, OpenTransactions
    <3> QED
      BY <2>2, <3>1, <1>7, <1>9 DEF MarkAgrees
  <2>3. CASE o = p /\ j # t.connector
    BY <2>1, <2>3, <1>7, <1>9 DEF MarkAgrees
  <2>4. CASE o # p
    BY <2>1, <2>4, <1>7, <1>9 DEF MarkAgrees
  <2> QED
    BY <2>2, <2>3, <2>4
<1>11. \A s \in Requests :
         Holding(s)' => s # r /\ Holding(s) /\ call'[s].id = call[s].id
  BY <1>1 DEF Holding
<1>12. HeldOnce'
  BY <1>1, <1>11 DEF MarksNow, HeldOnce
<1>13. HeldAreOld'
  BY <1>1, <1>11 DEF MarksNow, HeldAreOld, HeldBelow, At
<1>14. HeldNotEnded'
  <2> SUFFICES ASSUME NEW o \in Connections, NEW v \in transactions'[o], v.phase = "ended"
               PROVE  /\ \A s \in Requests : Holding(s)' => call'[s].id # v.id
                      /\ \A c \in ChargePoints : v.id \notin known'[c]
    BY DEF HeldNotEnded
  <2>1. CASE v \in transactions[o]
    BY <2>1, <1>1, <1>11 DEF MarksNow, HeldNotEnded
  <2>2. CASE v = u
    BY <2>2, <1>1, <1>3, <1>5, <1>11 DEF MarksNow, HeldOnce
  <2> QED
    BY <2>1, <2>2, <1>6
<1>15. ConnectorFree'
  <2> SUFFICES ASSUME NEW s \in Requests, call'[s].pc \in Window
               PROVE  /\ call'[s].info # 0
                      /\ current'[<<s[1], call'[s].info>>][call'[s].connector] = -1
    BY DEF ConnectorFree
  <2>1. call'[s] = call[s]
    BY <1>1 DEF Window
  <2>2. /\ call[s].info # 0
        /\ current[<<s[1], call[s].info>>][call[s].connector] = -1
    BY <2>1 DEF MarksNow, ConnectorFree
  <2>3. <<s[1], call[s].info>> \in Connections /\ call[s].connector \in Connectors
    BY <2>1, <2>2 DEF Connections, Requests, CallTypeOK, Call
  <2> QED
    BY <2>1, <2>2, <2>3, <1>7
<1> QED
  BY <1>10, <1>12, <1>13, <1>14, <1>15 DEF MarksNow

LEMMA MarksInvStep == TypeOK /\ LedgerInv /\ MarksInv /\ [Next]_vars => MarksInv'
<1> SUFFICES ASSUME TypeOK, LedgerInv, MarksInv, [Next]_vars, raced' = "no", ~Resend
             PROVE  MarksNow'
  BY DEF MarksInv, BusyIffOpen, MarksNow, Marks, MarkAgrees
<1> USE DEF TypeOK
<1>1. raced = "no"
  <2>1. raced' = raced \/ \E r \in Requests : StartFree(r)
    BY DEF Next, Open, Close, Receive, Callback, NewChargePoint, ChargePointDisconnected,
       Handle, Authorize, Event, NotSupported, UnknownChargePoint, StatusNotification,
       StartBusy, StartTakeId, StartLoad, StartStore, StartCommit, StopFound, StopUnknown,
       SendConfirmation, SendError, Handoff, Publish, Idle, vars
  <2> QED
    BY <2>1 DEF StartFree
<1>2. MarksNow /\ LedgerNow
  BY <1>1, MarksParts, LedgerParts
<1>3. ASSUME \/ \E c \in ChargePoints : Open(c) \/ Close(c)
             \/ \E o \in Connections : Callback(o)
             \/ Publish \/ UNCHANGED vars
      PROVE  MarksNow'
  <2>1. UNCHANGED <<call, current, transactions, nextTransactionId, known>>
    BY <1>3 DEF Open, Close, Callback, NewChargePoint, ChargePointDisconnected, Publish,
       objectVars, vars
  <2> QED
    BY <1>2, <2>1, MarksStay, KeptIfSame
<1>4. ASSUME NEW c \in ChargePoints, NEW in \in Inputs(c), Receive(c, in) PROVE MarksNow'
  BY <1>2, <1>4, MarksReceive
<1>5. ASSUME NEW r \in Requests,
             \/ Authorize(r) \/ Event(r) \/ NotSupported(r) \/ UnknownChargePoint(r)
             \/ StatusNotification(r) \/ StartBusy(r) \/ StopUnknown(r)
             \/ SendError(r) \/ Handoff(r)
      PROVE  MarksNow'
  <2>1. UNCHANGED <<current, transactions, nextTransactionId, known>>
    BY <1>5 DEF Authorize, Event, NotSupported, UnknownChargePoint, StatusNotification,
       StartBusy, StopUnknown, SendError, Handoff, objectVars, handlerFrame
  <2>2. \A s \in Requests \ {r} : call'[s] = call[s]
    BY <1>5 DEF Authorize, Event, NotSupported, UnknownChargePoint, StatusNotification,
       StartBusy, StopUnknown, SendError, Handoff, Goto, CallTypeOK
  <2>3. call'[r].pc \in {"refuse", "refused", "confirm", "notify"}
    BY <1>5 DEF Authorize, Event, NotSupported, UnknownChargePoint, StatusNotification,
       StartBusy, StopUnknown, SendError, Handoff, Goto, CallTypeOK, Call
  <2>4. Holding(r)' => Holding(r) /\ call'[r].id = call[r].id
    BY <1>5 DEF Authorize, Event, NotSupported, UnknownChargePoint, StatusNotification,
       StartBusy, StopUnknown, SendError, Handoff, Goto, At, Holding, CallTypeOK, Call
  <2>5. Kept(r)
    BY <2>3, <2>4 DEF Kept, At, Window
  <2> QED
    BY <1>2, <2>1, <2>2, <2>5, MarksStay, KeptIfSame
<1>6. ASSUME NEW r \in Requests, SendConfirmation(r) PROVE MarksNow'
  BY <1>2, <1>6, MarksConfirm
<1>7. ASSUME NEW r \in Requests, StartFree(r) PROVE MarksNow'
  BY <1>2, <1>7, MarksFree
<1>8. ASSUME NEW r \in Requests, StartTakeId(r) \/ StartLoad(r) PROVE MarksNow'
  <2>1. UNCHANGED <<current, transactions, nextTransactionId, known>>
    BY <1>8 DEF StartTakeId, StartLoad, objectVars, handlerFrame
  <2>2. \A s \in Requests \ {r} : call'[s] = call[s]
    BY <1>8 DEF StartTakeId, StartLoad, CallTypeOK
  <2>3. Kept(r)
    BY <1>8 DEF StartTakeId, StartLoad, Kept, Holding, At, Window, CallTypeOK, Call
  <2> QED
    BY <1>2, <2>1, <2>2, <2>3, MarksStay, KeptIfSame
<1>9. ASSUME NEW r \in Requests, StartStore(r) PROVE MarksNow'
  BY <1>2, <1>9, MarksStore
<1>10. ASSUME NEW r \in Requests, StartCommit(r) PROVE MarksNow'
  BY <1>2, <1>10, MarksCommit
<1>11. ASSUME NEW r \in Requests, StopFound(r) PROVE MarksNow'
  BY <1>2, <1>11, MarksStop
<1> QED
  BY <1>3, <1>4, <1>5, <1>6, <1>7, <1>8, <1>9, <1>10, <1>11 DEF Next, Handle, Idle

LEMMA MarksInitially == Init => MarksInv
BY DEF Init, MarksInv, BusyIffOpen, OpenTransactions, HeldOnce, HeldAreOld, HeldBelow,
   HeldNotEnded, ConnectorFree, Holding, At, Window, NoCall

\* While StartTransaction handlers do not overlap and stops are not repeated, an
\* id may be stopped by one request or charge point at a time, and only once.
THEOREM MarksHeld == Spec => []MarksInv
BY MarksInitially, MarksInvStep, LedgerHeld, TypeCorrect, PTL DEF Spec

\* A connector is marked busy exactly with its one open transaction, unless
\* StartTransaction handlers overlapped or stops may be repeated.
THEOREM MarksAgree == Spec => []BusyIffOpen
<1>1. MarksInv => BusyIffOpen
  BY DEF MarksInv
<1> QED
  BY <1>1, MarksHeld, PTL

=============================================================================
