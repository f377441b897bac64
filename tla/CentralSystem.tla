---------------------------- MODULE CentralSystem ----------------------------
(***************************************************************************)
(* The half of the program that charge points talk to: the registry of     *)
(* charge points kept by the connection callbacks of main.go, the OCPP     *)
(* request handlers of CentralSystemHandler.go, and the goroutine of the   *)
(* NATS notifier that drains the notification channel.                     *)
(*                                                                         *)
(* The websocket and OCPP layers are external.  As main.go uses them, they *)
(* run the connect and disconnect callback of a connection, and every      *)
(* incoming request, in goroutines of their own; no lock orders them.      *)
(*                                                                         *)
(* Simplifications: requests that only notify (boot, heartbeat, data       *)
(* transfer, meter values) are one kind, "event"; payload fields no code   *)
(* reads back (vendor, meter readings, time stamps, error codes) are left  *)
(* out; Publish is the call made to NATS, not the delivery.                *)
(***************************************************************************)
EXTENDS Integers, FiniteSets

CONSTANTS ChargePoints,    \* ids of the charge points
          Connectors,      \* numbers of the connectors of a charge point
          Kinds,           \* the kinds of request that charge points send
          MaxRequests,     \* bound: requests sent by each charge point
          MaxConnections,  \* bound: connections opened by each charge point
          Pipelining,      \* may a charge point not wait for the last answer?
          Resend           \* may a charge point repeat a StopTransaction?

AllKinds == {"authorize", "event", "status", "start", "stop", "firmware"}

ASSUME ConstantsAssumption ==
    /\ Connectors \subseteq Nat \ {0}
    /\ Kinds \subseteq AllKinds
    /\ MaxRequests \in Nat
    /\ MaxConnections \in Nat
    /\ Pipelining \in BOOLEAN
    /\ Resend \in BOOLEAN

VARIABLES
    \* the program
    chargePoints,       \* the registry: the object of a charge point, 0 if none
    current,            \* Connector.currentTransaction of every object
    transactions,       \* ChargePoint.transactions of every object
    status,             \* the last status stored for a connector (0: the whole)
    nextTransactionId,  \* the package variable of that name
    call,               \* the goroutine that handles a request
    pump,               \* what notificationFromCentralSystem has received
    \* the environment
    link,               \* the open connection of a charge point, 0 if none
    opened,             \* how many connections a charge point has opened
    issued,             \* how many requests a charge point has sent
    known,              \* the transaction ids a charge point may still stop
    joining,            \* connections whose connect callback has yet to run
    leaving,            \* connections whose disconnect callback has yet to run
    \* history
    published,          \* the notifications passed to connection.Publish
    raced,              \* "yes" once two StartTransaction handlers overlapped
    crossed             \* charge points with an entry left by callbacks out of order

registryVars == <<chargePoints, link, opened, joining, leaving, crossed>>
objectVars   == <<current, transactions, status>>
vars == <<registryVars, objectVars, nextTransactionId, call, pump,
          issued, known, published, raced>>

-----------------------------------------------------------------------------
(* Connection e of charge point c gets the ChargePoint object <<c, e>>; a   *)
(* request is named by its charge point and its number there.               *)

Connections == ChargePoints \X (1 .. MaxConnections)
Requests    == ChargePoints \X (1 .. MaxRequests)
Places      == Connectors \cup {0}

Transaction == [id : Nat, connector : Connectors,
                phase : {"open", "ended"}]

Message == [topic : AllKinds, cp : ChargePoints, n : 1 .. MaxRequests,
            link : 0 .. MaxConnections, connector : Places, id : Nat]

\* Where a handler goroutine is: "take" to "commit" is the body of
\* OnStartTransaction after its busy check, "notify" is blocked on the
\* channel, "confirm" and "refuse" have returned to the OCPP layer.
Window   == {"take", "load", "store", "commit"}
Answered == {"confirmed", "refused"}
PCs      == {"unsent", "entered", "notify", "confirm", "refuse"}
                \cup Window \cup Answered

Call == [pc : PCs, kind : AllKinds, link : 0 .. MaxConnections,
         connector : Places, id : Nat, seen : Nat, info : 0 .. MaxConnections]

NoCall == [pc |-> "unsent", kind |-> "event", link |-> 0,
           connector |-> 0, id |-> 0, seen |-> 0, info |-> 0]

At(r, label)  == call[r].pc = label
Live(r)       == call[r].pc \notin Answered \cup {"unsent"}
Goto(r, label) == call' = [call EXCEPT ![r].pc = label]

Notification(r) ==
    [topic |-> call[r].kind, cp |-> r[1], n |-> r[2], link |-> call[r].link,
     connector |-> call[r].connector, id |-> call[r].id]

Handed == published \cup pump

RegistryTypeOK ==
    /\ chargePoints \in [ChargePoints -> 0 .. MaxConnections]
    /\ link \in [ChargePoints -> 0 .. MaxConnections]
    /\ opened \in [ChargePoints -> 0 .. MaxConnections]
    /\ joining \in SUBSET Connections
    /\ leaving \in SUBSET Connections
    /\ crossed \in SUBSET ChargePoints

ObjectTypeOK ==
    /\ current \in [Connections -> [Connectors -> Nat \cup {-1}]]
    /\ transactions \in [Connections -> SUBSET Transaction]
    /\ status \in [Connections -> [Places -> SUBSET Message]]

NotifierTypeOK ==
    /\ pump \in SUBSET Message
    /\ \A m1, m2 \in pump : m1 = m2
    /\ published \in SUBSET Message

CounterTypeOK ==
    /\ nextTransactionId \in Nat
    /\ issued \in [ChargePoints -> 0 .. MaxRequests]
    /\ known \in [ChargePoints -> SUBSET Nat]
    /\ raced \in {"no", "yes"}

\* Only a StartTransaction enters the Window, and it names a connector.
CallTypeOK ==
    /\ call \in [Requests -> Call]
    /\ \A r \in Requests :
          /\ call[r].pc \in Window => call[r].kind = "start"
          /\ call[r].kind = "start" => call[r].connector \in Connectors

TypeOK == /\ RegistryTypeOK /\ ObjectTypeOK /\ NotifierTypeOK /\ CounterTypeOK
          /\ CallTypeOK

Init ==
    /\ chargePoints = [c \in ChargePoints |-> 0]
    /\ current = [o \in Connections |-> [k \in Connectors |-> -1]]
    /\ transactions = [o \in Connections |-> {}]
    /\ status = [o \in Connections |-> [k \in Places |-> {}]]
    /\ nextTransactionId = 0
    /\ call = [r \in Requests |-> NoCall]
    /\ pump = {}
    /\ link = [c \in ChargePoints |-> 0]
    /\ opened = [c \in ChargePoints |-> 0]
    /\ issued = [c \in ChargePoints |-> 0]
    /\ known = [c \in ChargePoints |-> {}]
    /\ joining = {}
    /\ leaving = {}
    /\ published = {}
    /\ raced = "no"
    /\ crossed = {}

-----------------------------------------------------------------------------
(* Faulty variants of operators below, as plausible slips would leave them. *)

\* the connect callback logs the connection and forgets the assignment
NewChargePointForgets(c, e) ==
    /\ <<c, e>> \in joining
    /\ joining' = joining \ {<<c, e>>}
    /\ UNCHANGED <<chargePoints, link, opened, leaving, crossed, objectVars,
                   nextTransactionId, call, pump, issued, known, published, raced>>

\* no busy check
BusyNever(r) == FALSE

\* the counter is read and never advanced
StartStoreForgets(r) ==
    /\ At(r, "store")
    /\ Goto(r, "commit")
    /\ UNCHANGED <<registryVars, objectVars, nextTransactionId, pump, issued,
                   known, published, raced>>

\* the loop receives again while earlier notifications are still unpublished
HandoffConcurrent(r) ==
    /\ At(r, "notify")
    /\ pump' = pump \cup {Notification(r)}
    /\ Goto(r, "confirm")
    /\ UNCHANGED <<registryVars, objectVars, nextTransactionId,
                   issued, known, published, raced>>

\* a select with a default case drops the notification if nobody receives
HandoffDrops(r) ==
    /\ At(r, "notify")
    /\ pump' = IF pump = {} THEN {Notification(r)} ELSE pump
    /\ Goto(r, "confirm")
    /\ UNCHANGED <<registryVars, objectVars, nextTransactionId,
                   issued, known, published, raced>>

\* the connector is marked, and the transaction not kept
StartCommitUnkept(r) ==
    /\ At(r, "commit")
    /\ current' = [current EXCEPT ![<<r[1], call[r].info>>][call[r].connector]
                     = call[r].id]
    /\ Goto(r, "notify")
    /\ UNCHANGED <<registryVars, transactions, status, nextTransactionId, pump,
                   issued, known, published, raced>>

\* the answer is made of nextTransactionId instead of transaction.id
SendConfirmationNext(r) ==
    /\ At(r, "confirm")
    /\ Goto(r, "confirmed")
    /\ known' = IF call[r].kind = "start" /\ link[r[1]] # 0
                THEN [known EXCEPT ![r[1]] = @ \cup {nextTransactionId}] ELSE known
    /\ UNCHANGED <<registryVars, objectVars, nextTransactionId, pump,
                   issued, published, raced>>

\* the loop gives up at its first error
PublishStops == pump # {} /\ UNCHANGED vars

-----------------------------------------------------------------------------
(* The connections: main.go's two callbacks, and the external layer that    *)
(* opens and closes connections and hands each callback to a goroutine.     *)

Open(c) ==
    /\ link[c] = 0
    /\ opened[c] < MaxConnections
    /\ opened' = [opened EXCEPT ![c] = @ + 1]
    /\ link' = [link EXCEPT ![c] = opened[c] + 1]
    /\ joining' = joining \cup {<<c, opened[c] + 1>>}
    /\ UNCHANGED <<chargePoints, leaving, crossed, objectVars,
                   nextTransactionId, call, pump, issued, known, published, raced>>

Close(c) ==
    /\ link[c] # 0
    /\ link' = [link EXCEPT ![c] = 0]
    /\ leaving' = leaving \cup {<<c, link[c]>>}
    /\ UNCHANGED <<chargePoints, opened, joining, crossed, objectVars,
                   nextTransactionId, call, pump, issued, known, published, raced>>

\* An object is created empty: no handler reaches <<c, e>> before this step.  The
\* entry is right again once this runs for the open connection, after all others.
NewChargePoint(c, e) ==
    /\ <<c, e>> \in joining
    /\ joining' = joining \ {<<c, e>>}
    /\ chargePoints' = [chargePoints EXCEPT ![c] = e]
    /\ crossed' = IF \E d \in 1 .. e - 1 : <<c, d>> \in joining \cup leaving
                  THEN crossed \cup {c}
                  ELSE IF link[c] = e THEN crossed \ {c} ELSE crossed
    /\ UNCHANGED <<link, opened, leaving, objectVars,
                   nextTransactionId, call, pump, issued, known, published, raced>>

\* The entry is deleted by charge point id, whichever connection made it.
ChargePointDisconnected(c, e) ==
    /\ <<c, e>> \in leaving
    /\ leaving' = leaving \ {<<c, e>>}
    /\ chargePoints' = [chargePoints EXCEPT ![c] = 0]
    /\ crossed' = IF \/ \E d \in 1 .. e : <<c, d>> \in joining
                     \/ \E d \in 1 .. e - 1 : <<c, d>> \in leaving
                  THEN crossed \cup {c} ELSE crossed
    /\ UNCHANGED <<link, opened, joining, objectVars,
                   nextTransactionId, call, pump, issued, known, published, raced>>

-----------------------------------------------------------------------------
(* A request arrives on the open connection; the OCPP layer starts a        *)
(* goroutine for it.  A charge point only stops transactions whose id it    *)
(* was told, and waits for the last answer unless Pipelining.               *)

Inputs(c) ==
    [kind : {"authorize", "event", "firmware"}, connector : {0}, id : {0}]
      \cup [kind : {"status"}, connector : Places, id : {0}]
      \cup [kind : {"start"}, connector : Connectors, id : {0}]
      \cup [kind : {"stop"}, connector : {0}, id : known[c]]

Awaited(c) == \E r \in Requests : /\ r[1] = c /\ Live(r)
                                 /\ call[r].link = link[c]

Receive(c, in) ==
    /\ link[c] # 0
    /\ issued[c] < MaxRequests
    /\ Pipelining \/ ~Awaited(c)
    /\ in.kind \in Kinds
    /\ issued' = [issued EXCEPT ![c] = @ + 1]
    /\ call' = [call EXCEPT ![<<c, issued[c] + 1>>] =
                   [NoCall EXCEPT !.pc = "entered", !.kind = in.kind,
                                  !.link = link[c], !.id = in.id,
                                  !.connector = in.connector]]
    /\ known' = IF in.kind = "stop" /\ ~Resend
                THEN [known EXCEPT ![c] = @ \ {in.id}] ELSE known
    /\ UNCHANGED <<registryVars, objectVars, nextTransactionId, pump,
                   published, raced>>

-----------------------------------------------------------------------------
(* The handlers.  Each step reads or writes one piece of shared state;      *)
(* StartCommit and StopFound write two, that no handler reads together.     *)

handlerFrame == <<registryVars, pump, issued, known, published>>

Authorize(r) ==
    /\ At(r, "entered") /\ call[r].kind = "authorize"
    /\ Goto(r, "confirm")
    /\ UNCHANGED <<handlerFrame, objectVars, nextTransactionId, raced>>

\* OnBootNotification, OnDataTransfer, OnHeartbeat, OnMeterValues.
Event(r) ==
    /\ At(r, "entered") /\ call[r].kind = "event"
    /\ Goto(r, "notify")
    /\ UNCHANGED <<handlerFrame, objectVars, nextTransactionId, raced>>

\* main() sets the core handler only: other profiles are not supported.
NotSupported(r) ==
    /\ At(r, "entered") /\ call[r].kind = "firmware"
    /\ Goto(r, "refuse")
    /\ UNCHANGED <<handlerFrame, objectVars, nextTransactionId, raced>>

UnknownChargePoint(r) ==
    /\ At(r, "entered") /\ call[r].kind \in {"status", "start", "stop"}
    /\ chargePoints[r[1]] = 0
    /\ Goto(r, "refuse")
    /\ UNCHANGED <<handlerFrame, objectVars, nextTransactionId, raced>>

StatusNotification(r) ==
    LET o == <<r[1], chargePoints[r[1]]>> IN
    /\ At(r, "entered") /\ call[r].kind = "status"
    /\ chargePoints[r[1]] # 0
    /\ status' = [status EXCEPT ![o][call[r].connector] = {Notification(r)}]
    /\ Goto(r, "notify")
    /\ UNCHANGED <<handlerFrame, current, transactions, nextTransactionId, raced>>

Busy(r) == current[<<r[1], chargePoints[r[1]]>>][call[r].connector] >= 0

StartBusy(r) ==
    /\ At(r, "entered") /\ call[r].kind = "start"
    /\ chargePoints[r[1]] # 0
    /\ Busy(r)
    /\ Goto(r, "refuse")
    /\ UNCHANGED <<handlerFrame, objectVars, nextTransactionId, raced>>

StartFree(r) ==
    /\ At(r, "entered") /\ call[r].kind = "start"
    /\ chargePoints[r[1]] # 0
    /\ ~Busy(r)
    /\ call' = [call EXCEPT ![r].pc = "take", ![r].info = chargePoints[r[1]]]
    /\ raced' = IF \E s \in Requests : call[s].pc \in Window
                THEN "yes" ELSE raced
    /\ UNCHANGED <<handlerFrame, objectVars, nextTransactionId>>

\* transaction.id = nextTransactionId
StartTakeId(r) ==
    /\ At(r, "take")
    /\ call' = [call EXCEPT ![r].pc = "load", ![r].id = nextTransactionId]
    /\ UNCHANGED <<handlerFrame, objectVars, nextTransactionId, raced>>

\* nextTransactionId += 1, not atomic: a load and a store.
StartLoad(r) ==
    /\ At(r, "load")
    /\ call' = [call EXCEPT ![r].pc = "store", ![r].seen = nextTransactionId]
    /\ UNCHANGED <<handlerFrame, objectVars, nextTransactionId, raced>>

StartStore(r) ==
    /\ At(r, "store")
    /\ nextTransactionId' = call[r].seen + 1
    /\ Goto(r, "commit")
    /\ UNCHANGED <<handlerFrame, objectVars, raced>>

\* The object is the one looked up in StartFree, registered still or not.
StartCommit(r) ==
    LET o   == <<r[1], call[r].info>>
        new == [id |-> call[r].id, connector |-> call[r].connector, phase |-> "open"]
    IN  /\ At(r, "commit")
        /\ current' = [current EXCEPT ![o][call[r].connector] = call[r].id]
        /\ transactions' = [transactions EXCEPT
              ![o] = {t \in @ : t.id # call[r].id} \cup {new}]
        /\ Goto(r, "notify")
        /\ UNCHANGED <<handlerFrame, status, nextTransactionId, raced>>

StopFound(r) ==
    LET o == <<r[1], chargePoints[r[1]]>> IN
    /\ At(r, "entered") /\ call[r].kind = "stop"
    /\ chargePoints[r[1]] # 0
    /\ \E t \in transactions[o] :
          /\ t.id = call[r].id
          /\ current' = [current EXCEPT ![o][t.connector] = -1]
          /\ transactions' = [transactions EXCEPT
                ![o] = (@ \ {t}) \cup {[t EXCEPT !.phase = "ended"]}]
    /\ Goto(r, "notify")
    /\ UNCHANGED <<handlerFrame, status, nextTransactionId, raced>>

\* A transaction the object does not hold is confirmed, and nothing is done.
StopUnknown(r) ==
    /\ At(r, "entered") /\ call[r].kind = "stop"
    /\ chargePoints[r[1]] # 0
    /\ \A t \in transactions[<<r[1], chargePoints[r[1]]>>] : t.id # call[r].id
    /\ Goto(r, "confirm")
    /\ UNCHANGED <<handlerFrame, objectVars, nextTransactionId, raced>>

-----------------------------------------------------------------------------
(* The unbuffered notification channel and the goroutine that empties it.   *)

Handoff(r) ==
    /\ At(r, "notify")
    /\ pump = {}
    /\ pump' = {Notification(r)}
    /\ Goto(r, "confirm")
    /\ UNCHANGED <<registryVars, objectVars, nextTransactionId,
                   issued, known, published, raced>>

Publish ==
    /\ \E m \in pump : /\ published' = published \cup {m}
                       /\ pump' = pump \ {m}
    /\ UNCHANGED <<registryVars, objectVars, nextTransactionId, call,
                   issued, known, raced>>

-----------------------------------------------------------------------------
(* The answer is sent to the charge point, by its id: one that reconnected   *)
(* meanwhile may have given the request up, and one that is gone misses it.  *)

SendConfirmation(r) ==
    /\ At(r, "confirm")
    /\ Goto(r, "confirmed")
    /\ \/ /\ call[r].kind = "start" /\ link[r[1]] # 0
          /\ known' = [known EXCEPT ![r[1]] = @ \cup {call[r].id}]
       \/ /\ call[r].kind = "start" => link[r[1]] # call[r].link
          /\ UNCHANGED known
    /\ UNCHANGED <<registryVars, objectVars, nextTransactionId, pump,
                   issued, published, raced>>

SendError(r) ==
    /\ At(r, "refuse")
    /\ Goto(r, "refused")
    /\ UNCHANGED <<handlerFrame, objectVars, nextTransactionId, raced>>

\* Nothing to do until a charge point acts.
Quiet == /\ pump = {} /\ joining = {} /\ leaving = {}
         /\ \A r \in Requests : ~Live(r)

Idle == Quiet /\ UNCHANGED vars

Handle(r) ==
    \/ Authorize(r) \/ Event(r) \/ NotSupported(r) \/ UnknownChargePoint(r)
    \/ StatusNotification(r)
    \/ StartBusy(r) \/ StartFree(r) \/ StartTakeId(r) \/ StartLoad(r)
    \/ StartStore(r) \/ StartCommit(r)
    \/ StopFound(r) \/ StopUnknown(r)
    \/ SendConfirmation(r) \/ SendError(r)

Callback(o) == NewChargePoint(o[1], o[2]) \/ ChargePointDisconnected(o[1], o[2])

Next ==
    \/ \E c \in ChargePoints : Open(c) \/ Close(c)
    \/ \E c \in ChargePoints : \E in \in Inputs(c) : Receive(c, in)
    \/ \E o \in Connections : Callback(o)
    \/ \E r \in Requests : Handle(r) \/ Handoff(r)
    \/ Publish
    \/ Idle

Spec == Init /\ [][Next]_vars

\* The Go scheduler runs every goroutine that can run, and a channel serves
\* the goroutines blocked on it in turn; charge points owe nothing.
Fairness ==
    /\ \A r \in Requests : WF_vars(Handle(r)) /\ SF_vars(Handoff(r))
    /\ \A o \in Connections : WF_vars(Callback(o))
    /\ WF_vars(Publish)

FairSpec == Spec /\ Fairness

-----------------------------------------------------------------------------
(* Properties.                                                              *)

OpenTransactions(o) == {t \in transactions[o] : t.phase = "open"}

\* A connector is marked busy with a transaction exactly while that is the
\* one open transaction on it (CentralSystemHandler.go:166 and :203), as long
\* as no two StartTransaction handlers overlapped and no stop is repeated.
BusyIffOpen ==
    raced = "no" /\ ~Resend =>
      \A o \in Connections, k \in Connectors :
        /\ \A t \in OpenTransactions(o) : t.connector = k => current[o][k] = t.id
        /\ current[o][k] >= 0 =>
             \E t \in OpenTransactions(o) : t.connector = k /\ t.id = current[o][k]

\* No two transactions of any objects share an id (:174), unless two
\* StartTransaction handlers overlapped at the unprotected counter.
UniqueIds ==
    raced = "no" => \A o1, o2 \in Connections :
                \A t1 \in transactions[o1], t2 \in transactions[o2] :
                  t1.id = t2.id => o1 = o2 /\ t1 = t2

\* stop.transaction of an id is published for a charge point only after
\* start.transaction of that id was (:186, :213), races and lost connections
\* included: the id is answered after the notification has been received.
StopAfterStart ==
    \A m \in published : m.topic = "stop" =>
      \E s \in published : s.topic = "start" /\ s.cp = m.cp /\ s.id = m.id

\* What one connection reports is published in the order it was sent, if the
\* charge point waits for each answer: the goroutines of its requests, the
\* channel and the loop of notificationFromCentralSystem never reorder it.
OrderStep ==
    ~Pipelining => \A m \in published' \ published, p \in published :
                     p.cp = m.cp /\ p.link = m.link => p.n < m.n

OrderPreserved == [][OrderStep]_vars

\* Once the requests of a charge point are answered and published, the status
\* stored for a connector (:140, :142) is the last that subscribers were told.
StatusAgrees ==
    ~Pipelining => \A c \in ChargePoints, k \in Places :
      LET e == link[c] IN
      /\ e # 0 /\ e = chargePoints[c]
      /\ \A m \in pump : m.cp # c
      /\ \A r \in Requests : r[1] = c => ~Live(r)
      => \A m \in status[<<c, e>>][k] : m.link = e =>
           /\ m \in published
           /\ \A p \in published : p.topic = "status" /\ p.cp = c
                                   /\ p.link = e /\ p.connector = k => p.n <= m.n

\* A confirmed StopTransaction has reached the notifier (:201, :213), as long
\* as the charge point never reconnected: a reconnection empties its object,
\* and the stop is then confirmed and forgotten.
StopsReachSubscribers ==
    \A r \in Requests :
      /\ call[r].kind = "stop" /\ At(r, "confirmed")
      /\ opened[r[1]] = 1
      => Notification(r) \in Handed

\* When its callbacks have run (main.go:109, :115), a charge point is in the
\* registry exactly under its open connection, unless they ran out of order: what
\* that did to the entry is repaired by the next connection that stays open until
\* its connect callback has run, after all callbacks before it.
RegistryMirrors ==
    \A c \in ChargePoints \ crossed :
      (\A o \in joining \cup leaving : o[1] # c) => chargePoints[c] = link[c]

\* A connector never carries two open transactions: OnStartTransaction says a
\* connector with one "is currently busy with another transaction" (:167).
OneOpenTransaction ==
    \A o \in Connections : \A t1, t2 \in OpenTransactions(o) :
      t1.connector = t2.connector => t1 = t2

\* Every request is answered: no handler stays blocked on the channel.
EveryCallAnswered ==
    \A r \in Requests : At(r, "entered") ~> call[r].pc \in Answered

\* A charge point that stays connected gets its entry, also after callbacks ran
\* out of order, unless those of this connection and earlier ones do.
ConnectedIsRegistered ==
    \A c \in ChargePoints, e \in 1 .. MaxConnections :
      link[c] = e ~> chargePoints[c] = e \/ link[c] # e \/ c \in crossed

=============================================================================
