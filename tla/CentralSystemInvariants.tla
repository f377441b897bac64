----------------------- MODULE CentralSystemInvariants -----------------------
(* Inductive invariants of CentralSystem, behind the theorems of             *)
(* CentralSystemProofs.  Each is stronger than the property it is for.       *)
EXTENDS CentralSystem

-----------------------------------------------------------------------------
(* For StopAfterStart.                                                      *)

\* The charge points, and their transaction ids, that a set of notifications
\* says were started.
StartsIn(msgs) ==
    {<<m.cp, m.id>> : m \in {s \in msgs : s.topic = "start"}}

\* Who can still cause a stop.transaction: a charge point that was told the id,
\* a StopTransaction under way, a StartTransaction about to answer the id.
StoppableIn(starts) ==
    /\ \A c \in ChargePoints : \A id \in known[c] : <<c, id>> \in starts
    /\ \A r \in Requests : Live(r) /\ call[r].kind = "stop"
                             => <<r[1], call[r].id>> \in starts
    /\ \A r \in Requests : At(r, "confirm") /\ call[r].kind = "start"
                             => <<r[1], call[r].id>> \in starts

StopsFollow(msgs) ==
    \A m \in Handed : m.topic = "stop" => <<m.cp, m.id>> \in StartsIn(msgs)

\* Whoever can still cause a stop.transaction to be published holds an id whose
\* start.transaction the notifier has already received; and a stop.transaction
\* in the notifier finds it published.
StopInv == StoppableIn(StartsIn(Handed)) /\ StopsFollow(published)

-----------------------------------------------------------------------------
(* For OrderPreserved.                                                      *)

\* A handler that may still hand a notification to the notifier.
MayNotify(r) == call[r].pc \in {"entered", "notify"} \cup Window

OneLivePerLink ==
    \A r, s \in Requests :
      Live(r) /\ Live(s) /\ r[1] = s[1] /\ call[r].link = call[s].link => r = s

IssuedAreSent ==
    /\ \A r \in Requests : call[r].pc # "unsent" => r[2] <= issued[r[1]]
    /\ \A m \in Handed : m.n <= issued[m.cp]

LiveAreLater ==
    \A r \in Requests, m \in Handed :
      MayNotify(r) /\ m.cp = r[1] /\ m.link = call[r].link => m.n < r[2]

PumpIsLater ==
    \A m \in pump, p \in published : p.cp = m.cp /\ p.link = m.link => p.n < m.n

\* If charge points wait for their answers, a connection has one request under
\* way, newer than all that the notifier has received from that connection; and
\* what the notifier holds is newer than all it has published.
OrderInv ==
    /\ IssuedAreSent
    /\ ~Pipelining => OneLivePerLink /\ LiveAreLater /\ PumpIsLater

-----------------------------------------------------------------------------
(* For RegistryMirrors.                                                     *)

Pending(c, e) == <<c, e>> \in joining \cup leaving

\* Connections are opened one after the other, and only the last may be open.
OpenIsLast(c) ==
    /\ link[c] \in {0, opened[c]}
    /\ link[c] # 0 => <<c, link[c]>> \notin leaving
    /\ chargePoints[c] <= opened[c]
    /\ \A e \in 1 .. MaxConnections : Pending(c, e) => e <= opened[c]

\* The connect callbacks that have yet to run are those of the last connections,
\* and each of these is open or its disconnect callback has yet to run, too.
JoinsInOrder(c) ==
    \A e \in 1 .. opened[c] : <<c, e>> \in joining =>
      /\ e = link[c] \/ <<c, e>> \in leaving
      /\ \A f \in e .. opened[c] : <<c, f>> \in joining

\* The registered object is that of the last connect callback that ran, and its
\* connection is open or about to leave; without one, none of those is.
EntryIsLatest(c) ==
    \A e \in 1 .. opened[c] :
      /\ e < chargePoints[c] => ~Pending(c, e)
      /\ e = chargePoints[c] =>
           <<c, e>> \notin joining /\ (link[c] = e \/ <<c, e>> \in leaving)
      /\ e > chargePoints[c] =>
           \/ <<c, e>> \in joining
           \/ chargePoints[c] = 0 /\ <<c, e>> \notin leaving /\ link[c] # e

\* The registry follows the connections of a charge point through any number of
\* pending callbacks, as long as they run in order.
RegistryInv ==
    /\ \A c \in ChargePoints : OpenIsLast(c)
    /\ \A c \in ChargePoints \ crossed : JoinsInOrder(c) /\ EntryIsLatest(c)

-----------------------------------------------------------------------------
(* For UniqueIds.                                                           *)

OneStarter ==
    \A r, s \in Requests : call[r].pc \in Window /\ call[s].pc \in Window => r = s

\* How the id a StartTransaction takes relates to the counter it advances.
WindowIds ==
    \A r \in Requests :
      /\ At(r, "load") => call[r].id = nextTransactionId
      /\ At(r, "store") => call[r].id = nextTransactionId /\ call[r].seen = nextTransactionId
      /\ At(r, "commit") => call[r].id + 1 = nextTransactionId

StoredBelow(n) == \A o \in Connections : \A t \in transactions[o] : t.id < n

\* A StartTransaction stores an id above all that are stored.
StoredAreOld ==
    /\ StoredBelow(nextTransactionId)
    /\ \A r \in Requests : At(r, "commit") => StoredBelow(call[r].id)

\* While StartTransaction handlers do not overlap, the one that is past its busy
\* check has the counter for itself.
LedgerInv == /\ UniqueIds
             /\ raced = "no" => OneStarter /\ WindowIds /\ StoredAreOld

-----------------------------------------------------------------------------
(* For BusyIffOpen.                                                         *)

\* A StartTransaction to be answered with an id, a StopTransaction to be handled.
Holding(r) == \/ call[r].kind = "start" /\ call[r].pc \in {"notify", "confirm"}
              \/ call[r].kind = "stop" /\ call[r].pc = "entered"

\* An id that may still be stopped is with one request or one charge point.
HeldOnce ==
    /\ \A r, s \in Requests :
         Holding(r) /\ Holding(s) /\ call[r].id = call[s].id => r = s
    /\ \A r \in Requests, c \in ChargePoints : Holding(r) => call[r].id \notin known[c]
    /\ \A c, d \in ChargePoints : c # d => known[c] \cap known[d] = {}

HeldBelow(n) ==
    /\ \A r \in Requests : Holding(r) => call[r].id < n
    /\ \A c \in ChargePoints : \A id \in known[c] : id < n

HeldAreOld ==
    /\ HeldBelow(nextTransactionId)
    /\ \A r \in Requests : At(r, "commit") => HeldBelow(call[r].id)

\* What may still be stopped has not been stopped.
HeldNotEnded ==
    \A o \in Connections : \A t \in transactions[o] : t.phase = "ended" =>
      /\ \A r \in Requests : Holding(r) => call[r].id # t.id
      /\ \A c \in ChargePoints : t.id \notin known[c]

\* The connector a StartTransaction found free stays free until it takes it.
ConnectorFree ==
    \A r \in Requests : call[r].pc \in Window =>
      /\ call[r].info # 0
      /\ current[<<r[1], call[r].info>>][call[r].connector] = -1

\* While StartTransaction handlers do not overlap and stops are not repeated, a
\* transaction is stopped once, and it is then the one its connector has.
MarksInv ==
    /\ BusyIffOpen
    /\ raced = "no" /\ ~Resend =>
         HeldOnce /\ HeldAreOld /\ HeldNotEnded /\ ConnectorFree

-----------------------------------------------------------------------------
(* For StopsReachSubscribers.                                                *)

Keeps(c, id) == \E t \in transactions[<<c, 1>>] : t.id = id

\* The object of a charge point that never reconnected keeps every transaction
\* that may still be stopped; so a stop that is confirmed found its transaction,
\* and the notifier has received it.
KeptInv ==
    \A c \in ChargePoints : opened[c] <= 1 =>
      /\ \A id \in known[c] : Keeps(c, id)
      /\ \A r \in Requests : r[1] = c =>
           /\ call[r].pc \in Window => call[r].info = 1
           /\ Holding(r) => Keeps(c, call[r].id)
           /\ call[r].kind = "stop" /\ call[r].pc \in {"confirm", "confirmed"}
                => Notification(r) \in Handed

-----------------------------------------------------------------------------
(* For StatusAgrees.                                                         *)

\* The notifications the notifier received or that handlers are handing to it.
Made == Handed \cup {Notification(r) : r \in {s \in Requests : At(s, "notify")}}

SameStatus(p, m) ==
    p.topic = "status" /\ p.cp = m.cp /\ p.link = m.link /\ p.connector = m.connector

StoredAreMade ==
    \A o \in Connections, k \in Places : \A m \in status[o][k] :
      m \in Made /\ m.topic = "status" /\ m.cp = o[1] /\ m.connector = k

\* No handler has reached the object of a connection before it is connected.
ObjectsAreNew ==
    /\ \A c \in ChargePoints : <<c, chargePoints[c]>> \notin joining
    /\ \A o \in Connections : o \in joining \/ o[2] > opened[o[1]] =>
         \A k \in Places : status[o][k] = {}

LastIsStored ==
    \A o \in Connections, k \in Places : chargePoints[o[1]] = o[2] =>
      \A m \in status[o][k] : m.link = o[2] =>
        \A p \in Made : SameStatus(p, m) => p.n <= m.n

\* What is stored is notified; and, if charge points wait for their answers, it
\* is the last that the registered connection reported.
StatusInv == /\ StoredAreMade /\ ObjectsAreNew
             /\ ~Pipelining => LastIsStored

=============================================================================
