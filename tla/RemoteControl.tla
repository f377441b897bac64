----------------------------- MODULE RemoteControl -----------------------------
(***************************************************************************)
(* Both halves of the program together, with restarts: NATS clients that   *)
(* see the notifications of CentralSystem send commands to the charge      *)
(* points through CommandBridge, RemoteStopTransaction above all.          *)
(*                                                                         *)
(* The halves run in one process, which ends with either, and share the    *)
(* connections of the OCPP library: a message reaches a charge point while *)
(* its connection is open, and is answered on that connection.  A charge   *)
(* point accepts to stop the transactions that it was told and has not     *)
(* begun to stop, and rejects other ids.                                   *)
(***************************************************************************)
EXTENDS Faults, Sequences

CONSTANTS NotObject, Words, Registered, MaxCommands,
          ClientCommands \* commands as in CommandBridge, each with the charge
                         \* point cp that it is for

VARIABLES
    requests, taken, serving, task, messages, replies, ids, crashed,
    meant,      \* the start.transaction a client answers with a command
    via         \* the connection by which a command was sent, 0 if none

\* CommandBridge, with its invariants and the lemmas about its steps.
CB == INSTANCE CommandBridgeProofs

\* What Commands and CommandBridge assume.
ASSUME RemoteAssumption ==
    /\ {CB!NoText, "tag", "Hard", "Soft"} \subseteq Words
    /\ Registered \subseteq CB!AllActions
    /\ MaxCommands \in Nat
    /\ \A c \in ClientCommands : c.payload # NotObject =>
          \A field \in DOMAIN c.payload : c.payload[field] \in CB!Value

bridgeVars == <<requests, taken, serving, task, messages, replies, ids, crashed>>
remoteVars == <<allVars, bridgeVars, meant, via>>

IsRemoteStop(n) == requests[n].action = CB!REMOTE_STOP_TRANSACTION
StopId(n)       == requests[n].payload["transactionId"].n

RemoteTypeOK ==
    /\ FaultsTypeOK
    /\ CB!TypeOK
    /\ meant \in [CB!Numbers -> SUBSET Message]
    /\ via \in [CB!Numbers -> 0 .. MaxConnections]

RemoteInit ==
    /\ FaultsInit
    /\ CB!Init
    /\ meant = [n \in CB!Numbers |-> {}]
    /\ via = [n \in CB!Numbers |-> 0]

-----------------------------------------------------------------------------
\* A client sends a command to a charge point whose start.transaction it has
\* seen; RemoteStopTransaction is about that transaction.
Ask(in) ==
    /\ CB!Publish(in)
    /\ \E m \in published :
          /\ m.topic = "start" /\ m.cp = in.cp
          /\ in.action = CB!REMOTE_STOP_TRANSACTION =>
               m.id = in.payload["transactionId"].n
          /\ meant' = [meant EXCEPT ![Len(requests) + 1] = {m}]
    /\ UNCHANGED <<allVars, via>>

\* A message goes out by the connection that its charge point has.
Act(n) ==
    LET c == requests[n].cp IN
    /\ CB!Action(n)
    /\ IF messages' = messages THEN UNCHANGED via
       ELSE link[c] # 0 /\ via' = [via EXCEPT ![n] = link[c]]
    /\ UNCHANGED <<allVars, meant>>

\* The library's error needs no answer of the charge point.
Gives(n, answer) ==
    LET c == requests[n].cp IN
    answer # "error" =>
      /\ link[c] # 0 /\ link[c] = via[n]
      /\ IsRemoteStop(n) => (answer = "Accepted" <=> StopId(n) \in known[c])

CallBack(n) ==
    /\ CB!Callback(n)
    /\ task[n].pc = "sent" =>
         Gives(n, IF crashed' THEN "MissingValue" ELSE task'[n].answer)
    /\ UNCHANGED <<allVars, meant, via>>

Relay == CB!RequestHandler /\ UNCHANGED <<allVars, meant, via>>

\* Commands that were not answered are forgotten, and so is what they did.
RestartBoth ==
    /\ Restart
    /\ taken' = Len(requests)
    /\ serving' = 0
    /\ task' = [n \in CB!Numbers |-> CB!NoTask]
    /\ ids' = [a \in CB!Numbered |-> 0]
    /\ crashed' = FALSE
    /\ UNCHANGED <<requests, messages, replies, meant, via>>

CentralStep ==
    /\ \/ Next /\ UNCHANGED faultVars
       \/ PublishFails
    /\ UNCHANGED <<bridgeVars, meant, via>>

\* The process has ended; nobody need start it again.
Ended == crashed /\ UNCHANGED remoteVars

RemoteNext ==
    \/ ~crashed /\ \/ CentralStep
                   \/ \E in \in ClientCommands : Ask(in)
                   \/ Relay
                   \/ \E n \in 1 .. Len(requests) : Act(n) \/ CallBack(n)
    \/ RestartBoth
    \/ Ended

RemoteSpec == RemoteInit /\ [][RemoteNext]_remoteVars

-----------------------------------------------------------------------------
(* Properties.                                                              *)

\* The charge point answers the remote stop n in this step.
Gets(n, answer) ==
    /\ task[n].answer = "none"
    /\ task'[n].answer = answer
    /\ IsRemoteStop(n)

Starts(c, id) ==
    {r \in Requests : r[1] = c /\ call[r].kind = "start" /\ call[r].id = id}

Stops(c, id) ==
    {r \in Requests : /\ r[1] = c /\ ~At(r, "unsent")
                      /\ call[r].kind = "stop" /\ call[r].id = id}

\* The starts of an id that this run of the process has confirmed.
Confirmed(c, id) ==
    {r \in Starts(c, id) : At(r, "confirmed") /\ era[<<c, call[r].link>>] = restarts}

\* start.transaction is published before the charge point is told the id
\* (CentralSystemHandler.go:186, :191), so that a client may be too early.  A
\* charge point rejects a remote stop (core.go:418) of a transaction of this run
\* only then, or because the answer missed it when its connection broke, or
\* because it is stopping the transaction already.
RejectedWithReason ==
    [][\A n \in 1 .. Len(requests) : Gets(n, "Rejected") =>
         \A m \in meant[n] : RunOf(m) = restarts =>
           \/ \E r \in Starts(m.cp, m.id) : \/ At(r, "confirm")
                                            \/ call[r].link # link[m.cp]
           \/ Stops(m.cp, m.id) # {}]_remoteVars

\* A remote stop that the charge point accepts is of the transaction that the
\* client saw started, which is confirmed by then, and of no other one
\* (CentralSystemHandler.go:173-174), unless StartTransaction handlers overlapped,
\* or the start or the id that the charge point holds is of a run of the process
\* before its last restart.
RightTransaction ==
    [][\A n \in 1 .. Len(requests) : Gets(n, "Accepted") =>
         \A m \in meant[n] :
           raced = "no" /\ RunOf(m) = restarts /\ m.id \notin stale[m.cp] =>
             Confirmed(m.cp, m.id) = {<<m.cp, m.n>>}]_remoteVars

\* It is then open in the charge point's object as well, so that its
\* StopTransaction will be notified (:199-213), if the charge point never
\* reconnected, waits for its answers and repeats no stop.
AcceptedIsOpen ==
    [][\A n \in 1 .. Len(requests) : Gets(n, "Accepted") =>
         \A m \in meant[n] : opened[m.cp] = 1 /\ ~Pipelining /\ ~Resend =>
           \E t \in transactions[<<m.cp, chargePoints[m.cp]>>] :
             t.id = m.id /\ t.phase = "open"]_remoteVars

-----------------------------------------------------------------------------
(* Inductive invariants, behind the theorems of RemoteControlProofs.         *)

\* A StartTransaction that the notifier has told of.
Confirming(r) == call[r].kind = "start" /\ call[r].pc \in {"confirm", "confirmed"}

\* The starts received in this run are of requests that are to be confirmed or
\* were, and nobody else is confirmed a start.
StartsAreReceived ==
    /\ \A r \in Requests : Confirming(r) => Notification(r) \in Received
    /\ \A m \in OfThisRun : m.topic = "start" =>
         Confirming(<<m.cp, m.n>>) /\ Notification(<<m.cp, m.n>>) = m

\* A charge point knows the ids that were confirmed on its open connection, if it
\* did not stop them; and it knows no others, but for those of earlier runs.
StartsAreTold ==
    /\ \A r \in Requests :
         Confirming(r) /\ At(r, "confirmed") /\ call[r].link = link[r[1]] =>
           call[r].id \in known[r[1]] \/ Stops(r[1], call[r].id) # {}
    /\ \A c \in ChargePoints : \A id \in known[c] \ stale[c] : Confirmed(c, id) # {}

HasOpen(c, id) == \E t \in transactions[<<c, 1>>] : t.id = id /\ t.phase = "open"

\* For AcceptedIsOpen: what may be stopped on the first connection is open in
\* its object, which is registered.
FirstInv ==
    ~Pipelining /\ ~Resend =>
      \A c \in ChargePoints : opened[c] = 1 /\ link[c] = 1 =>
        /\ \A id \in known[c] : HasOpen(c, id) /\ chargePoints[c] = 1
        /\ \A r \in Requests : r[1] = c =>
             /\ call[r].pc \in Window => call[r].info = 1 /\ chargePoints[c] = 1
             /\ call[r].kind = "start" /\ call[r].pc \in {"notify", "confirm"} =>
                  HasOpen(c, call[r].id) /\ chargePoints[c] = 1
             /\ call[r].kind = "stop" /\ At(r, "entered") => call[r].id \notin known[c]

\* A client means a start.transaction that was published.
MeantAreSeen ==
    \A n \in 1 .. Len(requests) :
      /\ meant[n] # {}
      /\ \A m \in meant[n] :
           /\ m \in published /\ m.topic = "start" /\ m.cp = requests[n].cp
           /\ IsRemoteStop(n) => m.id = StopId(n)

\* What a client means, what the notifier received, what was confirmed and what
\* the charge point knows are about the same transactions; and what the bridge
\* works on is of this run of the process.
RemoteInv == /\ FaultsInv /\ CB!TasksInv
             /\ StartsAreReceived /\ StartsAreTold /\ FirstInv /\ MeantAreSeen

=============================================================================
