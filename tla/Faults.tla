-------------------------------- MODULE Faults --------------------------------
(***************************************************************************)
(* CentralSystem and what can go wrong around it.                          *)
(*                                                                         *)
(* The process may stop at any time (a panic in any goroutine, log.Fatal,  *)
(* the Go runtime at a map that two goroutines use at once, the machine)   *)
(* and be started again.  All it had was in memory: the maps are empty,    *)
(* nextTransactionId begins at 0 again, and handlers, callbacks and        *)
(* connections are gone.  Charge points keep the ids they were told.       *)
(*                                                                         *)
(* connection.Publish may fail; the error is ignored.                      *)
(***************************************************************************)
EXTENDS CentralSystemInvariants

CONSTANTS MaxRestarts,   \* bound: how many times the process is started again
          MaxFailures    \* bound: how many times Publish fails

ASSUME FaultsAssumption == MaxRestarts \in Nat /\ MaxFailures \in Nat

VARIABLES
    restarts,   \* how many times the process was started again
    failures,   \* how many times Publish failed
    lost,       \* the notifications received and not published
    stale,      \* the transaction ids told in earlier runs of the process
    era         \* the run of the process in which a connection is opened

faultVars == <<restarts, failures, lost, stale, era>>
allVars   == <<vars, faultVars>>

FaultsTypeOK ==
    /\ TypeOK
    /\ restarts \in 0 .. MaxRestarts
    /\ failures \in 0 .. MaxFailures
    /\ lost \in SUBSET Message
    /\ stale \in [ChargePoints -> SUBSET Nat]
    /\ era \in [Connections -> 0 .. MaxRestarts]

FaultsInit ==
    /\ Init
    /\ restarts = 0
    /\ failures = 0
    /\ lost = {}
    /\ stale = [c \in ChargePoints |-> {}]
    /\ era = [o \in Connections |-> 0]

-----------------------------------------------------------------------------

\* What the charge points and the subscribers have is all that remains.
Restart ==
    /\ restarts < MaxRestarts
    /\ restarts' = restarts + 1
    /\ chargePoints' = [c \in ChargePoints |-> 0]
    /\ current' = [o \in Connections |-> [k \in Connectors |-> -1]]
    /\ transactions' = [o \in Connections |-> {}]
    /\ status' = [o \in Connections |-> [k \in Places |-> {}]]
    /\ nextTransactionId' = 0
    /\ call' = [r \in Requests |-> IF Live(r) THEN NoCall ELSE call[r]]
    /\ lost' = lost \cup pump
    /\ pump' = {}
    /\ link' = [c \in ChargePoints |-> 0]
    /\ joining' = {}
    /\ leaving' = {}
    /\ crossed' = {}
    /\ stale' = [c \in ChargePoints |-> stale[c] \cup known[c]]
    /\ era' = [o \in Connections |-> IF o[2] > opened[o[1]]
                                     THEN restarts + 1 ELSE era[o]]
    /\ UNCHANGED <<opened, issued, known, published, raced, failures>>

PublishFails ==
    /\ pump # {}
    /\ failures < MaxFailures
    /\ failures' = failures + 1
    /\ lost' = lost \cup pump
    /\ pump' = {}
    /\ UNCHANGED <<registryVars, objectVars, nextTransactionId, call,
                   issued, known, published, raced, restarts, stale, era>>

FaultsNext ==
    \/ Next /\ UNCHANGED faultVars
    \/ Restart
    \/ PublishFails

FaultsSpec == FaultsInit /\ [][FaultsNext]_allVars

-----------------------------------------------------------------------------
(* Properties.                                                              *)

\* All that the notifier ever received.
Received == Handed \cup lost

RunOf(m) == era[<<m.cp, m.link>>]

\* Transactions that share an id (:18, :174) are of different runs of the
\* process, unless two StartTransaction handlers overlapped at the counter:
\* subscribers can tell them apart within a run, whatever was lost.
IdsPerRun ==
    raced = "no" =>
      \A s1, s2 \in Received :
        /\ s1.topic = "start" /\ s2.topic = "start"
        /\ s1.id = s2.id /\ RunOf(s1) = RunOf(s2)
        => s1 = s2

\* A StopTransaction ends a transaction (:204) before its start.transaction
\* was received only if the charge point has the id from an earlier run.
EndsKnown ==
    \A o \in Connections : \A t \in transactions[o] : t.phase = "ended" =>
      \/ t.id \in stale[o[1]]
      \/ \E s \in Received : /\ s.topic = "start" /\ s.cp = o[1] /\ s.id = t.id
                             /\ RunOf(s) = restarts

OfThisRun == {m \in Received : RunOf(m) = restarts}

AN == INSTANCE Announcements WITH
        Events <- Message, InOrder <- ~Pipelining, held <- pump, recent <- OfThisRun

\* Whatever stops, fails or is lost, subscribers are told of each request once at
\* most, of a stop only after the start it ends was received (in this run of the
\* process or an earlier one: :186, :191, :213), of starts with ids of their own
\* within a run (:174) unless handlers overlapped, and of what one connection
\* reports in the order it was sent, if charge points wait for their answers.
Announced == AN!Spec

-----------------------------------------------------------------------------
(* Inductive invariants, behind the theorems of FaultProofs.                 *)

\* For Announced: StopInv, with what was lost.
AccountInv ==
    /\ StoppableIn(StartsIn(Received))
    /\ StopsFollow(published \cup lost)

\* A connection belongs to the run it is opened in, and all that the process
\* has under way came with connections of the run that it is in.
EraInv ==
    /\ \A o \in Connections : /\ era[o] <= restarts
                              /\ o[2] > opened[o[1]] => era[o] = restarts
    /\ \A c \in ChargePoints : link[c] # 0 => era[<<c, link[c]>>] = restarts
    /\ \A r \in Requests : Live(r) =>
         /\ call[r].link \in 1 .. opened[r[1]]
         /\ era[<<r[1], call[r].link>>] = restarts
    /\ \A m \in Received : m.link \in 1 .. opened[m.cp]

\* For EndsKnown: the ids a StopTransaction may be about.
OldIds == UNION {{<<c, id>> : id \in stale[c]} : c \in ChargePoints}

Endable == OldIds \cup StartsIn(OfThisRun)

EndsInv ==
    /\ StoppableIn(Endable)
    /\ \A o \in Connections : \A t \in transactions[o] :
         t.phase = "ended" => <<o[1], t.id>> \in Endable

\* For IdsPerRun: what was said to have started, in all runs; in this run, with
\* ids below the counter, and below the id about to be stored.
StartsMade == {m \in Made \cup lost : m.topic = "start"}

StartsInv ==
    raced = "no" =>
      /\ \A s1, s2 \in StartsMade : s1.id = s2.id /\ RunOf(s1) = RunOf(s2) => s1 = s2
      /\ \A s \in StartsMade : RunOf(s) = restarts =>
           /\ s.id < nextTransactionId
           /\ \A r \in Requests : At(r, "commit") => s.id < call[r].id

\* For Announced: what the notifier received, in all runs, is of requests that do
\* not hand over a notification again; and if charge points wait for their
\* answers, it is older than what the same connection may still report.
HeardInv ==
    /\ \A m \in Received : m.n <= issued[m.cp] /\ ~MayNotify(<<m.cp, m.n>>)
    /\ ~Pipelining =>
         /\ OneLivePerLink
         /\ \A r \in Requests, m \in Received :
              MayNotify(r) /\ m.cp = r[1] /\ m.link = call[r].link => m.n < r[2]

\* What holds of one run holds of each, and what the charge points and the
\* subscribers have of earlier runs is told apart from what this one makes.
FaultsInv == /\ RegistryInv /\ LedgerInv /\ IssuedAreSent
             /\ AccountInv /\ EraInv /\ EndsInv /\ StartsInv /\ HeardInv

=============================================================================
