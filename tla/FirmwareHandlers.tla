--------------------------- MODULE FirmwareHandlers ---------------------------
(***************************************************************************)
(* CentralSystem with the two handlers of the firmware management profile, *)
(* which main() would add with SetFirmwareManagementHandler.  Unlike the   *)
(* core handlers they look the charge point up, then notify, blocking on   *)
(* the channel, and only then store what was reported, or refuse it.       *)
(*                                                                         *)
(* The handlers differ only in the field they set and in the topic.  Their *)
(* requests are numbered together with the others of a charge point.       *)
(*                                                                         *)
(* Their notifications have no data: subscribers learn from the topic that *)
(* some charge point reported, not which one, nor what.  The rest of the   *)
(* Message of such a notification is the model's, and names the request    *)
(* whose handler sent it.                                                  *)
(***************************************************************************)
EXTENDS CentralSystemInvariants

VARIABLES
    report,     \* the goroutine that handles a firmware request
    reported    \* the fields of every object: the request stored last, if any

firmwareVars == <<report, reported>>
allVars      == <<vars, firmwareVars>>

Fields == {"diagnosticsStatus", "firmwareStatus"}

Report == [pc : {"unsent", "entered", "notify", "set", "confirmed", "refused"},
           field : Fields, link : 0 .. MaxConnections, info : 0 .. MaxConnections]

NoReport == [pc |-> "unsent", field |-> "firmwareStatus", link |-> 0, info |-> 0]

Reporting(r) == report[r].pc \in {"entered", "notify", "set"}

\* The topic is all that is sent; the other fields identify the handler.
ReportNotification(r) ==
    [topic |-> "firmware", cp |-> r[1], n |-> r[2], link |-> report[r].link,
     connector |-> 0, id |-> 0]

FirmwareTypeOK ==
    /\ TypeOK
    /\ report \in [Requests -> Report]
    /\ reported \in [Connections -> [Fields -> SUBSET Requests]]
    /\ \A o \in Connections, f \in Fields : \A q, r \in reported[o][f] : q = r

FirmwareInit ==
    /\ Init
    /\ report = [r \in Requests |-> NoReport]
    /\ reported = [o \in Connections |-> [f \in Fields |-> {}]]

-----------------------------------------------------------------------------
(* Faulty variants of operators below, as plausible slips would leave them. *)

\* the loop receives again while earlier notifications are still unpublished
ReportHandoffConcurrent(r) ==
    /\ report[r].pc = "notify"
    /\ pump' = pump \cup {ReportNotification(r)}
    /\ report' = [report EXCEPT ![r].pc = "set"]
    /\ UNCHANGED <<registryVars, objectVars, nextTransactionId, call, issued,
                   known, published, raced, reported>>

\* a select with a default case drops the notification if nobody receives
ReportHandoffDrops(r) ==
    /\ report[r].pc = "notify"
    /\ pump' = IF pump = {} THEN {ReportNotification(r)} ELSE pump
    /\ report' = [report EXCEPT ![r].pc = "set"]
    /\ UNCHANGED <<registryVars, objectVars, nextTransactionId, call, issued,
                   known, published, raced, reported>>

\* a field that was set is not set again
SetStatusOnce(r) ==
    LET o == <<r[1], report[r].info>>
        f == report[r].field
    IN  /\ report[r].pc = "set"
        /\ report[r].info # 0
        /\ reported' = IF reported[o][f] = {} THEN [reported EXCEPT ![o][f] = {r}]
                                              ELSE reported
        /\ report' = [report EXCEPT ![r].pc = "confirmed"]
        /\ UNCHANGED vars

-----------------------------------------------------------------------------

ReportAwaited(c) ==
    \E r \in Requests : r[1] = c /\ Reporting(r) /\ report[r].link = link[c]

ReceiveReport(c, field) ==
    /\ link[c] # 0
    /\ issued[c] < MaxRequests
    /\ Pipelining \/ ~(Awaited(c) \/ ReportAwaited(c))
    /\ issued' = [issued EXCEPT ![c] = @ + 1]
    /\ report' = [report EXCEPT ![<<c, issued[c] + 1>>] =
                    [NoReport EXCEPT !.pc = "entered", !.field = field,
                                     !.link = link[c]]]
    /\ UNCHANGED <<registryVars, objectVars, nextTransactionId, call, pump,
                   known, published, raced, reported>>

\* info is the object found, 0 if none: that is looked at after the send only.
LookUp(r) ==
    /\ report[r].pc = "entered"
    /\ report' = [report EXCEPT ![r].pc = "notify", ![r].info = chargePoints[r[1]]]
    /\ UNCHANGED <<vars, reported>>

ReportHandoff(r) ==
    /\ report[r].pc = "notify"
    /\ pump = {}
    /\ pump' = {ReportNotification(r)}
    /\ report' = [report EXCEPT ![r].pc = "set"]
    /\ UNCHANGED <<registryVars, objectVars, nextTransactionId, call, issued,
                   known, published, raced, reported>>

RefuseReport(r) ==
    /\ report[r].pc = "set"
    /\ report[r].info = 0
    /\ report' = [report EXCEPT ![r].pc = "refused"]
    /\ UNCHANGED <<vars, reported>>

\* The object is the one looked up, registered still or not.
SetStatus(r) ==
    /\ report[r].pc = "set"
    /\ report[r].info # 0
    /\ reported' = [reported EXCEPT ![<<r[1], report[r].info>>][report[r].field] = {r}]
    /\ report' = [report EXCEPT ![r].pc = "confirmed"]
    /\ UNCHANGED vars

FirmwareHandle(r) ==
    LookUp(r) \/ ReportHandoff(r) \/ RefuseReport(r) \/ SetStatus(r)

\* A step of CentralSystem; a charge point that waits also waits for these.
CoreStep ==
    /\ Next
    /\ \A c \in ChargePoints : issued'[c] # issued[c] => Pipelining \/ ~ReportAwaited(c)
    /\ UNCHANGED firmwareVars

FirmwareNext ==
    \/ CoreStep
    \/ \E c \in ChargePoints, field \in Fields : ReceiveReport(c, field)
    \/ \E r \in Requests : FirmwareHandle(r)

FirmwareSpec == FirmwareInit /\ [][FirmwareNext]_allVars

-----------------------------------------------------------------------------
(* Properties.                                                              *)

\* The report of its own connection that a registered object holds
\* (CentralSystemHandler.go:232, :245) is the last that connection had answered:
\* no later one was refused, or confirmed and stored in the object of another
\* connection, although the object is looked up before the handler blocks.
LastReportKept ==
    ~Pipelining => \A o \in Connections, f \in Fields : chargePoints[o[1]] = o[2] =>
      \A q \in reported[o][f] : report[q].link = o[2] =>
        \A r \in Requests :
          /\ r[1] = o[1] /\ report[r].link = o[2] /\ report[r].field = f
          /\ report[r].pc \in {"confirmed", "refused"}
          => r[2] <= q[2]

-----------------------------------------------------------------------------
(* Inductive invariants, behind the theorems of FirmwareProofs.              *)

SameLink(r, s) == r[1] = s[1] /\ report[r].link = report[s].link

\* The charge points wait for the answers of both profiles: on a connection, a
\* firmware request under way is the last one, and no core request is under way.
ReportsInOrder ==
    /\ \A r, s \in Requests :
         Reporting(r) /\ report[s].pc # "unsent" /\ SameLink(r, s) => s[2] <= r[2]
    /\ \A r, s \in Requests :
         Reporting(r) /\ Live(s) /\ r[1] = s[1] => report[r].link # call[s].link
    /\ \A r \in Requests, m \in Handed :
         report[r].pc \in {"entered", "notify"} /\ m.cp = r[1] /\ m.link = report[r].link
         => m.n < r[2]

\* What the notifier received about firmware is of firmware requests, each of
\* which is notified once the handler is past the channel, refused or not.
ReportsAreHanded ==
    /\ \A r \in Requests :
         /\ report[r].pc # "unsent" => r[2] <= issued[r[1]]
         /\ report[r].pc \in {"set", "confirmed", "refused"} => ReportNotification(r) \in Handed
         /\ At(r, "notify") => call[r].kind # "firmware"
    /\ \A m \in Handed : m.topic = "firmware" =>
         /\ report[<<m.cp, m.n>>].pc # "unsent"
         /\ report[<<m.cp, m.n>>].link = m.link

\* What a field holds was confirmed, after it was found to be stored there.
StoredAreConfirmed ==
    \A o \in Connections, f \in Fields : \A q \in reported[o][f] :
      /\ q[1] = o[1]
      /\ report[q].pc = "confirmed" /\ report[q].info = o[2] /\ report[q].field = f

\* No handler has found, or written, an object before it is connected.
FieldsAreNew ==
    \A o \in Connections : o \in joining \/ o[2] > opened[o[1]] =>
      /\ \A f \in Fields : reported[o][f] = {}
      /\ \A r \in Requests : r[1] = o[1] => report[r].info # o[2]

\* Whatever the registered connection sent after the report that is stored has
\* not looked its object up yet, or is about to be stored in the same one.
LastIsReported ==
    \A o \in Connections, f \in Fields : chargePoints[o[1]] = o[2] =>
      \A q \in reported[o][f] : report[q].link = o[2] =>
        \A r \in Requests :
          r[1] = o[1] /\ report[r].link = o[2] /\ report[r].field = f /\ q[2] < r[2] =>
            \/ report[r].pc \in {"unsent", "entered"}
            \/ report[r].pc \in {"notify", "set"} /\ report[r].info = o[2]

\* A registered object was registered once, and since: whoever looked it up
\* stores in it, in the order in which the charge point sent its requests.
FirmwareInv ==
    /\ OrderInv /\ ReportsAreHanded /\ StoredAreConfirmed /\ FieldsAreNew
    /\ ~Pipelining => ReportsInOrder /\ LastIsReported

=============================================================================
