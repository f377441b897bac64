# TLA+ models of the electromobility central system

The program is an OCPP 1.6 central system: charge points connect to it over
websockets (the ocpp-go library), and other services talk to it over NATS. It
publishes what charge points report, and turns requests of NATS clients into
commands for charge points. All state is in memory and nothing protects it from
the goroutines that share it.

## Inventory

| Part | State | Operations | Works with |
|---|---|---|---|
| OCPP core handlers (`CentralSystemHandler.go`, `ChargePoint.go`, `Connector.go`) | `nextTransactionId`; per charge point its connectors (`status`, `currentTransaction`) and `transactions` | `OnAuthorize`, `OnBootNotification`, `OnDataTransfer`, `OnHeartbeat`, `OnMeterValues`, `OnStatusNotification`, `OnStartTransaction`, `OnStopTransaction` | called by ocpp-go in a goroutine per request; read the registry; send on the notification channel |
| Registry (`main.go:109-118`) | map `chargePoints` | connect callback (new object), disconnect callback (delete by id) | called by ocpp-go, per connection |
| Notifier, notifications (`NatsCentralSystemNotifier.go:48-59`) | the notification in hand | receive from the unbuffered channel, `Publish` | the handlers; NATS |
| Notifier, request/reply (`:62-121`) | the request being served | validate, look the action up, start it, wait for the response or the timeout, reply | NATS calls it for one message at a time; the actions |
| Core actions (`actions/core.go`) | `chargingProfileId` | `Reset`, `GetConfiguration`, `ChangeConfiguration`, `ChangeAvailability`, `RemoteStartTransaction`, `RemoteStopTransaction`, `UnlockConnector`, `ClearCache` | send through ocpp-go; respond on the request's own channel from ocpp-go's callback |
| Firmware handlers (`CentralSystemHandler.go:224-248`) | two status fields per charge point | `OnDiagnosticsStatusNotification`, `OnFirmwareStatusNotification`: never registered (`main.go:101`) | as the core handlers |
| Reservation, local list, smart charging (`actions/`) | `reservationId` | `ReserveNow`, `CancelReservation`, `SendLocalListVersion`, `GetLocalListVersion`, `SetChargingProfile` and two stubs: never registered (`main.go:128-149`) | as the core actions |
| `Callbacks.go` | | earlier versions of the actions, never called | |
| Start-up, TLS, `Start`, `Stop` | | sequential | |

What is hard here: request handlers of all charge points interleave on one
counter, one registry and one channel; connect and disconnect callbacks are not
ordered; a reconnection replaces a charge point's object while handlers hold the
old one; a request's timeout races its answer; callbacks of timed-out commands
keep running and share `chargingProfileId` and `reservationId` with later ones; a
panic, `log.Fatal` or the Go runtime at an unlocked map ends the process, and the
next one counts ids from 0 while charge points hold the old ones; a client learns
an id before the charge point does. `PROJECT.json` lists each of these under
"hazards" with its line. What makes the parts correct:

- core handlers: a connector is marked with a transaction exactly while that is
  its open one; transaction ids are unique; the stored status is the reported one;
- registry: a charge point has its entry exactly while it is connected;
- notifications: in the order of the reports, starts before stops, none lost on
  the way to the notifier, no handler blocked for good;
- request/reply: one reply each, in order, never another request's, no goroutine
  left behind without a timeout;
- actions: messages within the checked ranges, charging profiles and reservations
  told apart, the reservation id that is reported the one that was sent;
- the whole process: a remote stop hits the transaction its client meant; what was
  published before a fault stays consistent with what is published after it.

## Modules

| Module | Models |
|---|---|
| `CentralSystem` | core handlers, registry, notification channel and loop |
| `CentralSystemInvariants` | inductive invariants behind the theorems |
| `CentralSystemProofs` | theorems and proofs: types, order, registry |
| `TransactionProofs` | theorems and proofs: transaction ids, connector marks |
| `NotificationProofs` | theorems and proofs: stops that reach the notifier, stored and published status |
| `MCCentralSystem` | instances of `CentralSystem` for TLC |
| `FirmwareHandlers`, `MCFirmware` | `CentralSystem` with the two firmware handlers; an instance for TLC |
| `FirmwareProofs` | theorems and proofs about `FirmwareHandlers` |
| `Faults`, `MCFaults` | `CentralSystem` with restarts of the process and failures of `Publish`; an instance for TLC |
| `Announcements` | abstract: what subscribers are promised, whatever stops or fails |
| `FaultProofs` | theorems and proofs about `Faults`, which implements `Announcements` |
| `Commands` | payload checks, messages and responses of the fifteen actions, as operators |
| `RequestReply` | abstract: what NATS clients are promised |
| `CommandBridge` | request/reply loop, action goroutines and callbacks; uses `Commands`, implements `RequestReply` |
| `CommandBridgeInvariants` | inductive invariants behind the theorems |
| `CommandBridgeProofs` | theorems and proofs: messages, replies, the refinement |
| `CounterProofs` | theorems and proofs: ids of charging profiles and reservations |
| `MCCommandBridge` | instances of `CommandBridge` for TLC |
| `RemoteControl`, `MCRemoteControl` | `Faults` and `CommandBridge` in one process; an instance for TLC |
| `RemoteControlProofs` | theorems and proofs about `RemoteControl` |

Definitions prefixed by a lower-case comment in the sections "Faulty variants"
are not part of the models: they are the slips used to see that each property
can fail.

### CentralSystem

A charge point `c` opens its connections 1, 2, ...; the object the connect
callback makes for connection `e` is `<<c, e>>`, and `chargePoints[c]` is the `e`
of the registered one, 0 if none. `current`, `transactions` and `status` are the
fields of all objects, registered or not: handlers keep using an object after it
has left the registry. A missing connector is what `getConnector` makes of it: -1.
`call[<<c, n>>]` is the goroutine of the `n`-th request of `c`: its program
counter `pc`, the request's fields, and the locals `id`, `seen`, `info`.

`OnStartTransaction` takes six steps: look-up and busy check (`StartFree`,
`StartBusy`, `UnknownChargePoint`), the read of `nextTransactionId`, the load and
the store of `+= 1`, the writes to connector and map, the send on the channel.
`StopFound` does its two writes in one step, as `StartCommit` does: the end of a
transaction is never read by the code. The channel is unbuffered, so `Handoff` is
one step of the handler and the loop; the loop then publishes what it holds
before it receives again.

The environment: `Open`, `Close`, `Receive`. Charge points only stop
transactions whose ids they were told (`known`); unless `Pipelining` they wait
for the last answer of the connection, unless `Resend` they stop a transaction
once. A request to a profile without handler is "firmware", which ocpp-go
answers with an error. Requests that only notify are one kind, "event".

Three history variables serve the properties: `published`, `raced` (two
`StartTransaction` handlers were past their busy check at once) and `crossed`
(a charge point's callbacks ran out of the order of its connections, and no
connection has repaired the entry since: the connect callback of the open
connection does, when no callback of an earlier one is left).

Unprotected maps: Go may stop the process when two goroutines meet at one. Here
that ends a behaviour early; the liveness properties are about executions that go
on, and `Faults` has what follows.

External, from how the program uses it: ocpp-go runs every request and every
response callback in a goroutine, calls the connect and disconnect callback once
per connection in no order, sends an answer to the charge point by its id.

### FirmwareHandlers and Faults

Both extend `CentralSystem` with variables and actions of their own, and keep its
`Next` as one disjunct.

The firmware handlers look the charge point up (`LookUp`), block on the channel
(`ReportHandoff`), and only then refuse the report or store it in the object they
found, which may no longer be registered (`RefuseReport`, `SetStatus`). So, unlike
the core handlers, they also notify what they refuse. What they send is a topic
without data (`CentralSystemHandler.go:226-228`, `:239-241`): a subscriber learns
that some charge point reported, neither which one nor what. The other fields of a
firmware `Message` are the model's: they name the request whose handler sent it, for
`OrderPreserved` and the invariants. `reported` holds the request whose report was
stored, apart from any notification. A report is numbered with the other requests of
its charge point.

`Restart` is the end of the process, for whatever reason, and the start of the
next: registry, objects, handlers, callbacks, connections, the counter and the
notification in hand are gone; the charge points keep the ids they know, and the
subscribers what was published. `era` tells in which run a connection is opened,
`stale` the ids a charge point got in earlier runs. `PublishFails` drops the
notification, as the code does when it ignores the error.

`Announcements` knows nothing of handlers, connections or objects. An announcement
is heard, if it is none that was heard before, and then delivered or lost; what may
be heard is what subscribers rely on: a stop after its start, a start with an id of
its own in this run, what one connection reports in its order. `Faults` maps the
notification in hand to `held` and what was received in this run (`OfThisRun`) to
`recent`. Its `Overlap` is a race for an id, which is visible as `raced`.

### Commands and CommandBridge

`Commands` is data only. A payload is a function from field names to values, or
`NotObject`. The conversions are modelled by what they do: `json.Unmarshal` to a
map or a struct, `fmt.Sprint` of a number (an exponent from 10^6 on) followed by
`strconv.ParseInt`. `Refusal` is the first check that fails, `Sent` the message,
`ResponseTo` the response made of an answer.

`CommandBridge` has one task per request: the goroutine `requestHandler` starts
and later the library's callback, which run one after the other. `Take` is the
serial subscription callback; `Deliver` and `TimeOut` are the two branches of its
`select`, in the order chance has it. The accesses to `chargingProfileId` are
separate steps, and so are those to `reservationId`: `ids` has both variables, by
the action that uses them. An accepted reservation is reported with the value of
`reservationId` when the answer comes (`reported`). `FatalPayload` is the `log.Fatal`
of `SetChargingProfile`. The library either refuses a message (`SendFails`) or calls the
callback at most once, at any time; a charge point may never answer. `Crash` is
the nil dereference of a configuration key without value: the process stops.

`main()` registers eight of the fifteen actions (`Handlers`). The constant
`Registered` is what is registered: the runs about what the program promises its
clients use `Handlers`, those about the actions themselves `AllActions`, as if the
commented lines of `main.go:141-149` were there.

### RemoteControl

The two halves share the process and the connections. A client that has seen a
`start.transaction` (`meant`) asks to stop that transaction, or sends a command that
may end the process. `Act` sends by the connection the charge point has
(`via`); the answer comes on that connection. A charge point accepts to stop an id
it knows and rejects others, as OCPP has it; its `StopTransaction` is then one of
the requests it may send. `RestartBoth` is `Restart` with the requests, tasks and
counters of the bridge forgotten. The instance `CB` is of `CommandBridgeProofs`, the
bridge with its invariants and lemmas, so that proofs about both halves can cite
them.

Its properties are about the step in which a charge point answers a remote stop.
Each of the reasons and exceptions they name occurs in the run.

## Runs

| Run | Question | Bounds |
|---|---|---|
| `MCTransactions` | do marks, open transactions and ids agree, also when objects are replaced under running handlers? | 1 charge point, 2 connectors, 3 requests, 2 connections: two transactions, or start, reconnect under its handler, stop |
| `MCRaces` | what holds of starts and stops when two charge points race? | 2 charge points (symmetric), 2 requests each: start and stop, two starts, or either with a status report |
| `MCFaults` | what survives restarts, lost notifications, pipelining and repeated stops? Is it what `Announcements` promises? | 3 requests in any overlap over 2 connections, 1 restart, 1 failure: a start before and a start and a stop after the restart |
| `MCFirmware` | order in both profiles; stored against published status; which firmware report an object keeps | 3 reports over 2 connections: two of a connection and one of the other |
| `MCRegistry` | callbacks in any order; entries and answers under fairness | 3 connections, 2 requests on any of them: two handlers compete for the channel |
| `MCCommands` | every payload form at the boundaries | 1 request of each of 135 commands |
| `MCBridge` | one reply each, in order, its own; leaks; ids of profiles and reservations; replies under fairness | 3 requests of 4 fates: two late answers and a served request, or three that share a counter |
| `MCRemoteControl` | which transaction does a remote stop hit, and why is it rejected? | 2 requests, 2 connections, 1 restart, 1 command: a start before and after a restart or reconnection |

`MCFaults` has a constraint, `QuietClose`: a connection ends while nothing is under
way, or with the process; connections that end under handlers are in the other
runs. Its charge point pipelines, so that the run does not reach what `Announcements`
says of order; `MCRemoteControl` does, through `FaultsInv`, as `MCFirmware` does
through `OrderPreserved`, and the theorem has both. `MCRemoteControl` has `Interesting`: a behaviour ends with its command, since the
properties are about the step that answers it, and a restart before the notifier
received anything is a first start.

Each property relates at most two requests, transactions, connections or
notifications and what comes between them, and each bound leaves room for one
more. Deadlock is checked everywhere; `Idle` and `Stopped` are the states in which
the program waits for others or has ended.

Four runs show that the program does not do what a comment, a message or the
README says of it; "findings" quotes them.

- `MCRepeatedStop`: a StopTransaction sent again frees the connector of a later
  transaction, so a connector carries two open ones.
- `MCImplemented`: actions marked as implemented are not found.
- `MCRemoteStart`: an omitted connectorId or duration is sent as -1.
- `MCLargeIds`: a transactionId from 10^6 on "must be a integer".

Some properties say under which condition they hold, and the condition is what
the code lacks a lock or a check for. They do not catch what the condition excludes,
which does happen in this code, and which nothing in the repository says does not;
they say that nothing else breaks the property. The "note" of a hazard in
`PROJECT.json` says so where it applies. `BusyIffOpen` and `UniqueIds` need
`StartTransaction` handlers that do not overlap, `BusyIffOpen` also stops that are
not repeated, `RegistryMirrors` and `ConnectedIsRegistered` callbacks in order since the last
entry that was put right, `IdsDistinct` and
`ReservationReported` commands of the action that do not time out,
`StopsReachSubscribers` and `AcceptedIsOpen` no reconnection, `AcceptedIsOpen`
also a charge point that waits for its answers and repeats no stop. `IdsPerRun` and
`RightTransaction` say what a restart leaves of unique ids: subscribers can tell two
transactions with one id apart by the run alone, and a remote stop whose
`start.transaction` or whose id is older than the last restart may hit another
transaction.

### Fairness

`CentralSystem`: weak fairness of every handler, callback and of `Publish`: the Go
scheduler runs what can run, and nothing in a handler but the channel blocks.
Strong fairness of `Handoff`: senders blocked on a channel are served in the order
they came, while each receive disables the others for a moment. Nothing is
assumed of charge points. `CommandBridge`: weak fairness of `requestHandler`,
whose timer always fires; nothing is assumed of the actions and charge points.

## Theorems

Each proof module holds the theorems of one component. The invariants behind them
are properties of runs as well (`MCTransactions`, `MCRaces`, `MCRegistry`,
`MCFirmware`, `MCFaults`, `MCBridge`, `MCRemoteControl`; `OrderInv` is checked as a
part of `FirmwareInv`); a theorem whose name ends in `Held` says that
one of them holds in every reachable state. The lemmas `ServeStep`,
`ConfirmationStep`, `HandoffStep`, `ReceiveStep` and `ConnectionStep` say what each
group of steps does to the requests and the notifier, so that the invariants do not
look into the handlers again.

### The core handlers

For all values of the constants under `ConstantsAssumption`. In `CentralSystemProofs`:

- `TypeCorrect`: `Spec => []TypeOK`. `TypeOK` is inductive because it also says
  that only a `StartTransaction` is past the busy check, with a connector.
- `StopsFollowStarts`: `Spec => []StopAfterStart`, with all races, repeated stops and
  reconnections. A published stop says nothing of how its id was learned, so the
  inductive invariant `StopInv` follows the id: whoever can still cause a stop (the
  charge point that knows the id, a stop under way, a start about to be answered)
  has an id whose start the notifier has received (`StoppableIn`), and a stop can be
  handed over only when the notifier is empty, the start then being published
  (`StopsFollow`).
- `OrderKept`: `Spec => OrderPreserved`. `OrderInv`: a connection has one request
  under way, newer than everything the notifier got from that connection, and
  what the notifier holds is newer than what it has published.
- `RegistryKept`: `Spec => []RegistryMirrors`. The property speaks of a moment when no
  callback is pending; `RegistryInv` speaks of every moment. The connect callbacks
  still to run are those of the last connections (`JoinsInOrder`); the entry is that
  of the last connect callback that ran, and its connection is open or its
  disconnect callback is still to run (`EntryIsLatest`). Callbacks out of order break
  both; the connect callback of the open connection restores them, if no earlier
  callback is left, since only the last connection can be open.

In `TransactionProofs`:

- `IdsUnique`: `Spec => []UniqueIds`. Ids are unique because the counter only grows, so
  `LedgerInv` adds that every stored id is below it (`StoredAreOld`). This is
  inductive while one handler at most is past its busy check (`OneStarter`), since
  the id it took, the value it loaded and the counter then agree (`WindowIds`).
- `MarksAgree`: `Spec => []BusyIffOpen`. When a transaction ends, its connector is freed
  whatever it carries, so the mark is right only if the transaction is still the
  one of its connector. `MarksInv` follows the right to stop an id: it is held by
  the start about to answer it, then by the charge point that knows it, then by
  its stop, by one of them at a time (`HeldOnce`), and never for a transaction that
  has ended (`HeldNotEnded`). New ids are above all that are held (`HeldAreOld`), and
  a connector found free stays free until the handler takes it (`ConnectorFree`).

In `NotificationProofs`:

- `StopsReach`: `Spec => []StopsReachSubscribers`. The object of a charge point that
  never reconnected keeps, in `KeptInv`, every id that a start is about to answer,
  the charge point knows or a stop is about; so the stop finds its transaction and
  takes the branch that notifies. No condition on races: an id given out twice
  replaces the entry, and does not lose it.
- `StatusesAgree`: `Spec => []StatusAgrees`. The status a connector has was made into a
  notification (`StoredAreMade`: its handler still holds it, or the notifier has
  received it), and is the newest that its connection made (`LastIsStored`). A
  handler writes to the object it looked up, so this is inductive only because the
  object of a connection is empty until it is connected (`ObjectsAreNew`), and
  registered once: a report that was stored in an older object cannot be of the
  registered connection.

### Firmware handlers

`FirmwareProofs`, under the same assumption. `FirmwareOrderKept` and
`FirmwareStatusesAgree` are `OrderPreserved` and `StatusAgrees` of the larger system.
`ReportsKept` is `[]LastReportKept`: the report of its own connection that a
registered object holds is the last that connection had answered. It speaks of what
is stored, not of what subscribers know. A late handler of an earlier connection may
still store its report over a newer one: the property leaves that object out.

The handlers block between their look-up and their store, so `FirmwareInv` follows
both: on a connection one report is under way, of either profile
(`ReportsInOrder`); every request past the channel was notified, those that are
refused too (`ReportsAreHanded`); what a field holds was confirmed after it was found
to be stored there (`StoredAreConfirmed`); no handler has found an object before it
is connected (`FieldsAreNew`); and whatever a registered connection sent after the
stored report is not looked up yet, or will be stored in the same object
(`LastIsReported`). The step that needs the most is the store of a handler whose
object has left the registry: the object does not come back, by `RegistryInv`.

### Faults

`FaultProofs`, under `ConstantsAssumption` and `FaultsAssumption`:

- `SubscribersAreTold`: `FaultsSpec => Announced`, the refinement of `Announcements`.
  Each step is mapped on its own (`AnnouncedStep`): the handover hears, `Publish`
  delivers or fails, a restart loses what is in hand. That what is heard may be heard
  is the invariants' work, before the step that hands it over: `AccountInv` is
  `StopInv` with the lost notifications counted, for stops; `StartsInv` has the ids of
  starts; `HeardInv` says that whoever may still notify has not been heard, and, if
  charge points wait, is newer than all that was heard of its connection. So a restart
  makes no one able to announce again, or a stop of what the notifier has not
  received, since charge points only keep what they were told.
- `EndsAreKnown` and `IdsUniquePerRun`: `[]EndsKnown` and `[]IdsPerRun`. Both tell runs
  of the process apart by the run in which a connection is opened. `EraInv`: all that
  is under way came with connections of the present run. `EndsInv`: an id that may be
  stopped is of an earlier run, or its start was received in this one. `StartsInv`:
  the starts received in this run, and those to be handed over, have ids below the
  counter and each its own.
- `FaultsHeld` and `FaultsTypeCorrect`: `[]FaultsInv` and `[]FaultsTypeOK`.

### Requests and replies

`CommandBridgeProofs`, for all values of the constants under `BridgeAssumption`
(the fields of payloads are values of `Commands`) and `WordsAssumption`:

- `RangeKept`: `Spec => []NumbersInRange`. `SentType` says it of the functions of
  `Commands`, for any payload that is not refused; the rest is that a message is
  sent once, and only for a payload that was checked.
- `BridgeTypeCorrect`, `RepliesOwn`, `BlockedTimedOut`: `Spec` implies `[]TypeOK`,
  `[]RepliesAreOwn` and `[]BlockedOnlyAfterTimeout`. A reply is made of a message and
  an answer that other steps could still change, so `TasksInv` follows the tasks:
  one begins with its dispatch (`Dispatched`), its request has no reply while it is
  served (`Unreplied`), a task that still works behind a reply got the timeout
  (`Abandoned`), what a task sent and will respond is its own (`SentWhenChecked`,
  which also says that only numbered actions reach the steps at a counter, and
  `ResponsesAreOwn`). The steps of `requestHandler` are then treated one by one,
  those of a task through `TaskStep` and `SoundStep`. `BridgeInv` adds that every
  request taken but the one served has a reply (`Served`), which a restart ends:
  `TasksInv` alone is what the lemmas `TypeStep` and `InvStep` need, so that they hold
  in the whole process as well.
- `ImplementsRequestReply`: `Spec => RepliesInOrder`, the refinement of
  `RequestReply`. `Served` makes the next reply that of the first request without.

`CounterProofs`, under the same assumptions: `IdsNeverShared` is `[]IdsDistinct` and
`ReservationsReported` is `[]ReservationReported`. Many goroutines read, advance and
take back a counter in steps of their own. But a task that has not timed out is the
one that is served, or has answered (`BridgeInv`), so while no command of an action
timed out one task at most is at its counter: `CounterInv` says that what it read is
still the value (`CounterRead`), and that ids outstanding are not above it, and
below it where a task is about to use or take back an id (`OutstandingBelow`).

### Remote control

`RemoteControlProofs`, under `ConstantsAssumption`, `FaultsAssumption` and
`RemoteAssumption`, which is that of the bridge again. Every step of `RemoteSpec` is a
step of `FaultsSpec` or leaves its variables alone (`CentralMapped`): that is
`RemoteFaults`, and with `SubscribersAreTold` it is `WholeIsAnnounced`, the promise to
subscribers by the whole program. And every step but `RestartBoth` is one of the
bridge, or leaves it alone (`BridgeMapped`). So the lemmas about the bridge's steps
are cited through `CB`, and only the restart is left to treat (`RestartedBridge`: no
task, no request to be taken): `RemoteTypeCorrect` is `[]RemoteTypeOK`, and
`BridgePromises` has `BlockedOnlyAfterTimeout` and `NumbersInRange` across restarts.
The other proofs need that a task gets an answer in the callback of its own command
(`TaskStep`). `RemoteHeld` is `[]RemoteInv`, which adds to `FaultsInv` and `TasksInv`:

- `MeantAreSeen`: with each command a client means a start that was published, with the
  id it asks to stop.
- `StartsAreReceived`: the starts received in this run are exactly those of requests
  that are being confirmed or were. With `MeantAreSeen` it leads from the client to the
  request.
- `StartsAreTold`: what was confirmed on the open connection the charge point knows or
  is stopping, and it knows nothing else but ids of earlier runs.
- `FirstInv`: on a first connection, what may still be stopped is open in the
  registered object. The phase of a transaction is only safe while one request is
  under way (`OneOnFirst`, from `HeardInv`) and a stop takes its id away.

`RejectionsExplained` (`RemoteSpec => RejectedWithReason`) follows the start the client
saw through `StartsAreReceived` and `StartsAreTold`. `RightTransactionHit`
(`RightTransaction`) goes the other way, from the id the charge point knows to a
confirmed start, and `StartsInv` makes that the one the client saw. `AcceptedAreOpen`
(`AcceptedIsOpen`) is `FirstInv` at the step that accepts.

### Model-checked only

The liveness properties, which are out of the prover's reach, as is what holds only
under fairness: `ConnectedIsRegistered`, `EveryCallAnswered` and `EveryRequestReplied`.
All other properties of the passing runs have a theorem. `RepliesAreOwn`,
`RepliesInOrder` and the properties of the counters are proved of one run of the
process: after a restart the requests that were forgotten have no reply, and the
counters begin again. `CommandBridge` has no theorem of `Commands` beyond `SentType`: that the checks and messages are right
for each payload form is what `MCCommands` enumerates.

## Not modelled

What NATS delivers after `Publish`; the contents of notifications beyond the fields
of `Message`, of which those of the firmware profile have the topic only; start-up, TLS,
`Start` and `Stop`, which are sequential and happen once; `Callbacks.go`, earlier
versions of eight of the actions that nothing calls, and `GetChargePoint`, which
nothing calls either; the entries of local authorization lists and charging
profiles, which the code passes on unread.

## Plan

1. Done: all modules above, their runs, and the theorems of `CentralSystem`,
   `FirmwareHandlers`, `Faults`, `CommandBridge` and `RemoteControl`, with the
   refinements of `RequestReply` and `Announcements`.
2. Next: what of the firmware handlers survives a restart (`Faults` composed with
   `FirmwareHandlers`), and a bound on how far the published notifications of a
   charge point that pipelines may be out of order.
