# Verification of AquariumController

AquariumController is one long-lived Node.js process between a browser and a
set of ESP32 boards that drive lights and pumps. It owns an HTTP and
server-sent-events API, an MQTT client, two SQLite databases, the schedulers
that refresh the outputs, and the alerting. This directory holds TLA+ models of
the parts of it, of its pages and of its firmware whose correctness depends on
the order of things, the TLC configurations that check them, and proofs checked
by TLAPS.

Paths below are relative to `src/apps/controller/src/` unless they start with
`packages/`, `firmware/`, `apps/` or `docs/`. `INO` is
`firmware/esp32/ESP32Code/ESP32Code.ino`. `PROJECT.json` maps every definition
to the lines it models.

## 1. Inventory

| component | state it keeps | operations | what is hard | what makes it correct |
|---|---|---|---|---|
| **Device operations** `application/operations`, `infrastructure/database/control-operation-repository.ts` | `control_operations` rows; reservations, cooldowns and scan times in memory | execute, patch, reconcile (operator, override, schedule, expiry), recover, drain | a crash between "in flight" and the outcome; lost answers; a clock that steps back; lists read before an await and used after it | a row never claims less than what may have happened on the wire; one publication; one attempt per device; no overwrite reconciled inside the firmware's lease |
| **MQTT transport** `infrastructure/mqtt/legacy-mqtt-transport.ts` | queues, runnable rotations, lanes, active request, publication generation, readiness | execute, pump, publish, answer, time out, connect, subscribe, discover, stop | answers, timeouts and disconnections racing; promise chains after a rotation; a queue that is runnable but forgotten | "unsent" only if nothing was published; an answer settles only its own request; every accepted command settles |
| **Device registry** `application/devices` | `devices` rows, a serial tail | announcement, contact, timeout, protocol fault, enablement, health tick, edit | two writers of the error columns; a late contact after a fault | a quarantined device stays excluded; a silent one returns |
| **Output refresh** `application/scheduling` | a worker per device, waiting batches, guards | tick, request, send, complete, stop | ticks overtaking slow batches | the newest configuration wins |
| **Manual overrides** `application/overrides`, `manual-override-repository.ts` | overrides, aggregate operations, a deadline timer | start, extend, cancel, replace, expire, reconcile, recover | a replacement racing an unknown start; children settled by others | no child is orphaned; an override ends |
| **Firmware updates** `application/firmware` | update rows, one serial queue | request, send, verify, give up, recover | a crash between the command and its record; late announcements | an image is sent once per request; a request settles |
| **Schedule artifacts** `application/schedule-artifacts`, `application/runtime/controller-runtime.ts` | desired, delivered and announced hashes; a latched dispatcher | reconcile, deliver, observe | a change while a pass runs; an announcement racing a delivery; a command or a service that throws for good | what is shown as delivered was taken; the device converges, or the process needs a restart |
| **Time sync** `application/scheduling/time-sync-coordinator.ts` | daily guards, due devices | tick, announce, claim, complete | a restart on the same day; a clock that steps back | once a day per device |
| **Alerts, notifications** `application/alerts`, `infrastructure/notifications` | alerts, deliveries with audits | evaluate, edit, acknowledge, claim, send, mark, recover | a crash between sending and recording; edits racing an evaluation; a clock set back between two transitions | at most once, in order, with an outcome |
| **Event storage, retention, archive** `infrastructure/storage` | `events.db`, archive files | mirror, prune, archive, delete, restore | a crash between the two databases; a backup that takes long | no committed change is lost |
| **Backup, storage health** `infrastructure/storage` | backup directories, rows, a verification cache | daily claim, copy, prune, check | a start near the daily hour; an error that ends a coordinator; pruning after a clock step; a stale cache | no day skipped; history kept; silence only over a fresh backup |
| **Configuration** `controller-configuration-repository.ts`, `state-outbox.ts` | areas, channels, profiles, devices, schedules; revision and operator floor | one transaction per request under a revision check | replacing a collection from an old page | nothing dangles; nothing is deleted that its author could not know of |
| **Dialogs and schedule editor** `apps/web/src` | drafts, the revision they pin | open, edit, snapshot, save, answer, rebase | a snapshot between opening and touching; an answer after a conflict | no silent overwrite; drafts survive |
| **State outbox, SSE hub** `state-outbox.ts`, `realtime` | `state_events`, replay buffers, queues | commit, mirror, broadcast, replay, drain, heartbeat | replay racing live events; slow readers; crashes between databases | a client has every revision or is told to resynchronise |
| **Browser coordinator** `apps/web/src/controller-state-coordinator.ts` | snapshot, revision, connection | refresh, event, resync, retry | answers of superseded requests; a restored server | never back to an older revision; catches up |
| **Runtime, shutdown** `server.ts`, `application/runtime/controller-runtime.ts` | readiness, transport generation, started services | start, ready, announce, lose, stop | the pass of an older connection; callbacks during the stop | ready only after this connection's pass; nothing runs when the databases are closed |
| **Domain** `packages/domain`, `application/schedule-artifacts` | none | evaluate, round, compile | midnight, equal minutes, rounding twice | the device's fallback is close to what was sent |
| **ESP32 firmware** `INO` | outputs and leases; schedule files; clock and EEPROM; one diagnostic; the image | commands, `loop()`, boot | power loss between two file calls; failed writes; a silent controller | local control returns; the schedule survives; the EEPROM lasts; the diagnostic is heard |

The process is one event loop: between two awaits a piece of code is atomic, and
anything may happen at an await. The repository runs its mutating calls one
after the other (`#serialize`), and each is one SQLite transaction. Services call
each other directly; pages see the controller through HTTP and the event
stream; devices through MQTT.

## 2. How the modules fit together

| module | models | builds on |
|---|---|---|
| `OperationLifecycle` | *abstract*: what a caller may believe of one operation | |
| `DeviceOperations` | the service, its rows, a crashing process | implements `OperationLifecycle` |
| `CommandTransport` | *abstract*: what operations may believe of a transport | |
| `MqttTransport` | queues, lanes, publication lock, generations, discovery | implements `CommandTransport` |
| `FirmwareUpdates` | the update service **and** the device that installs the image | |
| `ScheduleDelivery` | runtime, reconciliation service, one device | |
| `OutputRefresh`, `TimeSync` | the scheduler's ticks and workers; the daily sync | |
| `LocalOutputs`, `ScheduleStore`, `DeviceClock`, `DeviceDiagnostics` | the firmware: outputs, schedule files, clock, diagnostic | |
| `ScheduleFallback` | the two evaluations of a schedule, over bounded days | |
| `DeviceRegistry`, `AlertLifecycle`, `StorageRecovery`, `Maintenance` | what is kept on record | |
| `OperatorConcurrency` | revision and operator floor | |
| `Configuration` → `ConfigurationDialogs` → `MappingProfilesDialog` | tables; dialogs that replace a collection; the profile dialog | `OperatorConcurrency` |
| `ScheduleEditor` | the drafts of a page and the saves it sends | `OperatorConcurrency` |
| `ManualOverrides` | overrides above their operations, one pin | |
| `StateEventStream` → `StateCoordinator` | outbox, mirror, hub, one connection; the browser and the network | |
| `RuntimeLifecycle` | start, transport events, callbacks, shutdown | |
| `MCDeviceOperations`, `MCMqttTransport` | instances of the two big ones | |
| `MCDelivery`, `MCRecords`, `MCOperators`, `MCController` | compositions for checking | |
| `…Proofs` (eight) | theorems, see section 4 | |

**Compositions for checking.** Machines that share no variable are checked side
by side in one run: `part` names the machine that moves in a behaviour, and the
others stay at an initial state, so that states add up instead of multiplying
and a property of one machine is not diluted by steps of another. The fairness
of a composed specification is that of the machine that moves. Machines that do
interact are one module: the update service and the device it flashes, the
controller and the browser, the configuration and its dialogs, the overrides and
their children.

**Layering.** `FirmwareUpdates`, `ScheduleDelivery`, `OutputRefresh`, `TimeSync`
and `ManualOverrides` see an operation as `OperationLifecycle` shows it (sent at
most once; succeeded, failed, or unknown). `DeviceOperations` sees the transport
as `CommandTransport` shows it. Both refinements are theorems.

A definition whose name starts with `Mutant` is a plausible bug in the code that
the definition after it models. `PROJECT.json` names for every checked property
one such bug that violates it.

### Notes on the models

- **Device operations.** `row` is `control_operations`; `owned` the children that
  an unresolved override result names; `active`, `cooldown`, `checkedAt` the maps
  that die with the process. `call[op].pc` is the await at which a call stands.
  The four ways to reconcile an unknown row are told apart, since their guards
  differ. `published` exists for the properties only.
- **Transport.** `locks` is the promise chain of `withPublicationLock`, which a
  rotation of the generation replaces: tickets of an older generation are still
  granted, find themselves out of date, and refuse. `Quiet`: continuations run
  before the next network or timer event. `sent` only grows, and `Respond` picks
  any message of it, so answers may be late, duplicated, and of an older
  connection.
- **Firmware updates.** `work` is the task that runs and the await it stands at;
  `esp` is the device with its boot marker and probation. A process ends between
  any two steps, which is the only way to a second command.
- **Schedule delivery.** A schedule stands for its hash. `tail` is the promise
  chain of passes; a pass reads the configuration at its turn. `handlers` counts
  the handlers of announcements by the await they stand at: one that has recorded
  the device may return early, or throw because the scheduling services did not
  start or the time synchronisation accepts no more, before it reconciles.
  `services` is what lasts as long as the process: a command that throws, of a
  schedule or of anything else that goes through the dispatcher, latches it
  (`commanding`), and from then on every delivery is blocked, and no pass makes
  the runtime ready. What is lost (connections, answers, notices, errors, ends of
  the process, announcements on top of one another) is counted by `spent.losses`.
- **Time sync.** A dispatch that is blocked is an outcome like another; one that
  throws, or a claim, a record or a list of devices that throws, ends the
  coordinator for the life of the process (`errored` remembers it).
- **Alerts.** A transition is dated by the clock, which may be set back, and
  deliveries are claimed by date, then by number, from the list one pass of the
  dispatcher has read. What the schema of an alert refuses is `Regressed`: an
  acknowledgement or a recovery dated before what it follows. Nothing compares a
  reopening with the recovery before it. An attempt or an outcome that the clock
  would date before the row ends the notification runtime.
- **Schedule store.** One action per call of the file system, each of which may
  fail; `Interrupted` gives the files that a power loss at this point may leave.
  `stranded` remembers a schedule that could not be moved back.
- **Overrides.** Times are what is left of them. `operation` has the aggregates,
  `child` the device operation each sends; `names` says whether the stored result
  lists the child, which is what makes it owned.
- **Configuration.** `born` is the revision that wrote a row last. A page's
  dialog holds the rows it copied and the revision it pinned; the two are taken
  at different moments, which is what the property on losses is about.
- **Maintenance.** Time is in slots, `PerDay` to a day. `claimed` is the one row
  of the guard, which refuses an earlier day with an error. An error of the
  recovery or of the claim leaves the retention coordinator `failed` until the
  process ends: the server stays up, and only the readiness probe
  (`server.ts:298`) tells. The end of a backup may be `lost`: its row could not be
  written either. `succeeded` remembers backups that were recorded, for the
  properties.
- **Transport, connections.** A connect event on a ready connection replaces it
  and rejects what is queued. mqtt.js reports the close of a connection, and
  settles the requests made on it, before it connects again; so one that is not
  ready yet is not replaced, and a handshake that was abandoned ends after its
  disconnection has already cleared `ready`. The unguarded `ready = false`
  at the end of a handshake that failed (`legacy-mqtt-transport.ts:547`) has
  nothing to clear then. The hazards list it.
- **Schedule editor.** `DiscardAll` is offered by the editor's handle
  (`CombinedScheduleEditor.tsx:271`), although no page calls it.
- **State synchronisation.** A revision stands for its event. The event id that
  an `EventSource` keeps (`cursor`) and the revision displayed (`rev`) differ: a
  snapshot may be ahead of the events.
- **Runtime.** A task is one run of a callback through its awaits; `launched`
  counts what has been started, `passed` the connections whose pass went well.

## 3. Checks

| run (module, cfg) | instance | distinct states | what it shows |
|---|---|---|---|
| `delivery` (`MCDelivery`, `Delivery.cfg`) | one machine at a time: two requests of an update, one change of a schedule with two losses and two reconciliations that wait, two clocks to time 3 with a restart and a step back, two versions of two outputs, a device with one pin, four stores with three failed calls and two power cuts, seven ticks of a clock, schedules of three points, a diagnostic | 601,831 | what the controller sends a device unasked, and what a device does on its own, ends well and in order |
| `schedule_change_lost` (`ScheduleDelivery`, `ScheduleChange.cfg`) | one device, one change | about 770 | **violation**: a change at startup is not compiled |
| `mqtt_transport` (`MCMqttTransport`) | four commands of two priorities, three devices, two lanes, two connections, a shutdown | 1,019,429 | the queue, the rotation and the requests, in every order; the contract of the transport |
| `operators` (`MCOperators`) | three revisions, two areas, two channels, one profile, page and device, two hardware kinds, two overrides, one edit, one fault | 561,173 | what operators ask for, from their pages and by overrides |
| `dialog_save` (`ConfigurationDialogs`) | two areas, one page | 1,042 | **violation**: a dialog deletes a row it never showed |
| `editor_save` (`ScheduleEditor`) | one channel, three contents | about 5,500 | **violation**: an answer clears a conflict |
| `device_operations_pwm` (`MCDeviceOperations`) | a routine refresh and a manual write of one device, one crash, one step back of the clock, time 0–2 | 1,045,026 | the durable operations of a device, and that they implement `OperationLifecycle` |
| `device_operations_live` (`MCDeviceOperations`) | an edit and a schedule, one crash, time 0–3, fairness | 582,823 | every operation is settled |
| `device_operations_ota` (`MCDeviceOperations`) | an update and the release of a hold | 340 | **violation**: two kinds are not recovered |
| `records` (`MCRecords`) | three slots a day to slot 9, two revisions, one backup, three transitions of an alert at three dates, one fault, two calls | 730,389 | quarantine, alerts, storage and maintenance |
| `controller` (`MCController`) | two commits, queues of one frame, three disturbances of seven kinds; two tasks, five generations, one mishap | 458,293 | the page catches up; the runtime starts, reconciles and stops |
| `state_coordinator_restore` (`StateCoordinator`) | the same page, a restored backup | 33,404 | **violation**: the page asks for a lost revision |

The properties of each run are in its cfg, and what each says is above its
definition.

**Bounds.** One device is enough wherever nothing in the service couples two
(operations, updates, artifacts, registry, overrides on one pin); two
operations, two overrides, two callbacks, two schedules, two commits are the
least that compete or follow one another, and for the output refresh two outputs
make a batch that can be overtaken half way. Deadlines, leases and cooldowns are one or
two units, with a clock that goes far enough for each to expire after the other.
The transport has two lanes and three devices, so that one waits, and two
connections, so that one is stale. The stores have a budget of four schedules,
three failed calls and two power cuts, because the case that the exception of
`ScheduleSurvives` is about takes that many (see section 4). A day of the maintenance has
three slots, and a week two days, so that ten slots cross days and weeks. A day of
the fallback has five minutes and graphs three points: every order of two
segments, the step at midnight, and every rounding of the percentages given. Two losses of a
schedule's delivery are an error and the end of the process that it makes
necessary, or a lost answer and a lost connection; two reconciliations that wait
are one behind another. Three dates and a clock set back once date a reopening
before the recovery, and before the opening. One pass of the alert evaluation is
under way at a time in the run, since evaluations are serial and a second pass
adds only what it has read before its turn; the theorems have any number of
passes. The theorems do not depend on any of these bounds.

**Deadlock** is not checked: processes stop after their last call, clocks and
faults are bounded, and pages wait for their users.

**Fairness.**
`DeviceOperations`: awaited promises are continued, a transport that neither
answers nor refuses times out (the code arms a timer for every command), and the
service manager restarts the process.
`MqttTransport`: continuations, timers, and the mqtt.js callbacks that end a
publication; not connections, and not answers.
`FirmwareUpdates`: tasks, the device's own progress (download, install, probation
or its timeout, outputs going off), and the restart.
`ScheduleDelivery`: passes, notices, the connection, the start of the scheduling
services, handlers, and `AnnounceInQuiet`: an announcement that finds nothing
under way. Announcements may follow one another as closely as every second
(`INO:66`), and then one may find the one before it under way (`AnnounceAgain`);
but a discovery answers every minute or more, a pass ends within the timeout of
one command, and so a device that is there does announce itself in quiet again
and again. A restart is nobody's duty, hence the exception of `DeviceConverges`.
`OutputRefresh`: ticks, sends, answers and the end of a stop.
`LocalOutputs`: `loop()` runs. `DeviceDiagnostics`: the device reconnects and its
queue is served.
`DeviceRegistry`: time, announcements, and the serial tail.
`AlertLifecycle`: passes of the timer, evaluations, the dispatcher and time.
`ManualOverrides`: attempts, the due pass, start and time.
`StateCoordinator`: the one-second pass, socket delivery, request answers, the
restart; no commit, no disturbance and no user.
`RuntimeLifecycle`: awaits come to an end, and the teardown goes on.

**Findings** (a run of their own each).

1. `schedule_change_lost`: a change broadcast between the startup pass's read and
   the moment the runtime becomes ready is dropped, although
   `controller-runtime.ts:387` says it cannot be.
2. `dialog_save`: the management dialogs copy their rows when they open and pin
   the revision when they are first touched; a row added in between is deleted
   by the save, without a conflict.
3. `editor_save`: the answer to a save clears a conflict that a later snapshot
   has raised; the next save overwrites the other operator's schedule.
4. `device_operations_ota`: `recoverInterrupted` selects by a list of kinds
   without `firmware_update` and `release_startup_hold`; such rows stay in flight
   for ever.
5. `state_coordinator_restore`: with a snapshot ahead of the last event id and a
   database restored to a revision between the two, the page asks for the lost
   revision for ever, while heartbeats show the lost snapshot as fresh.

**Other places where the code and its words part**, met while modelling and not
given a run:

- `docs/architecture.md:396` says a stale heartbeat closes and replaces the event
  stream; the watchdog changes only what is displayed, and is not armed again.
- `docs/architecture.md:111` says notifications start before the runtimes that
  produce alerts and drain after them; `storageHealthCoordinator`, which opens the
  backup alerts, starts before and stops after them (`server.ts:397`, `:466`).
- `docs/architecture.md:336` says an unknown start is reconciled by its override;
  one whose override was replaced meanwhile is reconciled by nobody (`Stranded`
  in `ManualOverrides`, excepted by `OverrideEnds`).
- `firmware/esp32/README.md:113` says it will not format if the attempt counter
  cannot be persisted; `mountSpiffsWithRecovery` ignores the result of `putUChar`.
- `docs/architecture.md:422` says the deletion of an area is rejected while
  channels or outputs belong to it; the code deletes them with it.
- `apps/web/src/MappingProfilesDialog.tsx:421`: after a refused save the next one
  goes by the newest revision the page has heard of, with the draft as it was,
  although `docs/remaining-work-plan.md:596` speaks of an explicit rebase.
- `application/scheduling/output-refresh-scheduler.ts:465`: a batch is given up,
  after the command under way, for a newer one, which begins with the first
  output again: while commands take longer than ticks the last outputs of a
  device are never refreshed, which `docs/remaining-work-plan.md:708` promises.
- An announcement during the stop may begin the start of the scheduling services
  behind it: the exception that `ClosedIsQuiet` states.

## 4. Proofs

All theorems assume the named assumptions on the constants
(`OperationConstants`, `StoreAssumption`, …) and nothing else; TLC evaluates the
same assumptions in the runs. Every proof has the same shape: a typing
(`…TypeOK` conjunct by conjunct, with the records of the model spelled out as
sets), an inductive invariant that implies the property, one lemma per group of
actions, and PTL at the end. The typing lemmas of an operator (`…Typed`) come
before the step that uses it.

| module | property proved | inductive invariant, and why the property alone is not inductive |
|---|---|---|
| `DeviceOperationsProofs` | `NoPhantomEffect`, `AtMostOnePublication`, `ReservationMatchesAttempt`, `LeaseOutlivesReconciliation`, `OnlyTheOwnerReconciles`, `RecoveredKindsHaveNoOrphans`, `ImplementsLifecycle` | `Consistent`: call and row, call and wire, row and wire, phase and calls agree. A pending row may be published only because its call, by where it stands, has not done so. `LeaseKept` adds what a scan holds: rows that were due when it read them stay due, whatever the clock does. `OwnedArePwm` is why an announced schedule cannot reconcile an override's child |
| `MqttTransportProofs` | `AnswersAreOwn`, `KeepsContract` | `RequestsDiffer`: request numbers are given once in the life of the process. `Placed`: a command is in one place of one queue, in one lane, or settled, and what the wire may hold in each case |
| | `NoWorkIsForgotten` | `InRotation`: a device with work and no lane is once in the rotation of its next command's priority and in no other; `LanesBounded`, `Pumped`: a ready transport outside a round has a full set of lanes, or every device with work has one; `ConnectedWhileStarted` |
| `DeliveryProofs` | `OneCommandPerRequest` | `SentOnce`, `SentForARow`: once sent, the running task or the row remembers it, and a task is about the row that is there |
| | `DeliveredWasTaken` | `Taken`: what the delivery under way has seen of the device, wherever an error or the end of the process cuts it off |
| | `OneDailySyncPerDay`, `GivesUpForCause` | `LaunchedOnce`: no sync after the day of the guard. `ClockTroubles`: while the clock was never set back, guards are not of a later time, and what a run has still to claim is older than the run; a run that failed has a cause |
| | `NewestWins` | `InOrder`: shown ≤ running batch ≤ waiting batch ≤ what a tick has read ≤ the configuration, per output, wherever the running batch stands |
| `DeviceProofs` | `ScheduleSurvives` | `DiskKept`, `Followed`: only the staging file is ever torn, and where the followed schedule is at each step of a store |
| | `FallbackIsClose` | `FallbackKept`: what the device holds is nothing or, link for link, the scaled copy of a valid schedule (`Copied`), and the schedule, the scale and the minute are in their ranges (`Laid`). Why the two evaluations are then close is said below |
| | `WearIsBounded` | `Paced`: the hours that commits account for, with one in hand for a clock just set and a failed attempt |
| `RecordsProofs` | `QuarantineHoldsWithoutEdits` | the row of a quarantined device names the fault, which is what an announcement looks at |
| | `OnceAndInOrder` | `Dated`: only a reopening is dated before what came before it. `Notified`: what waits may be sent after all that does not, the batch before what has come since, and what the webhook got is in order with what is about to be sent |
| | `NoChangeForgotten` | `StepsInOrder`, `BackupsComplete`: what is about to be marked or deleted is elsewhere already; a backup alone has every change from its own beginning |
| | `NoDayIsSkipped` | `RetainsDaily`, `BacksUpDaily`: when each timer will fire, relative to what is claimed and on record; a coordinator that has not failed has a timer |
| | `QuietMeansBackedUp` | `RunsWritten`: a run that has not ended is of the last claimed day, one that succeeded ended on its day, and one that failed no earlier; so the newest failure is not hidden by an older success |
| | `HistoryKept` | `Remembers`: a recent success has a backup of its day or week in what the next pruning keeps. Pruning keeps the largest of a set, which exists by well-founded induction on the naturals (`LeastOf`, `GreatestOf`) |
| `ManualOverridesProofs` | `NoOrphanedChild` | `Lineages`: attempt, aggregate and child keep step; a release begins with the end of the start; nothing is under way while the process is down |
| | `OverlapNeedsRepoint` | `Single`: while no mapping was moved, one override at most is on the pin and one at most is starting, which replaces the one that is there; an override refers to its release as soon as there is one |
| `ConfigurationProofs` | `NothingDangles`, `NoLossBeyondToken` | `BornBelowFloor`: no row is newer than the floor, so a save that passes the check cannot delete one its author's revision does not cover; and what each dialog holds is of the right sort |
| | `DraftsSurvive` | `EditorInv`: the records of the editor, the request in flight among them, are what they should be; no action but the user's then changes the points of a dirty draft |
| `ControllerProofs` | `FreshHasEveryBroadcast` | `Streaming`: the frames on their way continue what the page has seen, in order and without a gap, up to what the hub accepted last; `Awaiting`: a page that waits for a snapshot has asked for one; `Heard`: a revision that was broadcast is in the replay, in the buffer, or accepted |
| | `ShownNeverGoesBack` | `Page`: the page insists on at least what it shows, and every answer it still waits for is refused when older than that; `ServerOrder`: mirrored ≤ committed |
| | `ReadyIsReconciled`, `ClosedIsQuiet` | `PassedForThisConnection`; `StopsInOrder`, `SchedulingEnds`: what each stage of the stop leaves behind |

Type correctness is a theorem of every module in the table. TLC found the
inductive invariants of `StateCoordinator` and `ScheduleFallback` to hold of small
instances (1.7 and 0.3 million states) before they were proved.

**Loops.** A loop of the code is a recursive function on the rounds of the loop.
What it leaves is proved from one round: if a round keeps a relation between
what it is given and what it returns, the smallest round that breaks it cannot
exist, and a set of naturals has a smallest member by well-founded induction.
`LoopRuns` and `UpToTheBound` of `ControllerProofs` say this for the replays and
the broadcasts of the event stream; the device's search for the segment
that covers a minute, and the choice of the backup to keep, are instances of the
same argument.

**`FallbackIsClose`.** The error of what a device shows when it follows its copy
is that of three conversions that round (each half a unit at most) and of one
that truncates, through an interpolation whose weights add up to one
(`Interpolated`). The inequality is of products of variables, which SMT does not
decide: products are named (`Times`), the few facts about them are lemmas, and
each leaf is linear in the names. By this count
the error is between -432.5 and 177.5 of the 255ths of a point in which the
property allows -510 to 255.

Four attempts to prove changed the models:

- `ScheduleSurvives` as first stated (the loaded schedule is the one in force or
  the incoming one, unless it was stranded) holds for three stores and fails for
  four: a schedule that could not be moved back stays in `schedule.previous`; a
  later store begins by removing `schedule.next`; a power cut then leaves a device
  that follows none, and a further store that fails can bring the old schedule
  back. The model now tells a stranded schedule from one after which a store was
  begun again, excepts only the second, and only with a schedule that is absent; the run has the
  four stores.
- `TerminalOverrideState` in `ManualOverrides` was a CASE two arms of which a
  failed start matched: TLC takes the first, TLA+ either, and the code the first.
  It is an IF chain now, as are three operators of `LocalOutputs`.
- The outcomes of `Happens` in `Maintenance` are counted by a sum that is written
  out, since a fold over a set is out of the provers' reach.
- The handlers of `StateEventStream` that go over a batch of events were folds
  over a sequence; they are `InOrder`, a recursive function of the revision, now,
  and what a drain writes (`Drained`) is given in closed form. The reachable
  states are the same.

`GivesUpForCause` (time sync) is proved and has no run: within the
bounds of the run the clock can be wrong in only a few ways, and the theorem
says it for all. It does not say that the coordinator lives on: a command or a
write that throws ends it until the process restarts.

**Exceptions that properties state**, since the code has them:

- `DeviceConverges`: a process that needs a restart. A dispatch that threw has
  latched the dispatcher (`scheduled-device-operations.ts:104`), or the start of
  the scheduling services or the time synchronisation has failed, and then an
  announcement throws before it reconciles (`controller-runtime.ts:223`).
- `NoDayIsSkipped`: an error of `recoverStaleRuns` or of the claim ends the
  retention coordinator until the process restarts
  (`daily-event-retention-coordinator.ts:215`, `:265`); and a clock that was set
  back, which makes the claim of an earlier day such an error.
- `OnceAndInOrder`: a clock set back may date a reopening before the recovery
  that precedes it, and the dispatcher sends by date
  (`notification-dispatcher.ts:225`). From an opening to its recovery the order
  always holds.
- `DraftsSurvive`: the user discards every draft.
- `LocalControlReturns`, `OverrideEnds`, `ClosedIsQuiet`, `ScheduleSurvives`: at
  their definitions, and under "hazards" in `PROJECT.json`.

**Only model-checked.** Everything under fairness (`UpdateSettles`,
`DeviceConverges`, `LocalControlReturns`, `DiagnosticHeard`, `EveryCommandSettles`,
`OverrideEnds`, `EveryOperationSettles`, `SilentDeviceReturns`, `Settles`,
`PagesCatchUp`, `ShutdownEnds`): liveness and ENABLED are outside of what the
prover does. Every invariant and every safety property of a step that a passing
run checks is the statement of a theorem.

## 5. Not modelled

`PROJECT.json` lists every component with its status and what is left out of it.
Not modelled: HTTP routing and validation, the grammar of the device protocol
and the parsing of messages, rendering, graph drawing and undo, the legacy
import, the interaction log, fake devices and the legacy application. Inside the
modelled components: batches of several commands in one call (no caller in the
source makes one for the transport; the service walks through them one after
the other), overrides of several outputs, several devices in one firmware
request, Wi-Fi and MQTT connection keeping of the device and its request cache,
the thresholds of disk use, and the reporting of fatal errors. SQLite's online
backup is taken to give one consistent copy, and a rename of SPIFFS to be atomic.

What is left to do: the release of several outputs by one override; the request
cache of the device, which answers a repeated request, composed with the
transport's request numbers.
