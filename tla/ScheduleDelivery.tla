--------------------------- MODULE ScheduleDelivery ---------------------------
(***************************************************************************)
(* How a change of the configuration becomes the schedule one ESP32 runs:  *)
(* ControllerRuntime, which asks for reconciliations when it is ready, and *)
(* ScheduleReconciliationService, which compiles what the device should    *)
(* run, keeps it in device_schedule_artifacts and delivers it through the  *)
(* ScheduledDeviceOperationDispatcher that all scheduled commands share.   *)
(*                                                                         *)
(* A schedule stands for its hash; the one that does not compile is "bad". *)
(***************************************************************************)
EXTENDS Integers, Sequences, SequencesExt

CONSTANTS
    Schedules,      \* the hashes configurations compile to
    MaxChanges,     \* bound: changes of the configuration
    MaxLosses,      \* bound: connections lost, deliveries without an answer,
                    \* announcements on top of one another, errors of any
                    \* step, and ends of the process
    MaxQueued       \* bound: announcements and reconciliations that wait

ASSUME ScheduleConstants ==
    /\ Schedules # {} /\ "bad" \notin Schedules /\ "none" \notin Schedules
    /\ {MaxChanges, MaxLosses} \subseteq Nat /\ MaxQueued \in Nat \ {0}

VARIABLES
    wanted,     \* the configuration's schedule and the state revision
    runs,       \* the schedule the device runs
    reported,   \* devices.reported_schedule_hash
    artifact,   \* the device_schedule_artifacts row
    operation,  \* the status of the schedule operation without a known end
    services,   \* what lasts as long as the process: whether the scheduling
                \* services were started, whether the time synchronisation
                \* accepts announcements, and whether the dispatcher commands
    runtime,    \* ControllerRuntime: its transport, whether it is ready, its
                \* pass at the start
    notices,    \* committed events not yet broadcast
    handlers,   \* handlers of announcements, by the await they stand at
    tail,       \* reconciliations behind the device's
    running,    \* the one that runs
    spent,      \* changes and losses so far
    taken       \* history: the schedules the device ever took

\* What a reconciliation does not change, and what nothing but one does.
surroundings == <<wanted, reported, notices, handlers, tail>>
scheduleVars == <<surroundings, runs, artifact, operation, services, runtime, running, spent, taken>>

None == "none"
Hashes == Schedules \cup {"bad"}
Unresolved == {"pending", "in_flight", "outcome_unknown"}
Deliveries == {"not_required", "succeeded", "failed"} \cup Unresolved

NoArtifact == [revision |-> 0, compiled |-> FALSE, hash |-> None, delivery |-> "not_required"]
\* A reconciliation: evidence is the hash the device reported, result the end
\* of the delivery.
NoPass == [pc |-> "idle", trigger |-> "startup", behind |-> FALSE, hash |-> None, revision |-> 0,
           evidence |-> None, result |-> None]
NoHandlers == [recorded |-> 0, synced |-> 0]
NoServices == [scheduling |-> "none", accepting |-> FALSE, commanding |-> TRUE]
NoRuntime == [transport |-> FALSE, ready |-> FALSE, pass |-> None]

\* saveCompiledArtifact and saveCompilationFailure: a row of a later revision stays.
MutantSaved(a, revision, hash, delivery) ==
    [revision |-> revision, compiled |-> hash # "bad", hash |-> IF hash = "bad" THEN None ELSE hash,
     delivery |-> IF delivery = "not_required" THEN a.delivery ELSE delivery]

Saved(a, revision, hash, delivery) ==
    IF a.revision > revision THEN a
    ELSE [revision |-> revision, compiled |-> hash # "bad",
          hash |-> IF hash = "bad" THEN None ELSE hash, delivery |-> delivery]

\* Whatever the program does not do of itself.
Lose ==
    /\ spent.losses < MaxLosses
    /\ spent' = [spent EXCEPT !.losses = @ + 1]

Quiet == handlers = NoHandlers /\ tail = <<>> /\ running.pc = "idle"
Room == handlers.recorded + handlers.synced + Len(tail) < MaxQueued

-----------------------------------------------------------------------------
ScheduleInit ==
    /\ \E s \in Schedules : wanted = [hash |-> s, revision |-> 1]
    /\ runs \in Schedules /\ reported = None
    /\ artifact = NoArtifact /\ operation = None
    /\ services = NoServices /\ runtime = NoRuntime
    /\ notices = 0 /\ handlers = NoHandlers /\ tail = <<>> /\ running = NoPass
    /\ spent = [changes |-> 0, losses |-> 0]
    /\ taken = {}

\* An operator's change commits; its event waits for the next mirror pass.
Change(hash) ==
    /\ spent.changes < MaxChanges /\ hash # wanted.hash
    /\ wanted' = [hash |-> hash, revision |-> wanted.revision + 1]
    /\ notices' = notices + 1
    /\ spent' = [spent EXCEPT !.changes = @ + 1]
    /\ UNCHANGED <<runs, reported, artifact, operation, services, runtime, handlers, tail, running,
                   taken>>

Queued(trigger) ==
    Append(tail, [trigger |-> trigger, behind |-> running.pc # "idle" \/ tail # <<>>])

\* requestScheduleReconciliation: a runtime that is not ready forgets it.
RequestScheduleReconciliation ==
    /\ notices > 0 /\ Room
    /\ notices' = notices - 1
    /\ tail' = IF runtime.ready THEN Queued("mutation") ELSE tail
    /\ UNCHANGED <<wanted, runs, reported, artifact, operation, services, runtime, handlers, running,
                   spent, taken>>

\* A mirror pass that fails after the rows were mirrored: nobody hears of them.
NoticeLost ==
    /\ notices > 0 /\ Lose
    /\ notices' = notices - 1
    /\ UNCHANGED <<wanted, runs, reported, artifact, operation, services, runtime, handlers, tail,
                   running, taken>>

\* The transport is ready, and handled by a task of the new generation.
TransportReady ==
    /\ ~runtime.transport
    /\ runtime' = [transport |-> TRUE, ready |-> FALSE, pass |-> "starting"]
    /\ UNCHANGED <<surroundings, runs, artifact, operation, services, running, spent, taken>>

\* A new lifecycle begins another generation: the pass before makes nothing
\* ready when it ends.
TransportLost ==
    /\ runtime.transport /\ Lose
    /\ runtime' = NoRuntime
    /\ tail' = [i \in DOMAIN tail |->
                   [tail[i] EXCEPT !.trigger = IF @ = "startup" THEN "mutation" ELSE @]]
    /\ running' = [running EXCEPT !.trigger = IF @ = "startup" THEN "mutation" ELSE @]
    /\ UNCHANGED <<wanted, runs, reported, artifact, operation, services, notices, handlers, taken>>

\* ensureSchedulingStarted: once in the life of the process, by whoever comes
\* first; an error stays.
StartScheduling ==
    /\ services.scheduling = "none"
    /\ runtime.pass = "starting" \/ handlers.recorded > 0
    /\ \/ /\ services' = [services EXCEPT !.scheduling = "started", !.accepting = TRUE]
          /\ UNCHANGED spent
       \/ /\ Lose /\ services' = [services EXCEPT !.scheduling = "failed"]
    /\ UNCHANGED <<surroundings, runs, artifact, operation, runtime, running, taken>>

\* #handleTransportReady: a pass over every device, unless nothing started.
BeginStartupPass ==
    /\ runtime.pass = "starting" /\ services.scheduling # "none"
    /\ services.scheduling = "started" => Room
    /\ IF services.scheduling = "started"
       THEN runtime' = [runtime EXCEPT !.pass = "queued"] /\ tail' = Queued("startup")
       ELSE runtime' = [runtime EXCEPT !.pass = None] /\ UNCHANGED tail
    /\ UNCHANGED <<wanted, runs, reported, artifact, operation, services, notices, handlers, running,
                   spent, taken>>

\* The end of #handleTransportReady.
BecomeReady ==
    /\ runtime.pass = "done"
    /\ runtime' = [runtime EXCEPT !.ready = services.commanding, !.pass = None]
    /\ UNCHANGED <<surroundings, runs, artifact, operation, services, running, spent, taken>>

-----------------------------------------------------------------------------
(* The handler of an announcement.  The device announces itself when it    *)
(* connects, when it is discovered, and when its telemetry or a diagnostic *)
(* changes, as often as every second.                                      *)

\* handleAnnouncement records the hash.
Announce ==
    /\ runtime.transport /\ Room
    /\ reported' = runs
    /\ handlers' = [handlers EXCEPT !.recorded = @ + 1]
    /\ UNCHANGED <<wanted, runs, artifact, operation, services, runtime, notices, tail, running, taken>>

AnnounceInQuiet == Quiet /\ Announce /\ UNCHANGED spent

AnnounceAgain == ~Quiet /\ Lose /\ Announce

\* The device may not be commanded, or its outputs could not be released.
HandlerReturns ==
    /\ handlers.recorded > 0 /\ Lose
    /\ handlers' = [handlers EXCEPT !.recorded = @ - 1]
    /\ UNCHANGED <<wanted, runs, reported, artifact, operation, services, runtime, notices, tail,
                   running, taken>>

\* ensureSchedulingStarted and signalAnnouncement, either of which throws for
\* as long as the process lives once it has failed.
SignalTimeSync ==
    /\ handlers.recorded > 0 /\ services.scheduling # "none"
    /\ handlers' = [recorded |-> handlers.recorded - 1,
                    synced |-> IF services.accepting THEN handlers.synced + 1 ELSE handlers.synced]
    /\ UNCHANGED <<wanted, runs, reported, artifact, operation, services, runtime, notices, tail,
                   running, spent, taken>>

\* The handler ends with a reconciliation, whether the runtime is ready or not.
ReconcileAnnounced ==
    /\ handlers.synced > 0
    /\ handlers' = [handlers EXCEPT !.synced = @ - 1]
    /\ tail' = Queued("announcement")
    /\ UNCHANGED <<wanted, runs, reported, artifact, operation, services, runtime, notices, running,
                   spent, taken>>

\* A time sync throws: the coordinator stops, and if it was the command that
\* threw, the dispatcher latches.
TimeSyncFails ==
    /\ services.accepting /\ Lose
    /\ \E latched \in BOOLEAN :
           services' = [services EXCEPT !.accepting = FALSE, !.commanding = @ /\ ~latched]
    /\ UNCHANGED <<surroundings, runs, artifact, operation, runtime, running, taken>>

\* A command of an output or an override throws.
OtherCommandThrows ==
    /\ services.scheduling = "started" /\ services.commanding /\ Lose
    /\ services' = [services EXCEPT !.commanding = FALSE]
    /\ UNCHANGED <<surroundings, runs, artifact, operation, runtime, running, taken>>

-----------------------------------------------------------------------------
(* One reconciliation, reconcileDeviceNow.                                 *)

\* loadProjection: the revision and what it compiles to.
LoadProjection ==
    /\ running.pc = "idle" /\ tail # <<>>
    /\ running' = [pc |-> "decide", trigger |-> Head(tail).trigger, behind |-> Head(tail).behind,
                   hash |-> wanted.hash, revision |-> wanted.revision, evidence |-> reported,
                   result |-> None]
    /\ tail' = Tail(tail)
    /\ UNCHANGED <<wanted, runs, reported, artifact, operation, services, runtime, notices, handlers,
                   spent, taken>>

\* The end of a reconciliation, with the pass that waits for it.
Finish ==
    /\ running' = NoPass
    /\ runtime' = IF running.trigger = "startup" THEN [runtime EXCEPT !.pass = "done"] ELSE runtime

Save(delivery) == artifact' = Saved(artifact, running.revision, running.hash, delivery)

CompileFails ==
    /\ running.pc = "decide" /\ running.hash = "bad"
    /\ Save("not_required") /\ Finish
    /\ UNCHANGED <<surroundings, runs, operation, services, spent, taken>>

MutantResolvable == FALSE

\* An announcement settles what nobody knew; any other trigger waits for one.
Resolvable == operation = "outcome_unknown" /\ running.trigger = "announcement"

Blocked ==
    /\ running.pc = "decide" /\ running.hash # "bad"
    /\ operation # None /\ ~Resolvable
    /\ Save(operation) /\ Finish
    /\ UNCHANGED <<surroundings, runs, operation, services, spent, taken>>

Decide ==
    /\ running.pc = "decide" /\ running.hash # "bad"
    /\ operation = None \/ Resolvable
    /\ operation' = None
    /\ IF running.evidence = running.hash
       THEN Save("not_required") /\ Finish
       ELSE IF /\ artifact.compiled /\ artifact.hash = running.hash
               /\ running.behind \/ running.trigger # "announcement"
            THEN Save(artifact.delivery) /\ Finish
            ELSE running' = [running EXCEPT !.pc = "send"] /\ UNCHANGED <<artifact, runtime>>
    /\ UNCHANGED <<surroundings, runs, services, spent, taken>>

Took == runs' = running.hash /\ taken' = taken \cup {running.hash}
Answered(result) == running' = [running EXCEPT !.pc = "save", !.result = result]

\* executeDeviceOperation: the device takes the schedule, or refuses it, or
\* nothing was sent.
Deliver ==
    /\ running.pc = "send" /\ services.commanding
    /\ \/ runtime.transport /\ Took /\ Answered("succeeded") /\ UNCHANGED spent
       \/ Lose /\ Answered("failed") /\ UNCHANGED <<runs, taken>>
       \/ ~runtime.transport /\ Answered("failed") /\ UNCHANGED <<runs, taken, spent>>
    /\ UNCHANGED <<surroundings, artifact, operation, services, runtime>>

\* No answer: the device took it or not, and the operation says so.
DeliverUnknown ==
    /\ running.pc = "send" /\ services.commanding /\ runtime.transport /\ Lose
    /\ Took \/ UNCHANGED <<runs, taken>>
    /\ operation' = "outcome_unknown" /\ Answered("outcome_unknown")
    /\ UNCHANGED <<surroundings, artifact, services, runtime>>

SaveDelivery ==
    /\ running.pc = "save" /\ Save(running.result) /\ Finish
    /\ UNCHANGED <<surroundings, runs, operation, services, spent, taken>>

\* #reconcileSchedules catches an error: no more requests until the transport
\* is ready again, and the pass that failed does not make it ready.
Thrown ==
    /\ running' = NoPass
    /\ runtime' = [runtime EXCEPT !.ready = FALSE,
                                  !.pass = IF running.trigger = "startup" THEN None ELSE @]

\* A dispatch that throws latches the dispatcher, whatever it leaves of the
\* operation; from then on it refuses every command.
DispatchThrows ==
    /\ running.pc = "send" /\ services.commanding /\ Lose
    /\ \/ operation' \in {None, "pending", "in_flight"} /\ UNCHANGED <<runs, taken>>
       \/ runtime.transport /\ operation' = "in_flight" /\ Took
    /\ services' = [services EXCEPT !.commanding = FALSE]
    /\ Thrown
    /\ UNCHANGED <<surroundings, artifact>>

DispatchBlocked ==
    /\ running.pc = "send" /\ ~services.commanding
    /\ Thrown
    /\ UNCHANGED <<surroundings, runs, artifact, operation, services, spent, taken>>

\* A read or a write throws, before or after what was unknown was settled.
ReconcileFails ==
    /\ running.pc \in {"decide", "save"} /\ Lose
    /\ operation' \in {operation, IF running.pc = "decide" /\ Resolvable THEN None ELSE operation}
    /\ Thrown
    /\ UNCHANGED <<surroundings, runs, artifact, services, taken>>

-----------------------------------------------------------------------------
\* The process ends and starts again: only the databases and the device are
\* as they were, and recoverInterrupted settles a row that was not.
Restart ==
    /\ Lose
    /\ \/ operation' = (IF operation \in {"in_flight", "outcome_unknown"}
                        THEN "outcome_unknown" ELSE None)
          /\ UNCHANGED <<runs, taken>>
       \/ /\ running.pc = "send" /\ services.commanding /\ runtime.transport
          /\ operation' = "outcome_unknown"
          /\ Took \/ UNCHANGED <<runs, taken>>
    /\ services' = NoServices /\ runtime' = NoRuntime
    /\ notices' \in 0 .. notices
    /\ handlers' = NoHandlers /\ tail' = <<>> /\ running' = NoPass
    /\ UNCHANGED <<wanted, reported, artifact>>

-----------------------------------------------------------------------------
Reconcile ==
    \/ LoadProjection \/ CompileFails \/ Blocked \/ Decide \/ Deliver \/ DeliverUnknown
    \/ SaveDelivery \/ DispatchBlocked

HandleTransportReady == StartScheduling \/ BeginStartupPass \/ BecomeReady
HandleAnnouncement == StartScheduling \/ SignalTimeSync \/ ReconcileAnnounced

ScheduleNext ==
    \/ (\E h \in Hashes : Change(h)) \/ RequestScheduleReconciliation \/ NoticeLost
    \/ TransportReady \/ TransportLost \/ HandleTransportReady
    \/ AnnounceInQuiet \/ AnnounceAgain \/ HandlerReturns \/ HandleAnnouncement
    \/ TimeSyncFails \/ OtherCommandThrows
    \/ Reconcile \/ DispatchThrows \/ ReconcileFails
    \/ Restart

ScheduleSafety == ScheduleInit /\ [][ScheduleNext]_scheduleVars

\* The device announces itself in quiet again and again: discovery is a minute
\* or more apart, and a pass takes at most the timeout of one command.
ScheduleSpec ==
    /\ ScheduleSafety
    /\ WF_scheduleVars(Reconcile)
    /\ WF_scheduleVars(RequestScheduleReconciliation)
    /\ WF_scheduleVars(TransportReady)
    /\ WF_scheduleVars(HandleTransportReady)
    /\ WF_scheduleVars(HandleAnnouncement)
    /\ WF_scheduleVars(AnnounceInQuiet)

-----------------------------------------------------------------------------
ScheduleTypeOK ==
    /\ wanted.hash \in Hashes /\ wanted.revision \in 1 .. MaxChanges + 1
    /\ runs \in Schedules /\ reported \in Schedules \cup {None}
    /\ artifact \in [revision : 0 .. wanted.revision, compiled : BOOLEAN,
                     hash : Schedules \cup {None}, delivery : Deliveries]
    /\ operation \in Unresolved \cup {None}
    /\ services \in [scheduling : {"none", "started", "failed"}, accepting : BOOLEAN,
                     commanding : BOOLEAN]
    /\ runtime \in [transport : BOOLEAN, ready : BOOLEAN, pass : {None, "starting", "queued", "done"}]
    /\ handlers \in [recorded : 0 .. MaxQueued, synced : 0 .. MaxQueued]
    /\ handlers.recorded + handlers.synced + Len(tail) <= MaxQueued
    /\ running.pc \in {"idle", "decide", "send", "save"}

(* A delivery the controller shows as done was done: the device did take   *)
(* the schedule that the artifact holds, whatever changed back and forth,  *)
(* threw, or ended while it was under way.                                 *)
DeliveredWasTaken == artifact.delivery = "succeeded" => artifact.hash \in taken

(* What only a restart clears: a dispatcher that a thrown command has      *)
(* latched, and a time synchronisation that has failed, which every        *)
(* announcement has to pass before its device is reconciled.               *)
NeedsRestart ==
    \/ ~services.commanding
    \/ services.scheduling = "failed"
    \/ services.scheduling = "started" /\ ~services.accepting

(* Whatever was lost on the way, and however often the process ended, the  *)
(* device ends up with the schedule the configuration asks for, as long as *)
(* it goes on announcing itself and unless the process that is left needs  *)
(* a restart.                                                              *)
RunsWhatIsWanted == runs = wanted.hash \/ wanted.hash = "bad"
DeviceConverges == <>[](RunsWhatIsWanted \/ NeedsRestart)

(* "A ready/reconnect lifecycle always performs a full startup pass, so a  *)
(* persisted mutation observed while offline cannot be lost": a runtime    *)
(* that is ready, with nothing left to do, has compiled the last change.   *)
NoChangeLost ==
    (runtime.ready /\ notices = 0 /\ Quiet) => artifact.revision = wanted.revision
=============================================================================
