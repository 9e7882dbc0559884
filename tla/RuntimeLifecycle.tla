-------------------------- MODULE RuntimeLifecycle --------------------------
(***************************************************************************)
(* The life of a controller process: what server.ts starts and stops, and   *)
(* within it the MQTT runtime that wires the transport to the services      *)
(* (controller-runtime.ts).                                                 *)
(*                                                                         *)
(* What the services do is in their own modules.  Here a task is one run of *)
(* a callback through its awaits; other callbacks, and the shutdown, come   *)
(* between two of them.  A transport connects, becomes ready once discovery *)
(* is published, and may be lost; an announcement can arrive as soon as it  *)
(* is connected.                                                           *)
(***************************************************************************)
EXTENDS Naturals, FiniteSets, Sequences

CONSTANTS
    MaxTasks,        \* bound: callbacks under way at a time
    MaxGeneration,   \* bound: transport events
    MaxMishaps       \* bound: starts, passes and services that fail

ASSUME LifecycleConstants == {MaxTasks, MaxGeneration, MaxMishaps} \subseteq Nat

VARIABLES
    process,    \* "starting", "serving", "stopping", "closed"
    launched,   \* how many of Services have been started
    requested,  \* a signal asked for the shutdown
    mirroring,  \* a mirror pass is under way
    stage,      \* how far the runtime's stop has come
    link,       \* the transport: "off", "connected", "ready"
    generation, \* counts the transport's events
    reconciled, \* may commands be sent, as far as this connection goes
    passed,     \* the connections whose startup pass went well
    scheduling, \* the scheduling services' common start
    beganAt,    \* the stage at which that start began
    scheduled,  \* scheduling service -> "off", "on", "dead", "stopped"
    blocked,    \* the dispatcher has latched an error
    task,       \* slot -> the callback under way in it
    mishaps

lifecycleVars == <<process, launched, requested, mirroring, stage, link, generation,
                   reconciled, passed, scheduling, beganAt, scheduled, blocked, task,
                   mishaps>>
runtimeVars == <<link, generation, reconciled, passed, scheduling, beganAt, scheduled,
                 blocked, task>>
processVars == <<process, launched, requested, mirroring, stage>>

\* In the order they are started in, and stopped against.
Services == <<"retention", "backup", "storage_health", "notifications", "runtime">>
Scheduled == {"overrides", "time_sync", "output_refresh"}
TaskSlots == 1..MaxTasks
Stages == <<"running", "scheduling", "commands", "transport", "tasks", "over">>

NoTask == [kind |-> "none", at |-> "none", generation |-> 0]
TaskKinds == {"announcement", "ready", "trigger", "health"}
TaskPoints == {"handling", "eligible", "starting", "reconciling", "ready"}
Task == [kind : TaskKinds, at : TaskPoints, generation : 0..MaxGeneration]

LifecycleTypeOK ==
    /\ process \in {"starting", "serving", "stopping", "closed"}
    /\ launched \in 0..Len(Services)
    /\ requested \in BOOLEAN /\ mirroring \in BOOLEAN
    /\ reconciled \in BOOLEAN /\ blocked \in BOOLEAN
    /\ stage \in 1..Len(Stages) /\ beganAt \in 0..Len(Stages)
    /\ link \in {"off", "connected", "ready"}
    /\ generation \in 0..MaxGeneration
    /\ passed \subseteq 0..MaxGeneration
    /\ scheduling \in {"none", "overrides", "time_sync", "done", "failed"}
    /\ scheduled \in [Scheduled -> {"off", "on", "dead", "stopped"}]
    /\ task \in [TaskSlots -> Task \cup {NoTask}]
    /\ mishaps \in 0..MaxMishaps

LifecycleInit ==
    /\ process = "starting" /\ launched = 0 /\ requested = FALSE /\ mirroring = FALSE /\ stage = 1
    /\ link = "off" /\ generation = 0 /\ reconciled = FALSE /\ passed = {}
    /\ scheduling = "none" /\ beganAt = 0 /\ blocked = FALSE
    /\ scheduled = [s \in Scheduled |-> "off"]
    /\ task = [i \in TaskSlots |-> NoTask]
    /\ mishaps = 0

RuntimeStarted == launched = Len(Services) /\ stage # Len(Stages)
Stopping == stage > 1
Vacant(i) == task[i] = NoTask

Mishap == mishaps < MaxMishaps /\ mishaps' = mishaps + 1

\* The runtime's part of the health check.
IsReady ==
    /\ RuntimeStarted /\ ~Stopping /\ link = "ready" /\ reconciled
    /\ \A s \in Scheduled : scheduled[s] = "on"

----------------------------------------------------------------------------
(* Callbacks begin.                                                        *)

Begin(kind, at, of) ==
    \E i \in TaskSlots : Vacant(i) /\ task' = [task EXCEPT ![i] =
                                   [kind |-> kind, at |-> at, generation |-> of]]

\* Every event of the transport asks for another pass.
TransportEvent(to) ==
    /\ generation < MaxGeneration
    /\ link' = to
    /\ generation' = generation + 1
    /\ reconciled' = FALSE

Connect ==
    /\ RuntimeStarted /\ stage < 4 /\ link = "off"
    /\ TransportEvent("connected")
    /\ UNCHANGED <<processVars, passed, scheduling, beganAt, scheduled, blocked, task, mishaps>>

BecomeReady ==
    /\ link = "connected"
    /\ TransportEvent("ready")
    /\ IF Stopping THEN UNCHANGED task ELSE Begin("ready", "starting", generation')
    /\ UNCHANGED <<processVars, passed, scheduling, beganAt, scheduled, blocked, mishaps>>

LoseConnection ==
    /\ link # "off"
    /\ TransportEvent("off")
    /\ UNCHANGED <<processVars, passed, scheduling, beganAt, scheduled, blocked, task, mishaps>>

ReceiveAnnouncement ==
    /\ link # "off"
    /\ Begin("announcement", "handling", 0)
    /\ UNCHANGED <<processVars, link, generation, reconciled, passed, scheduling, beganAt,
                   scheduled, blocked, mishaps>>

\* The health sweep; nothing but the database and the alerts are asked.
SweepTick ==
    /\ RuntimeStarted /\ ~Stopping
    /\ \A i \in TaskSlots : task[i].kind # "health"
    /\ Begin("health", "handling", 0)
    /\ UNCHANGED <<processVars, link, generation, reconciled, passed, scheduling, beganAt,
                   scheduled, blocked, mishaps>>

----------------------------------------------------------------------------
(* Callbacks go on.                                                        *)

Goto(i, point) == task' = [task EXCEPT ![i].at = point]
Finish(i) == task' = [task EXCEPT ![i] = NoTask]

\* Ended here by the announcement itself, by a stop, or by the end of a sweep.
HandleAnnouncement(i) ==
    /\ task[i].at = "handling"
    /\ IF task[i].kind = "announcement" /\ ~Stopping
       THEN Goto(i, "eligible") ELSE Finish(i)
    /\ UNCHANGED <<processVars, link, generation, reconciled, passed, scheduling, beganAt,
                   scheduled, blocked, mishaps>>

\* A device that commands may go to, and that is not held; nobody asks again
\* whether the runtime is being stopped.
CheckEligibility(i) ==
    /\ task[i].at = "eligible"
    /\ Goto(i, "starting") \/ Finish(i)
    /\ UNCHANGED <<processVars, link, generation, reconciled, passed, scheduling, beganAt,
                   scheduled, blocked, mishaps>>

\* The first callback to get here begins the common start.
EnsureSchedulingStarted(i) ==
    /\ task[i].at = "starting"
    /\ scheduling = "none"
    /\ scheduling' = "overrides"
    /\ beganAt' = stage
    /\ UNCHANGED <<processVars, link, generation, reconciled, passed, scheduled, blocked,
                   task, mishaps>>

\* Overrides are recovered, the time sync started, then the output refresh.
StartScheduling ==
    /\ scheduling \in {"overrides", "time_sync"}
    /\ IF scheduling = "overrides"
       THEN /\ scheduling' = "time_sync"
            /\ scheduled' = [scheduled EXCEPT !["overrides"] = "on"]
       ELSE /\ scheduling' = "done"
            /\ scheduled' = [scheduled EXCEPT !["time_sync"] = "on",
                                          !["output_refresh"] = "on"]
    /\ UNCHANGED <<processVars, link, generation, reconciled, passed, beganAt, blocked,
                   task, mishaps>>

\* What failed is remembered, and so is the failure.
FailScheduling ==
    /\ scheduling \in {"overrides", "time_sync"}
    /\ Mishap
    /\ scheduling' = "failed"
    /\ scheduled' = [scheduled EXCEPT ![scheduling] =
                     IF scheduling = "time_sync" THEN "dead" ELSE @]
    /\ UNCHANGED <<processVars, link, generation, reconciled, passed, beganAt, blocked, task>>

MutantStillConnected(t) == ~Stopping /\ link = "ready"

\* A task of the transport's goes on only for the connection it began with.
StillConnected(t) == ~Stopping /\ link = "ready" /\ t.generation = generation

GoesOn(t) ==
    /\ scheduling = "done"
    /\ t.kind = "ready" => StillConnected(t)
    /\ t.kind = "announcement" => scheduled["time_sync"] = "on"

SchedulingStarted(i) ==
    /\ task[i].at = "starting"
    /\ scheduling \in {"done", "failed"}
    /\ IF GoesOn(task[i]) THEN Goto(i, "reconciling") ELSE Finish(i)
    /\ UNCHANGED <<processVars, link, generation, reconciled, passed, scheduling, beganAt,
                   scheduled, blocked, mishaps>>

ReconcileSchedules(i) ==
    /\ task[i].at = "reconciling"
    /\ reconciled' = (\/ reconciled
                       \/ /\ task[i].kind = "ready"
                          /\ StillConnected(task[i]) /\ ~blocked)
    /\ passed' = IF task[i].kind = "ready" THEN passed \cup {task[i].generation} ELSE passed
    /\ Finish(i)
    /\ UNCHANGED <<processVars, link, generation, scheduling, beganAt, scheduled, blocked, mishaps>>

\* No more commands until the next connection; if the operation itself could
\* not be carried out, not then either.
FailReconciliation(i) ==
    /\ task[i].at = "reconciling"
    /\ \/ Mishap /\ blocked' \in BOOLEAN
       \/ (blocked \/ stage > 3) /\ UNCHANGED <<blocked, mishaps>>
    /\ blocked => blocked'
    /\ reconciled' = FALSE
    /\ passed' = {}
    /\ Finish(i)
    /\ UNCHANGED <<processVars, link, generation, scheduling, beganAt, scheduled>>

\* A scheduling service gives up; it is still to be stopped.
ServiceDies(s) ==
    /\ scheduled[s] = "on"
    /\ Mishap
    /\ scheduled' = [scheduled EXCEPT ![s] = "dead"]
    /\ UNCHANGED <<processVars, link, generation, reconciled, passed, scheduling, beganAt,
                   blocked, task>>

----------------------------------------------------------------------------
(* The server.                                                              *)

\* Whoever stops a service that is not started leaves no trace in it.
StartService ==
    /\ process = "starting" /\ ~requested
    /\ IF launched = Len(Services)
       THEN process' = "serving" /\ UNCHANGED launched
       ELSE launched' = launched + 1 /\ UNCHANGED process
    /\ UNCHANGED <<requested, mirroring, stage, runtimeVars, mishaps>>

\* One of the services, or listening once all of them run.
FailStart ==
    /\ process = "starting"
    /\ Mishap
    /\ process' = "stopping"
    /\ UNCHANGED <<launched, requested, mirroring, stage, runtimeVars>>

RequestShutdown ==
    /\ process # "closed" /\ ~requested
    /\ requested' = TRUE
    /\ UNCHANGED <<process, launched, mirroring, stage, runtimeVars, mishaps>>

\* A start under way returns at its next check.
BeginTeardown ==
    /\ requested /\ process \in {"starting", "serving"}
    /\ process' = "stopping"
    /\ UNCHANGED <<launched, requested, mirroring, stage, runtimeVars, mishaps>>

\* Every second from the moment the services run, before the server listens.
BeginMirror ==
    /\ process = "serving" \/ (process = "starting" /\ launched = Len(Services))
    /\ ~requested /\ ~mirroring
    /\ mirroring' = TRUE
    /\ UNCHANGED <<process, launched, requested, stage, runtimeVars, mishaps>>

\* What was broadcast may ask for schedules to be reconciled.
EndMirror ==
    /\ mirroring
    /\ mirroring' = FALSE
    /\ \/ UNCHANGED task
       \/ RuntimeStarted /\ ~Stopping /\ reconciled /\ Begin("trigger", "starting", 0)
    /\ UNCHANGED <<process, launched, requested, stage, link, generation, reconciled, passed,
                   scheduling, beganAt, scheduled, blocked, mishaps>>

----------------------------------------------------------------------------
(* The stop of the runtime, first of the teardown.                          *)

Advance == stage' = stage + 1 /\ UNCHANGED <<process, launched, requested, mirroring>>

\* With no start of the scheduling services to wait for they are stopped in the
\* same step, to no effect.
BeginStop ==
    /\ process = "stopping" /\ stage = 1
    /\ stage' = IF scheduling = "none" THEN 3 ELSE 2
    /\ UNCHANGED <<process, launched, requested, mirroring>>
    /\ reconciled' = FALSE
    /\ UNCHANGED <<link, generation, passed, scheduling, beganAt, scheduled, blocked, task,
                   mishaps>>

MutantSettled == scheduling = "done"

\* A start of the scheduling services that is under way is waited for.
Settled == scheduling \in {"done", "failed"}

StopScheduling ==
    /\ stage = 2
    /\ Settled
    /\ Advance
    /\ scheduled' = [s \in Scheduled |-> IF scheduled[s] = "off" THEN "off" ELSE "stopped"]
    /\ UNCHANGED <<link, generation, reconciled, passed, scheduling, beganAt, blocked, task,
                   mishaps>>

\* Scheduled commands and the firmware updates; from then on none is taken.
DrainCommands ==
    /\ stage = 3
    /\ Advance
    /\ UNCHANGED <<runtimeVars, mishaps>>

StopTransport ==
    /\ stage = 4
    /\ Advance
    /\ link' = "off"
    /\ UNCHANGED <<generation, reconciled, passed, scheduling, beganAt, scheduled, blocked,
                   task, mishaps>>

MutantNoCallbackLeft == TRUE

\* Whatever callback is still under way.
NoCallbackLeft == \A i \in TaskSlots : Vacant(i)

DrainTasks ==
    /\ stage = 5
    /\ NoCallbackLeft
    /\ stage' = 6
    /\ launched' = IF launched = Len(Services) THEN launched - 1 ELSE launched
    /\ UNCHANGED <<process, requested, mirroring>>
    /\ UNCHANGED <<runtimeVars, mishaps>>

\* The services started before it, the latest first, each once it is idle.
StopService ==
    /\ stage = 6 /\ launched > 0
    /\ launched' = launched - 1
    /\ UNCHANGED <<process, requested, mirroring, stage, runtimeVars, mishaps>>

\* One more mirror pass, after any that is under way, and the end.
CloseDatabases ==
    /\ stage = 6 /\ launched = 0 /\ process = "stopping" /\ ~mirroring
    /\ process' = "closed"
    /\ UNCHANGED <<launched, requested, mirroring, stage, runtimeVars, mishaps>>

----------------------------------------------------------------------------

TransportStep == Connect \/ BecomeReady \/ LoseConnection \/ ReceiveAnnouncement

TaskStep(i) ==
    \/ HandleAnnouncement(i) \/ CheckEligibility(i) \/ EnsureSchedulingStarted(i)
    \/ SchedulingStarted(i) \/ ReconcileSchedules(i) \/ FailReconciliation(i)

Teardown ==
    \/ BeginTeardown \/ BeginStop \/ StopScheduling \/ DrainCommands
    \/ StopTransport \/ DrainTasks \/ StopService \/ CloseDatabases

LifecycleNext ==
    \/ TransportStep \/ SweepTick
    \/ \E i \in TaskSlots : TaskStep(i)
    \/ StartScheduling \/ FailScheduling
    \/ \E s \in Scheduled : ServiceDies(s)
    \/ StartService \/ FailStart \/ RequestShutdown
    \/ BeginMirror \/ EndMirror
    \/ Teardown

\* The awaits are of database work and of operations that have a deadline.
LifecycleFairness ==
    /\ WF_lifecycleVars(Teardown)
    /\ WF_lifecycleVars(StartScheduling)
    /\ WF_lifecycleVars(EndMirror)
    /\ \A i \in TaskSlots : WF_lifecycleVars(TaskStep(i))

LifecycleSpec ==
    LifecycleInit /\ [][LifecycleNext]_lifecycleVars /\ LifecycleFairness

----------------------------------------------------------------------------
(* However callbacks of an earlier connection end, the runtime says it is   *)
(* ready only if the startup pass of the connection it has now went well,   *)
(* and no pass failed since.                                                *)
ReadyIsReconciled == IsReady => generation \in passed

(* When the databases are closed nothing is left that would use them: no    *)
(* service, no mirror pass, no callback, no connection, and no scheduling   *)
(* service - unless, while the runtime was being stopped, an announcement   *)
(* began the start of those (the stop of a service that is not started is   *)
(* not remembered by it).                                                  *)
ClosedIsQuiet ==
    process = "closed" =>
       /\ launched = 0 /\ ~mirroring /\ link = "off"
       /\ \A i \in TaskSlots : Vacant(i)
       /\ beganAt <= 1 => \A s \in Scheduled : scheduled[s] # "on"

(* A shutdown that is asked for comes to its end, whatever has failed and    *)
(* whatever is under way.                                                   *)
ShutdownEnds == requested ~> process = "closed"
=============================================================================
