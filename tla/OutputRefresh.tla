----------------------------- MODULE OutputRefresh -----------------------------
(***************************************************************************)
(* OutputRefreshScheduler: the ticks that read what every output should    *)
(* show, and one worker per device that sends it, a command at a time,     *)
(* through the ScheduledDeviceOperationDispatcher.                         *)
(*                                                                         *)
(* A batch is the pair of reads it was made of, each a version of the      *)
(* configuration; what the outputs show is a version too.  Times are kept  *)
(* as what is left of them.                                                *)
(***************************************************************************)
EXTENDS Integers

CONSTANTS
    Devices,
    Outputs,        \* how many a device has, sent in the order 1 .. Outputs
    Interval,       \* OUTPUT_REFRESH_INTERVAL_MS
    Cooldown,       \* OUTPUT_RETRY_COOLDOWN_MS
    MaxVersions,    \* bound: changes of the configuration
    MaxFailures     \* bound: commands and reads that fail

ASSUME RefreshConstants ==
    /\ {MaxVersions, MaxFailures} \subseteq Nat
    /\ {Outputs, Interval, Cooldown} \subseteq Nat \ {0}

VARIABLES
    phase,      \* of the scheduler; halted before its failure is reported
    latched,    \* the dispatcher: commandErrorLatched
    timer,      \* whether it is armed, and what is left to the deadline
    requested,  \* refreshRequested
    tick,       \* the active tick: its two reads
    worker,     \* per device
    cooldown,   \* retryAfterByDevice
    newest,     \* the version of the configuration
    shown,      \* per output the version it shows
    faults      \* those that happened

refreshVars == <<phase, latched, timer, requested, tick, worker, cooldown, newest,
                 shown, faults>>

NoVersion == -1
Version == 0 .. MaxVersions
Phases == {"off", "on", "halted", "failed", "stopping", "stopped"}
NoBatch == [schedules |-> NoVersion, overrides |-> NoVersion]
IdleWorker == [pending |-> NoBatch, running |-> NoBatch, next |-> 1, sent |-> FALSE]
NoTick == [active |-> FALSE, read |-> NoBatch]

\* The last output of a device is under a manual override.
Shows(batch, o) == IF o = Outputs THEN batch.overrides ELSE batch.schedules

Running == phase = "on"

RefreshInit ==
    /\ phase = "off" /\ latched = FALSE /\ requested = FALSE /\ tick = NoTick
    /\ timer = [armed |-> FALSE, left |-> 0]
    /\ worker = [d \in Devices |-> IdleWorker]
    /\ cooldown = [d \in Devices |-> 0]
    /\ newest = 0 /\ faults = 0
    /\ shown = [d \in Devices |-> [o \in 1 .. Outputs |-> NoVersion]]

-----------------------------------------------------------------------------
(* The timer and its ticks.                                                *)

StartRefresh ==
    /\ phase = "off"
    /\ phase' = "on"
    /\ timer' = [armed |-> TRUE, left |-> Interval]
    /\ UNCHANGED <<latched, requested, tick, worker, cooldown, newest, shown, faults>>

\* A change of the configuration, and requestRefresh.
ChangeOutputs ==
    /\ newest < MaxVersions
    /\ newest' = newest + 1
    /\ UNCHANGED <<phase, latched, tick, worker, cooldown, shown, faults>>
    /\ \/ UNCHANGED <<timer, requested>>
       \/ /\ Running
          /\ IF tick.active
             THEN requested' = TRUE /\ UNCHANGED timer
             ELSE timer' = [armed |-> TRUE, left |-> 0] /\ UNCHANGED requested

\* handleTimerFired: a tick begins.
Fire ==
    /\ timer.armed /\ timer.left = 0
    /\ timer' = [timer EXCEPT !.armed = FALSE]
    /\ tick' = IF Running /\ ~tick.active THEN [NoTick EXCEPT !.active = TRUE] ELSE tick
    /\ UNCHANGED <<phase, latched, requested, worker, cooldown, newest, shown, faults>>

\* The two reads of executeTick answer in any order.
Read(part) ==
    /\ tick.active /\ tick.read[part] = NoVersion
    /\ tick' = [tick EXCEPT !.read[part] = newest]
    /\ UNCHANGED <<phase, latched, timer, requested, worker, cooldown, newest, shown, faults>>

\* After a tick the timer is armed again, unless the scheduler stops: at once
\* for a request, else at the next deadline of the cadence.
Rearm ==
    /\ tick' = NoTick
    /\ requested' = FALSE
    /\ timer' = [armed |-> TRUE,
                 left |-> IF requested THEN 0
                          ELSE IF timer.left = 0 THEN Interval ELSE timer.left]

\* offerDeviceBatch: an idle worker begins, a busy one keeps the newest batch
\* only; nothing is offered once the scheduler stops or to a device that waits.
Offered(d, batch) ==
    IF ~Running \/ cooldown[d] > 0 THEN worker[d]
    ELSE IF worker[d].running = NoBatch THEN [IdleWorker EXCEPT !.running = batch]
    ELSE [worker[d] EXCEPT !.pending = batch]

EndTick ==
    /\ tick.active /\ \A part \in DOMAIN tick.read : tick.read[part] # NoVersion
    /\ worker' = [d \in Devices |-> Offered(d, tick.read)]
    /\ IF Running THEN Rearm ELSE tick' = NoTick /\ UNCHANGED <<timer, requested>>
    /\ UNCHANGED <<phase, latched, cooldown, newest, shown, faults>>

\* fail and stop: no timer, no pending batch.
Discarded == [d \in Devices |-> [worker[d] EXCEPT !.pending = NoBatch]]
Disarmed == [timer EXCEPT !.armed = FALSE]

\* A read of the tick fails, or its overlays overlap.
TickFails ==
    /\ tick.active /\ faults < MaxFailures
    /\ faults' = faults + 1
    /\ tick' = NoTick /\ worker' = Discarded /\ timer' = Disarmed
    /\ phase' = IF phase \in {"on", "halted"} THEN "failed" ELSE phase
    /\ UNCHANGED <<latched, requested, cooldown, newest, shown>>

-----------------------------------------------------------------------------
(* The worker of a device.                                                 *)

MutantAfterBatch(d, w, wait) ==
    IF w.pending = NoBatch \/ ~Running \/ wait > 0 THEN IdleWorker
    ELSE [IdleWorker EXCEPT !.running = w.pending, !.pending = w.running]

\* runDeviceWorker goes on to the pending batch.
AfterBatch(d, w, wait) ==
    IF w.pending = NoBatch \/ ~Running \/ wait > 0 THEN IdleWorker
    ELSE [IdleWorker EXCEPT !.running = w.pending]

Busy(d) == worker[d].running # NoBatch

\* The turn of a command at the dispatcher comes; a latched one blocks it.
Send(d) ==
    /\ Busy(d) /\ ~worker[d].sent
    /\ worker' = [worker EXCEPT ![d] =
           IF latched THEN AfterBatch(d, @, 0) ELSE [@ EXCEPT !.sent = TRUE]]
    /\ UNCHANGED <<phase, latched, timer, requested, tick, cooldown, newest, shown, faults>>

\* The command of an output succeeds.  A batch is given up for a newer one.
Succeed(d) ==
    LET w == worker[d]
    IN  /\ w.sent
        /\ shown' = [shown EXCEPT ![d][w.next] = Shows(w.running, w.next)]
        /\ worker' = [worker EXCEPT ![d] =
               IF w.next < Outputs /\ w.pending = NoBatch /\ Running
               THEN [w EXCEPT !.next = @ + 1, !.sent = FALSE]
               ELSE AfterBatch(d, w, 0)]
        /\ UNCHANGED <<phase, latched, timer, requested, tick, cooldown, newest, faults>>

\* It ends in any other way, whether or not it reached the device.
Miss(d) ==
    LET w == worker[d]
    IN  /\ w.sent /\ faults < MaxFailures
        /\ faults' = faults + 1
        /\ shown' \in {shown, [shown EXCEPT ![d][w.next] = Shows(w.running, w.next)]}
        /\ cooldown' = [cooldown EXCEPT ![d] = Cooldown]
        /\ worker' = [worker EXCEPT ![d] = AfterBatch(d, w, Cooldown)]
        /\ UNCHANGED <<phase, latched, timer, requested, tick, newest>>

\* haltForFatalDrain.
Halt == IF phase = "on" THEN "halted" ELSE phase

\* The operation service itself throws: the dispatcher latches and the
\* scheduler halts until its workers are drained.
Throw(d) ==
    LET w == worker[d]
    IN  /\ w.sent /\ faults < MaxFailures
        /\ faults' = faults + 1
        /\ latched' = TRUE
        /\ worker' = [Discarded EXCEPT ![d] = IdleWorker]
        /\ timer' = Disarmed /\ requested' = FALSE
        /\ phase' = Halt
        /\ UNCHANGED <<tick, cooldown, newest, shown>>

\* Another owner of commands, or one on another device, latches the dispatcher.
LatchElsewhere ==
    /\ faults < MaxFailures
    /\ faults' = faults + 1 /\ latched' = TRUE
    /\ UNCHANGED <<phase, timer, requested, tick, worker, cooldown, newest, shown>>

Drained == ~tick.active /\ \A d \in Devices : worker[d] = IdleWorker

\* The report of the tick fails once every worker is drained.
Report ==
    /\ phase = "halted" /\ \A d \in Devices : worker[d] = IdleWorker
    /\ phase' = "failed"
    /\ UNCHANGED <<latched, timer, requested, tick, worker, cooldown, newest, shown, faults>>

\* stop, asked for at any time after start, and its end.
StopRefresh ==
    /\ phase \in {"on", "halted", "failed"}
    /\ phase' = "stopping" /\ timer' = Disarmed /\ worker' = Discarded
    /\ UNCHANGED <<latched, requested, tick, cooldown, newest, shown, faults>>

Stopped ==
    /\ phase = "stopping" /\ Drained
    /\ phase' = "stopped"
    /\ UNCHANGED <<latched, timer, requested, tick, worker, cooldown, newest, shown, faults>>

\* signalDeviceAvailable, at an announcement.
Available(d) ==
    /\ cooldown[d] > 0
    /\ cooldown' = [cooldown EXCEPT ![d] = 0]
    /\ UNCHANGED <<phase, latched, timer, requested, tick, worker, newest, shown, faults>>

\* A timer that is due fires before time goes on; while a tick runs the
\* deadlines it misses are skipped.
Pass ==
    /\ ~(timer.armed /\ timer.left = 0)
    /\ timer' = [timer EXCEPT !.left = (@ - 1) % Interval]
    /\ cooldown' = [d \in Devices |-> IF cooldown[d] = 0 THEN 0 ELSE cooldown[d] - 1]
    /\ UNCHANGED <<phase, latched, requested, tick, worker, newest, shown, faults>>

-----------------------------------------------------------------------------
TickStep == Fire \/ Read("schedules") \/ Read("overrides") \/ EndTick
Answer(d) == Succeed(d) \/ Miss(d) \/ Throw(d)
Closing == Report \/ Stopped

RefreshNext ==
    \/ StartRefresh \/ StopRefresh \/ Closing \/ TickStep \/ TickFails \/ ChangeOutputs \/ LatchElsewhere \/ Pass
    \/ \E d \in Devices : Send(d) \/ Answer(d) \/ Available(d)

RefreshSafety == RefreshInit /\ [][RefreshNext]_refreshVars

RefreshSpec ==
    /\ RefreshSafety
    /\ WF_refreshVars(TickStep) /\ WF_refreshVars(Closing) /\ WF_refreshVars(Pass)
    /\ \A d \in Devices : WF_refreshVars(Send(d) \/ Answer(d))

-----------------------------------------------------------------------------
RefreshTypeOK ==
    LET Batch == [schedules : Version \cup {NoVersion}, overrides : Version \cup {NoVersion}]
    IN  /\ phase \in Phases /\ {latched, requested} \subseteq BOOLEAN
        /\ timer \in [armed : BOOLEAN, left : 0 .. Interval]
        /\ tick \in [active : BOOLEAN, read : Batch]
        /\ worker \in [Devices -> [pending : Batch, running : Batch, next : 1 .. Outputs,
                                   sent : BOOLEAN]]
        /\ cooldown \in [Devices -> 0 .. Cooldown]
        /\ newest \in Version /\ faults \in 0 .. MaxFailures
        /\ shown \in [Devices -> [1 .. Outputs -> Version \cup {NoVersion}]]

(* An output never goes back to an older version of the configuration,     *)
(* whatever ticks, requests and slow commands cross.                       *)
NewestWins ==
    [][\A d \in Devices, o \in 1 .. Outputs : shown'[d][o] >= shown[d][o]]_refreshVars
=============================================================================
