-------------------------- MODULE DeviceOperations --------------------------
(***************************************************************************)
(* The life of a device operation: DeviceOperationService above, its rows  *)
(* in control_operations (ControlOperationRepository) below, a transport   *)
(* that may refuse, lose or answer a command, and a process that may crash *)
(* between any two steps and recover from the rows it left.                *)
(*                                                                         *)
(* The repository runs its mutating calls one after the other, so each of  *)
(* them is one action; everything between two awaits of the service is one *)
(* action too.  The transport is reduced to what its own module shows of   *)
(* it (MqttTransport): one outstanding publication per device, and a       *)
(* refusal only when nothing was published.                                *)
(***************************************************************************)
EXTENDS Integers

CONSTANTS
    Devices,
    Ops,                \* operation identifiers; a UUID is never issued twice
    Request,            \* what each identifier is issued for
    OperationTimeout,   \* request to deadline
    ResponseCooldown,   \* DEVICE_RESPONSE_TIMEOUT_COOLDOWN_MS
    OverwriteLease,     \* ESP32_PWM_OVERWRITE_DURATION_MS
    RetainFor,          \* DEFAULT_ROUTINE_CONTROL_OPERATION_RETENTION_MS
    MaxTime,            \* bound: the clock stops here
    MaxCrashes,         \* bound: process crashes
    MaxClockSteps       \* bound: times the wall clock is set back

AllKinds == {"set_pwm", "ping", "edit_configuration", "schedule", "sync_time",
             "analog_read", "firmware_update", "release_startup_hold"}

\* The kinds start-up recovery looks for.
RecoveredKinds == {"set_pwm", "ping", "edit_configuration", "schedule",
                   "sync_time", "analog_read"}

\* Only routine refreshes are internal, and only a PWM write can overwrite.
Requests == {r \in [device : Devices, kind : AllKinds,
                    overwrite : BOOLEAN, internal : BOOLEAN] :
                r.overwrite \/ r.internal => r.kind = "set_pwm"}

ASSUME OperationConstants ==
    /\ Request \in [Ops -> Requests]
    /\ OperationTimeout \in Nat \ {0}
    /\ ResponseCooldown \in Nat \ {0}
    /\ OverwriteLease \in Nat
    /\ RetainFor \in Nat \ {0}
    /\ MaxTime \in Nat
    /\ MaxCrashes \in Nat
    /\ MaxClockSteps \in Nat

None == -1

VARIABLES
    \* durable: state.db
    row,            \* control_operations
    owned,          \* children named by an unresolved manual-override result
    \* volatile: the controller process
    phase,          \* down, recovering, running or stopping
    toRecover,      \* interrupted rows start() has still to settle
    recoverAt,      \* the time start() read
    call,           \* where the call working for each operation stands
    active,         \* #activeDeviceAttempts
    cooldown,       \* #responseCooldownUntilByDevice, 0 when absent
    checkedAt,      \* #routineReconciliationCheckedAtByDevice
    \* the world
    now, crashes, clockSteps,
    published       \* how often each operation's command was published

durable == <<row, owned>>
memory == <<toRecover, recoverAt, active, cooldown, checkedAt>>
world == <<now, crashes, clockSteps, published>>
vars == <<durable, phase, call, memory, world>>

-----------------------------------------------------------------------------
(* Rows and calls. *)

Statuses == {"pending", "in_flight", "succeeded", "failed", "timed_out",
             "outcome_unknown", "cancelled"}
Terminal == Statuses \ {"pending", "in_flight"}

\* The ways an attempt can end, as operationResultFromOutcome tells them apart.
Results == {"succeeded", "device_error", "protocol_error", "unsent",
            "timeout", "lost"}

StatusOf(result) ==
    CASE result = "succeeded" -> "succeeded"
      [] result \in {"device_error", "protocol_error", "unsent"} -> "failed"
      [] OTHER -> "outcome_unknown"

Origins == {"nobody", "operator", "manual_override", "schedule", "routine_expiry"}

Row == [status : {"absent", "deleted"} \cup Statuses,
        requestedAt : Nat, completedAt : Nat \cup {None},
        reconciledAt : Nat \cup {None}, reconciledBy : Origins,
        unsent : BOOLEAN]

NoRow == [status |-> "absent", requestedAt |-> 0, completedAt |-> None,
          reconciledAt |-> None, reconciledBy |-> "nobody", unsent |-> FALSE]

Steps == {"idle", "scan", "create", "gate", "cancel", "expire", "mark", "send",
          "published", "complete", "post", "done", "stranded", "lost"}

\* A call that has begun and has not returned; the part of it that drain()
\* waits for.
Working == Steps \ {"idle", "done", "stranded", "lost"}
Attempting == {"expire", "mark", "send", "published", "complete", "post"}

Live(op) == row[op].status \in {"pending", "in_flight"}
Exists(op) == row[op].status \in Statuses
Unknown(op) == row[op].status = "outcome_unknown"
DeviceOf(op) == Request[op].device
KindOf(op) == Request[op].kind
DeadlineOf(op) == row[op].requestedAt + OperationTimeout

IdleCall == [pc |-> "idle", reserved |-> FALSE, eligible |-> FALSE,
             scan |-> {}, requestedAt |-> 0, attemptAt |-> 0, endedAt |-> 0,
             result |-> "lost"]

Call == [pc : Steps, reserved : BOOLEAN, eligible : BOOLEAN,
         scan : SUBSET Ops, requestedAt : Nat, attemptAt : Nat, endedAt : Nat,
         result : Results]

Goto(op, step) == [call EXCEPT ![op].pc = step]

\* The call returns or throws, and its locals with it.
Leave(op, step) == [call EXCEPT ![op] = [IdleCall EXCEPT !.pc = step]]

\* The device is given back when the call that reserved it returns.
Released(op) == IF call[op].reserved THEN active \ {DeviceOf(op)} ELSE active

Init ==
    /\ row = [op \in Ops |-> NoRow]
    /\ owned = {}
    /\ phase = "down"
    /\ toRecover = {}
    /\ recoverAt = 0
    /\ call = [op \in Ops |-> IdleCall]
    /\ active = {}
    /\ cooldown = [d \in Devices |-> 0]
    /\ checkedAt = [d \in Devices |-> None]
    /\ now = 1
    /\ crashes = 0
    /\ clockSteps = 0
    /\ published = [op \in Ops |-> 0]

-----------------------------------------------------------------------------
(* Transactions of the repository. *)

\* commitTransition, which refuses a time before the request.
Settle(op, status, at, unsent) ==
    /\ at >= row[op].requestedAt
    /\ row' = [row EXCEPT ![op].status = status, ![op].completedAt = at,
                          ![op].unsent = unsent]

\* completePendingWithoutAttempt: only a pending row.
CompleteWithoutAttempt(op, status, at) ==
    /\ row[op].status = "pending"
    /\ Settle(op, status, at, FALSE)

MutantIgnoreLease(op, at) ==
    /\ Unknown(op)
    /\ row[op].reconciledAt = None
    /\ at >= row[op].completedAt

\* The conditions under which reconcileOutcome changes a row.
Reconcilable(op, at) ==
    /\ Unknown(op)
    /\ row[op].reconciledAt = None
    /\ at >= row[op].completedAt
    /\ Request[op].overwrite => at >= row[op].completedAt + OverwriteLease

Reconcile(op, at, origin) ==
    row' = [row EXCEPT ![op].reconciledAt = at, ![op].reconciledBy = origin]

\* Rows reconcileExpiredRoutinePwmOutcomes selects for a device.
ExpiredOutcomes(d, at) ==
    {op \in Ops : /\ DeviceOf(op) = d
                  /\ Request[op].overwrite
                  /\ Unknown(op)
                  /\ row[op].reconciledAt = None
                  /\ row[op].completedAt + OverwriteLease <= at}

-----------------------------------------------------------------------------
(* executeDeviceOperation and patchDeviceConfiguration. *)

ScanDue(d, at) == \/ checkedAt[d] = None
                  \/ at - checkedAt[d] >= ResponseCooldown

\* The device is read, and its expired routine outcomes are listed.  Whether
\* it is eligible is the registry's business: either can be read here.
Begin(op, eligible) ==
    /\ phase = "running"
    /\ call[op].pc = "idle"
    /\ KindOf(op) # "edit_configuration"
    /\ LET d == DeviceOf(op)
           scans == KindOf(op) = "set_pwm" /\ ScanDue(d, now)
       IN  call' = [call EXCEPT ![op] =
             [IdleCall EXCEPT
                !.pc = IF scans THEN "scan" ELSE "create",
                !.requestedAt = now,
                !.eligible = eligible,
                !.scan = IF scans THEN ExpiredOutcomes(d, now) ELSE {}]]
    /\ UNCHANGED <<durable, phase, memory, world>>

\* An operator's edit is refused outright, and leaves no trace, when the
\* device is not eligible.
BeginPatch(op) ==
    /\ phase = "running"
    /\ call[op].pc = "idle"
    /\ KindOf(op) = "edit_configuration"
    /\ call' = [call EXCEPT ![op] = [IdleCall EXCEPT !.pc = "create",
                                                     !.requestedAt = now,
                                                     !.eligible = TRUE]]
    /\ UNCHANGED <<durable, phase, memory, world>>

\* One listed outcome: skipped when an override owns it or somebody else was
\* faster; a row that has been pruned meanwhile makes the whole call throw.
ReconcileExpired(op, target) ==
    /\ call[op].pc = "scan"
    /\ target \in call[op].scan
    /\ IF ~Exists(target)
       THEN /\ call' = Leave(op, "stranded")
            /\ UNCHANGED row
       ELSE /\ call' = [call EXCEPT ![op].scan = @ \ {target}]
            /\ IF target \notin owned /\ row[target].reconciledAt = None
               THEN Reconcile(target, call[op].requestedAt, "routine_expiry")
               ELSE UNCHANGED row
    /\ UNCHANGED <<owned, phase, memory, world>>

FinishScan(op) ==
    /\ call[op].pc = "scan"
    /\ call[op].scan = {}
    /\ checkedAt' = [checkedAt EXCEPT ![DeviceOf(op)] = call[op].requestedAt]
    /\ call' = Goto(op, "create")
    /\ UNCHANGED <<durable, phase, toRecover, recoverAt, active, cooldown, world>>

CreatePending(op) ==
    /\ call[op].pc = "create"
    /\ row' = [row EXCEPT ![op] = [NoRow EXCEPT
                 !.status = "pending", !.requestedAt = call[op].requestedAt]]
    /\ call' = [Leave(op, "gate") EXCEPT ![op].eligible = call[op].eligible]
    /\ UNCHANGED <<owned, phase, memory, world>>

\* The head of #attempt.  A clock set back before the request makes it throw
\* and leaves the row pending.
StartAttempt(op, reserve) ==
    IF now < row[op].requestedAt
    THEN /\ call' = Leave(op, "stranded")
         /\ UNCHANGED active
    ELSE /\ call' = [call EXCEPT ![op] = [IdleCall EXCEPT
                !.pc = IF now >= DeadlineOf(op) THEN "expire" ELSE "mark",
                !.reserved = reserve,
                !.attemptAt = now]]
         /\ active' = IF reserve THEN active \cup {DeviceOf(op)} ELSE active

MutantOnlyCooldown(op) == \/ ~call[op].eligible
                          \/ cooldown[DeviceOf(op)] > now

\* #reserveDeviceAttempt refused, or the device was not eligible when read.
Turned(op) == \/ ~call[op].eligible
              \/ DeviceOf(op) \in active
              \/ cooldown[DeviceOf(op)] > now

TurnAway(op) ==
    /\ call[op].pc = "gate"
    /\ KindOf(op) # "edit_configuration"
    /\ Turned(op)
    /\ call' = Goto(op, "cancel")
    /\ UNCHANGED <<durable, phase, memory, world>>

Admit(op) ==
    /\ call[op].pc = "gate"
    /\ KindOf(op) # "edit_configuration"
    /\ ~Turned(op)
    /\ cooldown' = [cooldown EXCEPT ![DeviceOf(op)] = 0]
    /\ StartAttempt(op, TRUE)
    /\ UNCHANGED <<durable, phase, toRecover, recoverAt, checkedAt, world>>

\* #startBackgroundAttempt: an edit neither reserves the device nor waits for
\* its cooldown.
StartBackgroundAttempt(op) ==
    /\ call[op].pc = "gate"
    /\ KindOf(op) = "edit_configuration"
    /\ StartAttempt(op, FALSE)
    /\ UNCHANGED <<durable, phase, toRecover, recoverAt, cooldown, checkedAt,
                   world>>

Cancel(op) ==
    /\ call[op].pc = "cancel"
    /\ IF now >= row[op].requestedAt
       THEN /\ CompleteWithoutAttempt(op, "cancelled", now)
            /\ call' = Leave(op, "done")
       ELSE /\ call' = Leave(op, "stranded")
            /\ UNCHANGED row
    /\ UNCHANGED <<owned, phase, memory, world>>

ExpireBeforeAttempt(op) ==
    /\ call[op].pc = "expire"
    /\ CompleteWithoutAttempt(op, "timed_out", call[op].attemptAt)
    /\ call' = Leave(op, "done")
    /\ active' = Released(op)
    /\ UNCHANGED <<owned, phase, toRecover, recoverAt, cooldown,
                   checkedAt, world>>

MarkInFlight(op) ==
    /\ call[op].pc = "mark"
    /\ row[op].status = "pending"
    /\ row' = [row EXCEPT ![op].status = "in_flight"]
    /\ call' = Goto(op, "send")
    /\ UNCHANGED <<owned, phase, memory, world>>

-----------------------------------------------------------------------------
(* transport.executeCommands, seen from the service. *)

\* The answer of the transport reaches #attempt.  With the clock behind the
\* start of the attempt it throws, and the row stays in flight.
Return(op, result) ==
    IF now < call[op].attemptAt
    THEN /\ call' = Leave(op, "stranded")
         /\ active' = Released(op)
    ELSE /\ call' = [call EXCEPT ![op].pc = "complete",
                                 ![op].result = result,
                                 ![op].endedAt = now]
         /\ UNCHANGED active

\* LegacyMqttUnavailableError: not ready, or still queued when it went away.
Refuse(op) ==
    /\ call[op].pc = "send"
    /\ Return(op, "unsent")
    /\ UNCHANGED <<durable, phase, toRecover, recoverAt, cooldown, checkedAt,
                   world>>

\* Any other exception of the transport.
TransportThrows(op) ==
    /\ call[op].pc = "send"
    /\ Return(op, "lost")
    /\ UNCHANGED <<durable, phase, toRecover, recoverAt, cooldown, checkedAt,
                   world>>

\* A lane publishes one command and waits for its outcome.
Publish(op) ==
    /\ call[op].pc = "send"
    /\ \A other \in Ops \ {op} :
          call[other].pc = "published" => DeviceOf(other) # DeviceOf(op)
    /\ published' = [published EXCEPT ![op] = @ + 1]
    /\ call' = Goto(op, "published")
    /\ UNCHANGED <<durable, phase, memory, now, crashes, clockSteps>>

\* The device answers, or the transport gives up: a response timeout, a lost
\* connection, a shutdown.
Outcome(op, result) ==
    /\ call[op].pc = "published"
    /\ result \in Results \ {"unsent"}
    /\ Return(op, result)
    /\ UNCHANGED <<durable, phase, toRecover, recoverAt, cooldown, checkedAt,
                   world>>

\* completeInFlight, and the cooldown #attempt sets or clears right after it.
\* A routine refresh that succeeded leaves no row.
CompleteInFlight(op) ==
    /\ call[op].pc = "complete"
    /\ row[op].status = "in_flight"
    /\ LET result == call[op].result
           d == DeviceOf(op)
       IN  /\ IF result = "succeeded" /\ Request[op].internal
              THEN row' = [row EXCEPT ![op].status = "deleted"]
              ELSE Settle(op, StatusOf(result), call[op].endedAt,
                          result = "unsent")
           /\ cooldown' = [cooldown EXCEPT ![d] =
                CASE result \in {"succeeded", "device_error"} -> 0
                  [] result = "timeout" -> call[op].endedAt + ResponseCooldown
                  [] OTHER -> @]
    /\ call' = Goto(op, "post")
    /\ UNCHANGED <<owned, phase, toRecover, recoverAt, active,
                   checkedAt, world>>

\* The registry learns of the answer, and the call returns.
PostCompletion(op) ==
    /\ call[op].pc = "post"
    /\ call' = Leave(op, "done")
    /\ active' = Released(op)
    /\ UNCHANGED <<durable, phase, toRecover, recoverAt, cooldown, checkedAt,
                   world>>

-----------------------------------------------------------------------------
(* Reconciliation of unknown outcomes. *)

MutantIgnoreOwner(op) ==
    /\ phase = "running"
    /\ Reconcilable(op, now)
    /\ Reconcile(op, now, "operator")
    /\ UNCHANGED <<owned, phase, call, memory, world>>

\* An operator's decision; refused for a child an override still owns.
ReconcileByOperator(op) ==
    /\ phase = "running"
    /\ op \notin owned
    /\ Reconcilable(op, now)
    /\ Reconcile(op, now, "operator")
    /\ UNCHANGED <<owned, phase, call, memory, world>>

\* acknowledgeReconciledOutcome, on behalf of the owning override.
ReconcileByOverride(op) ==
    /\ phase = "running"
    /\ op \in owned
    /\ Reconcilable(op, now)
    /\ Reconcile(op, now, "manual_override")
    /\ UNCHANGED <<owned, phase, call, memory, world>>

\* acknowledgeScheduleReconciledOutcome, on an announced schedule hash.
ReconcileBySchedule(op) ==
    /\ phase = "running"
    /\ KindOf(op) = "schedule"
    /\ Reconcilable(op, now)
    /\ Reconcile(op, now, "schedule")
    /\ UNCHANGED <<owned, phase, call, memory, world>>

\* A manual override records its own unknown result, naming this child,
\* which somebody may have reconciled before.
ClaimByOverride(op) ==
    /\ KindOf(op) = "set_pwm" /\ ~Request[op].internal
    /\ Unknown(op)
    /\ owned' = owned \cup {op}
    /\ UNCHANGED <<row, phase, call, memory, world>>

\* The override is finalised; its children have been reconciled by then.
ReleaseByOverride(op) ==
    /\ op \in owned
    /\ Unknown(op)
    /\ row[op].reconciledAt # None
    /\ owned' = owned \ {op}
    /\ UNCHANGED <<row, phase, call, memory, world>>

\* Retention of routine PWM rows.
PruneRoutineOperation(op) ==
    /\ phase \in {"running", "stopping"}
    /\ KindOf(op) = "set_pwm"
    /\ \/ row[op].status = "succeeded"
       \/ Unknown(op) /\ row[op].reconciledAt # None
    /\ row[op].completedAt + RetainFor < now
    /\ row' = [row EXCEPT ![op].status = "deleted"]
    /\ UNCHANGED <<owned, phase, call, memory, world>>

-----------------------------------------------------------------------------
(* Process life. *)

MutantPendingOnly == {op \in Ops : row[op].status = "pending"}

Interrupted == {op \in Ops : Live(op) /\ KindOf(op) \in RecoveredKinds}

MutantAllCancelled(op) == "cancelled"

RecoveredStatus(op) ==
    IF row[op].status = "in_flight" THEN "outcome_unknown"
    ELSE IF DeadlineOf(op) <= recoverAt THEN "timed_out"
    ELSE "cancelled"

\* start() lists the interrupted rows of the kinds it knows ...
Boot ==
    /\ phase = "down"
    /\ phase' = "recovering"
    /\ recoverAt' = now
    /\ toRecover' = Interrupted
    /\ UNCHANGED <<durable, call, active, cooldown, checkedAt, world>>

\* ... and settles them one transaction at a time.
Recover(op) ==
    /\ phase = "recovering"
    /\ op \in toRecover
    /\ recoverAt >= row[op].requestedAt
    /\ toRecover' = toRecover \ {op}
    /\ Settle(op, RecoveredStatus(op), recoverAt, FALSE)
    /\ UNCHANGED <<owned, phase, call, recoverAt, active, cooldown,
                   checkedAt, world>>

\* A row requested after the time start() read aborts the start.
RecoveryFails ==
    /\ phase = "recovering"
    /\ \E op \in toRecover : recoverAt < row[op].requestedAt
    /\ phase' = "down"
    /\ toRecover' = {}
    /\ UNCHANGED <<durable, call, recoverAt, active, cooldown, checkedAt, world>>

FinishRecovery ==
    /\ phase = "recovering"
    /\ toRecover = {}
    /\ phase' = "running"
    /\ UNCHANGED <<durable, call, memory, world>>

\* Everything in memory is gone; calls that had begun never return.
ForgetMemory ==
    /\ phase' = "down"
    /\ toRecover' = {}
    /\ active' = {}
    /\ cooldown' = [d \in Devices |-> 0]
    /\ checkedAt' = [d \in Devices |-> None]
    /\ call' = [op \in Ops |-> IF call[op].pc = "idle" THEN call[op]
                               ELSE [IdleCall EXCEPT !.pc = "lost"]]
    /\ UNCHANGED recoverAt

Crash ==
    /\ phase # "down"
    /\ crashes < MaxCrashes
    /\ crashes' = crashes + 1
    /\ ForgetMemory
    /\ UNCHANGED <<durable, now, clockSteps, published>>

BeginShutdown ==
    /\ phase = "running"
    /\ phase' = "stopping"
    /\ UNCHANGED <<durable, call, memory, world>>

\* drain() waits for the attempts in progress, not for calls before theirs.
Exit ==
    /\ phase = "stopping"
    /\ \A op \in Ops : call[op].pc \notin Attempting
    /\ ForgetMemory
    /\ UNCHANGED <<durable, world>>

-----------------------------------------------------------------------------
(* Surroundings. *)

\* signalDeviceAvailable, on an eligible announcement.
SignalDeviceAvailable(d) ==
    /\ phase \in {"running", "stopping"}
    /\ cooldown[d] > 0
    /\ cooldown' = [cooldown EXCEPT ![d] = 0]
    /\ UNCHANGED <<durable, phase, call, toRecover, recoverAt, active, checkedAt,
                   world>>

Tick ==
    /\ now < MaxTime
    /\ now' = now + 1
    /\ UNCHANGED <<durable, phase, call, memory, crashes, clockSteps, published>>

SetClockBack ==
    /\ clockSteps < MaxClockSteps
    /\ now > 0
    /\ now' = now - 1
    /\ clockSteps' = clockSteps + 1
    /\ UNCHANGED <<durable, phase, call, memory, crashes, published>>

Execute(op) ==
    \/ \E eligible \in BOOLEAN : Begin(op, eligible)
    \/ BeginPatch(op)
    \/ \E target \in Ops : ReconcileExpired(op, target)
    \/ FinishScan(op) \/ CreatePending(op)
    \/ TurnAway(op) \/ Admit(op) \/ StartBackgroundAttempt(op)
    \/ Cancel(op) \/ ExpireBeforeAttempt(op) \/ MarkInFlight(op)
    \/ Refuse(op) \/ TransportThrows(op) \/ Publish(op)
    \/ \E result \in Results : Outcome(op, result)
    \/ CompleteInFlight(op) \/ PostCompletion(op)

Maintain(op) ==
    \/ ReconcileByOperator(op) \/ ReconcileByOverride(op)
    \/ ReconcileBySchedule(op)
    \/ ClaimByOverride(op) \/ ReleaseByOverride(op)
    \/ PruneRoutineOperation(op)
    \/ Recover(op)

Next ==
    \/ \E op \in Ops : Execute(op) \/ Maintain(op)
    \/ Boot \/ RecoveryFails \/ FinishRecovery
    \/ Crash \/ BeginShutdown \/ Exit
    \/ \E d \in Devices : SignalDeviceAvailable(d)
    \/ Tick \/ SetClockBack

Spec == Init /\ [][Next]_vars

\* Awaited promises are settled and continued, the transport answers, refuses
\* or times out, and a supervisor restarts the process.
Continue(op) ==
    \/ \E target \in Ops : ReconcileExpired(op, target)
    \/ FinishScan(op) \/ CreatePending(op)
    \/ TurnAway(op) \/ Admit(op) \/ StartBackgroundAttempt(op)
    \/ Cancel(op) \/ ExpireBeforeAttempt(op) \/ MarkInFlight(op)
    \/ Refuse(op) \/ Outcome(op, "timeout")
    \/ CompleteInFlight(op) \/ PostCompletion(op)

Fairness ==
    /\ \A op \in Ops : WF_vars(Continue(op)) /\ WF_vars(Recover(op))
    /\ WF_vars(Boot) /\ WF_vars(FinishRecovery)

FairSpec == Spec /\ Fairness

-----------------------------------------------------------------------------
(* Correctness. *)

\* A row is dated when it is settled, and not before.
Dated(r) == /\ r.status \in {"pending", "in_flight"} => r.completedAt = None
            /\ r.status \in Terminal => /\ r.completedAt # None
                                        /\ r.completedAt >= r.requestedAt

TypeOK ==
    /\ row \in [Ops -> Row]
    /\ \A op \in Ops : Dated(row[op])
    /\ owned \subseteq Ops
    /\ phase \in {"down", "recovering", "running", "stopping"}
    /\ toRecover \subseteq Ops
    /\ recoverAt \in Nat
    /\ call \in [Ops -> Call]
    /\ active \subseteq Devices
    /\ cooldown \in [Devices -> Nat]
    /\ checkedAt \in [Devices -> Nat \cup {None}]
    /\ now \in Nat /\ crashes \in Nat /\ clockSteps \in Nat
    /\ published \in [Ops -> Nat]

\* An operation recorded as never attempted, or as refused by the transport,
\* was never on the wire: an operator who reads "cancelled" or "transport
\* unavailable" may repeat the command (#attempt, recoverInterrupted).
NoPhantomEffect ==
    \A op \in Ops :
        \/ row[op].status \in {"cancelled", "timed_out"}
        \/ row[op].status = "failed" /\ row[op].unsent
        => published[op] = 0

\* No operation is published twice, whatever is retried, interrupted or
\* recovered: "never retries that ambiguous operation as though it were
\* safely unsent".
AtMostOnePublication == \A op \in Ops : published[op] <= 1

\* A device is reserved exactly while one attempt that reserved it runs: no
\* second attempt starts meanwhile, and no reservation outlives its attempt
\* (#activeDeviceAttempts).
ReservationMatchesAttempt ==
    \A d \in Devices :
        LET holders == {op \in Ops : /\ call[op].reserved
                                     /\ call[op].pc \in Attempting
                                     /\ DeviceOf(op) = d}
        IN  /\ \A a, b \in holders : a = b
            /\ d \in active <=> holders # {}

\* An unknown overwrite is not declared reconciled while the firmware may
\* still be holding it, by any of the four parties that can do so.
LeaseOutlivesReconciliation ==
    \A op \in Ops :
        row[op].reconciledAt # None /\ Request[op].overwrite =>
            row[op].reconciledAt >= row[op].completedAt + OverwriteLease

\* A running controller has no unsettled row of a recovered kind that nobody
\* is working on, except one whose call threw on a clock set back.
NoOrphans(kinds) ==
    phase = "running" =>
        \A op \in Ops : Live(op) /\ KindOf(op) \in kinds =>
            call[op].pc \in Working \cup {"stranded"}

RecoveredKindsHaveNoOrphans == NoOrphans(RecoveredKinds)

\* docs/architecture.md: "Startup recovery converts each interrupted in-flight
\* operation to `outcome_unknown`".  It does not look for every kind.
EveryInterruptedOperationIsRecovered == NoOrphans(AllKinds)

\* While an override owns an unknown child nobody else reconciles it.
OnlyTheOwnerReconciles ==
    [][\A op \in owned : row'[op].reconciledAt # row[op].reconciledAt =>
            row'[op].reconciledBy = "manual_override"]_vars

\* Every recorded operation of a recovered kind reaches a terminal state, even
\* across a crash, as long as the clock is not set back.
EveryOperationSettles ==
    \A op \in Ops :
        Live(op) /\ KindOf(op) \in RecoveredKinds ~> ~Live(op)

\* The operations as OperationLifecycle sees them.
StageOf(op) ==
    CASE row[op].status = "absent"    -> "none"
      [] row[op].status = "deleted"   -> "forgotten"
      [] row[op].status = "pending"   -> "waiting"
      [] row[op].status = "in_flight" -> "attempting"
      [] row[op].status = "failed"    -> IF row[op].unsent THEN "unsent"
                                         ELSE "rejected"
      [] OTHER                        -> row[op].status

Lifecycle == INSTANCE OperationLifecycle WITH
    stage <- [op \in Ops |-> StageOf(op)],
    sent <- {op \in Ops : published[op] > 0},
    acknowledged <- {op \in Ops : row[op].reconciledAt # None}

\* Every behaviour of the service, its database and a crashing process is one
\* the life-cycle allows.
ImplementsLifecycle == Lifecycle!LifecycleSpec
=============================================================================
