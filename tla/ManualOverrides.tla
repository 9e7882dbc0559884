---------------------------- MODULE ManualOverrides ----------------------------
(***************************************************************************)
(* The life of manual overrides: ManualOverrideService with its background *)
(* attempts, its due pass and its timer, above the rows of                 *)
(* ManualOverrideRepository and above the device operations ("children")   *)
(* that carry the command to a device.                                     *)
(*                                                                         *)
(* Two targets share one pin, one after the other: the operator may point  *)
(* its mapping from the first to the second.  Times are kept as what is    *)
(* left of them, which is all the code compares.                           *)
(***************************************************************************)
EXTENDS Integers, FiniteSets

CONSTANTS
    MaxOverrides,   \* bound: overrides, numbered in the order of their start
    Duration,       \* how long an override lasts
    Lease,          \* MANUAL_OVERRIDE_DURATION_MS, the device's own overwrite
    MaxEdits,       \* bound: extensions, and mappings moved
    MaxFaults       \* bound: crashes, and commands that end other than they
                    \* should or begin too late

ASSUME OverrideConstants ==
    /\ {MaxEdits, MaxFaults} \subseteq Nat
    /\ {MaxOverrides, Duration, Lease} \subseteq Nat \ {0}

Overrides == 1 .. MaxOverrides
Targets == {"first", "second"}
Sides == {"start", "release"}       \* the two operations of an override

VARIABLES
    override,   \* the overrides rows
    operation,  \* their aggregate rows in control_operations
    child,      \* the set_pwm row of each aggregate, with its lease
    mapped,     \* the target the pin is mapped to
    supported,  \* the device says it runs a firmware that is supported
    service,    \* the service, from its process to its readiness
    attempt,    \* the background attempt of each aggregate
    due,        \* the due pass
    count,      \* edits and faults so far
    thrown      \* whether a dispatch threw

rows == <<override, operation, child>>
overrideVars == <<rows, mapped, supported, service, attempt, due, count, thrown>>

NoOne == 0
Finished == {"expired", "cancelled", "failed"}
Statuses == {"none", "pending", "active"} \cup Finished
OpStatuses == {"absent", "pending", "in_flight", "succeeded", "failed", "timed_out",
               "cancelled", "outcome_unknown"}

NoOperation == [status |-> "absent", kind |-> "start", wait |-> 0,
                names |-> FALSE, reconciled |-> FALSE]
NoOverride == [status |-> "none", target |-> "first", left |-> 0, op |-> "start",
               replaces |-> NoOne]
NoChild == [status |-> "none", lease |-> 0]
NoAttempt == [pc |-> "none", end |-> "blocked"]
NoPass == [pc |-> "idle", unknown |-> {}, expired |-> {}, waits |-> NoOne]

Keys == Overrides \X Sides
Down(n) == IF n = 0 THEN 0 ELSE n - 1

\* An unknown outcome that nobody has reconciled.
Unresolved(k) == operation[k].status = "outcome_unknown" /\ ~operation[k].reconciled

\* How a child, and the command it carries, can end: "refused" is any known
\* end but success, "throws" is a failure of the operation service itself,
\* "blocked" a dispatcher that a throw has latched, "some" the same after
\* another device had taken its command, "expired" a deadline that passed first.
Ends == {"succeeded", "refused", "unknown", "throws", "blocked", "some", "expired"}

-----------------------------------------------------------------------------
(* What the repository makes of an aggregate.                              *)

Live(o) == override[o].status \in {"pending", "active"}
Free(t, replaced) ==
    \A o \in Overrides : Live(o) /\ override[o].target = t =>
        o = replaced /\ override[o].status = "active"

\* terminalOverrideState.
TerminalOverrideState(o, side, status) ==
    IF status \in {"failed", "timed_out"} THEN "failed"
    ELSE IF side = "start" THEN IF override[o].left = 0 THEN "expired" ELSE "active"
    ELSE IF status = "outcome_unknown" THEN "pending"
    ELSE IF operation[<<o, side>>].kind = "cancel" THEN "cancelled" ELSE "expired"

MutantSuperseded(o, status) ==
    IF /\ override[o].replaces # NoOne /\ status = "succeeded"
       /\ override[override[o].replaces].status = "active"
    THEN {override[o].replaces} ELSE {}

\* The override that o replaces is over as soon as o may be on the device.
Superseded(o, status) ==
    IF /\ override[o].replaces # NoOne /\ status \in {"succeeded", "outcome_unknown"}
       /\ override[override[o].replaces].status = "active"
    THEN {override[o].replaces} ELSE {}

\* #completeTerminal: wait is what is left until the safe reconciliation,
\* names whether the result names the unknown child.
Complete(o, side, status, wait, names) ==
    LET over == IF side = "start" THEN Superseded(o, status) ELSE {}
    IN  /\ operation' = [operation EXCEPT ![<<o, side>>] =
               [@ EXCEPT !.status = status, !.wait = wait, !.names = names]]
        /\ override' = [p \in Overrides |->
               IF p = o
               THEN [override[p] EXCEPT !.status = TerminalOverrideState(o, side, status)]
               ELSE IF p \in over THEN [override[p] EXCEPT !.status = "cancelled"]
               ELSE override[p]]

\* #assertStartReconciliationLineage and the check before it.
Lineage(o, side) ==
    IF side = "release"
    THEN override[o].status = "pending" /\ override[o].op = "release"
    ELSE LET r == operation[<<o, "release">>]
             over == IF r.kind = "cancel" THEN "cancelled" ELSE "expired"
         IN  IF override[o].op = "start" THEN override[o].status \in {"active", "expired"}
             ELSE override[o].status =
                      IF \/ r.status \in {"pending", "in_flight"}
                         \/ r.status = "outcome_unknown" /\ ~r.reconciled
                      THEN "pending" ELSE over

\* #reconcileOperation settles the child, once its lease is over, and then the
\* aggregate.
LeaseOver(k) == operation[k].names /\ child[k].status = "unknown" => child[k].lease = 0
Reconcilable(k) == Unresolved(k) /\ operation[k].wait = 0 /\ LeaseOver(k) /\ Lineage(k[1], k[2])

\* Only a release decides what its override becomes.
Reconcile(k) ==
    /\ child' = IF operation[k].names /\ LeaseOver(k)
                THEN [child EXCEPT ![k].status = "reconciled"] ELSE child
    /\ IF Reconcilable(k)
       THEN /\ operation' = [operation EXCEPT ![k].reconciled = TRUE]
            /\ override' = IF k[2] = "start" THEN override
                   ELSE [override EXCEPT ![k[1]].status =
                            IF operation[k].kind = "cancel" THEN "cancelled" ELSE "expired"]
       ELSE UNCHANGED <<override, operation>>

\* nextDeadlineMs: without one, #rearmTimer sets no timer.
Deadline ==
    \/ \E o \in Overrides : override[o].status = "active"
    \/ \E k \in Keys : Unresolved(k)

-----------------------------------------------------------------------------
OverrideInit ==
    /\ override = [o \in Overrides |-> NoOverride]
    /\ operation = [k \in Keys |-> NoOperation]
    /\ child = [k \in Keys |-> NoChild]
    /\ mapped = "first" /\ supported = TRUE
    /\ service = [phase |-> "down", fatal |-> FALSE, latched |-> FALSE, armed |-> FALSE]
    /\ attempt = [k \in Keys |-> NoAttempt]
    /\ due = NoPass
    /\ count = [edits |-> 0, faults |-> 0]
    /\ thrown = FALSE

Accepting == service.phase = "accepting" /\ ~service.fatal

\* resolveStartCommands finds a pin to command, resolveReleaseCommands the same
\* pin again; a device whose firmware is not supported gets no command.
ResolvesStart(t) == mapped = t /\ supported
ResolvesRelease == supported

\* createStart, and the attempt that startOverride leaves behind.
StartOverride(t, replaced) ==
    /\ Accepting
    /\ ResolvesStart(t)
    /\ Free(t, replaced)
    /\ replaced # NoOne => override[replaced].status = "active" /\ override[replaced].target = t
    /\ \E o \in Overrides :
           /\ override[o].status = "none"
           /\ \A p \in 1 .. o - 1 : override[p].status # "none"
           /\ override' = [override EXCEPT ![o] =
                  [status |-> "pending", target |-> t, left |-> Duration, op |-> "start",
                   replaces |-> replaced]]
           /\ operation' = [operation EXCEPT ![<<o, "start">>] =
                  [NoOperation EXCEPT !.status = "pending"]]
           /\ attempt' = [attempt EXCEPT ![<<o, "start">>].pc = "mark"]
    /\ UNCHANGED <<child, mapped, supported, service, due, count, thrown>>

\* extend, with the duration of the start.  What an operator asks for reads the
\* time before it waits for its turn: the override may be due by then.
ExtendOverride(o) ==
    /\ Accepting
    /\ count.edits < MaxEdits
    /\ override[o].status = "active" /\ override[o].left < Duration
    /\ override' = [override EXCEPT ![o].left = Duration]
    /\ count' = [count EXCEPT !.edits = @ + 1]
    /\ service' = [service EXCEPT !.armed = Deadline']
    /\ UNCHANGED <<operation, child, mapped, supported, attempt, due, thrown>>

\* createRelease.
Release(o, kind) ==
    /\ override' = [override EXCEPT ![o].status = "pending", ![o].op = "release"]
    /\ operation' = [operation EXCEPT ![<<o, "release">>] =
           [NoOperation EXCEPT !.status = "pending", !.kind = kind]]
    /\ attempt' = [attempt EXCEPT ![<<o, "release">>].pc = "mark"]

CancelOverride(o) ==
    /\ Accepting
    /\ override[o].status = "active"
    /\ ResolvesRelease
    /\ Release(o, "cancel")
    /\ UNCHANGED <<child, mapped, supported, service, due, count, thrown>>

\* reconcileOverride, for the operation the override refers to; it may throw
\* when the child is settled.
ReconcileOverride(o) ==
    LET k == <<o, override[o].op>>
    IN  /\ Accepting
        /\ Unresolved(k) /\ operation[k].wait = 0
        /\ Reconcile(k)
        /\ service' = [service EXCEPT !.armed = IF Reconcilable(k) THEN Deadline' ELSE @]
        /\ UNCHANGED <<mapped, supported, attempt, due, count, thrown>>

\* replaceMappingProfile looks at no override.
Repoint ==
    /\ service.phase = "accepting" /\ mapped = "first"
    /\ count.edits < MaxEdits
    /\ mapped' = "second"
    /\ count' = [count EXCEPT !.edits = @ + 1]
    /\ UNCHANGED <<rows, supported, service, attempt, due, thrown>>

\* The device announces a firmware that is not supported, and is on record with
\* it.
ChangeFirmware ==
    /\ supported /\ count.faults < MaxFaults
    /\ supported' = FALSE
    /\ count' = [count EXCEPT !.faults = @ + 1]
    /\ UNCHANGED <<rows, mapped, service, attempt, due, thrown>>

-----------------------------------------------------------------------------
(* #attempt: mark, dispatch, record.                                       *)

Enter(k, end) == [attempt EXCEPT ![k].pc = "record", ![k].end = end]

\* markInFlight; when that took until the deadline, nothing is dispatched.
MarkInFlight(k) ==
    /\ attempt[k].pc = "mark"
    /\ operation' = [operation EXCEPT ![k].status = "in_flight"]
    /\ \/ /\ attempt' = [attempt EXCEPT ![k].pc = "dispatch"]
          /\ UNCHANGED count
       \/ /\ count.faults < MaxFaults
          /\ count' = [count EXCEPT !.faults = @ + 1]
          /\ attempt' = Enter(k, "expired")
    /\ UNCHANGED <<override, child, mapped, supported, service, due, thrown>>

\* #dispatchDeviceCommands begins: the dispatcher may be latched.
Dispatch(k) ==
    /\ attempt[k].pc = "dispatch"
    /\ IF service.latched
       THEN /\ \E end \in {"blocked", "some"} : attempt' = Enter(k, end)
            /\ UNCHANGED child
       ELSE /\ attempt' = [attempt EXCEPT ![k].pc = "sent"]
            /\ child' = [child EXCEPT ![k] = [status |-> "in_flight", lease |-> 0]]
    /\ UNCHANGED <<override, operation, mapped, supported, service, due, count, thrown>>

ChildEnds(k, end) ==
    /\ attempt[k].pc = "sent"
    /\ end \in {"succeeded", "refused", "unknown", "throws"}
    /\ LET expected == end = IF supported THEN "succeeded" ELSE "refused" IN
       /\ expected \/ count.faults < MaxFaults
       /\ count' = [count EXCEPT !.faults = IF expected THEN @ ELSE @ + 1]
    /\ attempt' = Enter(k, end)
    /\ child' \in {[child EXCEPT ![k] = c] :
           c \in CASE end = "unknown" -> {[status |-> "unknown", lease |-> Lease]}
                  [] end = "throws" -> {NoChild, child[k]}
                  [] OTHER -> {NoChild}}
    /\ service' = [service EXCEPT !.latched = @ \/ end = "throws"]
    /\ thrown' = (thrown \/ end = "throws")
    /\ UNCHANGED <<override, operation, mapped, supported, due>>

MutantRearmed(awaited) == service.armed

\* After a background attempt; a due pass arms the timer when it ends.
Rearmed(awaited) == IF awaited THEN service.armed ELSE Deadline'

\* A due pass waits for the attempts it made, and throws with them.
\* #reportBackgroundError makes the service refuse calls.
Return(k, throws) ==
    LET awaited == due.waits = k[1] /\ k[2] = "release"
    IN  /\ attempt' = [attempt EXCEPT ![k] = NoAttempt]
        /\ service' = [service EXCEPT !.fatal = @ \/ throws, !.armed = Rearmed(awaited),
                          !.phase = IF awaited /\ throws /\ @ = "starting" THEN "broken" ELSE @]
        /\ due' = IF ~awaited THEN due
                  ELSE IF throws THEN NoPass ELSE [due EXCEPT !.waits = NoOne]

\* #recordUnknown: what may have reached a device waits for its lease.
SafetyWait(unknown) == IF unknown THEN Lease ELSE 0

\* The outcome is recorded.
RecordOutcome(k) ==
    /\ attempt[k].pc = "record"
    /\ LET a == attempt[k]
           start == k[2] = "start"
           unknown == a.end = "unknown"
           status == IF a.end = "expired" /\ start THEN "timed_out"
                     ELSE IF a.end = "blocked" /\ start THEN "failed"
                     ELSE IF a.end = "succeeded" /\ (start => override[k[1]].left > 0)
                          THEN "succeeded"
                     ELSE "outcome_unknown"
       IN  /\ Complete(k[1], k[2], status, SafetyWait(unknown), unknown)
           /\ Return(k, a.end = "throws")
    /\ UNCHANGED <<child, mapped, supported, count, thrown>>

-----------------------------------------------------------------------------
(* The due pass and its timer.                                             *)

DueUnknown == {k \in Keys : Unresolved(k) /\ operation[k].wait = 0}
DueActive == {o \in Overrides : override[o].status = "active" /\ override[o].left = 0}

\* The timer, or initialize; the unknown outcomes are listed.
BeginDue ==
    /\ due.pc = "idle"
    /\ \/ service.phase = "starting"
       \/ service.phase = "accepting" /\ service.armed /\ (DueUnknown # {} \/ DueActive # {})
    /\ due' = [NoPass EXCEPT !.pc = "unknown", !.unknown = DueUnknown]
    /\ service' = [service EXCEPT !.armed = FALSE]
    /\ UNCHANGED <<rows, mapped, supported, attempt, count, thrown>>

\* What fails ends the pass, and with it the service, or the start of it.
AbortDue ==
    /\ due' = NoPass
    /\ service' = [service EXCEPT !.fatal = TRUE,
                          !.phase = IF @ = "starting" THEN "broken" ELSE @]

\* #reconcileDueOperation.
ReconcileDue(k) ==
    /\ due.pc = "unknown" /\ k \in due.unknown
    /\ IF ~Unresolved(k)
       THEN due' = [due EXCEPT !.unknown = @ \ {k}] /\ UNCHANGED <<rows, service>>
       ELSE /\ Reconcile(k)
            /\ IF Reconcilable(k)
               THEN due' = [due EXCEPT !.unknown = @ \ {k}] /\ UNCHANGED service
               ELSE AbortDue
    /\ UNCHANGED <<mapped, supported, attempt, count, thrown>>

\* The expired overrides are listed.
ListExpired ==
    /\ due.pc = "unknown" /\ due.unknown = {}
    /\ due' = [due EXCEPT !.pc = "expire", !.expired = DueActive]
    /\ UNCHANGED <<rows, mapped, supported, service, attempt, count, thrown>>

\* The release of an expired override, unless somebody was faster.
ExpireDue(o) ==
    /\ due.pc = "expire" /\ due.waits = NoOne /\ o \in due.expired
    /\ o \in DueActive => ResolvesRelease
    /\ IF o \in DueActive
       THEN Release(o, "expire") /\ due' = [due EXCEPT !.expired = @ \ {o}, !.waits = o]
       ELSE due' = [due EXCEPT !.expired = @ \ {o}] /\ UNCHANGED <<override, operation, attempt>>
    /\ UNCHANGED <<child, mapped, supported, service, count, thrown>>

\* A release needs a command: without one the pass ends, like any failure.
StrandDue(o) ==
    /\ due.pc = "expire" /\ due.waits = NoOne /\ o \in due.expired \cap DueActive
    /\ ~ResolvesRelease
    /\ AbortDue
    /\ UNCHANGED <<rows, mapped, supported, attempt, count, thrown>>

EndDue ==
    /\ due.pc = "expire" /\ due.waits = NoOne /\ due.expired = {}
    /\ due' = NoPass
    /\ service' = [service EXCEPT !.phase = IF @ = "starting" THEN "accepting" ELSE @,
                                  !.armed = Deadline]
    /\ UNCHANGED <<rows, mapped, supported, attempt, count, thrown>>

-----------------------------------------------------------------------------
(* The process.                                                            *)

\* The device operations recover first: a child that was under way is unknown.
Boot ==
    /\ service.phase = "down"
    /\ service' = [phase |-> "recovering", fatal |-> FALSE, latched |-> FALSE, armed |-> FALSE]
    /\ child' = [k \in Keys |-> IF child[k].status = "in_flight"
                                THEN [status |-> "unknown", lease |-> Lease] ELSE child[k]]
    /\ UNCHANGED <<override, operation, mapped, supported, attempt, due, count, thrown>>

Interrupted == {k \in Keys : operation[k].status \in {"pending", "in_flight"}}

MutantFindInterruptedUnknownChild(k) == FALSE

\* #findInterruptedUnknownChildren.
FindInterruptedUnknownChild(k) ==
    operation[k].status = "in_flight" /\ child[k].status = "unknown"

\* #recoverOperation, one interrupted aggregate at a time.
RecoverOperation(k) ==
    /\ service.phase = "recovering" /\ k \in Interrupted
    /\ LET o == k[1]
           lost == k[2] = "start" /\ operation[k].status = "pending"
           begun == k[2] = "start" /\ operation[k].status = "in_flight"
           over == IF begun THEN Superseded(o, "outcome_unknown") ELSE {}
       IN  /\ operation' = [operation EXCEPT ![k] =
                  IF lost THEN [@ EXCEPT !.status = "cancelled"]
                  ELSE [@ EXCEPT !.status = "outcome_unknown", !.wait = Lease,
                                 !.names = FindInterruptedUnknownChild(k)]]
           /\ override' = [p \in Overrides |->
                  IF p = o /\ lost THEN [override[p] EXCEPT !.status = "failed"]
                  ELSE IF p = o /\ begun
                  THEN [override[p] EXCEPT !.status = IF override[p].left = 0
                                                      THEN "expired" ELSE "active"]
                  ELSE IF p \in over THEN [override[p] EXCEPT !.status = "cancelled"]
                  ELSE override[p]]
    /\ UNCHANGED <<child, mapped, supported, service, attempt, due, count, thrown>>

\* recoverInterrupted is done, initialize goes on to its due pass.
Recovered ==
    /\ service.phase = "recovering" /\ Interrupted = {}
    /\ service' = [service EXCEPT !.phase = "starting"]
    /\ UNCHANGED <<rows, mapped, supported, attempt, due, count, thrown>>

Crash ==
    /\ service.phase # "down" /\ count.faults < MaxFaults
    /\ count' = [count EXCEPT !.faults = @ + 1]
    /\ service' = [service EXCEPT !.phase = "down"]
    /\ attempt' = [k \in Keys |-> NoAttempt]
    /\ due' = NoPass
    /\ UNCHANGED <<rows, mapped, supported, thrown>>

Tick ==
    /\ override' = [o \in Overrides |-> [override[o] EXCEPT !.left = Down(@)]]
    /\ operation' = [k \in Keys |-> [operation[k] EXCEPT !.wait = Down(@)]]
    /\ child' = [k \in Keys |-> [child[k] EXCEPT !.lease = Down(@)]]
    /\ UNCHANGED <<mapped, supported, service, attempt, due, count, thrown>>

-----------------------------------------------------------------------------
AttemptStep == \E k \in Keys :
    MarkInFlight(k) \/ Dispatch(k) \/ (\E end \in Ends : ChildEnds(k, end)) \/ RecordOutcome(k)

DueStep ==
    \/ BeginDue \/ ListExpired \/ EndDue
    \/ \E k \in Keys : ReconcileDue(k)
    \/ \E o \in Overrides : ExpireDue(o) \/ StrandDue(o)

StartUp == Boot \/ Recovered \/ \E k \in Keys : RecoverOperation(k)

OverrideNext ==
    \/ \E t \in Targets, r \in Overrides \cup {NoOne} : StartOverride(t, r)
    \/ \E o \in Overrides : ExtendOverride(o) \/ CancelOverride(o) \/ ReconcileOverride(o)
    \/ Repoint \/ ChangeFirmware \/ AttemptStep \/ DueStep \/ StartUp \/ Crash \/ Tick

OverrideSafety == OverrideInit /\ [][OverrideNext]_overrideVars

OverrideSpec ==
    /\ OverrideSafety
    /\ WF_overrideVars(AttemptStep) /\ WF_overrideVars(DueStep)
    /\ WF_overrideVars(StartUp) /\ WF_overrideVars(Tick)

-----------------------------------------------------------------------------
OverrideTypeOK ==
    /\ override \in [Overrides -> [status : Statuses, target : Targets, left : 0 .. Duration,
                                   op : Sides, replaces : Overrides \cup {NoOne}]]
    /\ operation \in [Keys -> [status : OpStatuses, kind : {"start", "cancel", "expire"},
                               wait : 0 .. Lease, names : BOOLEAN, reconciled : BOOLEAN]]
    /\ child \in [Keys -> [status : {"none", "in_flight", "unknown", "reconciled"},
                           lease : 0 .. Lease]]
    /\ service \in [phase : {"down", "recovering", "starting", "accepting", "broken"},
                    fatal : BOOLEAN, latched : BOOLEAN, armed : BOOLEAN]

Active == {o \in Overrides : override[o].status = "active"}

(* "Active manual overrides overlap": the refresh of the outputs stops for *)
(* good when two overrides hold one pin.                                   *)
NoOverlap == Cardinality(Active) <= 1

(* Replacing, cancelling, expiring and recovering never leave two          *)
(* overrides on the pin; only a mapping that was moved does.               *)
OverlapNeedsRepoint == NoOverlap \/ mapped # "first"

(* A command of unknown outcome always has an aggregate that will settle   *)
(* it: none is left behind, whatever crashed, unless the dispatch itself   *)
(* threw.                                                                  *)
NoOrphanedChild ==
    \A k \in Keys : child[k].status = "unknown" =>
        \/ operation[k].status = "in_flight"
        \/ Unresolved(k) /\ operation[k].names
        \/ thrown

\* A start of unknown outcome whose override was replaced meanwhile: Lineage
\* lets nobody reconcile it.
Stranded(o) == override[o].status = "cancelled" /\ override[o].op = "start" /\ Unresolved(<<o, "start">>)

(* An override comes to an end, unless the service was stopped by one of   *)
(* three things: a dispatch that threw, a firmware that is not supported   *)
(* on the device of an override that expired, and a start of unknown       *)
(* outcome whose override was replaced before it was reconciled.           *)
Ongoing == \E o \in Overrides : Live(o)
Ended ==
    \/ \A o \in Overrides : ~Live(o)
    \/ /\ service.fatal
       /\ thrown \/ ~supported \/ \E o \in Overrides : Stranded(o)
OverrideEnds == Ongoing ~> Ended
=============================================================================
