---------------------------- MODULE AlertLifecycle ----------------------------
(***************************************************************************)
(* One alert, from its rule to the webhook: DeviceAlertEvaluator passes    *)
(* over the device, the exclusive evaluations of AlertService, the rule    *)
(* edits of the configuration, and the deliveries that                     *)
(* AlertNotificationDispatcher sends, one attempt each, under              *)
(* AlertNotificationRuntime.                                               *)
(*                                                                         *)
(* The state database and the events database (audited) survive a crash.   *)
(* The wall clock dates transitions and attempts, and may be set back.  An *)
(* observation of an alert that stays open changes nothing but its time,   *)
(* and is left out: the service may refuse an acknowledgement for that     *)
(* time too.                                                               *)
(***************************************************************************)
EXTENDS Integers, Sequences, FiniteSets

CONSTANTS
    Delay,          \* delay_ms of the rule
    MaxPasses,      \* bound: evaluateAll calls under way
    MaxTransitions, \* bound: transitions of the alert
    MaxEdits,       \* bound: edits of the rule
    MaxClock,       \* bound: dates told apart
    MaxFaults       \* bound: crashes, failing webhooks and writes, clocks set back

ASSUME AlertConstants ==
    /\ {Delay, MaxEdits, MaxClock, MaxFaults} \subseteq Nat
    /\ {MaxPasses, MaxTransitions} \subseteq Nat \ {0}

VARIABLES
    clock,      \* Date.now()
    device,     \* its row: online, enabled
    rule,       \* its row, with the number of its edits
    alert,      \* its row
    pending,    \* the pending condition: None, or its age by the clock
    passes,     \* evaluateAll calls: what they read, the rule they loaded
    deliveries, \* the notification_deliveries rows, by id
    runtime,    \* the notification runtime, its batch, the delivery in hand
    received,   \* what the webhook got, in order
    audited,    \* deliveries whose outcome the events database holds
    faults      \* those that happened

stateRows == <<device, rule, alert, pending, deliveries>>
alertVars == <<clock, stateRows, passes, runtime, received, audited, faults>>

None == Delay + 1
Active == alert \in {"open", "acknowledged"}
Terminal == {"delivered", "failed", "outcome_unknown"}
NoHand == 0
Transitions == {"opened", "reopened", "acknowledged", "recovered"}
\* Of the rule: gone, or about another device, or about this one.
Statuses == {"absent", "foreign", "enabled", "disabled"}

\* A runtime that has nothing in hand.
EmptyHanded(phase) == [phase |-> phase, step |-> "idle", hand |-> NoHand, batch |-> {}]

\* The earlier dates are those of a clock that is set back later.
AlertInit ==
    /\ clock = MaxClock
    /\ device = [online |-> TRUE, enabled |-> TRUE]
    /\ rule = [status |-> "absent", edits |-> 0]
    /\ alert = "none" /\ pending = None
    /\ passes = << >> /\ deliveries = << >> /\ received = << >>
    /\ runtime = EmptyHanded("down")
    /\ audited = {} /\ faults = 0

Up == runtime.phase # "down"
Ahead(i) == clock < deliveries[i].at

-----------------------------------------------------------------------------
(* The evaluation.                                                         *)

\* The registry and the configuration change the device.
DeviceChanges ==
    /\ device' \in {[device EXCEPT !.online = ~@], [device EXCEPT !.enabled = ~@]}
    /\ UNCHANGED <<clock, rule, alert, pending, deliveries, passes, runtime, received, audited, faults>>

\* evaluateAll reads the enabled devices and seeds the built-in rule; it gives
\* up over a rule of that name that is about something else.
BeginPass ==
    /\ Up /\ Len(passes) < MaxPasses
    /\ device.enabled
    /\ rule.status # "foreign"
    /\ rule' = IF rule.status = "absent" THEN [rule EXCEPT !.status = "enabled"] ELSE rule
    /\ passes' = Append(passes, [online |-> device.online, loaded |-> FALSE, edits |-> 0])
    /\ UNCHANGED <<clock, device, alert, pending, deliveries, runtime, received, audited, faults>>

\* evaluateExclusive loads the rules; a disabled one loses its pending condition.
LoadRules ==
    /\ passes # << >> /\ ~Head(passes).loaded
    /\ IF rule.status = "enabled"
       THEN /\ passes' = [passes EXCEPT ![1].loaded = TRUE, ![1].edits = rule.edits]
            /\ UNCHANGED pending
       ELSE /\ passes' = Tail(passes)
            /\ pending' = IF rule.status = "disabled" THEN None ELSE pending
    /\ UNCHANGED <<clock, device, rule, alert, deliveries, runtime, received, audited, faults>>

\* The transaction of a transition refuses a rule that is not the one loaded,
\* and the pass ends with it.
SameRule(pass) == rule.status = "enabled" /\ rule.edits = pass.edits

\* A transition and its delivery, dated by the clock, are one transaction.
Commit(transition, next) ==
    /\ Len(deliveries) < MaxTransitions
    /\ alert' = next
    /\ deliveries' = Append(deliveries,
           [transition |-> transition, at |-> clock, status |-> "pending", began |-> 0, recorded |-> FALSE])

\* What follows an opening may not be dated before it, nor a recovery before
\* the acknowledgement: the snapshot of the alert is refused.
Regressed == Active /\ Ahead(Len(deliveries))

DeletePending == pending' = None

\* The condition goes on; one of a rule that is gone cannot be stored.
PersistPending ==
    pending' = IF rule.status = "absent" \/ pending # None THEN pending ELSE 0
Early == Delay > 0 /\ (pending = None \/ pending < Delay)

OpenAlert ==
    /\ Commit(IF alert = "none" THEN "opened" ELSE "reopened", "open")
    /\ DeletePending
RecoverAlert == Commit("recovered", "recovered") /\ DeletePending

MutantOpens == alert = "none"

\* Whether an observation that matches may open the alert.
Opens == ~Active

\* evaluateRule, of the oldest pass.
EvaluateRule ==
    /\ passes # << >> /\ Head(passes).loaded
    /\ passes' = Tail(passes)
    /\ LET away == ~Head(passes).online
           same == SameRule(Head(passes)) /\ ~Regressed
           moves == IF away THEN Opens /\ ~Early ELSE Active
       IN  \/ moves /\ same /\ IF away THEN OpenAlert ELSE RecoverAlert
           \/ /\ moves /\ ~same
              /\ IF away THEN PersistPending ELSE UNCHANGED pending
              /\ UNCHANGED <<alert, deliveries>>
           \/ /\ ~moves
              /\ IF away /\ Opens THEN PersistPending ELSE DeletePending
              /\ UNCHANGED <<alert, deliveries>>
    /\ UNCHANGED <<clock, device, rule, runtime, received, audited, faults>>

\* acknowledgeAtRevision waits for the evaluation under way.
Acknowledge ==
    /\ Up /\ alert = "open" /\ ~Regressed
    /\ passes # << >> => ~Head(passes).loaded
    /\ Commit("acknowledged", "acknowledged")
    /\ UNCHANGED <<clock, device, rule, pending, passes, runtime, received, audited, faults>>

\* The edits of the rule, none of which waits for an evaluation.
EditTo(status) ==
    /\ Up /\ rule.edits < MaxEdits
    /\ rule' = [status |-> status, edits |-> rule.edits + 1]
    /\ pending' = IF status \in {"disabled", "absent"} THEN None ELSE pending
    /\ UNCHANGED <<clock, device, alert, deliveries, passes, runtime, received, audited, faults>>

CreateRule(status) == rule.status = "absent" /\ EditTo(status)
PatchRule(status) == rule.status # "absent" /\ ~Active /\ EditTo(status)
DeleteRule == rule.status # "absent" /\ alert = "none" /\ EditTo("absent")

EditRule ==
    \/ \E status \in Statuses \ {"absent"} : CreateRule(status) \/ PatchRule(status)
    \/ DeleteRule

\* Time passes.  The dates after MaxClock are all one.
Tick ==
    /\ pending < Delay \/ clock < MaxClock
    /\ pending' = IF pending < Delay THEN pending + 1 ELSE pending
    /\ clock' = IF clock < MaxClock THEN clock + 1 ELSE clock
    /\ UNCHANGED <<device, rule, alert, deliveries, passes, runtime, received, audited, faults>>

\* The clock is set back, and a pending condition looks the younger for it.
SetClockBack ==
    /\ faults < MaxFaults
    /\ faults' = faults + 1
    /\ \E earlier \in 0 .. clock - 1 :
           /\ clock' = earlier
           /\ pending' = IF pending = None THEN None ELSE pending - (clock - earlier)
    /\ UNCHANGED <<device, rule, alert, deliveries, passes, runtime, received, audited>>

-----------------------------------------------------------------------------
(* The notifications.                                                      *)

\* A row that goes on; what is over has no use for when its attempt began.
With(i, status) ==
    [deliveries EXCEPT ![i].status = status, ![i].began = IF status = "attempting" THEN clock ELSE 0]
Waiting == {i \in DOMAIN deliveries : deliveries[i].status = "pending"}
Interrupted == {i \in DOMAIN deliveries : deliveries[i].status = "attempting"}

Unrecorded == {i \in DOMAIN deliveries :
                  deliveries[i].status \in Terminal /\ ~deliveries[i].recorded}
First(S) == CHOOSE i \in S : \A j \in S : i <= j

\* .orderBy("created_at_ms").orderBy("id")
FirstDated(S) == First({i \in S : \A j \in S : deliveries[i].at <= deliveries[j].at})

MutantRecovered == "pending"

\* What recoverInterrupted makes of a delivery whose attempt was cut off.
Recovered == "outcome_unknown"

\* recoverInterrupted, when the runtime starts.
StartRuntime ==
    /\ runtime.phase = "down"
    /\ runtime' = EmptyHanded("recovering")
    /\ UNCHANGED <<clock, stateRows, passes, received, audited, faults>>

\* A clock that is behind an attempt is an error, and the runtime ends with it.
RecoverInterrupted ==
    /\ runtime.phase = "recovering"
    /\ \/ /\ \E i \in Interrupted : clock < deliveries[i].began
          /\ runtime' = EmptyHanded("failed") /\ UNCHANGED deliveries
       \/ /\ Interrupted # {} /\ \A i \in Interrupted : clock >= deliveries[i].began
          /\ deliveries' = With(First(Interrupted), Recovered) /\ UNCHANGED runtime
       \/ Interrupted = {} /\ runtime' = EmptyHanded("running") /\ UNCHANGED deliveries
    /\ UNCHANGED <<clock, device, rule, alert, pending, passes, received, audited, faults>>

\* recordTerminalOutcome writes to the events database, which takes an outcome
\* once, and then ticks the delivery off in the state database.
RecordOutcome ==
    /\ runtime.phase = "running" /\ Unrecorded # {}
    /\ \/ runtime.step = "idle"
       \/ runtime.step = "settled" /\ runtime.hand = First(Unrecorded)
    /\ LET i == First(Unrecorded)
       IN  IF i \notin audited
           THEN audited' = audited \cup {i} /\ UNCHANGED <<deliveries, runtime>>
           ELSE /\ deliveries' = [deliveries EXCEPT ![i].recorded = TRUE]
                /\ runtime' = [runtime EXCEPT !.step = "idle", !.hand = NoHand]
                /\ UNCHANGED audited
    /\ UNCHANGED <<clock, device, rule, alert, pending, passes, received, faults>>

\* dispatchPending lists what waits, after the flush.
ListPending ==
    /\ runtime.phase = "running" /\ runtime.step = "idle" /\ runtime.batch = {}
    /\ Unrecorded = {} /\ Waiting # {}
    /\ runtime' = [runtime EXCEPT !.batch = Waiting]
    /\ UNCHANGED <<clock, stateRows, passes, received, audited, faults>>

\* The delivery of the batch that is next.
Following == FirstDated(runtime.batch)

\* The claim of that delivery, which a clock that is behind its date refuses.
Claim ==
    /\ runtime.phase = "running" /\ runtime.step = "idle" /\ runtime.batch # {}
    /\ IF Ahead(Following)
       THEN runtime' = EmptyHanded("failed") /\ UNCHANGED deliveries
       ELSE /\ deliveries' = With(Following, "attempting")
            /\ runtime' = [runtime EXCEPT !.step = "send", !.hand = Following,
                                          !.batch = @ \ {Following}]
    /\ UNCHANGED <<clock, device, rule, alert, pending, passes, received, audited, faults>>

\* The request reaches the webhook, or not; its answer may be lost.
Send(ok) ==
    /\ runtime.step = "send"
    /\ ~ok => faults < MaxFaults
    /\ faults' = IF ok THEN faults ELSE faults + 1
    /\ received' \in {Append(received, runtime.hand)} \cup IF ok THEN {} ELSE {received}
    /\ runtime' = [runtime EXCEPT !.step = IF ok THEN "delivered" ELSE "failed"]
    /\ UNCHANGED <<clock, stateRows, passes, audited>>

\* markDelivered and markFailed, unless the clock is behind the attempt.
Mark ==
    /\ runtime.step \in {"delivered", "failed"}
    /\ IF clock < deliveries[runtime.hand].began
       THEN runtime' = EmptyHanded("failed") /\ UNCHANGED deliveries
       ELSE /\ deliveries' = With(runtime.hand, runtime.step)
            /\ runtime' = [runtime EXCEPT !.step = "settled"]
    /\ UNCHANGED <<clock, device, rule, alert, pending, passes, received, audited, faults>>

\* A write throws: the runtime fails for good.
Fail ==
    /\ runtime.phase \in {"recovering", "running"} /\ faults < MaxFaults
    /\ faults' = faults + 1
    /\ runtime' = EmptyHanded("failed")
    /\ UNCHANGED <<clock, stateRows, passes, received, audited>>

Crash ==
    /\ Up /\ faults < MaxFaults
    /\ faults' = faults + 1
    /\ runtime' = EmptyHanded("down")
    /\ passes' = << >>
    /\ UNCHANGED <<clock, stateRows, received, audited>>

-----------------------------------------------------------------------------
Evaluation == LoadRules \/ EvaluateRule
Notification == StartRuntime \/ RecoverInterrupted \/ RecordOutcome \/ ListPending \/ Claim \/ Mark
                \/ \E ok \in BOOLEAN : Send(ok)

AlertNext ==
    \/ DeviceChanges \/ BeginPass \/ Evaluation \/ Acknowledge \/ EditRule \/ Tick \/ SetClockBack
    \/ Notification \/ Fail \/ Crash

AlertSafety == AlertInit /\ [][AlertNext]_alertVars

AlertSpec ==
    /\ AlertSafety
    /\ WF_alertVars(BeginPass) /\ WF_alertVars(Evaluation) /\ WF_alertVars(Tick)
    /\ WF_alertVars(Notification)

-----------------------------------------------------------------------------
AlertTypeOK ==
    /\ clock \in 0 .. MaxClock
    /\ device \in [online : BOOLEAN, enabled : BOOLEAN]
    /\ rule \in [status : Statuses, edits : 0 .. MaxEdits]
    /\ alert \in {"none", "open", "acknowledged", "recovered"} /\ pending \in Int /\ pending <= None
    /\ passes \in Seq([online : BOOLEAN, loaded : BOOLEAN, edits : 0 .. MaxEdits])
    /\ deliveries \in Seq([transition : Transitions, at : 0 .. MaxClock, began : 0 .. MaxClock,
                           status : Terminal \cup {"pending", "attempting"}, recorded : BOOLEAN])
    /\ Len(passes) <= MaxPasses /\ Len(deliveries) <= MaxTransitions
    /\ runtime \in [phase : {"down", "recovering", "running", "failed"},
                    step : {"idle", "send", "delivered", "failed", "settled"},
                    hand : 0 .. MaxTransitions, batch : SUBSET (1 .. MaxTransitions)]
    /\ audited \subseteq 1 .. MaxTransitions /\ faults \in 0 .. MaxFaults

\* The alert was opened again between two of its transitions, and that is
\* dated before the first of them: the clock has been set back.
ReopenedBefore(i, j) ==
    \E k \in i + 1 .. j : deliveries[k].transition = "reopened" /\ deliveries[k].at < deliveries[i].at

(* The webhook gets every notification at most once, and in the order of   *)
(* the transitions, whatever crashes in between and however the clock is   *)
(* set back: from an opening to its recovery the order is always kept, and *)
(* a later notification comes first only if a reopening in between was     *)
(* dated before the earlier one.                                           *)
OnceAndInOrder ==
    \A i, j \in DOMAIN received :
        i < j => \/ received[i] < received[j]
                 \/ received[i] > received[j] /\ ReopenedBefore(received[j], received[i])

Room == Len(deliveries) < MaxTransitions

(* While an enabled device stays away for good, or stays for good, its     *)
(* alert ends up active, or not.                                           *)
Tells ==
    device.enabled /\ rule.status = "enabled" /\ Room /\ Up => Active = ~device.online

Open == \E i \in DOMAIN deliveries : ~deliveries[i].recorded

(* The alert settles, and every notification comes to an outcome that is    *)
(* audited and on record.                                                  *)
Settles ==
    /\ <>[][~DeviceChanges]_alertVars => <>[]Tells
    /\ Open ~> (~Open \/ runtime.phase = "failed")
=============================================================================
