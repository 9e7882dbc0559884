------------------------- MODULE OperationLifecycle -------------------------
(***************************************************************************)
(* What the controller promises about one durable device operation, with   *)
(* nothing said about how it keeps the promise: an operation is recorded,  *)
(* is attempted at most once, puts its command on the wire at most once    *)
(* and only while it is being attempted, and is then settled exactly once  *)
(* with a result that tells the truth about the wire.  An unknown result   *)
(* can be acknowledged, once, without becoming anything else.              *)
(*                                                                         *)
(* DeviceOperations is shown to implement this specification.              *)
(***************************************************************************)
EXTENDS Naturals

CONSTANT Ops        \* identifiers the controller may issue

VARIABLES
    stage,          \* how far each operation has come
    sent,           \* operations whose command reached the broker client
    acknowledged    \* unknown outcomes somebody has taken responsibility for

lifecycleVars == <<stage, sent, acknowledged>>

\* Results of an operation that was never attempted.
Unattempted == {"cancelled", "timed_out"}

\* Results of an attempt.  "unsent" is the failure the transport reports when
\* it is certain that nothing was published.
Attempted == {"succeeded", "rejected", "unsent", "outcome_unknown"}

Settled == Unattempted \cup Attempted

Stages == {"none", "waiting", "attempting", "forgotten"} \cup Settled

LifecycleTypeOK ==
    /\ stage \in [Ops -> Stages]
    /\ sent \subseteq Ops
    /\ acknowledged \subseteq Ops

LifecycleInit ==
    /\ stage = [op \in Ops |-> "none"]
    /\ sent = {}
    /\ acknowledged = {}

Record(op) ==
    /\ stage[op] = "none"
    /\ stage' = [stage EXCEPT ![op] = "waiting"]
    /\ UNCHANGED <<sent, acknowledged>>

Decline(op) ==
    /\ stage[op] = "waiting"
    /\ \E result \in Unattempted : stage' = [stage EXCEPT ![op] = result]
    /\ UNCHANGED <<sent, acknowledged>>

Attempt(op) ==
    /\ stage[op] = "waiting"
    /\ stage' = [stage EXCEPT ![op] = "attempting"]
    /\ UNCHANGED <<sent, acknowledged>>

Send(op) ==
    /\ stage[op] = "attempting"
    /\ op \notin sent
    /\ sent' = sent \cup {op}
    /\ UNCHANGED <<stage, acknowledged>>

\* A result may claim that the command was answered only if it was sent, and
\* that nothing was sent only if nothing was.
Settle(op) ==
    /\ stage[op] = "attempting"
    /\ \E result \in Attempted :
        /\ result \in {"succeeded", "rejected"} => op \in sent
        /\ result = "unsent" => op \notin sent
        /\ stage' = [stage EXCEPT ![op] = result]
    /\ UNCHANGED <<sent, acknowledged>>

Acknowledge(op) ==
    /\ stage[op] = "outcome_unknown"
    /\ op \notin acknowledged
    /\ acknowledged' = acknowledged \cup {op}
    /\ UNCHANGED <<stage, sent>>

\* A record may be dropped on success (a routine refresh is not kept at all),
\* or once an unknown outcome has been acknowledged.
Forget(op) ==
    /\ \/ stage[op] = "attempting" /\ op \in sent
       \/ stage[op] = "succeeded"
       \/ stage[op] = "outcome_unknown" /\ op \in acknowledged
    /\ stage' = [stage EXCEPT ![op] = "forgotten"]
    /\ UNCHANGED <<sent, acknowledged>>

LifecycleNext ==
    \E op \in Ops :
        \/ Record(op) \/ Decline(op) \/ Attempt(op) \/ Send(op)
        \/ Settle(op) \/ Acknowledge(op) \/ Forget(op)

LifecycleSpec == LifecycleInit /\ [][LifecycleNext]_lifecycleVars
=============================================================================
