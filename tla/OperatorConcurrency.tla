------------------------ MODULE OperatorConcurrency ------------------------
(***************************************************************************)
(* How the controller orders the edits of its operators (state-outbox.ts,   *)
(* commitConditionalStateChange).  Every commit takes the next revision;    *)
(* an operator's commit also moves a floor up to its own revision, and is   *)
(* refused when the revision its page read is below the floor.  What the    *)
(* controller commits by itself leaves the floor alone, so that it rejects  *)
(* nobody's draft.                                                          *)
(***************************************************************************)
EXTENDS Integers

CONSTANT MaxRevision        \* a bound on the commits of a behaviour

ASSUME MaxRevisionAssumption == MaxRevision \in Nat \ {0}

VARIABLES
    revision,   \* the last revision of state_revisions
    floor       \* operator_concurrency.last_operator_revision

NoRevision == -1

MutantAccepts(token) == token <= revision

\* The guard: the token is of a state no operator has changed since.
Accepts(token) == floor <= token /\ token <= revision

\* A change by an operator whose page read revision token.
OperatorCommit(token) ==
    /\ Accepts(token)
    /\ revision < MaxRevision
    /\ revision' = revision + 1
    /\ floor' = revision'

\* A change of the controller's own: a device, a delivery, an override.
BackgroundCommit ==
    /\ revision < MaxRevision
    /\ revision' = revision + 1
    /\ UNCHANGED floor
=============================================================================
