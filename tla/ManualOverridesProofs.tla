------------------------- MODULE ManualOverridesProofs -------------------------
(***************************************************************************)
(* What holds of ManualOverrides for any number of overrides, any lengths  *)
(* of time and any failures.                                               *)
(***************************************************************************)
EXTENDS ManualOverrides, FiniteSetTheorems, TLAPS

OverrideRows == [status : Statuses, target : Targets, left : 0 .. Duration, op : Sides,
                 replaces : Overrides \cup {NoOne}]
OperationRows == [status : OpStatuses, kind : {"start", "cancel", "expire"}, wait : 0 .. Lease,
                  names : BOOLEAN, reconciled : BOOLEAN]
Children == [status : {"none", "in_flight", "unknown", "reconciled"}, lease : 0 .. Lease]
Services == [phase : {"down", "recovering", "starting", "accepting", "broken"},
             fatal : BOOLEAN, latched : BOOLEAN, armed : BOOLEAN]
Attempts == [pc : {"none", "mark", "dispatch", "sent", "record"}, end : Ends]
Passes == [pc : {"idle", "unknown", "expire"}, unknown : SUBSET Keys,
           expired : SUBSET Overrides, waits : Overrides \cup {NoOne}]

\* OverrideTypeOK, and what the process keeps in memory.
RowsTyped ==
  /\ override \in [Overrides -> OverrideRows]
  /\ operation \in [Keys -> OperationRows]
  /\ child \in [Keys -> Children]
Typed ==
  /\ RowsTyped
  /\ service \in Services
  /\ attempt \in [Keys -> Attempts]
  /\ due \in Passes

\* The typing says all that the type invariant of the model does.
LEMMA TypedIsTypeOK == Typed => OverrideTypeOK
  BY DEF Typed, RowsTyped, OverrideTypeOK, OverrideRows, OperationRows, Children, Services

\* The constants as the steps below need them.
LEMMA Bounds == Duration \in Nat \ {0} /\ Lease \in Nat \ {0} /\ MaxOverrides \in Nat \ {0}
  BY OverrideConstants

\* A key is the override and the side it is made of.
LEMMA KeyParts ==
  /\ \A k \in Keys : k[1] \in Overrides /\ k[2] \in Sides /\ k = <<k[1], k[2]>>
  /\ \A o \in Overrides, side \in Sides : <<o, side>> \in Keys
  BY DEF Keys

\* What is left of a time shrinks within its bound.
LEMMA DownTyped == \A n \in Nat, b \in Nat : n \in 0 .. b => Down(n) \in 0 .. b
  BY DEF Down

-----------------------------------------------------------------------------
(* Types. *)

\* The initial states are typed.
LEMMA TypedInit == OverrideInit => Typed
<1> SUFFICES ASSUME OverrideInit PROVE Typed
  OBVIOUS
<1>1. NoOverride \in OverrideRows
  BY Bounds DEF NoOverride, OverrideRows, Statuses, Targets, Sides
<1>2. NoOperation \in OperationRows
  BY Bounds DEF NoOperation, OperationRows, OpStatuses
<1>3. NoChild \in Children
  BY Bounds DEF NoChild, Children
<1>4. NoAttempt \in Attempts /\ NoPass \in Passes
  BY DEF NoAttempt, Attempts, Ends, NoPass, Passes
<1>5. service \in Services
  BY DEF OverrideInit, Services
<1>6. QED
  BY <1>1, <1>2, <1>3, <1>4, <1>5 DEF OverrideInit, Typed, RowsTyped

\* What #completeTerminal writes.
LEMMA CompleteTyped ==
  ASSUME RowsTyped, NEW o \in Overrides, NEW side \in Sides,
         NEW status \in {"succeeded", "failed", "timed_out", "outcome_unknown"},
         NEW wait \in 0 .. Lease, NEW names \in BOOLEAN,
         Complete(o, side, status, wait, names)
  PROVE  override' \in [Overrides -> OverrideRows] /\ operation' \in [Keys -> OperationRows]
<1>1. status \in OpStatuses /\ <<o, side>> \in Keys
  BY KeyParts DEF OpStatuses
<1>2. [operation[<<o, side>>] EXCEPT !.status = status, !.wait = wait, !.names = names]
         \in OperationRows
  BY <1>1 DEF RowsTyped, OperationRows
<1>3. operation' \in [Keys -> OperationRows]
  BY <1>1, <1>2 DEF Complete, RowsTyped
<1>4. TerminalOverrideState(o, side, status) \in Statuses /\ "cancelled" \in Statuses
  BY DEF TerminalOverrideState, Statuses, Finished
<1>5. \A p \in Overrides, s \in Statuses : [override[p] EXCEPT !.status = s] \in OverrideRows
  BY DEF RowsTyped, OverrideRows
<1>6. override' \in [Overrides -> OverrideRows]
  BY <1>4, <1>5 DEF Complete, RowsTyped
<1>7. QED
  BY <1>3, <1>6

\* Settling an unknown child keeps the rows typed.
LEMMA ReconcileTyped ==
  ASSUME RowsTyped, NEW k \in Keys, Reconcile(k)
  PROVE  RowsTyped'
<1>1. child' \in [Keys -> Children]
  <2>1. [child[k] EXCEPT !.status = "reconciled"] \in Children
    BY DEF RowsTyped, Children
  <2>2. QED
    BY <2>1 DEF Reconcile, RowsTyped
<1>2. operation' \in [Keys -> OperationRows]
  <2>1. [operation[k] EXCEPT !.reconciled = TRUE] \in OperationRows
    BY DEF RowsTyped, OperationRows
  <2>2. QED
    BY <2>1 DEF Reconcile, RowsTyped
<1>3. override' \in [Overrides -> OverrideRows]
  <2>1. \A s \in {"cancelled", "expired"} :
           [override[k[1]] EXCEPT !.status = s] \in OverrideRows
    BY KeyParts DEF RowsTyped, OverrideRows, Statuses, Finished
  <2>2. QED
    BY <2>1, KeyParts DEF Reconcile, RowsTyped
<1>4. QED
  BY <1>1, <1>2, <1>3 DEF RowsTyped

\* So does beginning the release of an override.
LEMMA ReleaseTyped ==
  ASSUME Typed, NEW o \in Overrides, NEW kind \in {"cancel", "expire"}, Release(o, kind)
  PROVE  /\ override' \in [Overrides -> OverrideRows] /\ operation' \in [Keys -> OperationRows]
         /\ attempt' \in [Keys -> Attempts]
<1>1. [override[o] EXCEPT !.status = "pending", !.op = "release"] \in OverrideRows
  <2>1. override[o] \in OverrideRows /\ "pending" \in Statuses /\ "release" \in Sides
    BY DEF Typed, RowsTyped, Statuses, Sides
  <2>2. QED
    BY <2>1 DEF OverrideRows
<1>2. [NoOperation EXCEPT !.status = "pending", !.kind = kind] \in OperationRows
  <2>1. NoOperation \in OperationRows /\ "pending" \in OpStatuses
    BY Bounds DEF NoOperation, OperationRows, OpStatuses
  <2>2. QED
    BY <2>1 DEF OperationRows
<1>3. <<o, "release">> \in Keys
  BY KeyParts DEF Sides
<1>4. [attempt[<<o, "release">>] EXCEPT !.pc = "mark"] \in Attempts
  BY <1>3 DEF Typed, Attempts
<1>5. override' \in [Overrides -> OverrideRows]
  <2>1. override' = [override EXCEPT ![o] =
                        [override[o] EXCEPT !.status = "pending", !.op = "release"]]
    BY DEF Release
  <2>2. QED
    BY <1>1, <2>1 DEF Typed, RowsTyped
<1>6. QED
  BY <1>2, <1>3, <1>4, <1>5 DEF Release, Typed, RowsTyped

\* An attempt goes on.
LEMMA AttemptTyped ==
  ASSUME Typed, NEW k \in Keys
  PROVE  /\ \A end \in Ends : Enter(k, end) \in [Keys -> Attempts]
         /\ \A pc \in {"mark", "dispatch", "sent"} : [attempt EXCEPT ![k].pc = pc] \in [Keys -> Attempts]
<1>1. \A end \in Ends : [attempt[k] EXCEPT !.pc = "record", !.end = end] \in Attempts
  BY DEF Typed, Attempts
<1>2. \A pc \in {"mark", "dispatch", "sent"} : [attempt[k] EXCEPT !.pc = pc] \in Attempts
  BY DEF Typed, Attempts
<1>3. \A end \in Ends :
         Enter(k, end) = [attempt EXCEPT ![k] = [attempt[k] EXCEPT !.pc = "record", !.end = end]]
  BY DEF Enter
<1>4. QED
  BY <1>1, <1>2, <1>3 DEF Typed

\* Whatever the due pass has still to do is a pass.
LEMMA PassTyped ==
  ASSUME Typed
  PROVE  /\ \A s \in SUBSET Keys : [due EXCEPT !.unknown = s] \in Passes
         /\ \A s \in SUBSET Overrides, w \in Overrides \cup {NoOne} :
               [due EXCEPT !.expired = s, !.waits = w] \in Passes
         /\ \A s \in SUBSET Overrides : /\ [due EXCEPT !.expired = s] \in Passes
                                        /\ [due EXCEPT !.pc = "expire", !.expired = s] \in Passes
         /\ [due EXCEPT !.waits = NoOne] \in Passes
         /\ NoPass \in Passes
  BY DEF Typed, Passes, NoPass

\* The flags of the service, whatever the step makes of them.
LEMMA ServiceTyped ==
  ASSUME Typed
  PROVE  /\ \A p \in {"starting", "accepting", "broken", "down"} :
               [service EXCEPT !.phase = p] \in Services
         /\ \A b \in BOOLEAN : [service EXCEPT !.armed = b] \in Services
         /\ \A b \in BOOLEAN : [service EXCEPT !.latched = b] \in Services
         /\ \A p \in {"starting", "accepting", "broken"}, b \in BOOLEAN :
               [service EXCEPT !.phase = p, !.armed = b] \in Services
  BY DEF Typed, Services

\* So is a pass that gives up.
LEMMA AbortTyped ==
  ASSUME Typed, AbortDue
  PROVE  due' \in Passes /\ service' \in Services
<1>1. due' \in Passes
  BY PassTyped DEF AbortDue
<1>2. service \in Services
  BY DEF Typed
<1>3. QED
  BY <1>1, <1>2 DEF AbortDue, Services

\* What comes back from an attempt.
LEMMA ReturnTyped ==
  ASSUME Typed, NEW k \in Keys, NEW throws \in BOOLEAN, Return(k, throws)
  PROVE  attempt' \in [Keys -> Attempts] /\ service' \in Services /\ due' \in Passes
<1>1. attempt' \in [Keys -> Attempts]
  BY DEF Return, Typed, NoAttempt, Attempts, Ends
<1>2. due' \in Passes
  BY PassTyped DEF Return, Typed
<1>3. service' \in Services
  <2>1. PICK awaited \in BOOLEAN :
          service' = [service EXCEPT !.fatal = @ \/ throws, !.armed = Rearmed(awaited),
                        !.phase = IF awaited /\ throws /\ @ = "starting" THEN "broken" ELSE @]
    BY DEF Return
  <2>2. Rearmed(awaited) \in BOOLEAN
    BY DEF Rearmed, Deadline, Typed, Services
  <2>3. service \in Services
    BY DEF Typed
  <2>4. QED
    BY <2>1, <2>2, <2>3 DEF Services
<1>4. QED
  BY <1>1, <1>2, <1>3

\* The steps of background attempts keep the types.
LEMMA TypedAttempt ==
  ASSUME Typed, AttemptStep
  PROVE  Typed'
<1>1. PICK k \in Keys : \/ MarkInFlight(k) \/ Dispatch(k)
                        \/ (\E end \in Ends : ChildEnds(k, end)) \/ RecordOutcome(k)
  BY DEF AttemptStep
<1>2. CASE MarkInFlight(k)
  <2>1. [operation[k] EXCEPT !.status = "in_flight"] \in OperationRows
    BY DEF Typed, RowsTyped, OperationRows, OpStatuses
  <2>2. operation' \in [Keys -> OperationRows]
    BY <1>2, <2>1 DEF MarkInFlight, Typed, RowsTyped
  <2>3. attempt' = [attempt EXCEPT ![k].pc = "dispatch"] \/ attempt' = Enter(k, "expired")
    BY <1>2 DEF MarkInFlight
  <2>4. "expired" \in Ends
    BY DEF Ends
  <2>5. attempt' \in [Keys -> Attempts]
    <3>1. CASE attempt' = Enter(k, "expired")
      BY <2>4, <3>1, AttemptTyped
    <3>2. CASE attempt' = [attempt EXCEPT ![k].pc = "dispatch"]
      BY <3>2, AttemptTyped
    <3>3. QED
      BY <2>3, <3>1, <3>2
  <2>6. QED
    BY <1>2, <2>2, <2>5 DEF MarkInFlight, Typed, RowsTyped
<1>3. CASE Dispatch(k)
  <2>1. [status |-> "in_flight", lease |-> 0] \in Children
    BY Bounds DEF Children
  <2>2. child' \in [Keys -> Children]
    BY <1>3, <2>1 DEF Dispatch, Typed, RowsTyped
  <2>3. attempt' \in [Keys -> Attempts]
    <3>1. {"blocked", "some"} \subseteq Ends
      BY DEF Ends
    <3>2. CASE service.latched
      <4>1. PICK end \in {"blocked", "some"} : attempt' = Enter(k, end)
        BY <1>3, <3>2 DEF Dispatch
      <4>2. QED
        BY <3>1, <4>1, AttemptTyped
    <3>3. CASE ~service.latched
      BY <1>3, <3>3, AttemptTyped DEF Dispatch
    <3>4. QED
      BY <3>2, <3>3
  <2>4. QED
    BY <1>3, <2>2, <2>3 DEF Dispatch, Typed, RowsTyped
<1>4. ASSUME NEW end \in Ends, ChildEnds(k, end) PROVE Typed'
  <2>1. {NoChild, child[k], [status |-> "unknown", lease |-> Lease]} \subseteq Children
    BY Bounds DEF Children, NoChild, Typed, RowsTyped
  <2>2. \E c \in Children : child' = [child EXCEPT ![k] = c]
    BY <1>4, <2>1 DEF ChildEnds
  <2>3. child' \in [Keys -> Children]
    BY <2>2 DEF Typed, RowsTyped
  <2>4. service' \in Services /\ attempt' \in [Keys -> Attempts]
    BY <1>4, AttemptTyped, ServiceTyped DEF ChildEnds
  <2>5. QED
    BY <1>4, <2>3, <2>4 DEF ChildEnds, Typed, RowsTyped
<1>5. CASE RecordOutcome(k)
  <2>1. PICK status \in {"succeeded", "failed", "timed_out", "outcome_unknown"},
             names \in BOOLEAN, throws \in BOOLEAN :
          /\ Complete(k[1], k[2], status, SafetyWait(names), names)
          /\ Return(k, throws)
    BY <1>5 DEF RecordOutcome
  <2>2. SafetyWait(names) \in 0 .. Lease
    BY Bounds DEF SafetyWait
  <2>3. override' \in [Overrides -> OverrideRows] /\ operation' \in [Keys -> OperationRows]
    BY <2>1, <2>2, KeyParts, CompleteTyped DEF Typed
  <2>4. attempt' \in [Keys -> Attempts] /\ service' \in Services /\ due' \in Passes
    BY <2>1, ReturnTyped
  <2>5. QED
    BY <1>5, <2>3, <2>4 DEF RecordOutcome, Typed, RowsTyped
<1>6. QED
  BY <1>1, <1>2, <1>3, <1>4, <1>5

\* So do those of the due pass.
LEMMA TypedDue ==
  ASSUME Typed, DueStep
  PROVE  Typed'
<1> USE DEF rows
<1>1. CASE BeginDue
  <2>1. [NoPass EXCEPT !.pc = "unknown", !.unknown = DueUnknown] \in Passes
    BY DEF NoPass, Passes, DueUnknown
  <2>2. service' \in Services
    BY <1>1, ServiceTyped DEF BeginDue
  <2>3. QED
    BY <1>1, <2>1, <2>2 DEF BeginDue, Typed, RowsTyped
<1>2. CASE ListExpired
  <2>1. DueActive \in SUBSET Overrides
    BY DEF DueActive
  <2>2. QED
    BY <1>2, <2>1, PassTyped DEF ListExpired, Typed, RowsTyped
<1>3. CASE EndDue
  <2>1. Deadline \in BOOLEAN /\ service \in Services
    BY DEF Deadline, Typed
  <2>2. service' \in Services
    BY <1>3, <2>1 DEF EndDue, Services
  <2>3. QED
    BY <1>3, <2>2, PassTyped DEF EndDue, Typed, RowsTyped
<1>4. ASSUME NEW k \in Keys, ReconcileDue(k) PROVE Typed'
  <2>1. [due EXCEPT !.unknown = due.unknown \ {k}] \in Passes
    BY PassTyped DEF Typed, Passes
  <2>2. CASE ~Unresolved(k)
    BY <1>4, <2>1, <2>2 DEF ReconcileDue, Typed, RowsTyped
  <2>3. CASE Unresolved(k)
    <3>1. Reconcile(k)
      BY <1>4, <2>3 DEF ReconcileDue
    <3>2. RowsTyped'
      BY <3>1, ReconcileTyped DEF Typed
    <3>3. due' \in Passes /\ service' \in Services
      BY <1>4, <2>1, <2>3, AbortTyped DEF ReconcileDue, Typed
    <3>4. QED
      BY <1>4, <3>2, <3>3 DEF ReconcileDue, Typed
  <2>4. QED
    BY <2>2, <2>3
<1>5. ASSUME NEW o \in Overrides, ExpireDue(o) PROVE Typed'
  <2>1. due.expired \ {o} \in SUBSET Overrides
    BY DEF Typed, Passes
  <2>2. due' \in Passes
    <3>1. \/ due' = [due EXCEPT !.expired = due.expired \ {o}, !.waits = o]
          \/ due' = [due EXCEPT !.expired = due.expired \ {o}]
      BY <1>5 DEF ExpireDue
    <3>2. o \in Overrides \cup {NoOne}
      OBVIOUS
    <3>3. [due EXCEPT !.expired = due.expired \ {o}, !.waits = o] \in Passes
      BY <2>1, <3>2, PassTyped
    <3>4. [due EXCEPT !.expired = due.expired \ {o}] \in Passes
      BY <2>1, PassTyped
    <3>5. QED
      BY <3>1, <3>3, <3>4
  <2>3. CASE o \in DueActive
    BY <1>5, <2>2, <2>3, ReleaseTyped DEF ExpireDue, Typed, RowsTyped
  <2>4. CASE o \notin DueActive
    BY <1>5, <2>2, <2>4 DEF ExpireDue, Typed, RowsTyped
  <2>5. QED
    BY <2>3, <2>4
<1>6. ASSUME NEW o \in Overrides, StrandDue(o) PROVE Typed'
  BY <1>6, AbortTyped DEF StrandDue, Typed, RowsTyped
<1>7. QED
  BY <1>1, <1>2, <1>3, <1>4, <1>5, <1>6 DEF DueStep

\* So do those of recovery and start.
LEMMA TypedStartUp ==
  ASSUME Typed, StartUp
  PROVE  Typed'
<1> USE DEF rows
<1>1. CASE Boot
  <2>1. \A k \in Keys : {[status |-> "unknown", lease |-> Lease], child[k]} \subseteq Children
    BY Bounds DEF Typed, RowsTyped, Children
  <2>2. child' \in [Keys -> Children]
    BY <1>1, <2>1 DEF Boot
  <2>3. service' \in Services
    BY <1>1 DEF Boot, Services
  <2>4. QED
    BY <1>1, <2>2, <2>3 DEF Boot, Typed, RowsTyped
<1>2. CASE Recovered
  BY <1>2, ServiceTyped DEF Recovered, Typed, RowsTyped
<1>3. ASSUME NEW k \in Keys, RecoverOperation(k) PROVE Typed'
  <2>1. \A s \in {"failed", "expired", "active", "cancelled"}, p \in Overrides :
           [override[p] EXCEPT !.status = s] \in OverrideRows
    BY DEF Typed, RowsTyped, OverrideRows, Statuses, Finished
  <2>2. override' \in [Overrides -> OverrideRows]
    <3>1. \A p \in Overrides : override[p] \in OverrideRows
      BY DEF Typed, RowsTyped
    <3>2. QED
      BY <1>3, <2>1, <3>1 DEF RecoverOperation
  <2>3. operation' \in [Keys -> OperationRows]
    <3>1. operation[k] \in OperationRows /\ FindInterruptedUnknownChild(k) \in BOOLEAN
          /\ Lease \in 0 .. Lease /\ {"cancelled", "outcome_unknown"} \subseteq OpStatuses
      BY Bounds DEF Typed, RowsTyped, FindInterruptedUnknownChild, OpStatuses
    <3>2. /\ [operation[k] EXCEPT !.status = "cancelled"] \in OperationRows
          /\ [operation[k] EXCEPT !.status = "outcome_unknown", !.wait = Lease,
                                 !.names = FindInterruptedUnknownChild(k)] \in OperationRows
      BY <3>1 DEF OperationRows
    <3>3. QED
      BY <1>3, <3>2 DEF RecoverOperation, Typed, RowsTyped
  <2>4. QED
    BY <1>3, <2>2, <2>3 DEF RecoverOperation, Typed, RowsTyped
<1>4. QED
  BY <1>1, <1>2, <1>3 DEF StartUp

\* So does a new override.
LEMMA TypedStart ==
  ASSUME Typed, NEW t \in Targets, NEW r \in Overrides \cup {NoOne}, StartOverride(t, r)
  PROVE  Typed'
<1>1. PICK o \in Overrides :
        /\ override' = [override EXCEPT ![o] =
               [status |-> "pending", target |-> t, left |-> Duration, op |-> "start",
                replaces |-> r]]
        /\ operation' = [operation EXCEPT ![<<o, "start">>] =
               [NoOperation EXCEPT !.status = "pending"]]
        /\ attempt' = [attempt EXCEPT ![<<o, "start">>].pc = "mark"]
  BY DEF StartOverride
<1>2. [status |-> "pending", target |-> t, left |-> Duration, op |-> "start", replaces |-> r]
         \in OverrideRows
  BY Bounds DEF OverrideRows, Statuses, Sides
<1>3. [NoOperation EXCEPT !.status = "pending"] \in OperationRows
  <2>1. NoOperation \in OperationRows /\ "pending" \in OpStatuses
    BY Bounds DEF NoOperation, OperationRows, OpStatuses
  <2>2. QED
    BY <2>1 DEF OperationRows
<1>4. <<o, "start">> \in Keys
  BY KeyParts DEF Sides
<1>5. attempt' \in [Keys -> Attempts]
  BY <1>1, <1>4, AttemptTyped
<1>6. override' \in [Overrides -> OverrideRows] /\ operation' \in [Keys -> OperationRows]
  BY <1>1, <1>2, <1>3, <1>4 DEF Typed, RowsTyped
<1>7. QED
  BY <1>5, <1>6 DEF StartOverride, Typed, RowsTyped

\* So does time that passes.
LEMMA TypedTick ==
  ASSUME Typed, Tick
  PROVE  Typed'
<1>1. \A o \in Overrides : [override[o] EXCEPT !.left = Down(override[o].left)] \in OverrideRows
  <2>1. \A o \in Overrides : override[o] \in OverrideRows
                             /\ Down(override[o].left) \in 0 .. Duration
    BY Bounds, DownTyped DEF Typed, RowsTyped, OverrideRows
  <2>2. QED
    BY <2>1 DEF OverrideRows
<1>2. \A k \in Keys : [operation[k] EXCEPT !.wait = Down(operation[k].wait)] \in OperationRows
  <2>1. \A k \in Keys : operation[k] \in OperationRows /\ Down(operation[k].wait) \in 0 .. Lease
    BY Bounds, DownTyped DEF Typed, RowsTyped, OperationRows
  <2>2. QED
    BY <2>1 DEF OperationRows
<1>3. \A k \in Keys : [child[k] EXCEPT !.lease = Down(child[k].lease)] \in Children
  <2>1. \A k \in Keys : child[k] \in Children /\ Down(child[k].lease) \in 0 .. Lease
    BY Bounds, DownTyped DEF Typed, RowsTyped, Children
  <2>2. QED
    BY <2>1 DEF Children
<1>4. RowsTyped'
  BY <1>1, <1>2, <1>3 DEF Tick, RowsTyped
<1>5. QED
  BY <1>4 DEF Tick, Typed

\* Every step keeps the types.
LEMMA TypedNext == Typed /\ [OverrideNext]_overrideVars => Typed'
<1> SUFFICES ASSUME Typed, [OverrideNext]_overrideVars PROVE Typed'
  OBVIOUS
<1> USE DEF rows
<1>1. ASSUME NEW t \in Targets, NEW r \in Overrides \cup {NoOne}, StartOverride(t, r) PROVE Typed'
  BY <1>1, TypedStart
<1>2. ASSUME NEW o \in Overrides, ExtendOverride(o) PROVE Typed'
  <2>1. [override[o] EXCEPT !.left = Duration] \in OverrideRows
    BY Bounds DEF Typed, RowsTyped, OverrideRows
  <2>2. override' \in [Overrides -> OverrideRows]
    BY <1>2, <2>1 DEF ExtendOverride, Typed, RowsTyped
  <2>3. Deadline' \in BOOLEAN
    BY DEF Deadline
  <2>4. service' \in Services
    BY <1>2, <2>3, ServiceTyped DEF ExtendOverride
  <2>5. QED
    BY <1>2, <2>2, <2>4 DEF ExtendOverride, Typed, RowsTyped
<1>3. ASSUME NEW o \in Overrides, CancelOverride(o) PROVE Typed'
  BY <1>3, ReleaseTyped DEF CancelOverride, Typed, RowsTyped
<1>4. ASSUME NEW o \in Overrides, ReconcileOverride(o) PROVE Typed'
  <2>1. <<o, override[o].op>> \in Keys
    BY KeyParts DEF Typed, RowsTyped, OverrideRows
  <2>2. RowsTyped'
    BY <1>4, <2>1, ReconcileTyped DEF ReconcileOverride, Typed
  <2>3. Deadline' \in BOOLEAN /\ service.armed \in BOOLEAN
    BY DEF Deadline, Typed, Services
  <2>4. service' \in Services
    BY <1>4, <2>3, ServiceTyped DEF ReconcileOverride
  <2>5. QED
    BY <1>4, <2>2, <2>4 DEF ReconcileOverride, Typed
<1>5. CASE Repoint \/ ChangeFirmware
  BY <1>5 DEF Repoint, ChangeFirmware, Typed, RowsTyped
<1>6. CASE Crash
  <2>1. NoAttempt \in Attempts
    BY DEF NoAttempt, Attempts, Ends
  <2>2. QED
    BY <1>6, <2>1, PassTyped, ServiceTyped DEF Crash, Typed, RowsTyped
<1>7. CASE UNCHANGED overrideVars
  BY <1>7 DEF overrideVars, Typed, RowsTyped
<1>8. QED
  BY <1>1, <1>2, <1>3, <1>4, <1>5, <1>6, <1>7, TypedAttempt, TypedDue, TypedStartUp, TypedTick
     DEF OverrideNext

(* The rows of the overrides, of their operations and of what these sent,  *)
(* and the flags of the service keep to their domains.                     *)
THEOREM OverridesTyped == OverrideSafety => []OverrideTypeOK
<1>1. OverrideSafety => []Typed
  BY TypedInit, TypedNext, PTL DEF OverrideSafety
<1>2. QED
  BY <1>1, TypedIsTypeOK, PTL

-----------------------------------------------------------------------------
(* No child is left behind. *)

\* An aggregate that was begun and has no outcome yet.
Open(k) == operation[k].status \in {"pending", "in_flight"}
Stopped == service.phase \in {"down", "recovering"}

\* The attempt, its aggregate and its child keep step, unless a dispatch threw.
AttemptsKeepStep ==
  \A k \in Keys :
     /\ attempt[k].pc = "mark" => operation[k].status = "pending"
     /\ attempt[k].pc \in {"dispatch", "sent", "record"} => operation[k].status = "in_flight"
     /\ attempt[k].pc = "dispatch" => child[k].status = "none"
     /\ attempt[k].pc = "record" =>
           thrown \/ child[k].status = IF attempt[k].end = "unknown" THEN "unknown" ELSE "none"

\* Nothing is sent for what has not begun, and only what is unknown is settled.
OperationsKeepStep ==
  \A k \in Keys :
     /\ operation[k].status \in {"absent", "pending"} => child[k].status = "none"
     /\ operation[k].reconciled => operation[k].status = "outcome_unknown"
     /\ child[k].status = "in_flight" => operation[k].status = "in_flight" \/ thrown

\* A release begins with the end of the start, and once.
ReleasesFollow ==
  \A o \in Overrides :
     /\ override[o].status = "none" => operation[<<o, "start">>].status = "absent"
     /\ Open(<<o, "start">>) => override[o].status = "pending"
     /\ \/ override[o].status \in {"none", "active"}
        \/ Open(<<o, "start">>)
        => operation[<<o, "release">>].status = "absent"

\* While the process is down or recovers, nothing is under way.
QuietWhileStopped ==
  /\ Stopped => due.pc = "idle" /\ \A k \in Keys : attempt[k].pc = "none"
  /\ service.phase = "recovering" => \A k \in Keys : child[k].status # "in_flight"

Lineages == AttemptsKeepStep /\ OperationsKeepStep /\ ReleasesFollow /\ QuietWhileStopped
NobodyLeft == Typed /\ Lineages /\ NoOrphanedChild

\* Nothing was begun at first.
LEMMA LineagesInit == OverrideInit => Lineages /\ NoOrphanedChild
<1> SUFFICES ASSUME OverrideInit PROVE Lineages /\ NoOrphanedChild
  OBVIOUS
<1>1. \A o \in Overrides : <<o, "start">> \in Keys /\ <<o, "release">> \in Keys
  BY KeyParts DEF Sides
<1>2. QED
  BY <1>1 DEF OverrideInit, Lineages, AttemptsKeepStep, OperationsKeepStep, ReleasesFollow,
              QuietWhileStopped, NoOrphanedChild, NoOverride, NoOperation, NoChild, NoAttempt,
              NoPass, Open

\* A new override, and the one that it replaces.
LEMMA LineagesStart ==
  ASSUME NobodyLeft, NEW t \in Targets, NEW r \in Overrides \cup {NoOne}, StartOverride(t, r)
  PROVE  Lineages' /\ NoOrphanedChild'
<1>0. Typed /\ AttemptsKeepStep /\ OperationsKeepStep /\ ReleasesFollow /\ QuietWhileStopped
  BY DEF NobodyLeft, Lineages
<1>1. PICK o \in Overrides :
        /\ override[o].status = "none"
        /\ override' = [override EXCEPT ![o] =
               [status |-> "pending", target |-> t, left |-> Duration, op |-> "start",
                replaces |-> r]]
        /\ operation' = [operation EXCEPT ![<<o, "start">>] =
               [NoOperation EXCEPT !.status = "pending"]]
        /\ attempt' = [attempt EXCEPT ![<<o, "start">>].pc = "mark"]
  BY DEF StartOverride
<1>2. PICK k \in Keys : k = <<o, "start">>
  BY KeyParts DEF Sides
<1>3. /\ operation'[k].status = "pending" /\ ~operation'[k].reconciled
      /\ attempt'[k].pc = "mark" /\ override'[o].status = "pending"
  BY <1>0, <1>1, <1>2 DEF NoOperation, Typed, RowsTyped, Attempts
<1>4. /\ \A q \in Keys : q # k => operation'[q] = operation[q] /\ attempt'[q] = attempt[q]
      /\ \A p \in Overrides : p # o => override'[p] = override[p]
      /\ child' = child /\ service' = service /\ due' = due /\ thrown' = thrown
  BY <1>0, <1>1, <1>2 DEF Typed, RowsTyped, StartOverride
<1>5. operation[k].status = "absent" /\ child[k].status = "none"
  BY <1>0, <1>1, <1>2 DEF ReleasesFollow, OperationsKeepStep
<1>6. AttemptsKeepStep'
  BY <1>0, <1>3, <1>4 DEF AttemptsKeepStep
<1>7. OperationsKeepStep'
  BY <1>0, <1>3, <1>4, <1>5 DEF OperationsKeepStep
<1>8. ReleasesFollow'
  <2>1. \A p \in Overrides : /\ <<p, "release">> \in Keys /\ <<p, "release">> # k
                            /\ <<p, "start">> \in Keys /\ (p # o => <<p, "start">> # k)
    BY <1>2, KeyParts DEF Sides
  <2>2. operation[<<o, "release">>].status = "absent"
    BY <1>0, <1>1 DEF ReleasesFollow
  <2>3. \A p \in Overrides : operation'[<<p, "release">>] = operation[<<p, "release">>]
    BY <1>4, <2>1
  <2>4. \A p \in Overrides : p # o => operation'[<<p, "start">>] = operation[<<p, "start">>]
    BY <1>4, <2>1
  <2>5. ASSUME NEW p \in Overrides
        PROVE  /\ override'[p].status = "none" => operation'[<<p, "start">>].status = "absent"
               /\ Open(<<p, "start">>)' => override'[p].status = "pending"
               /\ operation'[<<p, "release">>].status # "absent" =>
                     override'[p].status \notin {"none", "active"} /\ ~Open(<<p, "start">>)'
    <3>1. CASE p = o
      BY <1>2, <1>3, <2>2, <2>3, <3>1
    <3>2. CASE p # o
      <4>1. override'[p] = override[p]
        BY <1>4, <3>2
      <4>2. QED
        BY <1>0, <2>3, <2>4, <3>2, <4>1 DEF ReleasesFollow, Open
    <3>3. QED
      BY <3>1, <3>2
  <2>6. QED
    BY <2>5 DEF ReleasesFollow
<1>9. QuietWhileStopped'
  BY <1>4 DEF StartOverride, Accepting, QuietWhileStopped, Stopped
<1>10. NoOrphanedChild'
  BY <1>3, <1>4, <1>5 DEF NoOrphanedChild, NobodyLeft, Unresolved
<1>11. QED
  BY <1>6, <1>7, <1>8, <1>9, <1>10 DEF Lineages

\* Release begins where nothing of a release was before.
LEMMA LineagesRelease ==
  ASSUME NobodyLeft, NEW o \in Overrides, NEW kind \in {"cancel", "expire"}, Release(o, kind),
         override[o].status = "active", ~Stopped', service'.phase # "recovering",
         child' = child, thrown' = thrown
  PROVE  Lineages' /\ NoOrphanedChild'
<1>0. Typed /\ AttemptsKeepStep /\ OperationsKeepStep /\ ReleasesFollow /\ QuietWhileStopped
  BY DEF NobodyLeft, Lineages
<1>1. PICK k \in Keys : k = <<o, "release">>
  BY KeyParts DEF Sides
<1>2. /\ operation'[k].status = "pending" /\ ~operation'[k].reconciled
      /\ attempt'[k].pc = "mark" /\ override'[o].status = "pending"
  <2>1. override[o] \in OverrideRows /\ o \in DOMAIN override
    BY <1>0 DEF Typed, RowsTyped
  <2>2. override'[o] = [override[o] EXCEPT !.status = "pending", !.op = "release"]
    BY <2>1 DEF Release
  <2>3. override'[o].status = "pending"
    BY <2>1, <2>2 DEF OverrideRows
  <2>4. QED
    BY <1>0, <1>1, <2>3 DEF Release, NoOperation, Typed, RowsTyped, Attempts
<1>3. /\ \A q \in Keys : q # k => operation'[q] = operation[q] /\ attempt'[q] = attempt[q]
      /\ \A p \in Overrides : p # o => override'[p] = override[p]
  BY <1>0, <1>1 DEF Release, Typed, RowsTyped
<1>4. operation[k].status = "absent" /\ child[k].status = "none"
      /\ ~Open(<<o, "start">>)
  BY <1>0, <1>1 DEF ReleasesFollow, OperationsKeepStep
<1>5. AttemptsKeepStep'
  BY <1>0, <1>2, <1>3 DEF AttemptsKeepStep
<1>6. OperationsKeepStep'
  BY <1>0, <1>2, <1>3, <1>4 DEF OperationsKeepStep
<1>7. ReleasesFollow'
  <2>1. \A p \in Overrides : /\ <<p, "start">> \in Keys /\ <<p, "start">> # k
                            /\ <<p, "release">> \in Keys /\ (p # o => <<p, "release">> # k)
    BY <1>1, KeyParts DEF Sides
  <2>2. \A p \in Overrides : operation'[<<p, "start">>] = operation[<<p, "start">>]
    BY <1>3, <2>1
  <2>3. \A p \in Overrides : p # o =>
          /\ operation'[<<p, "release">>] = operation[<<p, "release">>]
          /\ override'[p] = override[p]
    BY <1>3, <2>1
  <2>4. ASSUME NEW p \in Overrides
        PROVE  /\ override'[p].status = "none" => operation'[<<p, "start">>].status = "absent"
               /\ Open(<<p, "start">>)' => override'[p].status = "pending"
               /\ operation'[<<p, "release">>].status # "absent" =>
                     override'[p].status \notin {"none", "active"} /\ ~Open(<<p, "start">>)'
    <3>1. Open(<<p, "start">>)' <=> Open(<<p, "start">>)
      BY <2>2 DEF Open
    <3>2. CASE p = o
      BY <1>2, <1>4, <3>1, <3>2
    <3>3. CASE p # o
      BY <1>0, <2>2, <2>3, <3>1, <3>3 DEF ReleasesFollow
    <3>4. QED
      BY <3>2, <3>3
  <2>5. QED
    BY <2>4 DEF ReleasesFollow
<1>8. QuietWhileStopped'
  BY DEF QuietWhileStopped
<1>9. NoOrphanedChild'
  BY <1>2, <1>3, <1>4 DEF NoOrphanedChild, NobodyLeft, Unresolved
<1>10. QED
  BY <1>5, <1>6, <1>7, <1>8, <1>9 DEF Lineages

\* Settling an aggregate takes nothing from another one, and leaves no child.
LEMMA LineagesReconcile ==
  ASSUME NobodyLeft, NEW k \in Keys, Unresolved(k), Reconcile(k),
         ~Stopped', attempt' = attempt, thrown' = thrown
  PROVE  Lineages' /\ NoOrphanedChild'
<1>0. Typed /\ AttemptsKeepStep /\ OperationsKeepStep /\ ReleasesFollow /\ NoOrphanedChild
  BY DEF NobodyLeft, Lineages
<1>1. /\ \A q \in Keys : q # k => operation'[q] = operation[q] /\ child'[q] = child[q]
      /\ \A q \in Keys : operation'[q].status = operation[q].status
      /\ operation'[k].names = operation[k].names
  BY <1>0 DEF Reconcile, Typed, RowsTyped, OperationRows
<1>2. operation'[k].reconciled => Reconcilable(k)
  BY <1>0 DEF Reconcile, Typed, RowsTyped, OperationRows, Unresolved
<1>3. /\ operation[k].names /\ LeaseOver(k) => child'[k].status = "reconciled"
      /\ ~(operation[k].names /\ LeaseOver(k)) => child'[k] = child[k]
  BY <1>0 DEF Reconcile, Typed, RowsTyped, Children
<1>4. operation[k].status = "outcome_unknown"
  BY DEF Unresolved
<1>5. \A p \in Overrides : \/ override'[p].status = override[p].status
                          \/ /\ k = <<p, "release">>
                             /\ override'[p].status \in {"cancelled", "expired"}
  <2>1. CASE override' = override
    BY <2>1
  <2>2. CASE k[2] # "start" /\ override' = [override EXCEPT ![k[1]].status =
                            IF operation[k].kind = "cancel" THEN "cancelled" ELSE "expired"]
    <3>1. k = <<k[1], "release">> /\ k[1] \in Overrides
      BY <2>2, KeyParts DEF Sides
    <3>2. \A p \in Overrides : override[p] \in OverrideRows
      BY <1>0 DEF Typed, RowsTyped
    <3>3. override'[k[1]].status \in {"cancelled", "expired"}
      BY <1>0, <2>2, <3>1, <3>2 DEF Typed, RowsTyped, OverrideRows
    <3>4. \A p \in Overrides : p # k[1] => override'[p] = override[p]
      BY <1>0, <2>2, <3>1 DEF Typed, RowsTyped
    <3>5. QED
      BY <3>1, <3>3, <3>4
  <2>3. QED
    BY <2>1, <2>2 DEF Reconcile
<1>6. AttemptsKeepStep'
  BY <1>0, <1>1, <1>4 DEF AttemptsKeepStep
<1>7. OperationsKeepStep'
  BY <1>0, <1>1, <1>3, <1>4 DEF OperationsKeepStep
<1>8. ReleasesFollow'
  <2>1. \A p \in Overrides : <<p, "start">> \in Keys /\ <<p, "release">> \in Keys
    BY KeyParts DEF Sides
  <2>2. \A p \in Overrides : k = <<p, "release">> =>
          override[p].status \notin {"none", "active"} /\ ~Open(<<p, "start">>)
    BY <1>0, <1>4 DEF ReleasesFollow
  <2>3. \A p \in Overrides :
          /\ operation'[<<p, "start">>].status = operation[<<p, "start">>].status
          /\ operation'[<<p, "release">>].status = operation[<<p, "release">>].status
    BY <1>1, <2>1
  <2>4. QED
    BY <1>0, <1>5, <2>2, <2>3 DEF ReleasesFollow, Open
<1>9. QuietWhileStopped'
  BY DEF QuietWhileStopped, Stopped
<1>10. NoOrphanedChild'
  <2>1. child'[k].status = "unknown" => ~operation'[k].reconciled \/ thrown
    BY <1>0, <1>2, <1>3, <1>4 DEF NoOrphanedChild, Reconcilable
  <2>2. QED
    BY <1>0, <1>1, <1>3, <1>4, <2>1 DEF NoOrphanedChild, Unresolved
<1>11. QED
  BY <1>6, <1>7, <1>8, <1>9, <1>10 DEF Lineages

\* The override of an aggregate that was in flight gets its outcome, the one
\* it replaced is over: what both became.
LEMMA OutcomeKeepsReleases ==
  ASSUME Typed, ReleasesFollow, NEW k \in Keys, Open(k),
         operation'[k].status \notin {"absent", "pending", "in_flight"},
         \A q \in Keys : q # k => operation'[q] = operation[q],
         k[2] = "start" =>
            override'[k[1]].status \in {"failed", "expired", "active"},
         k[2] = "release" =>
            override'[k[1]].status \in {"failed", "expired", "pending", "cancelled"},
         \A p \in Overrides : p # k[1] =>
            \/ override'[p] = override[p]
            \/ override[p].status = "active" /\ override'[p].status = "cancelled"
  PROVE  ReleasesFollow'
<1>1. \A p \in Overrides : /\ <<p, "start">> \in Keys /\ <<p, "release">> \in Keys
                          /\ <<p, "start">> # <<p, "release">>
  BY KeyParts DEF Sides
<1>2. k[1] \in Overrides /\ k[2] \in {"start", "release"} /\ k = <<k[1], k[2]>>
  BY KeyParts DEF Sides
<1>3. ASSUME NEW p \in Overrides, p # k[1]
      PROVE  /\ override'[p].status = "none" => operation'[<<p, "start">>].status = "absent"
             /\ Open(<<p, "start">>)' => override'[p].status = "pending"
             /\ override'[p].status \in {"none", "active"} \/ Open(<<p, "start">>)'
                  => operation'[<<p, "release">>].status = "absent"
  <2>1. <<p, "start">> # k /\ <<p, "release">> # k
    BY <1>2, <1>3
  <2>2. operation'[<<p, "start">>] = operation[<<p, "start">>]
        /\ operation'[<<p, "release">>] = operation[<<p, "release">>]
    BY <1>1, <2>1
  <2>3. QED
    BY <1>3, <2>2 DEF ReleasesFollow, Open
<1>4. CASE k[2] = "start"
  <2>1. /\ override'[k[1]].status \in {"failed", "expired", "active"}
        /\ ~Open(<<k[1], "start">>)'
        /\ operation'[<<k[1], "release">>].status = "absent"
    BY <1>1, <1>2, <1>4 DEF ReleasesFollow, Open
  <2>2. QED
    BY <1>3, <2>1 DEF ReleasesFollow
<1>5. CASE k[2] = "release"
  <2>1. override'[k[1]].status \in {"failed", "expired", "pending", "cancelled"}
    BY <1>5
  <2>2. ~Open(<<k[1], "start">>)
    BY <1>1, <1>2, <1>5 DEF ReleasesFollow, Open
  <2>3. ~Open(<<k[1], "start">>)'
    BY <1>1, <1>2, <1>5, <2>2 DEF Open
  <2>4. QED
    BY <1>3, <2>1, <2>3 DEF ReleasesFollow
<1>6. QED
  BY <1>2, <1>4, <1>5

\* The same override ends another way in #completeTerminal and in recovery.
LEMMA CompleteOutcome ==
  ASSUME Typed, ReleasesFollow, NEW k \in Keys, Open(k),
         NEW status \in {"succeeded", "failed", "timed_out", "outcome_unknown"},
         NEW wait \in 0 .. Lease, NEW names \in BOOLEAN,
         Complete(k[1], k[2], status, wait, names)
  PROVE  /\ ReleasesFollow'
         /\ operation'[k].status = status /\ operation'[k].names = names
         /\ operation'[k].reconciled = operation[k].reconciled
         /\ \A q \in Keys : q # k => operation'[q] = operation[q]
<1>1. k[1] \in Overrides /\ k[2] \in {"start", "release"} /\ <<k[1], k[2]>> = k
  BY KeyParts DEF Sides
<1>2. operation' = [operation EXCEPT ![k] =
         [operation[k] EXCEPT !.status = status, !.wait = wait, !.names = names]]
  BY <1>1 DEF Complete
<1>3. /\ operation'[k].status = status /\ operation'[k].names = names
      /\ operation'[k].reconciled = operation[k].reconciled
      /\ \A q \in Keys : q # k => operation'[q] = operation[q]
  BY <1>2 DEF Typed, RowsTyped, OperationRows
<1>4. \A p \in Overrides, s \in Statuses : [override[p] EXCEPT !.status = s].status = s
  BY DEF Typed, RowsTyped, OverrideRows
<1>5. override'[k[1]].status = TerminalOverrideState(k[1], k[2], status)
  <2>1. TerminalOverrideState(k[1], k[2], status) \in Statuses
    BY DEF TerminalOverrideState, Statuses, Finished
  <2>2. override'[k[1]] =
          [override[k[1]] EXCEPT !.status = TerminalOverrideState(k[1], k[2], status)]
    BY <1>1 DEF Complete
  <2>3. QED
    BY <1>1, <1>4, <2>1, <2>2
<1>6. \A p \in Overrides : p # k[1] =>
         \/ override'[p] = override[p]
         \/ override[p].status = "active" /\ override'[p].status = "cancelled"
  <2>1. \A p \in Overrides : p \in Superseded(k[1], status) => override[p].status = "active"
    BY DEF Superseded
  <2>2. \A p \in Overrides : [override[p] EXCEPT !.status = "cancelled"].status = "cancelled"
    BY <1>4 DEF Statuses, Finished
  <2>3. \A p \in Overrides : p # k[1] =>
           \/ override'[p] = override[p]
           \/ /\ p \in Superseded(k[1], status)
              /\ override'[p] = [override[p] EXCEPT !.status = "cancelled"]
    BY DEF Complete
  <2>4. QED
    BY <2>1, <2>2, <2>3
<1>7. /\ k[2] = "start" => override'[k[1]].status \in {"failed", "expired", "active"}
      /\ k[2] = "release" =>
            override'[k[1]].status \in {"failed", "expired", "pending", "cancelled"}
  <2>1. k[2] = "start" =>
          TerminalOverrideState(k[1], k[2], status) \in {"failed", "expired", "active"}
    BY DEF TerminalOverrideState
  <2>2. k[2] = "release" =>
          TerminalOverrideState(k[1], k[2], status) \in {"failed", "expired", "pending", "cancelled"}
    BY DEF TerminalOverrideState
  <2>3. QED
    BY <1>5, <2>1, <2>2
<1>8. ReleasesFollow'
  BY <1>3, <1>6, <1>7, OutcomeKeepsReleases
<1>9. QED
  BY <1>3, <1>8

\* An operation that a stopped process left open is closed as unknown.
LEMMA LineagesRecover ==
  ASSUME NobodyLeft, NEW k \in Keys, RecoverOperation(k)
  PROVE  Lineages' /\ NoOrphanedChild'
<1>0. Typed /\ AttemptsKeepStep /\ OperationsKeepStep /\ ReleasesFollow /\ QuietWhileStopped
      /\ NoOrphanedChild
  BY DEF NobodyLeft, Lineages
<1>1. /\ Open(k) /\ service.phase = "recovering"
      /\ UNCHANGED <<child, service, attempt, due, thrown>>
  BY DEF RecoverOperation, Interrupted, Open
<1>2. \A q \in Keys : attempt[q].pc = "none" /\ child[q].status # "in_flight"
  BY <1>0, <1>1 DEF QuietWhileStopped, Stopped
<1>3. \A q \in Keys : q # k => operation'[q] = operation[q]
  BY <1>0 DEF RecoverOperation, Typed, RowsTyped
<1>4. /\ operation'[k].status \in {"cancelled", "outcome_unknown"}
      /\ operation'[k].reconciled = operation[k].reconciled
      /\ operation[k].status = "in_flight" =>
            /\ operation'[k].status = "outcome_unknown"
            /\ operation'[k].names = FindInterruptedUnknownChild(k)
  BY <1>0 DEF RecoverOperation, Typed, RowsTyped, OperationRows
<1>5. AttemptsKeepStep'
  BY <1>1, <1>2 DEF AttemptsKeepStep
<1>6. OperationsKeepStep'
  BY <1>0, <1>1, <1>2, <1>3, <1>4 DEF OperationsKeepStep, Open
<1>7. ReleasesFollow'
  <2>1. k[1] \in Overrides /\ k[2] \in {"start", "release"}
    BY KeyParts DEF Sides
  <2>2. \A p \in Overrides, s \in {"failed", "expired", "active", "cancelled"} :
           [override[p] EXCEPT !.status = s].status = s
    BY <1>0 DEF Typed, RowsTyped, OverrideRows
  <2>3. k[2] = "start" => override'[k[1]].status \in {"failed", "expired", "active"}
    <3>1. k[2] = "start" => \E s \in {"failed", "expired", "active"} :
             override'[k[1]] = [override[k[1]] EXCEPT !.status = s]
      BY <1>1, <2>1 DEF RecoverOperation, Open
    <3>2. QED
      BY <2>1, <2>2, <3>1
  <2>4. k[2] = "release" => override' = override
    BY <1>0 DEF RecoverOperation, Typed, RowsTyped
  <2>5. k[2] = "release" => operation'[k].status = "outcome_unknown"
    BY <1>0 DEF RecoverOperation, Typed, RowsTyped, OperationRows
  <2>6. \A p \in Overrides : p # k[1] =>
           \/ override'[p] = override[p]
           \/ override[p].status = "active" /\ override'[p].status = "cancelled"
    <3>1. \A p \in Overrides : p \in Superseded(k[1], "outcome_unknown") => override[p].status = "active"
      BY DEF Superseded
    <3>2. \A p \in Overrides : p # k[1] =>
             \/ override'[p] = override[p]
             \/ /\ p \in Superseded(k[1], "outcome_unknown")
                /\ override'[p] = [override[p] EXCEPT !.status = "cancelled"]
      BY DEF RecoverOperation
    <3>3. QED
      BY <2>2, <3>1, <3>2
  <2>7. CASE k[2] = "start"
    BY <1>0, <1>1, <1>3, <1>4, <2>3, <2>6, <2>7, OutcomeKeepsReleases
  <2>8. CASE k[2] = "release"
    <3>1. \A p \in Overrides : /\ <<p, "start">> \in Keys /\ <<p, "release">> \in Keys
                              /\ <<p, "start">> # k
      BY <2>8, KeyParts DEF Sides
    <3>2. \A p \in Overrides : /\ operation'[<<p, "start">>] = operation[<<p, "start">>]
                              /\ (operation'[<<p, "release">>].status = "absent"
                                    <=> operation[<<p, "release">>].status = "absent")
      BY <1>1, <1>3, <2>5, <2>8, <3>1 DEF Open
    <3>3. ASSUME NEW p \in Overrides
          PROVE  /\ override'[p].status = "none" => operation'[<<p, "start">>].status = "absent"
                 /\ Open(<<p, "start">>)' => override'[p].status = "pending"
                 /\ operation'[<<p, "release">>].status # "absent" =>
                       override'[p].status \notin {"none", "active"} /\ ~Open(<<p, "start">>)'
      <4>1. override'[p] = override[p]
        BY <2>4, <2>8
      <4>2. Open(<<p, "start">>)' <=> Open(<<p, "start">>)
        BY <3>2 DEF Open
      <4>3. operation'[<<p, "start">>].status = operation[<<p, "start">>].status
        BY <3>2
      <4>4. QED
        BY <1>0, <3>2, <4>1, <4>2, <4>3 DEF ReleasesFollow
    <3>4. QED
      BY <3>3 DEF ReleasesFollow
  <2>9. QED
    BY <2>1, <2>7, <2>8
<1>8. QuietWhileStopped'
  BY <1>0, <1>1 DEF QuietWhileStopped, Stopped
<1>9. NoOrphanedChild'
  <2>1. child[k].status = "unknown" =>
          operation'[k].status = "outcome_unknown" /\ operation'[k].names /\ ~operation'[k].reconciled
    BY <1>0, <1>1, <1>4 DEF OperationsKeepStep, Open, FindInterruptedUnknownChild
  <2>2. QED
    BY <1>0, <1>1, <1>3, <2>1 DEF NoOrphanedChild, Unresolved
<1>10. QED
  BY <1>5, <1>6, <1>7, <1>8, <1>9 DEF Lineages

\* An attempt, its dispatch, the answer of the device and its record.
LEMMA LineagesAttempt ==
  ASSUME NobodyLeft, AttemptStep
  PROVE  Lineages' /\ NoOrphanedChild'
<1>0. Typed /\ AttemptsKeepStep /\ OperationsKeepStep /\ ReleasesFollow /\ QuietWhileStopped
      /\ NoOrphanedChild
  BY DEF NobodyLeft, Lineages
<1>1. PICK k \in Keys : \/ MarkInFlight(k) \/ Dispatch(k)
                        \/ (\E end \in Ends : ChildEnds(k, end)) \/ RecordOutcome(k)
  BY DEF AttemptStep
<1>2. attempt[k].pc # "none"
  BY <1>1 DEF MarkInFlight, Dispatch, ChildEnds, RecordOutcome
<1>3. ~Stopped
  BY <1>0, <1>2 DEF QuietWhileStopped
<1>4. ASSUME NEW end \in Ends, attempt' = Enter(k, end)
      PROVE  /\ attempt'[k].pc = "record" /\ attempt'[k].end = end
             /\ \A q \in Keys : q # k => attempt'[q] = attempt[q]
  BY <1>0, <1>4 DEF Enter, Typed, Attempts
<1>5. ASSUME NEW pc \in {"dispatch", "sent"}, attempt' = [attempt EXCEPT ![k].pc = pc]
      PROVE  /\ attempt'[k].pc = pc
             /\ \A q \in Keys : q # k => attempt'[q] = attempt[q]
  BY <1>0, <1>5 DEF Typed, Attempts
<1>6. CASE MarkInFlight(k)
  <2>1. /\ UNCHANGED <<override, child, service, due, thrown>>
        /\ operation' = [operation EXCEPT ![k].status = "in_flight"]
        /\ attempt' = [attempt EXCEPT ![k].pc = "dispatch"] \/ attempt' = Enter(k, "expired")
    BY <1>6 DEF MarkInFlight
  <2>2. operation[k].status = "pending" /\ child[k].status = "none" /\ ~operation[k].reconciled
    BY <1>0, <1>6 DEF MarkInFlight, AttemptsKeepStep, OperationsKeepStep
  <2>3. /\ operation'[k].status = "in_flight" /\ operation'[k].reconciled = operation[k].reconciled
        /\ \A q \in Keys : q # k => operation'[q] = operation[q]
    BY <1>0, <2>1 DEF Typed, RowsTyped, OperationRows
  <2>4. /\ \/ attempt'[k].pc = "dispatch"
           \/ attempt'[k].pc = "record" /\ attempt'[k].end = "expired"
        /\ \A q \in Keys : q # k => attempt'[q] = attempt[q]
    <3>1. CASE attempt' = [attempt EXCEPT ![k].pc = "dispatch"]
      BY <1>5, <3>1
    <3>2. CASE attempt' = Enter(k, "expired")
      <4>1. "expired" \in Ends
        BY DEF Ends
      <4>2. QED
        BY <1>4, <3>2, <4>1
    <3>3. QED
      BY <2>1, <3>1, <3>2
  <2>5. AttemptsKeepStep'
    BY <1>0, <2>1, <2>2, <2>3, <2>4 DEF AttemptsKeepStep
  <2>6. OperationsKeepStep'
    BY <1>0, <2>1, <2>2, <2>3 DEF OperationsKeepStep
  <2>7. ReleasesFollow'
    <3>1. \A q \in Keys : /\ Open(q)' <=> Open(q)
                          /\ operation'[q].status = "absent" <=> operation[q].status = "absent"
      BY <2>2, <2>3 DEF Open
    <3>2. \A p \in Overrides : <<p, "start">> \in Keys /\ <<p, "release">> \in Keys
      BY KeyParts DEF Sides
    <3>3. QED
      BY <1>0, <2>1, <3>1, <3>2 DEF ReleasesFollow
  <2>8. QuietWhileStopped'
    BY <1>3, <2>1 DEF QuietWhileStopped, Stopped
  <2>9. NoOrphanedChild'
    BY <1>0, <2>1, <2>2, <2>3 DEF NoOrphanedChild, Unresolved
  <2>10. QED
    BY <2>5, <2>6, <2>7, <2>8, <2>9 DEF Lineages
<1>7. CASE Dispatch(k)
  <2>1. /\ UNCHANGED <<override, operation, service, due, thrown>>
        /\ \/ /\ attempt'[k].pc = "record" /\ attempt'[k].end # "unknown"
              /\ child' = child
           \/ /\ attempt'[k].pc = "sent"
              /\ child' = [child EXCEPT ![k] = [status |-> "in_flight", lease |-> 0]]
        /\ \A q \in Keys : q # k => attempt'[q] = attempt[q]
    <3>1. CASE service.latched
      <4>1. PICK end \in {"blocked", "some"} : attempt' = Enter(k, end)
        BY <1>7, <3>1 DEF Dispatch
      <4>2. /\ attempt'[k].pc = "record" /\ attempt'[k].end = end
            /\ \A q \in Keys : q # k => attempt'[q] = attempt[q]
        BY <1>4, <4>1 DEF Ends
      <4>3. QED
        BY <1>7, <3>1, <4>1, <4>2 DEF Dispatch
    <3>2. CASE ~service.latched
      BY <1>5, <1>7, <3>2 DEF Dispatch
    <3>3. QED
      BY <3>1, <3>2
  <2>2. operation[k].status = "in_flight" /\ child[k].status = "none" /\ attempt[k].pc = "dispatch"
    BY <1>0, <1>7 DEF Dispatch, AttemptsKeepStep
  <2>3. /\ \A q \in Keys : q # k => child'[q] = child[q]
        /\ child'[k].status = IF attempt'[k].pc = "sent" THEN "in_flight" ELSE "none"
    BY <1>0, <2>1, <2>2 DEF Typed, RowsTyped
  <2>4. AttemptsKeepStep'
    BY <1>0, <2>1, <2>2, <2>3 DEF AttemptsKeepStep
  <2>5. OperationsKeepStep'
    BY <1>0, <2>1, <2>2, <2>3 DEF OperationsKeepStep
  <2>6. ReleasesFollow'
    BY <1>0, <2>1 DEF ReleasesFollow, Open
  <2>7. QuietWhileStopped'
    BY <1>3, <2>1 DEF QuietWhileStopped, Stopped
  <2>8. NoOrphanedChild'
    BY <1>0, <2>1, <2>2, <2>3 DEF NoOrphanedChild, Unresolved
  <2>9. QED
    BY <2>4, <2>5, <2>6, <2>7, <2>8 DEF Lineages
<1>8. ASSUME NEW end \in Ends, ChildEnds(k, end) PROVE Lineages' /\ NoOrphanedChild'
  <2>1. /\ UNCHANGED <<override, operation, due>>
        /\ attempt' = Enter(k, end) /\ thrown' = (thrown \/ end = "throws")
        /\ service' = [service EXCEPT !.latched = @ \/ end = "throws"]
    BY <1>8 DEF ChildEnds
  <2>2. operation[k].status = "in_flight"
    BY <1>0, <1>8 DEF ChildEnds, AttemptsKeepStep
  <2>3. /\ attempt'[k].pc = "record" /\ attempt'[k].end = end
        /\ \A q \in Keys : q # k => attempt'[q] = attempt[q]
    BY <1>4, <2>1
  <2>4. /\ \A q \in Keys : q # k => child'[q] = child[q]
        /\ \/ thrown'
           \/ child'[k].status = IF end = "unknown" THEN "unknown" ELSE "none"
    <3>1. PICK c : child' = [child EXCEPT ![k] = c]
                   /\ c \in CASE end = "unknown" -> {[status |-> "unknown", lease |-> Lease]}
                                [] end = "throws" -> {NoChild, child[k]}
                                [] OTHER -> {NoChild}
      BY <1>8 DEF ChildEnds
    <3>2. \/ end = "throws"
          \/ c.status = IF end = "unknown" THEN "unknown" ELSE "none"
      BY <3>1 DEF NoChild
    <3>3. QED
      BY <1>0, <2>1, <3>1, <3>2 DEF Typed, RowsTyped
  <2>5. service'.phase = service.phase
    BY <1>0, <2>1 DEF Typed, Services
  <2>6. thrown => thrown'
    BY <2>1
  <2>7. AttemptsKeepStep'
    BY <1>0, <2>1, <2>2, <2>3, <2>4, <2>6 DEF AttemptsKeepStep
  <2>8. OperationsKeepStep'
    BY <1>0, <2>1, <2>2, <2>4, <2>6 DEF OperationsKeepStep
  <2>9. ReleasesFollow'
    BY <1>0, <2>1 DEF ReleasesFollow, Open
  <2>10. QuietWhileStopped'
    BY <1>3, <2>5 DEF QuietWhileStopped, Stopped
  <2>11. NoOrphanedChild'
    BY <1>0, <2>1, <2>2, <2>4, <2>6 DEF NoOrphanedChild, Unresolved
  <2>12. QED
    BY <2>7, <2>8, <2>9, <2>10, <2>11 DEF Lineages
<1>9. CASE RecordOutcome(k)
  <2>1. PICK status \in {"succeeded", "failed", "timed_out", "outcome_unknown"},
             names \in BOOLEAN, throws \in BOOLEAN :
          /\ Complete(k[1], k[2], status, SafetyWait(names), names)
          /\ Return(k, throws)
          /\ names <=> attempt[k].end = "unknown"
          /\ names => status = "outcome_unknown"
    BY <1>9 DEF RecordOutcome
  <2>2. /\ operation[k].status = "in_flight" /\ UNCHANGED <<child, thrown>>
        /\ thrown \/ child[k].status = IF attempt[k].end = "unknown" THEN "unknown" ELSE "none"
    BY <1>0, <1>9 DEF RecordOutcome, AttemptsKeepStep
  <2>3. ~operation[k].reconciled
    BY <1>0, <2>2 DEF OperationsKeepStep
  <2>4. SafetyWait(names) \in 0 .. Lease
    BY Bounds DEF SafetyWait
  <2>5. /\ ReleasesFollow'
        /\ operation'[k].status = status /\ operation'[k].names = names
        /\ ~operation'[k].reconciled
        /\ \A q \in Keys : q # k => operation'[q] = operation[q]
    BY <1>0, <2>1, <2>2, <2>3, <2>4, CompleteOutcome DEF Open
  <2>6. /\ attempt'[k].pc = "none"
        /\ \A q \in Keys : q # k => attempt'[q] = attempt[q]
    BY <1>0, <2>1 DEF Return, NoAttempt, Typed
  <2>7. ~Stopped'
    <3>1. service'.phase \in {service.phase, "broken"}
      BY <1>0, <2>1 DEF Return, Typed, Services
    <3>2. QED
      BY <1>3, <3>1 DEF Stopped
  <2>8. AttemptsKeepStep'
    BY <1>0, <2>2, <2>5, <2>6 DEF AttemptsKeepStep
  <2>9. OperationsKeepStep'
    BY <1>0, <2>2, <2>5 DEF OperationsKeepStep
  <2>10. QuietWhileStopped'
    BY <2>7 DEF QuietWhileStopped, Stopped
  <2>11. NoOrphanedChild'
    BY <1>0, <2>1, <2>2, <2>5 DEF NoOrphanedChild, Unresolved
  <2>12. QED
    BY <2>5, <2>8, <2>9, <2>10, <2>11 DEF Lineages
<1>10. QED
  BY <1>1, <1>6, <1>7, <1>8, <1>9

\* What touches no row, no attempt and not the phase.
LEMMA LineagesKept ==
  ASSUME NobodyLeft, UNCHANGED <<rows, attempt, thrown>>,
         \/ UNCHANGED <<due, service.phase>>
         \/ ~Stopped'
  PROVE  Lineages' /\ NoOrphanedChild'
<1>0. AttemptsKeepStep /\ OperationsKeepStep /\ ReleasesFollow /\ QuietWhileStopped /\ NoOrphanedChild
  BY DEF NobodyLeft, Lineages
<1>1. UNCHANGED <<override, operation, child, attempt, thrown>>
  BY DEF rows
<1>2. AttemptsKeepStep' /\ OperationsKeepStep' /\ ReleasesFollow' /\ NoOrphanedChild'
  BY <1>0, <1>1 DEF AttemptsKeepStep, OperationsKeepStep, ReleasesFollow, NoOrphanedChild,
                    Unresolved, Open
<1>3. QuietWhileStopped'
  BY <1>0, <1>1 DEF QuietWhileStopped, Stopped
<1>4. QED
  BY <1>2, <1>3 DEF Lineages

\* The due pass: unknown children are settled, expired overrides released.
LEMMA LineagesDue ==
  ASSUME NobodyLeft, DueStep
  PROVE  Lineages' /\ NoOrphanedChild'
<1>0. Typed /\ QuietWhileStopped
  BY DEF NobodyLeft, Lineages
<1>1. service \in Services
  BY <1>0 DEF Typed
<1>2. ~Stopped
  <2>1. CASE BeginDue
    BY <2>1 DEF BeginDue, Stopped
  <2>2. CASE due.pc # "idle"
    BY <1>0, <2>2 DEF QuietWhileStopped
  <2>3. QED
    BY <2>1, <2>2 DEF DueStep, ListExpired, EndDue, ReconcileDue, ExpireDue, StrandDue
<1>3. \A p \in {service.phase, "broken", "accepting"} : service'.phase = p => ~Stopped'
  BY <1>2 DEF Stopped
<1>4. CASE BeginDue \/ ListExpired
  <2>1. service'.phase = service.phase
    BY <1>1, <1>4 DEF BeginDue, ListExpired, Services
  <2>2. QED
    BY <1>3, <1>4, <2>1, LineagesKept DEF BeginDue, ListExpired
<1>5. CASE EndDue
  <2>1. service'.phase \in {service.phase, "accepting"}
    BY <1>1, <1>5 DEF EndDue, Services
  <2>2. QED
    BY <1>3, <1>5, <2>1, LineagesKept DEF EndDue
<1>6. ASSUME AbortDue PROVE ~Stopped'
  <2>1. service'.phase \in {service.phase, "broken"}
    BY <1>1, <1>6 DEF AbortDue, Services
  <2>2. QED
    BY <1>3, <2>1
<1>7. ASSUME NEW k \in Keys, ReconcileDue(k) PROVE Lineages' /\ NoOrphanedChild'
  <2>1. UNCHANGED <<attempt, thrown>>
    BY <1>7 DEF ReconcileDue
  <2>2. ~Stopped'
    <3>1. CASE UNCHANGED service
      BY <1>2, <3>1 DEF Stopped
    <3>2. QED
      BY <1>6, <1>7, <3>1 DEF ReconcileDue
  <2>3. CASE Unresolved(k)
    BY <1>7, <2>1, <2>2, <2>3, LineagesReconcile DEF ReconcileDue
  <2>4. CASE ~Unresolved(k)
    BY <1>7, <2>2, <2>4, LineagesKept DEF ReconcileDue
  <2>5. QED
    BY <2>3, <2>4
<1>8. ASSUME NEW o \in Overrides, ExpireDue(o) PROVE Lineages' /\ NoOrphanedChild'
  <2>1. UNCHANGED <<child, service, thrown>> /\ ~Stopped'
    BY <1>2, <1>8 DEF ExpireDue, Stopped
  <2>2. CASE o \in DueActive
    <3>1. override[o].status = "active" /\ Release(o, "expire")
      BY <1>8, <2>2 DEF ExpireDue, DueActive
    <3>2. QED
      BY <2>1, <3>1, LineagesRelease DEF Stopped
  <2>3. CASE o \notin DueActive
    BY <1>8, <2>1, <2>3, LineagesKept DEF ExpireDue, rows
  <2>4. QED
    BY <2>2, <2>3
<1>9. ASSUME NEW o \in Overrides, StrandDue(o) PROVE Lineages' /\ NoOrphanedChild'
  BY <1>6, <1>9, LineagesKept DEF StrandDue
<1>10. QED
  BY <1>4, <1>5, <1>7, <1>8, <1>9 DEF DueStep

\* What only time changes: no status, no flag.
LEMMA LineagesTick ==
  ASSUME NobodyLeft, Tick
  PROVE  Lineages' /\ NoOrphanedChild'
<1>0. Typed /\ AttemptsKeepStep /\ OperationsKeepStep /\ ReleasesFollow /\ QuietWhileStopped
      /\ NoOrphanedChild
  BY DEF NobodyLeft, Lineages
<1>1. \A o \in Overrides : override'[o].status = override[o].status
  BY <1>0 DEF Tick, Typed, RowsTyped, OverrideRows
<1>2. \A k \in Keys : /\ operation'[k].status = operation[k].status
                     /\ operation'[k].names = operation[k].names
                     /\ operation'[k].reconciled = operation[k].reconciled
  BY <1>0 DEF Tick, Typed, RowsTyped, OperationRows
<1>3. \A k \in Keys : child'[k].status = child[k].status
  BY <1>0 DEF Tick, Typed, RowsTyped, Children
<1>4. UNCHANGED <<service, attempt, due, thrown>>
  BY DEF Tick
<1>5. AttemptsKeepStep'
  BY <1>0, <1>2, <1>3, <1>4 DEF AttemptsKeepStep
<1>6. OperationsKeepStep'
  BY <1>0, <1>2, <1>3, <1>4 DEF OperationsKeepStep
<1>7. ReleasesFollow'
  <2>1. \A o \in Overrides : <<o, "start">> \in Keys /\ <<o, "release">> \in Keys
    BY KeyParts DEF Sides
  <2>2. \A o \in Overrides :
          /\ operation'[<<o, "start">>].status = operation[<<o, "start">>].status
          /\ operation'[<<o, "release">>].status = operation[<<o, "release">>].status
    BY <1>2, <2>1
  <2>3. QED
    BY <1>0, <1>1, <2>2 DEF ReleasesFollow, Open
<1>8. QuietWhileStopped'
  BY <1>0, <1>3, <1>4 DEF QuietWhileStopped, Stopped
<1>9. NoOrphanedChild'
  BY <1>0, <1>2, <1>3, <1>4 DEF NoOrphanedChild, Unresolved
<1>10. QED
  BY <1>5, <1>6, <1>7, <1>8, <1>9 DEF Lineages

\* The end of the process, and its next start up to the recovery of overrides.
LEMMA LineagesBoot ==
  ASSUME NobodyLeft, Crash \/ Boot \/ Recovered
  PROVE  Lineages' /\ NoOrphanedChild'
<1>0. Typed /\ AttemptsKeepStep /\ OperationsKeepStep /\ ReleasesFollow /\ QuietWhileStopped
      /\ NoOrphanedChild
  BY DEF NobodyLeft, Lineages
<1>1. service \in Services
  BY <1>0 DEF Typed
<1>2. CASE Recovered
  <2>1. service'.phase = "starting"
    BY <1>1, <1>2 DEF Recovered, Services
  <2>2. QED
    BY <1>2, <2>1, LineagesKept DEF Recovered, Stopped
<1>3. CASE Crash
  <2>1. service'.phase = "down" /\ due'.pc = "idle" /\ \A k \in Keys : attempt'[k].pc = "none"
    BY <1>1, <1>3 DEF Crash, Services, NoPass, NoAttempt
  <2>2. UNCHANGED <<override, operation, child, thrown>>
    BY <1>3 DEF Crash, rows
  <2>3. AttemptsKeepStep'
    BY <2>1 DEF AttemptsKeepStep
  <2>4. OperationsKeepStep' /\ ReleasesFollow' /\ NoOrphanedChild'
    BY <1>0, <2>2 DEF OperationsKeepStep, ReleasesFollow, NoOrphanedChild, Unresolved, Open
  <2>5. QuietWhileStopped'
    BY <2>1 DEF QuietWhileStopped
  <2>6. QED
    BY <2>3, <2>4, <2>5 DEF Lineages
<1>4. CASE Boot
  <2>1. /\ UNCHANGED <<override, operation, attempt, due, thrown>>
        /\ service'.phase = "recovering"
    BY <1>4 DEF Boot
  <2>2. \A k \in Keys : child'[k].status = IF child[k].status = "in_flight" THEN "unknown"
                                           ELSE child[k].status
    BY <1>0, <1>4 DEF Boot, Typed, RowsTyped
  <2>3. due.pc = "idle" /\ \A k \in Keys : attempt[k].pc = "none"
    BY <1>0, <1>4 DEF Boot, QuietWhileStopped, Stopped
  <2>4. AttemptsKeepStep'
    BY <2>1, <2>3 DEF AttemptsKeepStep
  <2>5. OperationsKeepStep'
    BY <1>0, <2>1, <2>2 DEF OperationsKeepStep
  <2>6. ReleasesFollow'
    BY <1>0, <2>1 DEF ReleasesFollow, Open
  <2>7. QuietWhileStopped'
    BY <2>1, <2>2, <2>3 DEF QuietWhileStopped
  <2>8. NoOrphanedChild'
    BY <1>0, <2>1, <2>2 DEF NoOrphanedChild, OperationsKeepStep, Unresolved
  <2>9. QED
    BY <2>4, <2>5, <2>6, <2>7, <2>8 DEF Lineages
<1>5. QED
  BY <1>2, <1>3, <1>4

\* Every step keeps the lineages, and orphans nobody.
LEMMA LineagesNext == NobodyLeft /\ [OverrideNext]_overrideVars => Lineages' /\ NoOrphanedChild'
<1> SUFFICES ASSUME NobodyLeft, [OverrideNext]_overrideVars PROVE Lineages' /\ NoOrphanedChild'
  OBVIOUS
<1>0. Typed /\ service \in Services
  BY DEF NobodyLeft, Typed
<1>1. ASSUME NEW t \in Targets, NEW r \in Overrides \cup {NoOne}, StartOverride(t, r)
      PROVE Lineages' /\ NoOrphanedChild'
  BY <1>1, LineagesStart
<1>2. ASSUME NEW o \in Overrides, ExtendOverride(o) PROVE Lineages' /\ NoOrphanedChild'
  <2>1. /\ UNCHANGED <<operation, child, attempt, due, thrown>>
        /\ service'.phase = service.phase
    BY <1>0, <1>2 DEF ExtendOverride, Services
  <2>2. \A p \in Overrides : override'[p].status = override[p].status
    BY <1>0, <1>2 DEF ExtendOverride, Typed, RowsTyped, OverrideRows
  <2>3. AttemptsKeepStep' /\ OperationsKeepStep' /\ NoOrphanedChild'
    BY <2>1 DEF NobodyLeft, Lineages, AttemptsKeepStep, OperationsKeepStep, NoOrphanedChild, Unresolved
  <2>4. ReleasesFollow'
    BY <2>1, <2>2 DEF NobodyLeft, Lineages, ReleasesFollow, Open
  <2>5. QuietWhileStopped'
    BY <2>1 DEF NobodyLeft, Lineages, QuietWhileStopped, Stopped
  <2>6. QED
    BY <2>3, <2>4, <2>5 DEF Lineages
<1>3. ASSUME NEW o \in Overrides, CancelOverride(o) PROVE Lineages' /\ NoOrphanedChild'
  <2>1. ~Stopped' /\ service'.phase # "recovering"
    BY <1>3 DEF CancelOverride, Accepting, Stopped
  <2>2. QED
    BY <1>3, <2>1, LineagesRelease DEF CancelOverride
<1>4. ASSUME NEW o \in Overrides, ReconcileOverride(o) PROVE Lineages' /\ NoOrphanedChild'
  <2>1. <<o, override[o].op>> \in Keys
    BY <1>0, KeyParts DEF Typed, RowsTyped, OverrideRows
  <2>2. service'.phase = service.phase /\ service.phase = "accepting"
    BY <1>0, <1>4 DEF ReconcileOverride, Accepting, Services
  <2>3. QED
    BY <1>4, <2>1, <2>2, LineagesReconcile DEF ReconcileOverride, Stopped
<1>5. CASE Repoint \/ ChangeFirmware \/ UNCHANGED overrideVars
  BY <1>5, LineagesKept DEF Repoint, ChangeFirmware, overrideVars
<1>6. ASSUME NEW k \in Keys, RecoverOperation(k) PROVE Lineages' /\ NoOrphanedChild'
  BY <1>6, LineagesRecover
<1>7. QED
  BY <1>1, <1>2, <1>3, <1>4, <1>5, <1>6, LineagesAttempt, LineagesDue, LineagesBoot, LineagesTick
     DEF OverrideNext, StartUp

(* Whatever crashes, is replaced, expires or is cancelled, a command whose  *)
(* outcome is unknown is known to an aggregate that is still to be settled *)
(* and names it.                                                           *)
THEOREM ChildrenAreNotOrphaned == OverrideSafety => []NoOrphanedChild
<1>1. OverrideInit => NobodyLeft
  BY TypedInit, LineagesInit DEF NobodyLeft
<1>2. NobodyLeft /\ [OverrideNext]_overrideVars => NobodyLeft'
  BY TypedNext, LineagesNext DEF NobodyLeft
<1>3. NobodyLeft => NoOrphanedChild
  BY DEF NobodyLeft
<1>4. QED
  BY <1>1, <1>2, <1>3, PTL DEF OverrideSafety
-----------------------------------------------------------------------------
(* Two overrides on one pin. *)

\* An override whose start has no outcome yet.
Starting(o) == override[o].status = "pending" /\ override[o].op = "start"

\* An override refers to its release as soon as there is one.
RefersToRelease ==
  \A o \in Overrides : override[o].op = "release" <=> operation[<<o, "release">>].status # "absent"

FirstOnly == \A o \in Overrides : override[o].target = "first"

\* While nothing was moved, only one override is on the pin, one at most
\* starts, and it replaces the one that is there.
Alone ==
  \A a, b \in Overrides : a # b =>
     /\ ~(override[a].status = "active" /\ override[b].status = "active")
     /\ ~(Starting(a) /\ Starting(b))
     /\ override[a].status = "active" /\ Starting(b) => override[b].replaces = a

Single == RefersToRelease /\ (mapped = "first" => FirstOnly /\ Alone)

\* What an override refers to, and whom it replaces, stay with it.
Fixed ==
  \A p \in Overrides : /\ override'[p].op = override[p].op
                       /\ override'[p].target = override[p].target
                       /\ override'[p].replaces = override[p].replaces

\* At first no override holds the pin.
LEMMA SingleInit == OverrideInit => Single
<1>1. \A o \in Overrides : <<o, "release">> \in Keys
  BY KeyParts DEF Sides
<1>2. QED
  BY <1>1 DEF OverrideInit, Single, RefersToRelease, FirstOnly, Alone, Starting, NoOverride,
              NoOperation

\* A step that makes no override active and starts none.
LEMMA SingleLess ==
  ASSUME Single, Fixed, mapped' = "first" => mapped = "first",
         \A p \in Overrides : override'[p].status \in {"active", "pending"} =>
            override'[p].status = override[p].status,
         \A p \in Overrides : operation'[<<p, "release">>].status = "absent" <=>
            operation[<<p, "release">>].status = "absent"
  PROVE  Single'
<1>1. RefersToRelease'
  BY DEF Single, RefersToRelease, Fixed
<1>2. ASSUME mapped' = "first" PROVE FirstOnly' /\ Alone'
  <2>1. FirstOnly /\ Alone
    BY <1>2 DEF Single
  <2>2. FirstOnly'
    BY <2>1 DEF FirstOnly, Fixed
  <2>3. \A p \in Overrides : /\ override'[p].status = "active" => override[p].status = "active"
                            /\ Starting(p)' => Starting(p)
                            /\ override'[p].replaces = override[p].replaces
    BY DEF Starting, Fixed
  <2>4. Alone'
    BY <2>1, <2>3 DEF Alone
  <2>5. QED
    BY <2>2, <2>4
<1>3. QED
  BY <1>1, <1>2 DEF Single

\* A start gets its outcome: when its override is active, none that it
\* replaces is.
LEMMA SingleOutcome ==
  ASSUME Single, Fixed, mapped' = mapped, NEW o \in Overrides, Starting(o),
         override'[o].status # "pending",
         \A p \in Overrides : p # o =>
            override'[p].status = override[p].status \/ override'[p].status = "cancelled",
         override'[o].status = "active" =>
            \A p \in Overrides : p # o /\ p = override[o].replaces => override'[p].status # "active",
         \A p \in Overrides : operation'[<<p, "release">>].status = "absent" <=>
            operation[<<p, "release">>].status = "absent"
  PROVE  Single'
<1>1. RefersToRelease'
  BY DEF Single, RefersToRelease, Fixed
<1>2. ASSUME mapped' = "first" PROVE FirstOnly' /\ Alone'
  <2>1. FirstOnly /\ Alone
    BY <1>2 DEF Single
  <2>2. FirstOnly'
    BY <2>1 DEF FirstOnly, Fixed
  <2>3. \A p \in Overrides : p # o =>
           /\ override'[p].status = "active" => override[p].status = "active"
           /\ Starting(p)' => Starting(p)
           /\ override'[p].replaces = override[p].replaces
    BY DEF Starting, Fixed
  <2>4. ~Starting(o)'
    BY DEF Starting
  <2>5. ASSUME NEW p \in Overrides, p # o, override'[p].status = "active"
        PROVE  override'[o].status # "active"
    <3>1. override[o].replaces = p
      BY <2>1, <2>3, <2>5 DEF Alone
    <3>2. QED
      BY <2>5, <3>1
  <2>6. ASSUME NEW p \in Overrides, p # o PROVE ~Starting(p)'
    BY <2>1, <2>3, <2>6 DEF Alone
  <2>7. Alone'
    BY <2>1, <2>3, <2>4, <2>5, <2>6 DEF Alone
  <2>8. QED
    BY <2>2, <2>7
<1>3. QED
  BY <1>1, <1>2 DEF Single

\* A start finds the pin free, but for the override that it replaces.
LEMMA SingleStart ==
  ASSUME NobodyLeft, Single, NEW t \in Targets, NEW r \in Overrides \cup {NoOne},
         StartOverride(t, r)
  PROVE  Single'
<1>0. Typed /\ ReleasesFollow
  BY DEF NobodyLeft, Lineages
<1>1. PICK o \in Overrides :
        /\ override[o].status = "none"
        /\ override' = [override EXCEPT ![o] =
               [status |-> "pending", target |-> t, left |-> Duration, op |-> "start",
                replaces |-> r]]
        /\ operation' = [operation EXCEPT ![<<o, "start">>] =
               [NoOperation EXCEPT !.status = "pending"]]
  BY DEF StartOverride
<1>2. /\ override'[o].status = "pending" /\ override'[o].op = "start"
      /\ override'[o].target = t /\ override'[o].replaces = r
      /\ \A p \in Overrides : p # o => override'[p] = override[p]
  BY <1>0, <1>1 DEF Typed, RowsTyped
<1>3. RefersToRelease'
  <2>1. \A p \in Overrides : operation'[<<p, "release">>] = operation[<<p, "release">>]
    BY <1>0, <1>1, KeyParts DEF Typed, RowsTyped, Sides
  <2>2. operation[<<o, "release">>].status = "absent"
    BY <1>0, <1>1 DEF ReleasesFollow
  <2>3. QED
    BY <1>2, <2>1, <2>2 DEF Single, RefersToRelease
<1>4. ASSUME mapped' = "first" PROVE FirstOnly' /\ Alone'
  <2>1. mapped = "first" /\ t = "first"
    BY <1>4 DEF StartOverride, ResolvesStart
  <2>2. FirstOnly /\ Alone
    BY <2>1 DEF Single
  <2>3. FirstOnly'
    BY <1>2, <2>1, <2>2 DEF FirstOnly
  <2>4. \A p \in Overrides : Live(p) => p = r /\ override[p].status = "active"
    BY <2>1, <2>2 DEF StartOverride, Free, FirstOnly
  <2>5. \A p \in Overrides : p # o =>
          /\ ~Starting(p)'
          /\ override'[p].status = "active" => p = r
    BY <1>2, <2>4 DEF Starting, Live
  <2>6. \A a, b \in Overrides : a # b =>
          ~(override'[a].status = "active" /\ override'[b].status = "active")
    BY <1>2, <2>5
  <2>7. QED
    BY <1>2, <2>3, <2>5, <2>6 DEF Alone
<1>5. QED
  BY <1>3, <1>4 DEF Single

\* A release takes an override from the pin.
LEMMA SingleRelease ==
  ASSUME Typed, Single, NEW o \in Overrides, NEW kind \in {"cancel", "expire"}, Release(o, kind),
         mapped' = mapped
  PROVE  Single'
<1>1. /\ override'[o].status = "pending" /\ override'[o].op = "release"
      /\ override'[o].target = override[o].target
      /\ \A p \in Overrides : p # o => override'[p] = override[p]
  <2>1. override' = [override EXCEPT ![o] =
                       [override[o] EXCEPT !.status = "pending", !.op = "release"]]
    BY DEF Release
  <2>2. QED
    BY <2>1 DEF Typed, RowsTyped, OverrideRows
<1>2. /\ operation'[<<o, "release">>].status = "pending"
      /\ \A p \in Overrides : p # o => operation'[<<p, "release">>] = operation[<<p, "release">>]
  BY KeyParts DEF Release, NoOperation, Typed, RowsTyped, Sides
<1>3. RefersToRelease'
  BY <1>1, <1>2 DEF Single, RefersToRelease
<1>4. ASSUME mapped' = "first" PROVE FirstOnly' /\ Alone'
  <2>1. FirstOnly /\ Alone
    BY <1>4 DEF Single
  <2>2. FirstOnly'
    BY <1>1, <2>1 DEF FirstOnly
  <2>3. ~Starting(o)' /\ override'[o].status # "active"
        /\ \A p \in Overrides : p # o => (Starting(p)' <=> Starting(p))
    BY <1>1 DEF Starting
  <2>4. QED
    BY <1>1, <2>1, <2>2, <2>3 DEF Alone
<1>5. QED
  BY <1>3, <1>4 DEF Single

\* Settling a release ends its override, settling a start nothing.
LEMMA SingleReconcile ==
  ASSUME Typed, Single, NEW k \in Keys, Reconcile(k), mapped' = mapped
  PROVE  Single'
<1>1. k[1] \in Overrides
  BY KeyParts
<1>2. \A q \in Keys : operation'[q].status = operation[q].status
  <2>1. operation \in [Keys -> OperationRows]
    BY DEF Typed, RowsTyped
  <2>2. [operation[k] EXCEPT !.reconciled = TRUE].status = operation[k].status
    BY <2>1 DEF OperationRows
  <2>3. \/ operation' = operation
        \/ operation' = [operation EXCEPT ![k] = [operation[k] EXCEPT !.reconciled = TRUE]]
    BY DEF Reconcile
  <2>4. QED
    BY <2>1, <2>2, <2>3
<1>3. \A p \in Overrides : operation'[<<p, "release">>].status = operation[<<p, "release">>].status
  BY <1>2, KeyParts DEF Sides
<1>4. Fixed /\ \A p \in Overrides : override'[p].status \in {"active", "pending"} =>
                                     override'[p].status = override[p].status
  <2>1. CASE override' = override
    BY <2>1 DEF Fixed
  <2>2. ASSUME NEW s \in {"cancelled", "expired"},
               override' = [override EXCEPT ![k[1]].status = s]
        PROVE  Fixed /\ \A p \in Overrides : override'[p].status \in {"active", "pending"} =>
                                              override'[p].status = override[p].status
    BY <1>1, <2>2 DEF Fixed, Typed, RowsTyped, OverrideRows
  <2>3. QED
    BY <2>1, <2>2 DEF Reconcile
<1>5. QED
  BY <1>3, <1>4, SingleLess

\* An override whose start is open is starting.
LEMMA OpenIsStarting ==
  ASSUME NobodyLeft, Single, NEW o \in Overrides, Open(<<o, "start">>)
  PROVE  Starting(o)
<1>1. override[o].status = "pending" /\ operation[<<o, "release">>].status = "absent"
  BY DEF NobodyLeft, Lineages, ReleasesFollow
<1>2. override[o].op # "release" /\ override[o].op \in Sides
  BY <1>1 DEF Single, RefersToRelease, NobodyLeft, Typed, RowsTyped, OverrideRows
<1>3. QED
  BY <1>1, <1>2 DEF Starting, Sides

\* What #completeTerminal makes of the overrides.
LEMMA SingleComplete ==
  ASSUME NobodyLeft, Single, NEW k \in Keys, Open(k), mapped' = mapped,
         NEW status \in {"succeeded", "failed", "timed_out", "outcome_unknown"},
         NEW wait \in 0 .. Lease, NEW names \in BOOLEAN,
         Complete(k[1], k[2], status, wait, names)
  PROVE  Single'
<1>0. Typed /\ ReleasesFollow
  BY DEF NobodyLeft, Lineages
<1>1. k[1] \in Overrides /\ k[2] \in {"start", "release"} /\ k = <<k[1], k[2]>>
  BY KeyParts DEF Sides
<1>2. \A p \in Overrides : operation'[<<p, "release">>].status = "absent" <=>
                           operation[<<p, "release">>].status = "absent"
  <2>1. operation'[k].status = status /\ \A q \in Keys : q # k => operation'[q] = operation[q]
    BY <1>0, CompleteOutcome
  <2>2. QED
    BY <2>1, KeyParts DEF Open, Sides
<1>3. \A p \in Overrides : override[p] \in OverrideRows
  BY <1>0 DEF Typed, RowsTyped
<1> DEFINE final == TerminalOverrideState(k[1], k[2], status)
           over == IF k[2] = "start" THEN Superseded(k[1], status) ELSE {}
<1>4. final \in Statuses /\ "cancelled" \in Statuses
  BY DEF TerminalOverrideState, Statuses, Finished
<1>5. \A p \in Overrides :
        override'[p] = IF p = k[1] THEN [override[p] EXCEPT !.status = final]
                       ELSE IF p \in over THEN [override[p] EXCEPT !.status = "cancelled"]
                       ELSE override[p]
  BY DEF Complete
<1>6. /\ k[2] = "start" =>
           /\ final \in {"failed", "expired", "active"}
           /\ final = "active" => status \in {"succeeded", "outcome_unknown"}
           /\ over = Superseded(k[1], status)
      /\ k[2] = "release" =>
           /\ final \in {"failed", "pending", "cancelled", "expired"}
           /\ over = {}
  <2>1. k[2] = "start" => final \in {"failed", "expired", "active"}
    BY DEF TerminalOverrideState
  <2>2. k[2] = "release" => final \in {"failed", "pending", "cancelled", "expired"}
    BY DEF TerminalOverrideState
  <2>3. status \in {"failed", "timed_out"} => final = "failed"
    BY DEF TerminalOverrideState
  <2>4. QED
    BY <2>1, <2>2, <2>3
<1> HIDE DEF final, over
<1>7. Fixed
  BY <1>3, <1>5 DEF Fixed, OverrideRows
<1>8. /\ override'[k[1]].status = final
      /\ \A p \in Overrides : p # k[1] =>
            override'[p].status = IF p \in over THEN "cancelled" ELSE override[p].status
  <2>1. override'[k[1]] = [override[k[1]] EXCEPT !.status = final]
    BY <1>1, <1>5
  <2>2. \A p \in Overrides : p # k[1] =>
          override'[p] = IF p \in over THEN [override[p] EXCEPT !.status = "cancelled"]
                         ELSE override[p]
    BY <1>5
  <2>3. QED
    BY <1>1, <1>3, <1>4, <2>1, <2>2 DEF OverrideRows
<1>9. CASE k[2] = "start"
  <2>1. Starting(k[1])
    BY <1>1, <1>9, OpenIsStarting
  <2>2. /\ final \in {"failed", "expired", "active"} /\ over = Superseded(k[1], status)
        /\ final = "active" => status \in {"succeeded", "outcome_unknown"}
    BY <1>6, <1>9
  <2>3. final = "active" =>
          \A p \in Overrides : p # k[1] /\ p = override[k[1]].replaces =>
             override'[p].status # "active"
    <3>1. \A p \in Overrides : p # NoOne
      BY Bounds DEF Overrides, NoOne
    <3>2. QED
      BY <1>8, <2>2, <3>1 DEF Superseded
  <2>4. QED
    BY <1>1, <1>2, <1>7, <1>8, <2>1, <2>2, <2>3, SingleOutcome
<1>10. CASE k[2] = "release"
  <2>1. over = {}
    BY <1>6, <1>10
  <2>2. final \in {"failed", "pending", "cancelled", "expired"}
    BY <1>6, <1>10
  <2>3. operation[<<k[1], "release">>].status # "absent"
    BY <1>1, <1>10 DEF Open
  <2>4. override[k[1]].op = "release" /\ override'[k[1]].op = "release"
    BY <1>1, <1>7, <2>3 DEF Single, RefersToRelease, Fixed
  <2>5. \A p \in Overrides : p # k[1] => override'[p] = override[p]
    BY <1>5, <2>1
  <2>6. RefersToRelease'
    BY <1>2, <1>7 DEF Single, RefersToRelease, Fixed
  <2>7. ASSUME mapped' = "first" PROVE FirstOnly' /\ Alone'
    <3>1. FirstOnly /\ Alone
      BY <2>7 DEF Single
    <3>2. FirstOnly'
      BY <1>7, <3>1 DEF FirstOnly, Fixed
    <3>3. ~Starting(k[1])' /\ override'[k[1]].status # "active"
          /\ \A p \in Overrides : p # k[1] => (Starting(p)' <=> Starting(p))
      BY <1>8, <2>2, <2>4, <2>5 DEF Starting
    <3>4. QED
      BY <2>5, <3>1, <3>2, <3>3 DEF Alone
  <2>8. QED
    BY <2>6, <2>7 DEF Single
<1>11. QED
  BY <1>1, <1>9, <1>10

\* Recovery ends a start the way #completeTerminal does, or for good.
LEMMA SingleRecover ==
  ASSUME NobodyLeft, Single, NEW k \in Keys, RecoverOperation(k)
  PROVE  Single'
<1>0. Typed /\ Open(k) /\ mapped' = mapped
  BY DEF NobodyLeft, RecoverOperation, Interrupted, Open
<1>1. k[1] \in Overrides /\ k[2] \in {"start", "release"} /\ k = <<k[1], k[2]>>
  BY KeyParts DEF Sides
<1>2. \A p \in Overrides : operation'[<<p, "release">>].status = "absent" <=>
                           operation[<<p, "release">>].status = "absent"
  <2>1. /\ operation'[k].status # "absent" /\ operation[k].status # "absent"
        /\ \A q \in Keys : q # k => operation'[q] = operation[q]
    BY <1>0 DEF RecoverOperation, Open, Typed, RowsTyped, OperationRows
  <2>2. QED
    BY <2>1, KeyParts DEF Sides
<1>3. \A p \in Overrides : override[p] \in OverrideRows
  BY <1>0 DEF Typed, RowsTyped
<1>4. {"failed", "active", "expired", "cancelled"} \subseteq Statuses
  BY DEF Statuses, Finished
<1>5. CASE k[2] = "start" /\ operation[k].status = "pending"
  <2>1. \A p \in Overrides : override'[p] =
          IF p = k[1] THEN [override[p] EXCEPT !.status = "failed"] ELSE override[p]
    BY <1>5 DEF RecoverOperation
  <2>2. Fixed
    BY <1>3, <2>1 DEF Fixed, OverrideRows
  <2>3. \A p \in Overrides : override'[p].status \in {"active", "pending"} =>
          override'[p].status = override[p].status
    BY <1>3, <1>4, <2>1 DEF OverrideRows
  <2>4. QED
    BY <1>0, <1>2, <2>2, <2>3, SingleLess
<1>6. CASE k[2] = "start" /\ operation[k].status = "in_flight"
  <2>1. PICK final \in {"expired", "active"} : \A p \in Overrides : override'[p] =
          IF p = k[1] THEN [override[p] EXCEPT !.status = final]
          ELSE IF p \in Superseded(k[1], "outcome_unknown")
          THEN [override[p] EXCEPT !.status = "cancelled"] ELSE override[p]
    BY <1>1, <1>6 DEF RecoverOperation
  <2>2. Fixed
    BY <1>3, <2>1 DEF Fixed, OverrideRows
  <2>3. /\ override'[k[1]].status = final
        /\ \A p \in Overrides : p # k[1] => override'[p].status =
              IF p \in Superseded(k[1], "outcome_unknown") THEN "cancelled" ELSE override[p].status
    BY <1>1, <1>3, <1>4, <2>1 DEF OverrideRows
  <2>4. \A p \in Overrides : p # k[1] /\ p = override[k[1]].replaces =>
          override'[p].status # "active"
    <3>1. \A p \in Overrides : p # NoOne
      BY Bounds DEF Overrides, NoOne
    <3>2. QED
      BY <2>3, <3>1 DEF Superseded
  <2>5. Starting(k[1])
    BY <1>0, <1>1, <1>6, OpenIsStarting
  <2>6. QED
    BY <1>0, <1>1, <1>2, <2>2, <2>3, <2>4, <2>5, SingleOutcome
<1>7. CASE k[2] = "release"
  <2>1. \A p \in Overrides : override'[p] = override[p]
    BY <1>7 DEF RecoverOperation
  <2>2. QED
    BY <1>0, <1>2, <2>1, SingleLess DEF Fixed
<1>8. QED
  BY <1>0, <1>1, <1>5, <1>6, <1>7 DEF Open

\* An attempt keeps to one override on the pin.
LEMMA SingleAttempt ==
  ASSUME NobodyLeft, Single, AttemptStep
  PROVE  Single'
<1>0. Typed /\ AttemptsKeepStep /\ mapped' = mapped
  BY DEF NobodyLeft, Lineages, AttemptStep, MarkInFlight, Dispatch, ChildEnds, RecordOutcome
<1>1. PICK k \in Keys : \/ MarkInFlight(k) \/ Dispatch(k)
                        \/ (\E end \in Ends : ChildEnds(k, end)) \/ RecordOutcome(k)
  BY DEF AttemptStep
<1>2. CASE MarkInFlight(k)
  <2>1. override' = override /\ operation[k].status = "pending"
    BY <1>0, <1>2 DEF MarkInFlight, AttemptsKeepStep
  <2>2. operation'[k].status = "in_flight" /\ \A q \in Keys : q # k => operation'[q] = operation[q]
    BY <1>0, <1>2 DEF MarkInFlight, Typed, RowsTyped, OperationRows
  <2>3. \A p \in Overrides : operation'[<<p, "release">>].status = "absent" <=>
                             operation[<<p, "release">>].status = "absent"
    BY <2>1, <2>2, KeyParts DEF Sides
  <2>4. QED
    BY <1>0, <2>1, <2>3, SingleLess DEF Fixed
<1>3. CASE Dispatch(k) \/ (\E end \in Ends : ChildEnds(k, end))
  <2>1. override' = override /\ operation' = operation
    BY <1>3 DEF Dispatch, ChildEnds
  <2>2. QED
    BY <1>0, <2>1, SingleLess DEF Fixed
<1>4. CASE RecordOutcome(k)
  <2>1. PICK status \in {"succeeded", "failed", "timed_out", "outcome_unknown"},
             names \in BOOLEAN :
          Complete(k[1], k[2], status, SafetyWait(names), names)
    BY <1>4 DEF RecordOutcome
  <2>2. Open(k)
    BY <1>0, <1>4 DEF RecordOutcome, AttemptsKeepStep, Open
  <2>3. SafetyWait(names) \in 0 .. Lease
    BY Bounds DEF SafetyWait
  <2>4. QED
    BY <1>0, <2>1, <2>2, <2>3, SingleComplete
<1>5. QED
  BY <1>1, <1>2, <1>3, <1>4

\* Every step keeps to one override on the pin until a mapping moves.
LEMMA SingleNext == NobodyLeft /\ Single /\ [OverrideNext]_overrideVars => Single'
<1> SUFFICES ASSUME NobodyLeft, Single, [OverrideNext]_overrideVars PROVE Single'
  OBVIOUS
<1>0. Typed
  BY DEF NobodyLeft
<1>1. ASSUME NEW t \in Targets, NEW r \in Overrides \cup {NoOne}, StartOverride(t, r) PROVE Single'
  BY <1>1, SingleStart
<1>2. ASSUME NEW o \in Overrides, CancelOverride(o) PROVE Single'
  BY <1>0, <1>2, SingleRelease DEF CancelOverride
<1>3. ASSUME NEW o \in Overrides, ReconcileOverride(o) PROVE Single'
  <2>1. <<o, override[o].op>> \in Keys
    BY <1>0, KeyParts DEF Typed, RowsTyped, OverrideRows
  <2>2. QED
    BY <1>0, <1>3, <2>1, SingleReconcile DEF ReconcileOverride
<1>4. ASSUME NEW o \in Overrides, ExpireDue(o), o \in DueActive PROVE Single'
  BY <1>0, <1>4, SingleRelease DEF ExpireDue
<1>5. ASSUME NEW k \in Keys, ReconcileDue(k), Unresolved(k) PROVE Single'
  BY <1>0, <1>5, SingleReconcile DEF ReconcileDue
<1>6. ASSUME UNCHANGED <<override, operation>>, mapped' \in {mapped, "second"} PROVE Single'
  BY <1>6, SingleLess DEF Fixed
<1>7. CASE UNCHANGED overrideVars \/ Repoint \/ ChangeFirmware \/ Crash
  BY <1>6, <1>7 DEF overrideVars, Repoint, ChangeFirmware, Crash, rows
<1>8. CASE Boot \/ Recovered \/ BeginDue \/ ListExpired \/ EndDue
  BY <1>6, <1>8 DEF Boot, Recovered, BeginDue, ListExpired, EndDue, rows
<1>9. ASSUME NEW o \in Overrides, StrandDue(o) PROVE Single'
  BY <1>6, <1>9 DEF StrandDue, rows
<1>10. ASSUME NEW o \in Overrides, ExpireDue(o), o \notin DueActive PROVE Single'
  BY <1>6, <1>10 DEF ExpireDue
<1>11. ASSUME NEW k \in Keys, ReconcileDue(k), ~Unresolved(k) PROVE Single'
  BY <1>6, <1>11 DEF ReconcileDue, rows
<1>12. ASSUME NEW o \in Overrides, ExtendOverride(o) PROVE Single'
  <2>1. \A p \in Overrides : override'[p].status = override[p].status
    BY <1>0, <1>12 DEF ExtendOverride, Typed, RowsTyped, OverrideRows
  <2>2. Fixed
    BY <1>0, <1>12 DEF ExtendOverride, Fixed, Typed, RowsTyped, OverrideRows
  <2>3. QED
    BY <1>12, <2>1, <2>2, SingleLess DEF ExtendOverride
<1>13. CASE Tick
  <2>1. Fixed /\ \A p \in Overrides : override'[p].status = override[p].status
    BY <1>0, <1>13 DEF Tick, Fixed, Typed, RowsTyped, OverrideRows
  <2>2. \A q \in Keys : operation'[q].status = operation[q].status
    BY <1>0, <1>13 DEF Tick, Typed, RowsTyped, OperationRows
  <2>3. \A p \in Overrides : operation'[<<p, "release">>].status = operation[<<p, "release">>].status
    BY <2>2, KeyParts DEF Sides
  <2>4. QED
    BY <1>13, <2>1, <2>3, SingleLess DEF Tick
<1>14. CASE AttemptStep
  BY <1>14, SingleAttempt
<1>15. CASE DueStep
  BY <1>4, <1>5, <1>8, <1>9, <1>10, <1>11, <1>15 DEF DueStep
<1>16. CASE StartUp
  BY <1>8, <1>16, SingleRecover DEF StartUp
<1>17. QED
  BY <1>1, <1>2, <1>3, <1>7, <1>12, <1>13, <1>14, <1>15, <1>16 DEF OverrideNext

(* Whatever is replaced, cancelled, expired, reconciled or recovered, and   *)
(* in whatever order outcomes arrive, two overrides hold the pin only      *)
(* after its mapping was moved.                                            *)
THEOREM OverlapsComeFromRepoint == OverrideSafety => []OverlapNeedsRepoint
<1>1. OverrideInit => NobodyLeft /\ Single
  BY TypedInit, LineagesInit, SingleInit DEF NobodyLeft
<1>2. NobodyLeft /\ Single /\ [OverrideNext]_overrideVars => (NobodyLeft /\ Single)'
  BY TypedNext, LineagesNext, SingleNext DEF NobodyLeft
<1>3. NobodyLeft /\ Single => OverlapNeedsRepoint
  <2>1. SUFFICES ASSUME Single, mapped = "first" PROVE Cardinality(Active) <= 1
    BY DEF OverlapNeedsRepoint, NoOverlap
  <2>2. \A a, b \in Active : a = b
    BY <2>1 DEF Single, Alone, Active
  <2>3. CASE Active = {}
    BY <2>3, FS_EmptySet
  <2>4. CASE Active # {}
    <3>1. PICK a : a \in Active
      BY <2>4
    <3>2. Active = {a}
      BY <2>2, <3>1
    <3>3. Cardinality({a}) = 1
      BY FS_Singleton
    <3>4. QED
      BY <3>2, <3>3
  <2>5. QED
    BY <2>3, <2>4
<1>4. QED
  BY <1>1, <1>2, <1>3, PTL DEF OverrideSafety
=============================================================================
