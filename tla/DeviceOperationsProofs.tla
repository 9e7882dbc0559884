----------------------- MODULE DeviceOperationsProofs -----------------------
(***************************************************************************)
(* What holds of DeviceOperations for any set of devices and operations,   *)
(* any timings, and any number of crashes and clock steps.                 *)
(***************************************************************************)
EXTENDS DeviceOperations, TLAPS

-----------------------------------------------------------------------------
(* Types. *)

\* The call nobody has made yet is a call.
LEMMA IdleCallIsCall == IdleCall \in Call
  BY DEF IdleCall, Call, Steps, Results

\* The row nobody has written yet is a row.
LEMMA NoRowIsRow == NoRow \in Row
  BY DEF NoRow, Row, Statuses, Origins, None

\* An attempt ends in a terminal status.
LEMMA StatusOfIsTerminal ==
  ASSUME NEW result
  PROVE  StatusOf(result) \in Terminal
  BY DEF StatusOf, Terminal, Statuses

\* What an identifier is issued for names a device.
LEMMA RequestIsTyped ==
  ASSUME NEW op \in Ops
  PROVE  DeviceOf(op) \in Devices
  BY OperationConstants DEF DeviceOf, Requests

\* Settling a row keeps it dated.
LEMMA SettleIsTyped ==
  ASSUME TypeOK, NEW op \in Ops, NEW status \in Terminal, NEW at \in Nat,
         NEW unsent \in BOOLEAN, Settle(op, status, at, unsent)
  PROVE  row' \in [Ops -> Row] /\ \A o \in Ops : Dated(row'[o])
<1> DEFINE new == [row[op] EXCEPT !.status = status, !.completedAt = at,
                                  !.unsent = unsent]
<1>1. row[op] \in Row
  BY DEF TypeOK
<1>2. status \in Statuses /\ status \notin {"pending", "in_flight"}
  BY DEF Terminal
<1>3. new \in Row
  BY <1>1, <1>2 DEF Row
<1>4. Dated(new)
  BY <1>1, <1>2 DEF Settle, Row, Dated, None
<1>5. row' = [row EXCEPT ![op] = new]
  BY <1>1 DEF Settle, TypeOK, Row
<1>6. QED
  BY <1>3, <1>4, <1>5 DEF TypeOK

\* Reconciling a row changes no date but its own.
LEMMA ReconcileIsTyped ==
  ASSUME TypeOK, NEW op \in Ops, NEW at \in Nat, NEW origin \in Origins,
         Reconcile(op, at, origin)
  PROVE  row' \in [Ops -> Row] /\ \A o \in Ops : Dated(row'[o])
<1> DEFINE new == [row[op] EXCEPT !.reconciledAt = at, !.reconciledBy = origin]
<1>1. row \in [Ops -> Row] /\ row[op] \in Row /\ \A o \in Ops : Dated(row[o])
  BY DEF TypeOK
<1>2. new \in Row
  BY <1>1 DEF Row
<1>3. /\ new.status = row[op].status
      /\ new.completedAt = row[op].completedAt
      /\ new.requestedAt = row[op].requestedAt
  BY <1>1 DEF Row
<1>4. Dated(new)
  BY <1>1, <1>3 DEF Dated
<1>5. row' = [row EXCEPT ![op] = new]
  BY <1>1 DEF Reconcile, Row
<1> HIDE DEF new
<1>6. QED
  BY <1>1, <1>2, <1>4, <1>5

\* Moving a call on, or leaving it, keeps its locals in range.
LEMMA GotoIsTyped ==
  ASSUME TypeOK, NEW op \in Ops, NEW step \in Steps
  PROVE  Goto(op, step) \in [Ops -> Call] /\ Leave(op, step) \in [Ops -> Call]
  BY IdleCallIsCall DEF TypeOK, Goto, Leave, Call

\* The head of #attempt keeps the types, whether it reserves or throws.
LEMMA AttemptIsTyped ==
  ASSUME TypeOK, NEW op \in Ops, NEW reserve \in BOOLEAN,
         StartAttempt(op, reserve)
  PROVE  call' \in [Ops -> Call] /\ active' \subseteq Devices
<1>1. CASE now < row[op].requestedAt
  BY <1>1, GotoIsTyped DEF StartAttempt, TypeOK, Steps
<1>2. CASE ~(now < row[op].requestedAt)
  <2> DEFINE step == IF now >= DeadlineOf(op) THEN "expire" ELSE "mark"
             new == [IdleCall EXCEPT !.pc = step, !.reserved = reserve,
                                     !.attemptAt = now]
  <2>1. new \in Call
    <3>1. step \in Steps
      BY DEF Steps
    <3> HIDE DEF step
    <3>2. QED
      BY <3>1, IdleCallIsCall DEF Call, TypeOK
  <2>2. call' = [call EXCEPT ![op] = new]
    BY <1>2 DEF StartAttempt
  <2>3. active' \subseteq Devices
    BY <1>2, RequestIsTyped DEF StartAttempt, TypeOK
  <2>4. QED
    BY <2>1, <2>2, <2>3 DEF TypeOK
<1>3. QED
  BY <1>1, <1>2

\* So does the answer of the transport.
LEMMA ReturnIsTyped ==
  ASSUME TypeOK, NEW op \in Ops, NEW result \in Results, Return(op, result)
  PROVE  call' \in [Ops -> Call] /\ active' \subseteq Devices
<1>1. CASE now < call[op].attemptAt
  BY <1>1, GotoIsTyped DEF Return, TypeOK, Steps, Released
<1>2. CASE ~(now < call[op].attemptAt)
  <2> DEFINE new == [call[op] EXCEPT !.pc = "complete", !.result = result,
                                     !.endedAt = now]
  <2>1. new \in Call
    <3>1. call[op] \in Call /\ now \in Nat
      BY DEF TypeOK
    <3>2. QED
      BY <3>1 DEF Call, Steps
  <2>2. call' = [call EXCEPT ![op] = new]
    BY <1>2 DEF Return, TypeOK, Call
  <2>3. QED
    BY <1>2, <2>1, <2>2 DEF Return, TypeOK
<1>3. QED
  BY <1>1, <1>2

\* Every step of a call keeps the types: one step per step of a call.
LEMMA ExecuteIsTyped ==
  ASSUME TypeOK, NEW op \in Ops, Execute(op)
  PROVE  TypeOK'
<1> USE DEF durable, memory, world
<1>1. ASSUME NEW eligible \in BOOLEAN, Begin(op, eligible) PROVE TypeOK'
  <2> DEFINE d == DeviceOf(op)
             scans == KindOf(op) = "set_pwm" /\ ScanDue(d, now)
             new == [IdleCall EXCEPT
                !.pc = IF scans THEN "scan" ELSE "create",
                !.requestedAt = now,
                !.eligible = eligible,
                !.scan = IF scans THEN ExpiredOutcomes(d, now) ELSE {}]
  <2>1. ExpiredOutcomes(d, now) \subseteq Ops
    BY DEF ExpiredOutcomes
  <2>2. new \in Call
    BY <2>1, IdleCallIsCall DEF Call, Steps, TypeOK
  <2>3. call' = [call EXCEPT ![op] = new]
    BY <1>1 DEF Begin
  <2>4. QED
    BY <1>1, <2>2, <2>3 DEF Begin, TypeOK
<1>2. ASSUME BeginPatch(op) PROVE TypeOK'
  <2> DEFINE new == [IdleCall EXCEPT !.pc = "create", !.requestedAt = now,
                                     !.eligible = TRUE]
  <2>1. new \in Call
    BY IdleCallIsCall DEF Call, Steps, TypeOK
  <2>2. QED
    BY <1>2, <2>1 DEF BeginPatch, TypeOK
<1>3. ASSUME NEW target \in Ops, ReconcileExpired(op, target) PROVE TypeOK'
  <2>1. call' \in [Ops -> Call]
    <3>1. CASE ~Exists(target)
      BY <1>3, <3>1, GotoIsTyped DEF ReconcileExpired, Steps
    <3>2. CASE Exists(target)
      <4> DEFINE new == [call[op] EXCEPT !.scan = @ \ {target}]
      <4>1. new \in Call
        BY DEF Call, TypeOK
      <4>2. call' = [call EXCEPT ![op] = new]
        BY <1>3, <3>2 DEF ReconcileExpired, TypeOK, Call
      <4>3. QED
        BY <4>1, <4>2 DEF TypeOK
    <3>3. QED
      BY <3>1, <3>2
  <2>2. row' \in [Ops -> Row] /\ \A o \in Ops : Dated(row'[o])
    <3>1. call[op].requestedAt \in Nat
      BY DEF TypeOK, Call
    <3>2. CASE Reconcile(target, call[op].requestedAt, "routine_expiry")
      BY <3>1, <3>2, ReconcileIsTyped DEF Origins
    <3>3. CASE UNCHANGED row
      BY <3>3 DEF TypeOK
    <3>4. QED
      BY <1>3, <3>2, <3>3 DEF ReconcileExpired
  <2>3. QED
    BY <1>3, <2>1, <2>2 DEF ReconcileExpired, TypeOK
<1>4. ASSUME FinishScan(op) PROVE TypeOK'
  <2>1. Goto(op, "create") \in [Ops -> Call]
    BY GotoIsTyped DEF Steps
  <2>2. call[op].requestedAt \in Nat
    BY DEF TypeOK, Call
  <2>3. QED
    BY <1>4, <2>1, <2>2, RequestIsTyped DEF FinishScan, TypeOK
<1>5. ASSUME CreatePending(op) PROVE TypeOK'
  <2> DEFINE new == [NoRow EXCEPT !.status = "pending",
                                  !.requestedAt = call[op].requestedAt]
             then == [Leave(op, "gate")[op] EXCEPT !.eligible = call[op].eligible]
  <2>1. new \in Row /\ Dated(new)
    BY NoRowIsRow DEF Row, Dated, Statuses, Terminal, TypeOK, Call, NoRow, None
  <2>2. Leave(op, "gate") \in [Ops -> Call]
    BY GotoIsTyped DEF Steps
  <2>3. then \in Call
    <3>1. Leave(op, "gate")[op] \in Call /\ call[op] \in Call
      BY <2>2 DEF TypeOK
    <3> DEFINE was == Leave(op, "gate")[op]
    <3> HIDE DEF was
    <3>2. [was EXCEPT !.eligible = call[op].eligible] \in Call
      BY <3>1 DEF Call, was
    <3>3. QED
      BY <3>2 DEF was
  <2>4. call' = [Leave(op, "gate") EXCEPT ![op] = then]
    BY <1>5, <2>2 DEF CreatePending, Call
  <2>5. QED
    BY <1>5, <2>1, <2>2, <2>3, <2>4 DEF CreatePending, TypeOK
<1>6. ASSUME TurnAway(op) PROVE TypeOK'
  BY <1>6, GotoIsTyped DEF TurnAway, TypeOK, Steps
<1>7. ASSUME Admit(op) PROVE TypeOK'
  BY <1>7, AttemptIsTyped, RequestIsTyped DEF Admit, TypeOK
<1>8. ASSUME StartBackgroundAttempt(op) PROVE TypeOK'
  BY <1>8, AttemptIsTyped DEF StartBackgroundAttempt, TypeOK
<1>9. ASSUME Cancel(op) PROVE TypeOK'
  <2>1. call' \in [Ops -> Call]
    BY <1>9, GotoIsTyped DEF Cancel, Steps
  <2>2. row' \in [Ops -> Row] /\ \A o \in Ops : Dated(row'[o])
    <3>1. CASE CompleteWithoutAttempt(op, "cancelled", now)
      BY <3>1, SettleIsTyped
         DEF CompleteWithoutAttempt, TypeOK, Terminal, Statuses
    <3>2. CASE UNCHANGED row
      BY <3>2 DEF TypeOK
    <3>3. QED
      BY <1>9, <3>1, <3>2 DEF Cancel
  <2>3. QED
    BY <1>9, <2>1, <2>2 DEF Cancel, TypeOK
<1>10. ASSUME ExpireBeforeAttempt(op) PROVE TypeOK'
  <2>1. call' \in [Ops -> Call]
    BY <1>10, GotoIsTyped DEF ExpireBeforeAttempt, Steps
  <2>2. call[op].attemptAt \in Nat
    BY DEF TypeOK, Call
  <2>3. row' \in [Ops -> Row] /\ \A o \in Ops : Dated(row'[o])
    BY <1>10, <2>2, SettleIsTyped
       DEF ExpireBeforeAttempt, CompleteWithoutAttempt, Terminal, Statuses
  <2>4. QED
    BY <1>10, <2>1, <2>3 DEF ExpireBeforeAttempt, TypeOK, Released
<1>11. ASSUME MarkInFlight(op) PROVE TypeOK'
  <2> DEFINE new == [row[op] EXCEPT !.status = "in_flight"]
  <2>1. new \in Row /\ Dated(new)
    BY <1>11 DEF MarkInFlight, TypeOK, Row, Dated, Statuses, Terminal
  <2>2. row' = [row EXCEPT ![op] = new]
    BY <1>11 DEF MarkInFlight, TypeOK, Row
  <2> HIDE DEF new
  <2>3. row' \in [Ops -> Row] /\ \A o \in Ops : Dated(row'[o])
    BY <2>1, <2>2 DEF TypeOK
  <2>4. call' \in [Ops -> Call]
    BY <1>11, GotoIsTyped DEF MarkInFlight, Steps
  <2>5. UNCHANGED <<owned, phase, toRecover, recoverAt, active, cooldown,
                    checkedAt, now, crashes, clockSteps, published>>
    BY <1>11 DEF MarkInFlight, memory, world
  <2>6. QED
    BY <2>3, <2>4, <2>5 DEF TypeOK
<1>12. ASSUME Refuse(op) PROVE TypeOK'
  BY <1>12, ReturnIsTyped DEF Refuse, TypeOK, Results
<1>13. ASSUME TransportThrows(op) PROVE TypeOK'
  BY <1>13, ReturnIsTyped DEF TransportThrows, TypeOK, Results
<1>14. ASSUME Publish(op) PROVE TypeOK'
  BY <1>14, GotoIsTyped DEF Publish, TypeOK, Steps
<1>15. ASSUME NEW result \in Results, Outcome(op, result) PROVE TypeOK'
  BY <1>15, ReturnIsTyped DEF Outcome, TypeOK
<1>16. ASSUME CompleteInFlight(op) PROVE TypeOK'
  <2>1. call[op].endedAt \in Nat /\ call[op].result \in Results
    BY DEF TypeOK, Call
  <2>2. row' \in [Ops -> Row] /\ \A o \in Ops : Dated(row'[o])
    <3>1. CASE row' = [row EXCEPT ![op].status = "deleted"]
      <4> DEFINE new == [row[op] EXCEPT !.status = "deleted"]
      <4>1. new \in Row /\ Dated(new)
        BY DEF TypeOK, Row, Dated, Statuses, Terminal
      <4>2. QED
        BY <3>1, <4>1 DEF TypeOK, Row
    <3>2. CASE Settle(op, StatusOf(call[op].result), call[op].endedAt,
                      call[op].result = "unsent")
      BY <2>1, <3>2, SettleIsTyped, StatusOfIsTerminal
    <3>3. QED
      BY <1>16, <3>1, <3>2 DEF CompleteInFlight
  <2>3. cooldown' \in [Devices -> Nat]
    BY <1>16, <2>1, RequestIsTyped, OperationConstants
       DEF CompleteInFlight, TypeOK
  <2>4. call' \in [Ops -> Call]
    BY <1>16, GotoIsTyped DEF CompleteInFlight, Steps
  <2>5. UNCHANGED <<owned, phase, toRecover, recoverAt, active, checkedAt,
                    now, crashes, clockSteps, published>>
    BY <1>16 DEF CompleteInFlight, world
  <2>6. QED
    BY <2>2, <2>3, <2>4, <2>5 DEF TypeOK
<1>17. ASSUME PostCompletion(op) PROVE TypeOK'
  BY <1>17, GotoIsTyped DEF PostCompletion, TypeOK, Steps, Released
<1>18. QED
  BY <1>1, <1>2, <1>3, <1>4, <1>5, <1>6, <1>7, <1>8, <1>9, <1>10, <1>11,
     <1>12, <1>13, <1>14, <1>15, <1>16, <1>17 DEF Execute

\* So does every reconciliation, retention and recovery of one row.
LEMMA MaintainIsTyped ==
  ASSUME TypeOK, NEW op \in Ops, Maintain(op)
  PROVE  TypeOK'
<1> USE DEF durable, memory, world
<1>1. now \in Nat
  BY DEF TypeOK
<1>2. ASSUME ReconcileByOperator(op) PROVE TypeOK'
  BY <1>1, <1>2, ReconcileIsTyped DEF ReconcileByOperator, TypeOK, Origins
<1>3. ASSUME ReconcileByOverride(op) PROVE TypeOK'
  BY <1>1, <1>3, ReconcileIsTyped DEF ReconcileByOverride, TypeOK, Origins
<1>4. ASSUME ReconcileBySchedule(op) PROVE TypeOK'
  BY <1>1, <1>4, ReconcileIsTyped DEF ReconcileBySchedule, TypeOK, Origins
<1>5. ASSUME ClaimByOverride(op) PROVE TypeOK'
  BY <1>5 DEF ClaimByOverride, TypeOK
<1>6. ASSUME ReleaseByOverride(op) PROVE TypeOK'
  BY <1>6 DEF ReleaseByOverride, TypeOK
<1>7. ASSUME PruneRoutineOperation(op) PROVE TypeOK'
  <2> DEFINE new == [row[op] EXCEPT !.status = "deleted"]
  <2>1. new \in Row /\ Dated(new)
    BY DEF TypeOK, Row, Dated, Statuses, Terminal
  <2>2. QED
    BY <1>7, <2>1 DEF PruneRoutineOperation, TypeOK, Row
<1>8. ASSUME Recover(op) PROVE TypeOK'
  <2>1. RecoveredStatus(op) \in Terminal
    BY DEF RecoveredStatus, Terminal, Statuses
  <2>2. recoverAt \in Nat
    BY DEF TypeOK
  <2>3. row' \in [Ops -> Row] /\ \A o \in Ops : Dated(row'[o])
    BY <1>8, <2>1, <2>2, SettleIsTyped DEF Recover
  <2>4. QED
    BY <1>8, <2>3 DEF Recover, TypeOK
<1>9. QED
  BY <1>2, <1>3, <1>4, <1>5, <1>6, <1>7, <1>8 DEF Maintain

\* So does every step of the process and of its surroundings.
LEMMA LifeIsTyped ==
  ASSUME TypeOK,
         \/ Boot \/ RecoveryFails \/ FinishRecovery
         \/ Crash \/ BeginShutdown \/ Exit
         \/ \E d \in Devices : SignalDeviceAvailable(d)
         \/ Tick \/ SetClockBack
  PROVE  TypeOK'
<1> USE DEF durable, memory, world, TypeOK
<1>1. CASE Boot
  BY <1>1 DEF Boot, Interrupted
<1>2. CASE RecoveryFails
  BY <1>2 DEF RecoveryFails
<1>3. CASE FinishRecovery
  BY <1>3 DEF FinishRecovery
<1>4. ASSUME ForgetMemory, UNCHANGED durable, UNCHANGED <<now, clockSteps, published>>,
             crashes' \in Nat
      PROVE  TypeOK'
  <2>1. [IdleCall EXCEPT !.pc = "lost"] \in Call
    BY IdleCallIsCall DEF Call, Steps
  <2>2. call' \in [Ops -> Call]
    BY <1>4, <2>1 DEF ForgetMemory
  <2>3. QED
    BY <1>4, <2>2 DEF ForgetMemory
<1>5. CASE Crash
  BY <1>4, <1>5 DEF Crash
<1>6. CASE BeginShutdown
  BY <1>6 DEF BeginShutdown
<1>7. CASE Exit
  BY <1>4, <1>7 DEF Exit
<1>8. ASSUME NEW d \in Devices, SignalDeviceAvailable(d) PROVE TypeOK'
  BY <1>8 DEF SignalDeviceAvailable
<1>9. CASE Tick
  BY <1>9 DEF Tick
<1>10. CASE SetClockBack
  BY <1>10 DEF SetClockBack
<1>11. QED
  BY <1>1, <1>2, <1>3, <1>5, <1>6, <1>7, <1>8, <1>9, <1>10

\* Every variable keeps its type, and a row carries a completion time no
\* earlier than its request exactly when it is settled.
THEOREM TypeCorrect == Spec => []TypeOK
<1>1. Init => TypeOK
  <2> SUFFICES ASSUME Init PROVE TypeOK
    OBVIOUS
  <2>1. Dated(NoRow)
    BY DEF Dated, NoRow, Terminal, Statuses
  <2>2. row \in [Ops -> Row] /\ \A op \in Ops : Dated(row[op])
    BY <2>1, NoRowIsRow DEF Init
  <2>3. call \in [Ops -> Call]
    BY IdleCallIsCall DEF Init
  <2>4. QED
    BY <2>2, <2>3 DEF Init, TypeOK
<1>2. TypeOK /\ [Next]_vars => TypeOK'
  <2> SUFFICES ASSUME TypeOK, [Next]_vars PROVE TypeOK'
    OBVIOUS
  <2>1. CASE UNCHANGED vars
    BY <2>1 DEF vars, durable, memory, world, TypeOK
  <2>2. ASSUME NEW op \in Ops, Execute(op) PROVE TypeOK'
    BY <2>2, ExecuteIsTyped
  <2>3. ASSUME NEW op \in Ops, Maintain(op) PROVE TypeOK'
    BY <2>3, MaintainIsTyped
  <2>4. QED
    BY <2>1, <2>2, <2>3, LifeIsTyped DEF Next
<1>3. QED
  BY <1>1, <1>2, PTL DEF Spec

-----------------------------------------------------------------------------
(* Consistency: what the place a call has reached says of its row, what the *)
(* row says of the wire, and what the phase says of both.                   *)

CallMatchesRow(op) ==
    /\ call[op].pc \in {"idle", "scan", "create"} => row[op].status = "absent"
    /\ call[op].pc \in {"gate", "cancel", "expire", "mark"} =>
           row[op].status = "pending"
    /\ call[op].pc \in {"send", "published", "complete"} =>
           row[op].status = "in_flight"
    /\ call[op].pc \in {"post", "done"} => ~Live(op)

CallMatchesWire(op) ==
    /\ call[op].pc = "send" => published[op] = 0
    /\ call[op].pc = "published" => published[op] = 1
    /\ call[op].pc = "complete" /\ call[op].result = "unsent" =>
           published[op] = 0
    /\ call[op].pc = "complete"
       /\ call[op].result \in {"succeeded", "device_error", "protocol_error"} =>
           published[op] = 1

RowMatchesWire(op) ==
    /\ row[op].status \in {"absent", "pending", "cancelled", "timed_out"} =>
           published[op] = 0
    /\ row[op].status = "failed" /\ row[op].unsent => published[op] = 0
    /\ published[op] \in {0, 1}

PhaseMatches(op) ==
    /\ phase \in {"down", "recovering"} => call[op].pc \in {"idle", "lost"}
    /\ op \in toRecover => phase = "recovering" /\ Live(op)

Consistent ==
    \A op \in Ops : /\ CallMatchesRow(op)
                    /\ CallMatchesWire(op)
                    /\ RowMatchesWire(op)
                    /\ PhaseMatches(op)

\* A step that touches one operation leaves what the others' parts read.
LeavesOthers(op) ==
    /\ phase' = phase
    /\ toRecover' \subseteq toRecover
    /\ \A o \in Ops \ {op} : /\ call'[o] = call[o]
                             /\ row'[o].status = row[o].status
                             /\ row'[o].unsent = row[o].unsent
                             /\ published'[o] = published[o]

ConsistentAt(op) == /\ CallMatchesRow(op)
                    /\ CallMatchesWire(op)
                    /\ RowMatchesWire(op)
                    /\ PhaseMatches(op)

\* A step of one operation need only be followed on that operation.
LEMMA ConsistentByFrame ==
  ASSUME Consistent, NEW op \in Ops, LeavesOthers(op), ConsistentAt(op)'
  PROVE  Consistent'
  BY DEF Consistent, ConsistentAt, LeavesOthers, CallMatchesRow,
         CallMatchesWire, RowMatchesWire, PhaseMatches, Live

\* The step that answers or gives up an attempt.
LEMMA ReturnKeepsConsistent ==
  ASSUME TypeOK, Consistent, NEW op \in Ops, NEW result \in Results,
         Return(op, result), UNCHANGED <<row, phase, toRecover, published>>,
         call[op].pc \in {"send", "published"},
         result = "unsent" => published[op] = 0,
         result \in {"succeeded", "device_error", "protocol_error"} =>
             published[op] = 1
  PROVE  Consistent'
<1>1. ConsistentAt(op)
  BY DEF Consistent, ConsistentAt
<1>2. /\ call'[op].pc \in {"stranded", "complete"}
      /\ call'[op].pc = "complete" => call'[op].result = result
      /\ \A o \in Ops \ {op} : call'[o] = call[o]
  BY DEF Return, Leave, IdleCall, TypeOK, Call
<1>3. ConsistentAt(op)'
  BY <1>1, <1>2 DEF ConsistentAt, CallMatchesRow, CallMatchesWire,
     RowMatchesWire, PhaseMatches, Live
<1>4. QED
  BY <1>2, <1>3, ConsistentByFrame DEF LeavesOthers

\* The head of #attempt leaves the row it read pending.
LEMMA AttemptKeepsConsistent ==
  ASSUME TypeOK, Consistent, NEW op \in Ops, NEW reserve,
         StartAttempt(op, reserve), UNCHANGED <<row, phase, toRecover, published>>,
         call[op].pc = "gate"
  PROVE  Consistent'
<1>1. ConsistentAt(op)
  BY DEF Consistent, ConsistentAt
<1>2. /\ call'[op].pc \in {"stranded", "expire", "mark"}
      /\ \A o \in Ops \ {op} : call'[o] = call[o]
  <2>1. CASE now < row[op].requestedAt
    BY <2>1 DEF StartAttempt, Leave, IdleCall, TypeOK
  <2>2. CASE ~(now < row[op].requestedAt)
    <3> DEFINE step == IF now >= DeadlineOf(op) THEN "expire" ELSE "mark"
    <3>1. step \in {"expire", "mark"}
      OBVIOUS
    <3>2. call' = [call EXCEPT ![op] = [IdleCall EXCEPT
                     !.pc = step, !.reserved = reserve, !.attemptAt = now]]
      BY <2>2 DEF StartAttempt
    <3> HIDE DEF step
    <3>3. QED
      BY <3>1, <3>2 DEF IdleCall, TypeOK
  <2>3. QED
    BY <2>1, <2>2
<1>3. ConsistentAt(op)'
  BY <1>1, <1>2 DEF ConsistentAt, CallMatchesRow, CallMatchesWire,
     RowMatchesWire, PhaseMatches, Live
<1>4. QED
  BY <1>2, <1>3, ConsistentByFrame DEF LeavesOthers

\* A step of a call moves the call, its row and the wire together.
LEMMA ExecuteKeepsConsistent ==
  ASSUME TypeOK, Consistent, NEW op \in Ops, Execute(op)
  PROVE  Consistent'
<1> USE DEF durable, memory, world
<1>1. ConsistentAt(op) /\ row[op] \in Row /\ call[op] \in Call
  BY DEF Consistent, ConsistentAt, TypeOK
\* Steps whose only effect here is that the call moves on.
<1>2. ASSUME UNCHANGED <<phase, toRecover, published>>,
             \A o \in Ops : /\ row'[o].status = row[o].status
                            /\ row'[o].unsent = row[o].unsent,
             \A o \in Ops \ {op} : call'[o] = call[o],
             \/ /\ call[op].pc = "idle" /\ phase = "running"
                /\ call'[op].pc \in {"scan", "create"}
             \/ /\ call[op].pc = "scan"
                /\ call'[op].pc \in {"scan", "create", "stranded"}
             \/ /\ call[op].pc = "gate"
                /\ call'[op].pc = "cancel"
             \/ /\ call[op].pc = "cancel"
                /\ call'[op].pc = "stranded"
             \/ /\ call[op].pc = "post"
                /\ call'[op].pc = "done"
      PROVE  Consistent'
  <2>1. ConsistentAt(op)'
    BY <1>1, <1>2 DEF ConsistentAt, CallMatchesRow, CallMatchesWire,
       RowMatchesWire, PhaseMatches, Live
  <2>2. QED
    BY <1>2, <2>1, ConsistentByFrame DEF LeavesOthers
\* Steps that settle the row, or move it along, together with the call.
<1>3. ASSUME NEW to, NEW step, UNCHANGED <<phase, toRecover, published>>,
             row'[op].status = to, call'[op].pc = step,
             \A o \in Ops \ {op} : call'[o] = call[o] /\ row'[o] = row[o],
             \/ call[op].pc = "create" /\ to = "pending" /\ step = "gate"
             \/ call[op].pc = "cancel" /\ to = "cancelled" /\ step = "done"
             \/ call[op].pc = "expire" /\ to = "timed_out" /\ step = "done"
             \/ call[op].pc = "mark" /\ to = "in_flight" /\ step = "send"
             \/ /\ call[op].pc = "complete" /\ step = "post"
                /\ to \in {"succeeded", "failed", "outcome_unknown", "deleted"}
                /\ to = "failed" /\ row'[op].unsent => call[op].result = "unsent"
      PROVE  Consistent'
  <2>1. ConsistentAt(op)'
    BY <1>1, <1>3 DEF ConsistentAt, CallMatchesRow, CallMatchesWire,
       RowMatchesWire, PhaseMatches, Live
  <2>2. QED
    BY <1>3, <2>1, ConsistentByFrame DEF LeavesOthers
<1>4. ASSUME NEW eligible \in BOOLEAN, Begin(op, eligible) PROVE Consistent'
  BY <1>2, <1>4 DEF Begin, IdleCall, TypeOK
<1>5. ASSUME BeginPatch(op) PROVE Consistent'
  BY <1>2, <1>5 DEF BeginPatch, IdleCall, TypeOK
<1>6. ASSUME NEW target \in Ops, ReconcileExpired(op, target) PROVE Consistent'
  <2>1. \A o \in Ops : /\ row'[o].status = row[o].status
                       /\ row'[o].unsent = row[o].unsent
    BY <1>6 DEF ReconcileExpired, Reconcile, TypeOK, Row
  <2>2. /\ call'[op].pc \in {"scan", "stranded"}
        /\ \A o \in Ops \ {op} : call'[o] = call[o]
    BY <1>1, <1>6 DEF ReconcileExpired, Leave, IdleCall, TypeOK, Call
  <2>3. QED
    BY <1>2, <1>6, <2>1, <2>2 DEF ReconcileExpired
<1>7. ASSUME FinishScan(op) PROVE Consistent'
  BY <1>1, <1>2, <1>7 DEF FinishScan, Goto, TypeOK, Call
<1>8. ASSUME CreatePending(op) PROVE Consistent'
  <2>1. /\ row'[op].status = "pending"
        /\ \A o \in Ops \ {op} : row'[o] = row[o]
    BY <1>8 DEF CreatePending, NoRow, TypeOK
  <2>2. /\ call'[op].pc = "gate"
        /\ \A o \in Ops \ {op} : call'[o] = call[o]
    BY <1>8 DEF CreatePending, Leave, IdleCall, TypeOK
  <2>3. QED
    BY <1>3, <1>8, <2>1, <2>2 DEF CreatePending
<1>9. ASSUME TurnAway(op) PROVE Consistent'
  BY <1>1, <1>2, <1>9 DEF TurnAway, Goto, TypeOK, Call
<1>10. ASSUME Admit(op) PROVE Consistent'
  BY <1>10, AttemptKeepsConsistent DEF Admit
<1>11. ASSUME StartBackgroundAttempt(op) PROVE Consistent'
  BY <1>11, AttemptKeepsConsistent DEF StartBackgroundAttempt
<1>12. ASSUME Cancel(op) PROVE Consistent'
  <2>1. CASE now >= row[op].requestedAt
    <3>1. /\ row'[op].status = "cancelled" /\ call'[op].pc = "done"
          /\ \A o \in Ops \ {op} : call'[o] = call[o] /\ row'[o] = row[o]
      BY <1>1, <1>12, <2>1 DEF Cancel, CompleteWithoutAttempt, Settle, Leave,
         IdleCall, TypeOK, Row
    <3>2. QED
      BY <1>3, <1>12, <3>1 DEF Cancel
  <2>2. CASE ~(now >= row[op].requestedAt)
    BY <1>2, <1>12, <2>2 DEF Cancel, Leave, IdleCall, TypeOK
  <2>3. QED
    BY <2>1, <2>2
<1>13. ASSUME ExpireBeforeAttempt(op) PROVE Consistent'
  <2>1. /\ row'[op].status = "timed_out" /\ call'[op].pc = "done"
        /\ \A o \in Ops \ {op} : call'[o] = call[o] /\ row'[o] = row[o]
    BY <1>1, <1>13 DEF ExpireBeforeAttempt, CompleteWithoutAttempt, Settle,
       Leave, IdleCall, TypeOK, Row
  <2>2. QED
    BY <1>3, <1>13, <2>1 DEF ExpireBeforeAttempt
<1>14. ASSUME MarkInFlight(op) PROVE Consistent'
  <2>1. /\ row'[op].status = "in_flight" /\ call'[op].pc = "send"
        /\ \A o \in Ops \ {op} : call'[o] = call[o] /\ row'[o] = row[o]
    BY <1>1, <1>14 DEF MarkInFlight, Goto, TypeOK, Row, Call
  <2>2. QED
    BY <1>3, <1>14, <2>1 DEF MarkInFlight
<1>15. ASSUME Refuse(op) PROVE Consistent'
  BY <1>1, <1>15, ReturnKeepsConsistent
     DEF Refuse, Results, ConsistentAt, CallMatchesWire
<1>16. ASSUME TransportThrows(op) PROVE Consistent'
  BY <1>1, <1>16, ReturnKeepsConsistent DEF TransportThrows, Results
<1>17. ASSUME Publish(op) PROVE Consistent'
  <2>1. /\ call'[op].pc = "published" /\ published'[op] = 1
        /\ \A o \in Ops \ {op} : call'[o] = call[o] /\ published'[o] = published[o]
    BY <1>1, <1>17 DEF Publish, Goto, TypeOK, Call, ConsistentAt, CallMatchesWire
  <2>2. ConsistentAt(op)'
    BY <1>1, <1>17, <2>1 DEF Publish, ConsistentAt, CallMatchesRow,
       CallMatchesWire, RowMatchesWire, PhaseMatches, Live
  <2>3. QED
    BY <1>17, <2>1, <2>2, ConsistentByFrame DEF Publish, LeavesOthers
<1>18. ASSUME NEW result \in Results, Outcome(op, result) PROVE Consistent'
  BY <1>1, <1>18, ReturnKeepsConsistent DEF Outcome, ConsistentAt, CallMatchesWire
<1>19. ASSUME CompleteInFlight(op) PROVE Consistent'
  <2>1. /\ call'[op].pc = "post"
        /\ \A o \in Ops \ {op} : call'[o] = call[o]
    BY <1>1, <1>19 DEF CompleteInFlight, Goto, TypeOK, Call
  <2>2. \A o \in Ops \ {op} : row'[o] = row[o]
    BY <1>19 DEF CompleteInFlight, Settle, TypeOK, Row
  <2>3. CASE row' = [row EXCEPT ![op].status = "deleted"]
    <3>1. row'[op].status = "deleted"
      BY <1>1, <2>3 DEF TypeOK, Row
    <3>2. QED
      BY <1>3, <1>19, <2>1, <2>2, <3>1 DEF CompleteInFlight
  <2>4. CASE Settle(op, StatusOf(call[op].result), call[op].endedAt,
                    call[op].result = "unsent")
    <3>1. /\ row'[op].status = StatusOf(call[op].result)
          /\ row'[op].unsent = (call[op].result = "unsent")
      BY <1>1, <2>4 DEF Settle, TypeOK, Row
    <3>2. StatusOf(call[op].result) \in {"succeeded", "failed", "outcome_unknown"}
      BY DEF StatusOf
    <3>3. QED
      BY <1>3, <1>19, <2>1, <2>2, <3>1, <3>2 DEF CompleteInFlight
  <2>5. QED
    BY <1>19, <2>3, <2>4 DEF CompleteInFlight
<1>20. ASSUME PostCompletion(op) PROVE Consistent'
  BY <1>2, <1>20 DEF PostCompletion, Leave, IdleCall, TypeOK
<1>21. QED
  BY <1>4, <1>5, <1>6, <1>7, <1>8, <1>9, <1>10, <1>11, <1>12, <1>13, <1>14,
     <1>15, <1>16, <1>17, <1>18, <1>19, <1>20 DEF Execute

\* Reconciling, pruning and recovering touch only rows no call works on.
LEMMA MaintainKeepsConsistent ==
  ASSUME TypeOK, Consistent, NEW op \in Ops, Maintain(op)
  PROVE  Consistent'
<1> USE DEF durable, memory, world
<1>1. ConsistentAt(op) /\ row[op] \in Row
  BY DEF Consistent, ConsistentAt, TypeOK
\* Acknowledging or dropping a settled row.
<1>2. ASSUME UNCHANGED <<phase, toRecover, published, call>>,
             row'[op].unsent = row[op].unsent,
             \A o \in Ops \ {op} : row'[o] = row[o],
             \/ row'[op].status = row[op].status
             \/ ~Live(op) /\ row[op].status # "absent" /\ row'[op].status = "deleted"
      PROVE  Consistent'
  <2>1. ConsistentAt(op)'
    BY <1>1, <1>2 DEF ConsistentAt, CallMatchesRow, CallMatchesWire,
       RowMatchesWire, PhaseMatches, Live
  <2>2. QED
    BY <1>2, <2>1, ConsistentByFrame DEF LeavesOthers
<1>3. ASSUME NEW at, NEW origin, Reconcile(op, at, origin)
      PROVE  /\ row'[op].status = row[op].status
             /\ row'[op].unsent = row[op].unsent
             /\ \A o \in Ops \ {op} : row'[o] = row[o]
  BY <1>1, <1>3 DEF Reconcile, TypeOK, Row
<1>4. ASSUME ReconcileByOperator(op) PROVE Consistent'
  BY <1>2, <1>3, <1>4 DEF ReconcileByOperator
<1>5. ASSUME ReconcileByOverride(op) PROVE Consistent'
  BY <1>2, <1>3, <1>5 DEF ReconcileByOverride
<1>6. ASSUME ReconcileBySchedule(op) PROVE Consistent'
  BY <1>2, <1>3, <1>6 DEF ReconcileBySchedule
<1>7. ASSUME ClaimByOverride(op) PROVE Consistent'
  BY <1>2, <1>7 DEF ClaimByOverride
<1>8. ASSUME ReleaseByOverride(op) PROVE Consistent'
  BY <1>2, <1>8 DEF ReleaseByOverride
<1>9. ASSUME PruneRoutineOperation(op) PROVE Consistent'
  <2>1. /\ row'[op].status = "deleted" /\ row'[op].unsent = row[op].unsent
        /\ \A o \in Ops \ {op} : row'[o] = row[o]
    BY <1>1, <1>9 DEF PruneRoutineOperation, TypeOK, Row
  <2>2. ~Live(op) /\ row[op].status # "absent"
    BY <1>9 DEF PruneRoutineOperation, Live, Unknown
  <2>3. QED
    BY <1>2, <1>9, <2>1, <2>2 DEF PruneRoutineOperation
<1>10. ASSUME Recover(op) PROVE Consistent'
  <2>1. /\ row'[op].status = RecoveredStatus(op)
        /\ row'[op].unsent = FALSE
        /\ \A o \in Ops \ {op} : row'[o] = row[o]
    BY <1>1, <1>10 DEF Recover, Settle, TypeOK, Row
  <2>2. \/ row[op].status = "pending"
           /\ RecoveredStatus(op) \in {"timed_out", "cancelled"}
        \/ row[op].status = "in_flight" /\ RecoveredStatus(op) = "outcome_unknown"
    BY <1>1, <1>10 DEF Recover, RecoveredStatus, ConsistentAt, PhaseMatches, Live
  <2>3. ConsistentAt(op)'
    BY <1>1, <1>10, <2>1, <2>2 DEF Recover, ConsistentAt, CallMatchesRow,
       CallMatchesWire, RowMatchesWire, PhaseMatches, Live
  <2>4. QED
    BY <1>10, <2>1, <2>3, ConsistentByFrame DEF Recover, LeavesOthers
<1>11. QED
  BY <1>4, <1>5, <1>6, <1>7, <1>8, <1>9, <1>10 DEF Maintain

\* A crash forgets the calls and keeps what rows say of the wire.
LEMMA LifeKeepsConsistent ==
  ASSUME TypeOK, Consistent,
         \/ Boot \/ RecoveryFails \/ FinishRecovery
         \/ Crash \/ BeginShutdown \/ Exit
         \/ \E d \in Devices : SignalDeviceAvailable(d)
         \/ Tick \/ SetClockBack
  PROVE  Consistent'
<1> USE DEF durable, memory, world, Consistent, CallMatchesRow, CallMatchesWire,
            RowMatchesWire, PhaseMatches, Live
<1>1. CASE Boot
  BY <1>1 DEF Boot, Interrupted
<1>2. CASE RecoveryFails
  BY <1>2 DEF RecoveryFails
<1>3. CASE FinishRecovery
  BY <1>3 DEF FinishRecovery
<1>4. ASSUME ForgetMemory, UNCHANGED <<row, published>> PROVE Consistent'
  <2>1. \A o \in Ops : /\ call[o].pc # "idle" => call'[o].pc = "lost"
                       /\ call[o].pc = "idle" => call'[o] = call[o]
    BY <1>4 DEF ForgetMemory, IdleCall
  <2>2. phase' = "down" /\ toRecover' = {}
    BY <1>4 DEF ForgetMemory
  <2>3. QED
    BY <1>4, <2>1, <2>2
<1>5. CASE Crash
  BY <1>4, <1>5 DEF Crash
<1>6. CASE BeginShutdown
  BY <1>6 DEF BeginShutdown
<1>7. CASE Exit
  BY <1>4, <1>7 DEF Exit
<1>8. ASSUME NEW d \in Devices, SignalDeviceAvailable(d) PROVE Consistent'
  BY <1>8 DEF SignalDeviceAvailable
<1>9. CASE Tick
  BY <1>9 DEF Tick
<1>10. CASE SetClockBack
  BY <1>10 DEF SetClockBack
<1>11. QED
  BY <1>1, <1>2, <1>3, <1>5, <1>6, <1>7, <1>8, <1>9, <1>10

\* Where a call stands, what its row says and what has been published agree,
\* before, during and after recovery.
THEOREM Consistency == Spec => []Consistent
<1>1. Init => Consistent
  BY DEF Init, Consistent, IdleCall, NoRow, CallMatchesRow, CallMatchesWire,
         RowMatchesWire, PhaseMatches, Live
<1>2. TypeOK /\ Consistent /\ [Next]_vars => Consistent'
  <2> SUFFICES ASSUME TypeOK, Consistent, [Next]_vars PROVE Consistent'
    OBVIOUS
  <2>1. CASE UNCHANGED vars
    BY <2>1 DEF vars, durable, memory, world, Consistent, CallMatchesRow,
       CallMatchesWire, RowMatchesWire, PhaseMatches, Live
  <2>2. ASSUME NEW op \in Ops, Execute(op) PROVE Consistent'
    BY <2>2, ExecuteKeepsConsistent
  <2>3. ASSUME NEW op \in Ops, Maintain(op) PROVE Consistent'
    BY <2>3, MaintainKeepsConsistent
  <2>4. QED
    BY <2>1, <2>2, <2>3, LifeKeepsConsistent DEF Next
<1>3. QED
  BY <1>1, <1>2, TypeCorrect, PTL DEF Spec

\* A row that says "never attempted" or "refused by the transport" is right:
\* its command was never given to the broker, across any interruption.
THEOREM PhantomFree == Spec => []NoPhantomEffect
<1>1. Consistent => NoPhantomEffect
  BY DEF Consistent, RowMatchesWire, NoPhantomEffect
<1>2. QED
  BY <1>1, Consistency, PTL

\* No command is given to the broker twice.
THEOREM PublishedOnce == Spec => []AtMostOnePublication
<1>1. Consistent => AtMostOnePublication
  BY DEF Consistent, RowMatchesWire, AtMostOnePublication
<1>2. QED
  BY <1>1, Consistency, PTL

-----------------------------------------------------------------------------
(* The lease: who may be listed for reconciliation, and from when.          *)

Listable(t) == row[t].status \in {"outcome_unknown", "deleted"}

LeaseEnd(t) == row[t].completedAt + OverwriteLease

LeaseKept ==
    \A op \in Ops :
        /\ row[op].reconciledAt # None =>
               /\ Listable(op)
               /\ Request[op].overwrite => row[op].reconciledAt >= LeaseEnd(op)
        /\ \A t \in call[op].scan : /\ Listable(t)
                                    /\ call[op].requestedAt >= LeaseEnd(t)

\* What a step may do to a row, and to the list of a call.
RowStep(o) ==
    \/ row'[o] = row[o]
    \/ ~Listable(o) /\ row'[o].reconciledAt = row[o].reconciledAt
    \/ /\ Listable(o) /\ Listable(o)'
       /\ row'[o].completedAt = row[o].completedAt
       /\ \/ row'[o].reconciledAt = row[o].reconciledAt
          \/ Request[o].overwrite => row'[o].reconciledAt >= LeaseEnd(o)

ScanStep(o) ==
    \/ call'[o].scan = {}
    \/ /\ call'[o].scan \subseteq call[o].scan
       /\ call'[o].requestedAt = call[o].requestedAt

\* A step that does to every row and every list only what RowStep and
\* ScanStep allow keeps the lease.
LEMMA LeaseByFrame ==
  ASSUME TypeOK, LeaseKept, \A o \in Ops : RowStep(o) /\ ScanStep(o)
  PROVE  LeaseKept'
<1> SUFFICES ASSUME NEW op \in Ops
             PROVE  /\ row'[op].reconciledAt # None =>
                         /\ Listable(op)'
                         /\ Request[op].overwrite =>
                                row'[op].reconciledAt >= LeaseEnd(op)'
                    /\ \A t \in call'[op].scan :
                         Listable(t)' /\ call'[op].requestedAt >= LeaseEnd(t)'
  BY DEF LeaseKept, LeaseEnd
<1>1. row'[op].reconciledAt # None =>
         /\ Listable(op)'
         /\ Request[op].overwrite => row'[op].reconciledAt >= LeaseEnd(op)'
  BY DEF LeaseKept, RowStep, LeaseEnd, Listable
<1>2. ASSUME NEW t \in call'[op].scan
      PROVE  Listable(t)' /\ call'[op].requestedAt >= LeaseEnd(t)'
  <2>1. t \in call[op].scan /\ call'[op].requestedAt = call[op].requestedAt
    BY <1>2 DEF ScanStep
  <2>2. t \in Ops
    BY <2>1 DEF TypeOK, Call
  <2>3. Listable(t) /\ call[op].requestedAt >= LeaseEnd(t)
    BY <2>1 DEF LeaseKept
  <2>4. \/ row'[t] = row[t]
        \/ Listable(t)' /\ row'[t].completedAt = row[t].completedAt
    BY <2>2, <2>3 DEF RowStep
  <2>5. QED
    BY <2>1, <2>3, <2>4 DEF Listable, LeaseEnd
<1>3. QED
  BY <1>1, <1>2

\* A call that moves on keeps its list, or drops it with its other locals.
LEMMA GotoKeepsScan ==
  ASSUME TypeOK, NEW op \in Ops, NEW step,
         call' = Goto(op, step) \/ call' = Leave(op, step)
  PROVE  \A o \in Ops : ScanStep(o)
  BY DEF TypeOK, Call, Goto, Leave, IdleCall, ScanStep

\* A live row is on no list, so settling it disturbs none.
LEMMA SettleIsRowStep ==
  ASSUME TypeOK, NEW op \in Ops, NEW status, NEW at, NEW unsent,
         Settle(op, status, at, unsent), Live(op)
  PROVE  \A o \in Ops : RowStep(o)
<1>1. ~Listable(op)
  BY DEF Live, Listable
<1>2. /\ row'[op].reconciledAt = row[op].reconciledAt
      /\ \A o \in Ops \ {op} : row'[o] = row[o]
  BY DEF TypeOK, Row, Settle
<1>3. QED
  BY <1>1, <1>2 DEF RowStep

\* Reconciling after the lease keeps a row listable.
LEMMA ReconcileIsRowStep ==
  ASSUME TypeOK, NEW op \in Ops, NEW at, NEW origin,
         Reconcile(op, at, origin), Listable(op),
         Request[op].overwrite => at >= LeaseEnd(op)
  PROVE  \A o \in Ops : RowStep(o)
<1>1. /\ row'[op].reconciledAt = at
      /\ row'[op].status = row[op].status
      /\ row'[op].completedAt = row[op].completedAt
      /\ \A o \in Ops \ {op} : row'[o] = row[o]
  BY DEF TypeOK, Row, Reconcile
<1>2. QED
  BY <1>1 DEF RowStep, Listable, LeaseEnd

\* Deleting a settled row keeps its dates.
LEMMA DeleteIsRowStep ==
  ASSUME TypeOK, NEW op \in Ops, row' = [row EXCEPT ![op].status = "deleted"]
  PROVE  \A o \in Ops : RowStep(o)
<1>1. /\ row'[op].reconciledAt = row[op].reconciledAt
      /\ row'[op].status = "deleted"
      /\ row'[op].completedAt = row[op].completedAt
      /\ \A o \in Ops \ {op} : row'[o] = row[o]
  BY DEF TypeOK, Row
<1>2. QED
  BY <1>1 DEF RowStep, Listable

\* The steps of a call: only a listed row is reconciled, at the time its
\* list was made.
LEMMA ExecuteKeepsLease ==
  ASSUME TypeOK, Consistent, LeaseKept, NEW op \in Ops, Execute(op)
  PROVE  LeaseKept'
<1> USE DEF durable, memory, world
<1>1. ConsistentAt(op) /\ row[op] \in Row /\ call[op] \in Call
  BY DEF Consistent, ConsistentAt, TypeOK
<1>2. ASSUME UNCHANGED row, \A o \in Ops : ScanStep(o) PROVE LeaseKept'
  BY <1>2, LeaseByFrame DEF RowStep
<1>3. ASSUME NEW result, Return(op, result) PROVE \A o \in Ops : ScanStep(o)
  <2>1. CASE call' = Leave(op, "stranded")
    BY <2>1, GotoKeepsScan
  <2>2. CASE call' = [call EXCEPT ![op].pc = "complete", ![op].result = result,
                                  ![op].endedAt = now]
    BY <2>2 DEF TypeOK, Call, ScanStep
  <2>3. QED
    BY <1>3, <2>1, <2>2 DEF Return
<1>4. ASSUME NEW reserve, StartAttempt(op, reserve)
      PROVE  \A o \in Ops : ScanStep(o)
  <2>1. CASE call' = Leave(op, "stranded")
    BY <2>1, GotoKeepsScan
  <2>2. ASSUME NEW step, call' = [call EXCEPT ![op] = [IdleCall EXCEPT
                     !.pc = step, !.reserved = reserve, !.attemptAt = now]]
        PROVE  \A o \in Ops : ScanStep(o)
    BY <2>2 DEF TypeOK, Call, IdleCall, ScanStep
  <2>3. QED
    BY <1>4, <2>1, <2>2 DEF StartAttempt
<1>5. ASSUME NEW eligible \in BOOLEAN, Begin(op, eligible) PROVE LeaseKept'
  <2> DEFINE listed == call'[op].scan
  <2>1. /\ listed = {} \/ listed = ExpiredOutcomes(DeviceOf(op), now)
        /\ call'[op].requestedAt = now
        /\ \A o \in Ops \ {op} : call'[o] = call[o]
    <3> DEFINE d == DeviceOf(op)
               scans == KindOf(op) = "set_pwm" /\ ScanDue(d, now)
               step == IF scans THEN "scan" ELSE "create"
               list == IF scans THEN ExpiredOutcomes(d, now) ELSE {}
    <3>1. list = {} \/ list = ExpiredOutcomes(d, now)
      OBVIOUS
    <3>2. call' = [call EXCEPT ![op] = [IdleCall EXCEPT !.pc = step,
                     !.requestedAt = now, !.eligible = eligible, !.scan = list]]
      BY <1>5 DEF Begin
    <3> HIDE DEF step, list
    <3>3. call'[op].scan = list /\ call'[op].requestedAt = now
      BY <3>2 DEF TypeOK, IdleCall
    <3>4. \A o \in Ops \ {op} : call'[o] = call[o]
      BY <3>2 DEF TypeOK
    <3>5. QED
      BY <3>1, <3>3, <3>4
  <2>2. ASSUME NEW t \in listed
        PROVE  Listable(t) /\ now >= LeaseEnd(t)
    BY <2>1, <2>2 DEF ExpiredOutcomes, Listable, Unknown, LeaseEnd
  <2>3. row' = row
    BY <1>5 DEF Begin
  <2>4. QED
    BY <2>1, <2>2, <2>3 DEF LeaseKept, Listable, LeaseEnd
<1>6. ASSUME BeginPatch(op) PROVE LeaseKept'
  <2>1. \A o \in Ops : ScanStep(o)
    BY <1>6 DEF BeginPatch, IdleCall, TypeOK, ScanStep
  <2>2. QED
    BY <1>2, <1>6, <2>1 DEF BeginPatch
<1>7. ASSUME NEW target \in Ops, ReconcileExpired(op, target) PROVE LeaseKept'
  <2>1. Listable(target) /\ call[op].requestedAt >= LeaseEnd(target)
    BY <1>7 DEF ReconcileExpired, LeaseKept
  <2>2. \A o \in Ops : ScanStep(o)
    <3>1. CASE call' = Leave(op, "stranded")
      BY <3>1, GotoKeepsScan
    <3>2. CASE call' = [call EXCEPT ![op].scan = @ \ {target}]
      BY <3>2 DEF TypeOK, Call, ScanStep
    <3>3. QED
      BY <1>7, <3>1, <3>2 DEF ReconcileExpired
  <2>3. CASE Reconcile(target, call[op].requestedAt, "routine_expiry")
    BY <2>1, <2>2, <2>3, ReconcileIsRowStep, LeaseByFrame
  <2>4. CASE UNCHANGED row
    BY <1>2, <2>2, <2>4
  <2>5. QED
    BY <1>7, <2>3, <2>4 DEF ReconcileExpired
<1>8. ASSUME FinishScan(op) PROVE LeaseKept'
  BY <1>2, <1>8, GotoKeepsScan DEF FinishScan
<1>9. ASSUME CreatePending(op) PROVE LeaseKept'
  <2>1. \A o \in Ops : ScanStep(o)
    BY <1>9 DEF CreatePending, Leave, IdleCall, TypeOK, Call, ScanStep
  <2>2. row[op].reconciledAt = None /\ ~Listable(op)
    BY <1>1, <1>9 DEF CreatePending, ConsistentAt, CallMatchesRow, LeaseKept,
       Listable
  <2>3. /\ row'[op].reconciledAt = None
        /\ \A o \in Ops \ {op} : row'[o] = row[o]
    BY <1>9 DEF CreatePending, TypeOK, NoRow
  <2>4. \A o \in Ops : RowStep(o)
    BY <2>2, <2>3 DEF RowStep
  <2>5. QED
    BY <2>1, <2>4, LeaseByFrame
<1>10. ASSUME TurnAway(op) PROVE LeaseKept'
  BY <1>2, <1>10, GotoKeepsScan DEF TurnAway
<1>11. ASSUME Admit(op) PROVE LeaseKept'
  BY <1>2, <1>4, <1>11 DEF Admit
<1>12. ASSUME StartBackgroundAttempt(op) PROVE LeaseKept'
  BY <1>2, <1>4, <1>12 DEF StartBackgroundAttempt
<1>13. ASSUME Cancel(op) PROVE LeaseKept'
  <2>1. \A o \in Ops : ScanStep(o)
    BY <1>13, GotoKeepsScan DEF Cancel
  <2>2. CASE CompleteWithoutAttempt(op, "cancelled", now)
    BY <2>1, <2>2, SettleIsRowStep, LeaseByFrame DEF CompleteWithoutAttempt, Live
  <2>3. QED
    BY <1>2, <1>13, <2>1, <2>2 DEF Cancel
<1>14. ASSUME ExpireBeforeAttempt(op) PROVE LeaseKept'
  BY <1>14, GotoKeepsScan, SettleIsRowStep, LeaseByFrame
     DEF ExpireBeforeAttempt, CompleteWithoutAttempt, Live
<1>15. ASSUME MarkInFlight(op) PROVE LeaseKept'
  <2>1. /\ ~Listable(op)
        /\ row'[op].reconciledAt = row[op].reconciledAt
        /\ \A o \in Ops \ {op} : row'[o] = row[o]
    BY <1>1, <1>15 DEF MarkInFlight, Listable, TypeOK, Row
  <2>2. QED
    BY <1>15, <2>1, GotoKeepsScan, LeaseByFrame DEF MarkInFlight, RowStep
<1>16. ASSUME Refuse(op) PROVE LeaseKept'
  BY <1>2, <1>3, <1>16 DEF Refuse
<1>17. ASSUME TransportThrows(op) PROVE LeaseKept'
  BY <1>2, <1>3, <1>17 DEF TransportThrows
<1>18. ASSUME Publish(op) PROVE LeaseKept'
  BY <1>2, <1>18, GotoKeepsScan DEF Publish
<1>19. ASSUME NEW result \in Results, Outcome(op, result) PROVE LeaseKept'
  BY <1>2, <1>3, <1>19 DEF Outcome
<1>20. ASSUME CompleteInFlight(op) PROVE LeaseKept'
  <2>1. \A o \in Ops : RowStep(o)
    BY <1>20, SettleIsRowStep, DeleteIsRowStep DEF CompleteInFlight, Live
  <2>2. QED
    BY <1>20, <2>1, GotoKeepsScan, LeaseByFrame DEF CompleteInFlight
<1>21. ASSUME PostCompletion(op) PROVE LeaseKept'
  BY <1>2, <1>21, GotoKeepsScan DEF PostCompletion
<1>22. QED
  BY <1>5, <1>6, <1>7, <1>8, <1>9, <1>10, <1>11, <1>12, <1>13, <1>14,
     <1>15, <1>16, <1>17, <1>18, <1>19, <1>20, <1>21 DEF Execute

\* The other three ways to reconcile look at the clock themselves.
LEMMA MaintainKeepsLease ==
  ASSUME TypeOK, Consistent, LeaseKept, NEW op \in Ops, Maintain(op)
  PROVE  LeaseKept'
<1> USE DEF durable, memory, world
<1>1. \A o \in Ops : ScanStep(o)
  BY DEF Maintain, ReconcileByOperator, ReconcileByOverride, ReconcileBySchedule,
         ClaimByOverride, ReleaseByOverride, PruneRoutineOperation, Recover,
         ScanStep
<1>2. ASSUME NEW origin, Reconcilable(op, now), Reconcile(op, now, origin)
      PROVE  LeaseKept'
  BY <1>1, <1>2, ReconcileIsRowStep, LeaseByFrame
     DEF Reconcilable, Unknown, Listable, LeaseEnd
<1>3. ASSUME UNCHANGED row PROVE LeaseKept'
  BY <1>1, <1>3, LeaseByFrame DEF RowStep
<1>4. CASE PruneRoutineOperation(op)
  BY <1>1, <1>4, DeleteIsRowStep, LeaseByFrame DEF PruneRoutineOperation
<1>5. CASE Recover(op)
  <2>1. Live(op)
    BY <1>5 DEF Recover, Consistent, PhaseMatches
  <2>2. QED
    BY <1>1, <1>5, <2>1, SettleIsRowStep, LeaseByFrame DEF Recover
<1>6. QED
  BY <1>2, <1>3, <1>4, <1>5 DEF Maintain, ReconcileByOperator,
     ReconcileByOverride, ReconcileBySchedule, ClaimByOverride, ReleaseByOverride

\* A crash empties the lists.
LEMMA LifeKeepsLease ==
  ASSUME TypeOK, LeaseKept,
         \/ Boot \/ RecoveryFails \/ FinishRecovery
         \/ Crash \/ BeginShutdown \/ Exit
         \/ \E d \in Devices : SignalDeviceAvailable(d)
         \/ Tick \/ SetClockBack
  PROVE  LeaseKept'
<1>1. row' = row
  BY DEF Boot, RecoveryFails, FinishRecovery, Crash, BeginShutdown, Exit,
         SignalDeviceAvailable, Tick, SetClockBack, durable
<1>2. ASSUME ForgetMemory PROVE \A o \in Ops : ScanStep(o)
  BY <1>2 DEF ForgetMemory, IdleCall, ScanStep
<1>3. \A o \in Ops : ScanStep(o)
  BY <1>2 DEF Boot, RecoveryFails, FinishRecovery, Crash, BeginShutdown, Exit,
         SignalDeviceAvailable, Tick, SetClockBack, memory, ScanStep
<1>4. QED
  BY <1>1, <1>3, LeaseByFrame DEF RowStep

\* Every reconciled overwrite is past its lease, and so is every outcome on
\* the list of a call at the time the list was made.
THEOREM LeaseKeeping == Spec => []LeaseKept
<1>1. Init => LeaseKept
  BY DEF Init, LeaseKept, NoRow, IdleCall
<1>2. TypeOK /\ Consistent /\ LeaseKept /\ [Next]_vars => LeaseKept'
  <2> SUFFICES ASSUME TypeOK, Consistent, LeaseKept, [Next]_vars PROVE LeaseKept'
    OBVIOUS
  <2>1. CASE UNCHANGED vars
    BY <2>1 DEF vars, durable, memory, world, LeaseKept, Listable, LeaseEnd
  <2>2. QED
    BY <2>1, ExecuteKeepsLease, MaintainKeepsLease, LifeKeepsLease DEF Next
<1>3. QED
  BY <1>1, <1>2, TypeCorrect, Consistency, PTL DEF Spec

\* No unknown overwrite is declared reconciled before the firmware has let go
\* of it, whoever declares it and however old the list they work from is.
THEOREM LeaseSafe == Spec => []LeaseOutlivesReconciliation
<1>1. LeaseKept => LeaseOutlivesReconciliation
  BY DEF LeaseKept, LeaseOutlivesReconciliation, LeaseEnd
<1>2. QED
  BY <1>1, LeaseKeeping, PTL

-----------------------------------------------------------------------------
(* Who reconciles a child of an override.                                   *)

\* An override's children are writes of a value to an output.
OwnedArePwm == \A op \in owned : KindOf(op) = "set_pwm"

KeepsReconciliation == \A o \in Ops : row'[o].reconciledAt = row[o].reconciledAt

\* Settling a row says nothing about its reconciliation.
LEMMA SettleKeepsReconciliation ==
  ASSUME TypeOK, NEW op \in Ops, NEW status, NEW at, NEW unsent,
         Settle(op, status, at, unsent)
  PROVE  KeepsReconciliation
  BY DEF Settle, TypeOK, Row, KeepsReconciliation

\* Nor does any other change of its status.
LEMMA DeleteKeepsReconciliation ==
  ASSUME TypeOK, NEW op \in Ops, NEW status,
         row' = [row EXCEPT ![op].status = status]
  PROVE  KeepsReconciliation
  BY DEF TypeOK, Row, KeepsReconciliation

\* Reconciling one row leaves the others alone.
LEMMA ReconcileIsLocal ==
  ASSUME TypeOK, NEW op \in Ops, NEW at, NEW origin, Reconcile(op, at, origin)
  PROVE  /\ row'[op].reconciledBy = origin
         /\ \A o \in Ops \ {op} : row'[o] = row[o]
  BY DEF Reconcile, TypeOK, Row

\* Of the steps of a call only the routine scan reconciles anything, and it
\* asks again who owns the row before it does.
LEMMA ExecuteLeavesOwned ==
  ASSUME TypeOK, Consistent, LeaseKept, NEW op \in Ops, Execute(op)
  PROVE  \A child \in owned : row'[child].reconciledAt = row[child].reconciledAt
<1> USE DEF durable, memory, world
<1>0. owned \subseteq Ops
  BY DEF TypeOK
<1>1. CASE UNCHANGED row
  BY <1>1
<1>2. CASE KeepsReconciliation
  BY <1>0, <1>2 DEF KeepsReconciliation
<1>3. ASSUME NEW target \in Ops, ReconcileExpired(op, target)
      PROVE  \A child \in owned :
                row'[child].reconciledAt = row[child].reconciledAt
  <2>1. CASE /\ target \notin owned
             /\ Reconcile(target, call[op].requestedAt, "routine_expiry")
    <3>1. \A o \in Ops \ {target} : row'[o] = row[o]
      BY <2>1, ReconcileIsLocal
    <3>2. QED
      BY <1>0, <2>1, <3>1
  <2>2. CASE UNCHANGED row
    BY <2>2
  <2>3. QED
    BY <1>3, <2>1, <2>2 DEF ReconcileExpired
<1>4. ASSUME CreatePending(op) PROVE KeepsReconciliation
  <2>1. row[op].reconciledAt = None
    BY <1>4 DEF CreatePending, Consistent, CallMatchesRow, LeaseKept, Listable
  <2>2. /\ row'[op].reconciledAt = None
        /\ \A o \in Ops \ {op} : row'[o] = row[o]
    BY <1>4 DEF CreatePending, TypeOK, NoRow
  <2>3. QED
    BY <2>1, <2>2 DEF KeepsReconciliation
<1>5. CASE Cancel(op)
  BY <1>1, <1>2, <1>5, SettleKeepsReconciliation DEF Cancel, CompleteWithoutAttempt
<1>6. CASE ExpireBeforeAttempt(op)
  BY <1>2, <1>6, SettleKeepsReconciliation
     DEF ExpireBeforeAttempt, CompleteWithoutAttempt
<1>7. CASE MarkInFlight(op)
  BY <1>2, <1>7, DeleteKeepsReconciliation DEF MarkInFlight
<1>8. CASE CompleteInFlight(op)
  BY <1>2, <1>8, SettleKeepsReconciliation, DeleteKeepsReconciliation
     DEF CompleteInFlight
<1>9. ASSUME NEW eligible \in BOOLEAN, Begin(op, eligible) PROVE UNCHANGED row
  BY <1>9 DEF Begin
<1>10. CASE BeginPatch(op) \/ FinishScan(op) \/ TurnAway(op) \/ Publish(op)
            \/ PostCompletion(op)
  BY <1>1, <1>10 DEF BeginPatch, FinishScan, TurnAway, Publish, PostCompletion
<1>11. CASE Admit(op) \/ StartBackgroundAttempt(op)
            \/ Refuse(op) \/ TransportThrows(op)
  BY <1>1, <1>11 DEF Admit, StartBackgroundAttempt, Refuse, TransportThrows
<1>12. ASSUME NEW result \in Results, Outcome(op, result) PROVE UNCHANGED row
  BY <1>12 DEF Outcome
<1>13. QED
  BY <1>1, <1>2, <1>3, <1>4, <1>5, <1>6, <1>7, <1>8, <1>9, <1>10, <1>11,
     <1>12 DEF Execute

\* An operator is refused, a schedule has no such child, and the override
\* signs what it reconciles.
LEMMA MaintainLeavesOwned ==
  ASSUME TypeOK, OwnedArePwm, NEW op \in Ops, Maintain(op)
  PROVE  \A child \in owned :
            row'[child].reconciledAt # row[child].reconciledAt =>
                row'[child].reconciledBy = "manual_override"
<1> USE DEF durable, memory, world
<1>0. owned \subseteq Ops
  BY DEF TypeOK
<1>1. ASSUME NEW origin, Reconcile(op, now, origin),
             op \in owned => origin = "manual_override"
      PROVE  \A child \in owned :
                row'[child].reconciledAt # row[child].reconciledAt =>
                    row'[child].reconciledBy = "manual_override"
  <2>1. /\ row'[op].reconciledBy = origin
        /\ \A o \in Ops \ {op} : row'[o] = row[o]
    BY <1>1, ReconcileIsLocal
  <2>2. QED
    BY <1>0, <1>1, <2>1
<1>2. CASE KeepsReconciliation \/ UNCHANGED row
  BY <1>0, <1>2 DEF KeepsReconciliation
<1>3. CASE ReconcileByOperator(op)
  BY <1>1, <1>3 DEF ReconcileByOperator
<1>4. CASE ReconcileByOverride(op)
  BY <1>1, <1>4 DEF ReconcileByOverride
<1>5. CASE ReconcileBySchedule(op)
  <2>1. op \notin owned
    BY <1>5 DEF ReconcileBySchedule, OwnedArePwm
  <2>2. QED
    BY <1>1, <1>5, <2>1 DEF ReconcileBySchedule
<1>6. CASE PruneRoutineOperation(op)
  BY <1>2, <1>6, DeleteKeepsReconciliation DEF PruneRoutineOperation
<1>7. CASE Recover(op)
  BY <1>2, <1>7, SettleKeepsReconciliation DEF Recover
<1>8. QED
  BY <1>2, <1>3, <1>4, <1>5, <1>6, <1>7
     DEF Maintain, ClaimByOverride, ReleaseByOverride

\* Only a write of a value is ever claimed.
LEMMA OwnedStayPwm ==
  ASSUME OwnedArePwm, [Next]_vars
  PROVE  OwnedArePwm'
<1> USE DEF durable, memory, world
<1>1. ASSUME NEW op \in Ops, Execute(op) PROVE owned' = owned
  <2>1. ASSUME NEW eligible \in BOOLEAN, Begin(op, eligible)
        PROVE  owned' = owned
    BY <2>1 DEF Begin
  <2>2. ASSUME NEW target \in Ops, ReconcileExpired(op, target)
        PROVE  owned' = owned
    BY <2>2 DEF ReconcileExpired
  <2>3. CASE BeginPatch(op) \/ FinishScan(op) \/ CreatePending(op)
             \/ TurnAway(op) \/ Publish(op) \/ PostCompletion(op)
    BY <2>3 DEF BeginPatch, FinishScan, CreatePending, TurnAway, Publish,
       PostCompletion
  <2>4. CASE Admit(op) \/ StartBackgroundAttempt(op) \/ Refuse(op)
             \/ TransportThrows(op)
    BY <2>4 DEF Admit, StartBackgroundAttempt, Refuse, TransportThrows
  <2>5. CASE Cancel(op) \/ ExpireBeforeAttempt(op) \/ MarkInFlight(op)
    BY <2>5 DEF Cancel, ExpireBeforeAttempt, MarkInFlight
  <2>6. CASE CompleteInFlight(op)
    BY <2>6 DEF CompleteInFlight
  <2>7. ASSUME NEW result \in Results, Outcome(op, result)
        PROVE  owned' = owned
    BY <2>7 DEF Outcome
  <2>8. QED
    BY <1>1, <2>1, <2>2, <2>3, <2>4, <2>5, <2>6, <2>7 DEF Execute
<1>2. ASSUME NEW op \in Ops, ClaimByOverride(op) PROVE OwnedArePwm'
  BY <1>2 DEF ClaimByOverride, OwnedArePwm, KindOf
<1>3. ASSUME NEW op \in Ops, Maintain(op) PROVE OwnedArePwm'
  BY <1>2, <1>3 DEF Maintain, ReconcileByOperator, ReconcileByOverride,
     ReconcileBySchedule, ReleaseByOverride, PruneRoutineOperation, Recover,
     OwnedArePwm, KindOf
<1>4. ASSUME owned' = owned PROVE OwnedArePwm'
  BY <1>4 DEF OwnedArePwm, KindOf
<1>5. ASSUME \/ Boot \/ RecoveryFails \/ FinishRecovery
             \/ Crash \/ BeginShutdown \/ Exit
             \/ \E d \in Devices : SignalDeviceAvailable(d)
             \/ Tick \/ SetClockBack
      PROVE  owned' = owned
  BY <1>5 DEF Boot, RecoveryFails, FinishRecovery, Crash, BeginShutdown, Exit,
     SignalDeviceAvailable, Tick, SetClockBack
<1>6. QED
  BY <1>1, <1>3, <1>4, <1>5 DEF Next, vars

\* While an override owns a child of unknown outcome, nobody else declares it
\* reconciled: not an operator, not an announced schedule, and not a routine
\* scan that listed the row before the override claimed it.
THEOREM OwnerReconciles == Spec => OnlyTheOwnerReconciles
<1> DEFINE Signed == \A op \in owned :
                        row'[op].reconciledAt # row[op].reconciledAt =>
                            row'[op].reconciledBy = "manual_override"
<1>1. Init => OwnedArePwm
  BY DEF Init, OwnedArePwm
<1>2. OwnedArePwm /\ [Next]_vars => OwnedArePwm'
  BY OwnedStayPwm
<1>3. TypeOK /\ Consistent /\ LeaseKept /\ OwnedArePwm /\ [Next]_vars
         => [Signed]_vars
  <2> SUFFICES ASSUME TypeOK, Consistent, LeaseKept, OwnedArePwm, [Next]_vars
               PROVE  [Signed]_vars
    OBVIOUS
  <2>1. ASSUME NEW op \in Ops, Execute(op) PROVE Signed
    BY <2>1, ExecuteLeavesOwned
  <2>2. ASSUME NEW op \in Ops, Maintain(op) PROVE Signed
    BY <2>2, MaintainLeavesOwned
  <2>3. ASSUME UNCHANGED row PROVE Signed
    BY <2>3
  <2>4. CASE UNCHANGED vars
    BY <2>4
  <2>5. QED
    BY <2>1, <2>2, <2>3, <2>4
       DEF Next, Boot, RecoveryFails, FinishRecovery, Crash, BeginShutdown,
           Exit, SignalDeviceAvailable, Tick, SetClockBack, durable
<1>4. QED
  BY <1>1, <1>2, <1>3, TypeCorrect, Consistency, LeaseKeeping, PTL
     DEF Spec, OnlyTheOwnerReconciles

-----------------------------------------------------------------------------
(* Reservations, and rows nobody works on.                                  *)

\* Somebody will see to a live row of a recovered kind: its call while the
\* process runs, start-up recovery while it recovers.
Attended ==
    \A op \in Ops : Live(op) /\ KindOf(op) \in RecoveredKinds =>
        /\ phase \in {"running", "stopping"} => call[op].pc # "lost"
        /\ phase = "recovering" => op \in toRecover

ReservationKept ==
    /\ \A op \in Ops : call[op].reserved =>
           call[op].pc \in Attempting /\ DeviceOf(op) \in active
    /\ \A d \in active : \E op \in Ops : call[op].reserved /\ DeviceOf(op) = d
    /\ \A a, b \in Ops : /\ call[a].reserved /\ call[b].reserved
                         /\ DeviceOf(a) = DeviceOf(b)
                         => a = b

\* What one step of a call may do to the call and to the reservations.
CallStep(op) ==
    /\ \A o \in Ops \ {op} : call'[o] = call[o]
    /\ call[op].pc # "lost" /\ call'[op].pc # "lost"
    /\ \/ /\ active' = active
          /\ call'[op].reserved = call[op].reserved
          /\ call'[op].reserved => call'[op].pc \in Attempting
       \/ active' = Released(op) /\ ~call'[op].reserved
       \/ /\ DeviceOf(op) \notin active
          /\ active' = active \cup {DeviceOf(op)}
          /\ call'[op].reserved /\ call'[op].pc \in Attempting

\* A step that does to a call and to the reservations only what CallStep
\* allows keeps them matched.
LEMMA ReservationByFrame ==
  ASSUME TypeOK, ReservationKept, NEW op \in Ops, CallStep(op)
  PROVE  ReservationKept'
<1>1. CASE /\ active' = active
           /\ call'[op].reserved = call[op].reserved
           /\ call'[op].reserved => call'[op].pc \in Attempting
  BY <1>1 DEF ReservationKept, CallStep, DeviceOf
<1>2. CASE active' = Released(op) /\ ~call'[op].reserved
  <2>1. \A o \in Ops : call'[o].reserved =>
           call[o].reserved /\ call'[o] = call[o] /\ o # op
    BY <1>2 DEF CallStep
  <2>2. \A o \in Ops : call[o].reserved /\ o # op => call'[o].reserved
    BY DEF CallStep
  <2>3. CASE call[op].reserved
    <3>1. active' = active \ {DeviceOf(op)}
      BY <1>2, <2>3 DEF Released
    <3>2. QED
      BY <2>1, <2>2, <2>3, <3>1 DEF ReservationKept, DeviceOf
  <2>4. CASE ~call[op].reserved
    BY <1>2, <2>1, <2>2, <2>4 DEF ReservationKept, DeviceOf, Released
  <2>5. QED
    BY <2>3, <2>4
<1>3. CASE /\ DeviceOf(op) \notin active
           /\ active' = active \cup {DeviceOf(op)}
           /\ call'[op].reserved /\ call'[op].pc \in Attempting
  BY <1>3 DEF ReservationKept, CallStep, DeviceOf
<1>4. QED
  BY <1>1, <1>2, <1>3 DEF CallStep

\* A call that returns gives its reservation back.
LEMMA LeaveIsCallStep ==
  ASSUME TypeOK, NEW op \in Ops, NEW step, step # "lost",
         call' = Leave(op, step), active' = Released(op), call[op].pc # "lost"
  PROVE  CallStep(op)
  BY DEF TypeOK, Leave, IdleCall, CallStep

\* So does one that throws when its answer arrives.
LEMMA ReturnIsCallStep ==
  ASSUME TypeOK, NEW op \in Ops, NEW result, Return(op, result),
         call[op].pc # "lost"
  PROVE  CallStep(op)
<1>1. CASE now < call[op].attemptAt
  BY <1>1, LeaveIsCallStep DEF Return
<1>2. CASE ~(now < call[op].attemptAt)
  <2>1. /\ call'[op].pc = "complete"
        /\ call'[op].reserved = call[op].reserved
        /\ \A o \in Ops \ {op} : call'[o] = call[o]
    BY <1>2 DEF Return, TypeOK, Call
  <2>2. QED
    BY <1>2, <2>1 DEF Return, CallStep, Attempting
<1>3. QED
  BY <1>1, <1>2

\* An attempt that starts takes the reservation it was granted, or none.
LEMMA AttemptIsCallStep ==
  ASSUME TypeOK, ReservationKept, NEW op \in Ops, NEW reserve \in BOOLEAN,
         StartAttempt(op, reserve), call[op].pc = "gate",
         reserve => DeviceOf(op) \notin active
  PROVE  CallStep(op)
<1>1. ~call[op].reserved
  BY DEF ReservationKept, Attempting
<1>2. CASE now < row[op].requestedAt
  BY <1>1, <1>2, LeaveIsCallStep DEF StartAttempt, Released
<1>3. CASE ~(now < row[op].requestedAt)
  <2> DEFINE step == IF now >= DeadlineOf(op) THEN "expire" ELSE "mark"
  <2>1. step \in {"expire", "mark"}
    OBVIOUS
  <2>2. call' = [call EXCEPT ![op] = [IdleCall EXCEPT
                   !.pc = step, !.reserved = reserve, !.attemptAt = now]]
    BY <1>3 DEF StartAttempt
  <2> HIDE DEF step
  <2>3. /\ call'[op].pc = step
        /\ call'[op].reserved = reserve
        /\ \A o \in Ops \ {op} : call'[o] = call[o]
    BY <2>2 DEF IdleCall, TypeOK
  <2>4. step \in Attempting /\ step # "lost"
    BY <2>1 DEF Attempting
  <2>5. active' = IF reserve THEN active \cup {DeviceOf(op)} ELSE active
    BY <1>3 DEF StartAttempt
  <2>6. CASE reserve = TRUE
    BY <2>3, <2>4, <2>5, <2>6 DEF CallStep
  <2>7. CASE reserve = FALSE
    BY <1>1, <2>3, <2>4, <2>5, <2>7 DEF CallStep, Released
  <2>8. QED
    BY <2>6, <2>7
<1>4. QED
  BY <1>2, <1>3

\* Every step of a call is one CallStep describes.
LEMMA ExecuteIsCallStep ==
  ASSUME TypeOK, ReservationKept, NEW op \in Ops, Execute(op)
  PROVE  CallStep(op)
<1> USE DEF durable, memory, world
<1>1. /\ call[op] \in Call
      /\ call[op].reserved => call[op].pc \in Attempting
  BY DEF TypeOK, ReservationKept
\* A call that moves on, and one that returns before it reserved anything.
<1>2. ASSUME NEW step, call' = Goto(op, step), active' = active,
             call[op].pc # "lost", step # "lost",
             call[op].pc \in Attempting => step \in Attempting
      PROVE  CallStep(op)
  <2>1. /\ call'[op].pc = step
        /\ call'[op].reserved = call[op].reserved
        /\ \A o \in Ops \ {op} : call'[o] = call[o]
    BY <1>1, <1>2 DEF Goto, TypeOK, Call
  <2>2. QED
    BY <1>1, <1>2, <2>1 DEF CallStep
<1>3. ASSUME NEW new, call' = [call EXCEPT ![op] = new], active' = active,
             ~new.reserved, new.pc # "lost",
             call[op].pc \in {"idle", "scan", "create", "cancel"}
      PROVE  CallStep(op)
  <2>1. ~call[op].reserved
    BY <1>1, <1>3 DEF Attempting
  <2>2. call'[op] = new /\ \A o \in Ops \ {op} : call'[o] = call[o]
    BY <1>3 DEF TypeOK
  <2>3. QED
    BY <1>3, <2>1, <2>2 DEF CallStep, Released
<1>4. ASSUME NEW step, call' = Leave(op, step), active' = active,
             step # "lost", call[op].pc \in {"scan", "cancel"}
      PROVE  CallStep(op)
  <2> DEFINE new == [IdleCall EXCEPT !.pc = step]
  <2>1. ~new.reserved /\ new.pc = step
    BY DEF IdleCall
  <2>2. call' = [call EXCEPT ![op] = new]
    BY <1>4 DEF Leave
  <2> HIDE DEF new
  <2>3. QED
    BY <1>3, <1>4, <2>1, <2>2
<1>5. ASSUME NEW eligible \in BOOLEAN, Begin(op, eligible) PROVE CallStep(op)
  <2>1. call'[op].pc # "lost" /\ ~call'[op].reserved
        /\ \A o \in Ops \ {op} : call'[o] = call[o]
    BY <1>5 DEF Begin, IdleCall, TypeOK
  <2>2. QED
    BY <1>1, <1>5, <2>1 DEF Begin, CallStep, Attempting, Released
<1>6. ASSUME BeginPatch(op) PROVE CallStep(op)
  <2>1. call'[op].pc # "lost" /\ ~call'[op].reserved
        /\ \A o \in Ops \ {op} : call'[o] = call[o]
    BY <1>6 DEF BeginPatch, IdleCall, TypeOK
  <2>2. QED
    BY <1>1, <1>6, <2>1 DEF BeginPatch, CallStep, Attempting, Released
<1>7. ASSUME NEW target \in Ops, ReconcileExpired(op, target) PROVE CallStep(op)
  <2>1. CASE call' = Leave(op, "stranded")
    BY <1>4, <1>7, <2>1 DEF ReconcileExpired
  <2>2. CASE call' = [call EXCEPT ![op].scan = @ \ {target}]
    <3>1. /\ call'[op].pc = "scan" /\ call'[op].reserved = call[op].reserved
          /\ \A o \in Ops \ {op} : call'[o] = call[o]
      BY <1>1, <1>7, <2>2 DEF ReconcileExpired, TypeOK, Call
    <3>2. QED
      BY <1>1, <1>7, <3>1 DEF ReconcileExpired, CallStep, Attempting
  <2>3. QED
    BY <1>7, <2>1, <2>2 DEF ReconcileExpired
<1>8. ASSUME FinishScan(op) PROVE CallStep(op)
  BY <1>2, <1>8 DEF FinishScan, Attempting
<1>9. ASSUME CreatePending(op) PROVE CallStep(op)
  <2>1. /\ call'[op].pc = "gate" /\ ~call'[op].reserved
        /\ \A o \in Ops \ {op} : call'[o] = call[o]
    BY <1>9 DEF CreatePending, Leave, IdleCall, TypeOK
  <2>2. QED
    BY <1>1, <1>9, <2>1 DEF CreatePending, CallStep, Attempting, Released
<1>10. ASSUME TurnAway(op) PROVE CallStep(op)
  BY <1>2, <1>10 DEF TurnAway, Attempting
<1>11. ASSUME Admit(op) PROVE CallStep(op)
  BY <1>11, AttemptIsCallStep DEF Admit, Turned
<1>12. ASSUME StartBackgroundAttempt(op) PROVE CallStep(op)
  BY <1>12, AttemptIsCallStep DEF StartBackgroundAttempt
<1>13. ASSUME Cancel(op) PROVE CallStep(op)
  BY <1>4, <1>13 DEF Cancel
<1>14. ASSUME ExpireBeforeAttempt(op) PROVE CallStep(op)
  BY <1>14, LeaveIsCallStep DEF ExpireBeforeAttempt
<1>15. ASSUME MarkInFlight(op) PROVE CallStep(op)
  BY <1>2, <1>15 DEF MarkInFlight, Attempting
<1>16. ASSUME Refuse(op) PROVE CallStep(op)
  BY <1>16, ReturnIsCallStep DEF Refuse
<1>17. ASSUME TransportThrows(op) PROVE CallStep(op)
  BY <1>17, ReturnIsCallStep DEF TransportThrows
<1>18. ASSUME Publish(op) PROVE CallStep(op)
  BY <1>2, <1>18 DEF Publish, Attempting
<1>19. ASSUME NEW result \in Results, Outcome(op, result) PROVE CallStep(op)
  BY <1>19, ReturnIsCallStep DEF Outcome
<1>20. ASSUME CompleteInFlight(op) PROVE CallStep(op)
  BY <1>2, <1>20 DEF CompleteInFlight, Attempting
<1>21. ASSUME PostCompletion(op) PROVE CallStep(op)
  BY <1>21, LeaveIsCallStep DEF PostCompletion
<1>22. QED
  BY <1>5, <1>6, <1>7, <1>8, <1>9, <1>10, <1>11, <1>12, <1>13, <1>14,
     <1>15, <1>16, <1>17, <1>18, <1>19, <1>20, <1>21 DEF Execute

\* A step of a call settles no row but its own: what it does to others is to
\* reconcile them.
LEMMA ExecuteKeepsOtherRows ==
  ASSUME TypeOK, NEW op \in Ops, Execute(op)
  PROVE  \A o \in Ops \ {op} : row'[o].status = row[o].status
<1> USE DEF durable
<1>1. CASE \E target \in Ops : ReconcileExpired(op, target)
  BY <1>1 DEF ReconcileExpired, Reconcile, TypeOK, Row
<1>2. CASE CreatePending(op)
  BY <1>2 DEF CreatePending, TypeOK
<1>3. CASE Cancel(op)
  BY <1>3 DEF Cancel, CompleteWithoutAttempt, Settle, TypeOK, Row
<1>4. CASE ExpireBeforeAttempt(op)
  BY <1>4 DEF ExpireBeforeAttempt, CompleteWithoutAttempt, Settle, TypeOK, Row
<1>5. CASE MarkInFlight(op)
  BY <1>5 DEF MarkInFlight, TypeOK, Row
<1>6. CASE CompleteInFlight(op)
  BY <1>6 DEF CompleteInFlight, Settle, TypeOK, Row
<1>7. CASE row' = row
  BY <1>7
<1>8. QED
  BY <1>1, <1>2, <1>3, <1>4, <1>5, <1>6, <1>7 DEF Execute, Begin, BeginPatch,
     FinishScan, TurnAway, Admit, StartBackgroundAttempt, Refuse,
     TransportThrows, Publish, Outcome, PostCompletion

\* A call that ends has settled its row, or threw.
LEMMA ExecuteKeepsAttended ==
  ASSUME TypeOK, Consistent, ReservationKept, Attended,
         NEW op \in Ops, Execute(op)
  PROVE  Attended'
<1>1. CallStep(op)
  BY ExecuteIsCallStep
<1>2. phase' = phase /\ toRecover' = toRecover
  BY DEF Execute, Begin, BeginPatch, ReconcileExpired, FinishScan, CreatePending,
         TurnAway, Admit, StartBackgroundAttempt, Cancel, ExpireBeforeAttempt,
         MarkInFlight, Refuse, TransportThrows, Publish, Outcome,
         CompleteInFlight, PostCompletion, memory
<1>3. \A o \in Ops \ {op} : row'[o].status = row[o].status /\ call'[o] = call[o]
  BY <1>1, ExecuteKeepsOtherRows DEF CallStep
\* A call that moves does so in a process that is not recovering.
<1>4. phase # "recovering"
  BY DEF Consistent, PhaseMatches, Execute, Begin, BeginPatch, ReconcileExpired,
         FinishScan, CreatePending, TurnAway, Admit, StartBackgroundAttempt,
         Cancel, ExpireBeforeAttempt, MarkInFlight, Refuse, TransportThrows,
         Publish, Outcome, CompleteInFlight, PostCompletion
<1>5. QED
  BY <1>1, <1>2, <1>3, <1>4 DEF Attended, CallStep, Live

\* Reconciling, pruning and recovering take no reservation and leave no row.
LEMMA MaintainKeepsBoth ==
  ASSUME TypeOK, Consistent, ReservationKept, Attended,
         NEW op \in Ops, Maintain(op)
  PROVE  ReservationKept' /\ Attended'
<1> USE DEF durable, memory, world
<1>1. phase' = phase /\ call' = call /\ active' = active
  BY DEF Maintain, ReconcileByOperator, ReconcileByOverride, ReconcileBySchedule,
         ClaimByOverride, ReleaseByOverride, PruneRoutineOperation, Recover
<1>2. ReservationKept'
  BY <1>1 DEF ReservationKept, DeviceOf
<1>3. ASSUME toRecover' = toRecover, \A o \in Ops : Live(o)' => Live(o)
      PROVE  Attended'
  BY <1>1, <1>3 DEF Attended
<1>4. ASSUME NEW at, NEW origin, Reconcile(op, at, origin)
      PROVE  \A o \in Ops : Live(o)' => Live(o)
  BY <1>4 DEF Reconcile, Live, TypeOK, Row
<1>5. ASSUME PruneRoutineOperation(op) PROVE Attended'
  <2>1. \A o \in Ops : Live(o)' => Live(o)
    BY <1>5 DEF PruneRoutineOperation, Live, TypeOK, Row
  <2>2. QED
    BY <1>3, <1>5, <2>1 DEF PruneRoutineOperation
<1>6. ASSUME Recover(op) PROVE Attended'
  <2>1. row'[op].status = RecoveredStatus(op)
        /\ \A o \in Ops \ {op} : row'[o] = row[o]
    BY <1>6 DEF Recover, Settle, TypeOK, Row
  <2>2. ~Live(op)' /\ toRecover' = toRecover \ {op}
    BY <1>6, <2>1 DEF Recover, RecoveredStatus, Live
  <2>3. QED
    BY <1>1, <2>1, <2>2 DEF Attended, Live
<1>7. ASSUME UNCHANGED row, toRecover' = toRecover PROVE Attended'
  BY <1>3, <1>7 DEF Live
<1>8. Attended'
  BY <1>3, <1>4, <1>5, <1>6, <1>7 DEF Maintain, ReconcileByOperator,
     ReconcileByOverride, ReconcileBySchedule, ClaimByOverride, ReleaseByOverride
<1>9. QED
  BY <1>2, <1>8

\* Boot lists what the previous life left; nothing runs before the list is
\* empty.
LEMMA LifeKeepsBoth ==
  ASSUME TypeOK, Consistent, ReservationKept, Attended,
         \/ Boot \/ RecoveryFails \/ FinishRecovery
         \/ Crash \/ BeginShutdown \/ Exit
         \/ \E d \in Devices : SignalDeviceAvailable(d)
         \/ Tick \/ SetClockBack
  PROVE  ReservationKept' /\ Attended'
<1> USE DEF durable, memory, world, ReservationKept, Attended, Live, DeviceOf
<1>1. CASE Boot
  BY <1>1 DEF Boot, Interrupted
<1>2. CASE RecoveryFails
  BY <1>2 DEF RecoveryFails
<1>3. CASE FinishRecovery
  <2>1. \A op \in Ops : ~(Live(op) /\ KindOf(op) \in RecoveredKinds)
    BY <1>3 DEF FinishRecovery
  <2>2. QED
    BY <1>3, <2>1 DEF FinishRecovery, KindOf
<1>4. CASE Crash \/ Exit
  <2>1. ForgetMemory
    BY <1>4 DEF Crash, Exit
  <2>2. \A op \in Ops : ~call'[op].reserved
    BY <2>1 DEF ForgetMemory, IdleCall, Attempting
  <2>3. phase' = "down" /\ active' = {}
    BY <2>1 DEF ForgetMemory
  <2>4. ReservationKept'
    BY <2>2, <2>3
  <2>5. Attended'
    BY <2>3
  <2>6. QED
    BY <2>4, <2>5
<1>5. CASE BeginShutdown
  <2>1. UNCHANGED <<row, call, active, toRecover>> /\ phase' = "stopping"
    BY <1>5 DEF BeginShutdown
  <2>2. phase = "running"
    BY <1>5 DEF BeginShutdown
  <2>3. ReservationKept'
    BY <2>1
  <2>4. Attended'
    BY <2>1, <2>2
  <2>5. QED
    BY <2>3, <2>4
<1>6. ASSUME NEW d \in Devices, SignalDeviceAvailable(d)
      PROVE  ReservationKept' /\ Attended'
  BY <1>6 DEF SignalDeviceAvailable
<1>7. CASE Tick
  BY <1>7 DEF Tick
<1>8. CASE SetClockBack
  BY <1>8 DEF SetClockBack
<1>9. QED
  BY <1>1, <1>2, <1>3, <1>4, <1>5, <1>6, <1>7, <1>8

\* Reservations follow attempts, and no live row of a recovered kind is
\* nobody's: the inductive form of the two theorems below.
THEOREM ReservationsAndRecovery == Spec => [](ReservationKept /\ Attended)
<1>1. Init => ReservationKept /\ Attended
  BY DEF Init, ReservationKept, Attended, IdleCall, NoRow, Live
<1>2. TypeOK /\ Consistent /\ ReservationKept /\ Attended /\ [Next]_vars
      => ReservationKept' /\ Attended'
  <2> SUFFICES ASSUME TypeOK, Consistent, ReservationKept, Attended, [Next]_vars
               PROVE  ReservationKept' /\ Attended'
    OBVIOUS
  <2>1. CASE UNCHANGED vars
    BY <2>1 DEF vars, durable, memory, world, ReservationKept, Attended, Live,
       DeviceOf
  <2>2. ASSUME NEW op \in Ops, Execute(op) PROVE ReservationKept' /\ Attended'
    BY <2>2, ExecuteIsCallStep, ReservationByFrame, ExecuteKeepsAttended
  <2>3. QED
    BY <2>1, <2>2, MaintainKeepsBoth, LifeKeepsBoth DEF Next
<1>3. QED
  BY <1>1, <1>2, TypeCorrect, Consistency, PTL DEF Spec

\* At most one attempt holds a device, and a device is held only while such an
\* attempt runs: no failure path leaves it reserved.
THEOREM ReservationsMatch == Spec => []ReservationMatchesAttempt
<1>1. TypeOK /\ ReservationKept => ReservationMatchesAttempt
  BY DEF TypeOK, ReservationKept, ReservationMatchesAttempt
<1>2. QED
  BY <1>1, TypeCorrect, ReservationsAndRecovery, PTL

\* While the process runs, an unsettled row of a recovered kind has a call that
\* is working on it or that threw: nothing is left behind by an earlier life.
THEOREM NoneForgotten == Spec => []RecoveredKindsHaveNoOrphans
<1>1. TypeOK /\ Consistent /\ Attended => RecoveredKindsHaveNoOrphans
  <2> SUFFICES ASSUME TypeOK, Consistent, Attended, phase = "running",
                      NEW op \in Ops, Live(op), KindOf(op) \in RecoveredKinds
               PROVE  call[op].pc \in Working \cup {"stranded"}
    BY DEF RecoveredKindsHaveNoOrphans, NoOrphans
  <2>1. call[op].pc \in Steps
    BY DEF TypeOK, Call
  <2>2. call[op].pc # "lost"
    BY DEF Attended
  <2>3. call[op].pc \notin {"idle", "done"}
    BY DEF Consistent, CallMatchesRow, Live
  <2>4. QED
    BY <2>1, <2>2, <2>3 DEF Working
<1>2. QED
  BY <1>1, TypeCorrect, Consistency, ReservationsAndRecovery, PTL

-----------------------------------------------------------------------------
(* DeviceOperations implements OperationLifecycle: each step of the        *)
(* service, of the repository, of recovery or of a crash is one step of    *)
(* the life-cycle of one operation, or changes nothing it speaks of.       *)

\* What the life-cycle sees of an operation besides its stage.
SameRow(o) == /\ row'[o].status = row[o].status
              /\ row'[o].unsent = row[o].unsent
              /\ row'[o].reconciledAt = row[o].reconciledAt

Others(op) == \A o \in Ops \ {op} : SameRow(o)

\* A step that changes no status, publication or acknowledgement is a stutter.
LEMMA Stutter ==
  ASSUME \A o \in Ops : SameRow(o), published' = published
  PROVE  UNCHANGED Lifecycle!lifecycleVars
  BY DEF SameRow, Lifecycle!lifecycleVars, StageOf

\* A step that moves the stage of one operation.
StageMove(from, to, op) ==
    \/ from = "none" /\ to = "waiting"
    \/ from = "waiting" /\ to \in {"cancelled", "timed_out", "attempting"}
    \/ from = "attempting" /\ to = "outcome_unknown"
    \/ from = "attempting" /\ to \in {"succeeded", "rejected", "forgotten"}
       /\ published[op] > 0
    \/ from = "attempting" /\ to = "unsent" /\ ~(published[op] > 0)
    \/ from = "succeeded" /\ to = "forgotten"
    \/ from = "outcome_unknown" /\ to = "forgotten" /\ row[op].reconciledAt # None

\* A step that moves one row to another stage is one of the six steps of the
\* life-cycle that do so.
LEMMA StageStep ==
  ASSUME NEW op \in Ops, Others(op), published' = published,
         row'[op].reconciledAt = row[op].reconciledAt,
         StageMove(StageOf(op), StageOf(op)', op)
  PROVE  Lifecycle!LifecycleNext
<1> DEFINE st == [o \in Ops |-> StageOf(o)]
           snt == {o \in Ops : published[o] > 0}
           ack == {o \in Ops : row[o].reconciledAt # None}
<1>1. \A o \in Ops \ {op} : StageOf(o)' = StageOf(o)
  BY DEF Others, SameRow, StageOf
<1>2. st' = [st EXCEPT ![op] = StageOf(op)'] /\ snt' = snt /\ ack' = ack
  <2>1. st' = [st EXCEPT ![op] = StageOf(op)']
    BY <1>1
  <2>2. snt' = snt
    OBVIOUS
  <2>3. ack' = ack
    BY DEF Others, SameRow
  <2>4. QED
    BY <2>1, <2>2, <2>3
<1>3. st[op] = StageOf(op)
  OBVIOUS
<1>4. /\ op \in snt <=> published[op] > 0
      /\ op \in ack <=> row[op].reconciledAt # None
  OBVIOUS
<1> HIDE DEF st, snt, ack
<1>5. \/ /\ st[op] = "none"
         /\ st' = [st EXCEPT ![op] = "waiting"]
      \/ /\ st[op] = "waiting"
         /\ \E result \in Lifecycle!Unattempted : st' = [st EXCEPT ![op] = result]
      \/ /\ st[op] = "waiting"
         /\ st' = [st EXCEPT ![op] = "attempting"]
      \/ /\ st[op] = "attempting"
         /\ \E result \in Lifecycle!Attempted :
              /\ result \in {"succeeded", "rejected"} => op \in snt
              /\ result = "unsent" => op \notin snt
              /\ st' = [st EXCEPT ![op] = result]
      \/ /\ \/ st[op] = "attempting" /\ op \in snt
            \/ st[op] = "succeeded"
            \/ st[op] = "outcome_unknown" /\ op \in ack
         /\ st' = [st EXCEPT ![op] = "forgotten"]
  BY <1>2, <1>3, <1>4 DEF StageMove, Lifecycle!Unattempted, Lifecycle!Attempted
<1>6. QED
  BY <1>2, <1>5 DEF st, snt, ack, Lifecycle!LifecycleNext, Lifecycle!Record,
     Lifecycle!Decline, Lifecycle!Attempt, Lifecycle!Settle, Lifecycle!Forget

\* A publication is a Send.
LEMMA SendStep ==
  ASSUME TypeOK, NEW op \in Ops, row' = row, row[op].status = "in_flight",
         published[op] = 0, published' = [published EXCEPT ![op] = @ + 1]
  PROVE  Lifecycle!LifecycleNext
<1>1. [o \in Ops |-> StageOf(o)]' = [o \in Ops |-> StageOf(o)]
  BY DEF StageOf
<1>2. {o \in Ops : published[o] > 0}' = {o \in Ops : published[o] > 0} \cup {op}
  BY DEF TypeOK
<1>3. Lifecycle!Send(op)
  BY <1>1, <1>2 DEF Lifecycle!Send, StageOf
<1>4. QED
  BY <1>3 DEF Lifecycle!LifecycleNext

\* Reconciling an unknown outcome is an Acknowledge.
LEMMA AcknowledgeStep ==
  ASSUME TypeOK, NEW op \in Ops, NEW at \in Nat, NEW origin,
         Reconcile(op, at, origin), published' = published,
         row[op].status = "outcome_unknown", row[op].reconciledAt = None
  PROVE  Lifecycle!LifecycleNext
<1>1. /\ \A o \in Ops : row'[o].status = row[o].status
                        /\ row'[o].unsent = row[o].unsent
      /\ \A o \in Ops \ {op} : row'[o] = row[o]
      /\ row'[op].reconciledAt = at
  BY DEF Reconcile, TypeOK, Row
<1>2. [o \in Ops |-> StageOf(o)]' = [o \in Ops |-> StageOf(o)]
  BY <1>1 DEF StageOf
<1>3. {o \in Ops : row[o].reconciledAt # None}' =
         {o \in Ops : row[o].reconciledAt # None} \cup {op}
  BY <1>1 DEF None
<1>4. Lifecycle!Acknowledge(op)
  BY <1>2, <1>3 DEF Lifecycle!Acknowledge, StageOf
<1>5. QED
  BY <1>4 DEF Lifecycle!LifecycleNext

\* Settling a row leaves the others as they are.
LEMMA SettleKeepsOthers ==
  ASSUME TypeOK, NEW op \in Ops, NEW status, NEW at, NEW unsent,
         Settle(op, status, at, unsent)
  PROVE  /\ Others(op)
         /\ row'[op].status = status /\ row'[op].unsent = unsent
         /\ row'[op].reconciledAt = row[op].reconciledAt
  BY DEF Settle, Others, SameRow, TypeOK, Row

\* So does deleting one.
LEMMA DeleteKeepsOthers ==
  ASSUME TypeOK, NEW op \in Ops, row' = [row EXCEPT ![op].status = "deleted"]
  PROVE  /\ Others(op)
         /\ row'[op].status = "deleted"
         /\ row'[op].reconciledAt = row[op].reconciledAt
  BY DEF Others, SameRow, TypeOK, Row

AbstractStep == \/ Lifecycle!LifecycleNext
                \/ UNCHANGED Lifecycle!lifecycleVars

\* Every step of a call is a step of the life-cycle or a stutter.
LEMMA ExecuteImplements ==
  ASSUME TypeOK, Consistent, LeaseKept, NEW op \in Ops, Execute(op)
  PROVE  AbstractStep
<1> USE DEF durable, memory, world
<1>1. ConsistentAt(op)
  BY DEF Consistent, ConsistentAt
<1>2. CASE row' = row /\ published' = published
  BY <1>2, Stutter DEF SameRow, AbstractStep
<1>3. ASSUME NEW target \in Ops, ReconcileExpired(op, target) PROVE AbstractStep
  <2>1. Listable(target) /\ published' = published
    BY <1>3 DEF ReconcileExpired, LeaseKept
  <2>2. CASE Exists(target) /\ target \notin owned /\ row[target].reconciledAt = None
    <3>1. row[target].status = "outcome_unknown"
      BY <2>1, <2>2 DEF Listable, Exists, Statuses
    <3>2. Reconcile(target, call[op].requestedAt, "routine_expiry")
      BY <1>3, <2>2 DEF ReconcileExpired
    <3>3. call[op].requestedAt \in Nat
      BY DEF TypeOK, Call
    <3>4. QED
      BY <2>1, <2>2, <3>1, <3>2, <3>3, AcknowledgeStep DEF AbstractStep
  <2>3. CASE row' = row
    BY <1>2, <2>1, <2>3
  <2>4. QED
    BY <1>3, <2>2, <2>3 DEF ReconcileExpired
<1>4. CASE CreatePending(op)
  <2>1. row[op].status = "absent" /\ row[op].reconciledAt = None
    BY <1>1, <1>4 DEF CreatePending, ConsistentAt, CallMatchesRow, LeaseKept,
       Listable
  <2>2. /\ Others(op) /\ row'[op].status = "pending"
        /\ row'[op].reconciledAt = None /\ published' = published
    BY <1>4 DEF CreatePending, Others, SameRow, NoRow, TypeOK
  <2>3. StageOf(op) = "none" /\ StageOf(op)' = "waiting"
    BY <2>1, <2>2 DEF StageOf
  <2>4. QED
    BY <2>1, <2>2, <2>3, StageStep DEF StageMove, AbstractStep
<1>5. CASE Cancel(op)
  <2>1. CASE CompleteWithoutAttempt(op, "cancelled", now)
    <3>1. /\ row[op].status = "pending" /\ Others(op)
          /\ row'[op].status = "cancelled"
          /\ row'[op].reconciledAt = row[op].reconciledAt
      BY <2>1, SettleKeepsOthers DEF CompleteWithoutAttempt
    <3>2. StageOf(op) = "waiting" /\ StageOf(op)' = "cancelled"
      BY <3>1 DEF StageOf
    <3>3. QED
      BY <1>5, <3>1, <3>2, StageStep DEF Cancel, StageMove, AbstractStep
  <2>2. QED
    BY <1>2, <1>5, <2>1 DEF Cancel
<1>6. CASE ExpireBeforeAttempt(op)
  <2>1. StageOf(op) = "waiting" /\ StageOf(op)' = "timed_out"
    <3>1. /\ row[op].status = "pending"
          /\ Settle(op, "timed_out", call[op].attemptAt, FALSE)
      BY <1>6 DEF ExpireBeforeAttempt, CompleteWithoutAttempt
    <3>2. row'[op].status = "timed_out"
      BY <3>1, SettleKeepsOthers
    <3>3. QED
      BY <3>1, <3>2 DEF StageOf
  <2>2. QED
    BY <1>6, <2>1, SettleKeepsOthers, StageStep
       DEF ExpireBeforeAttempt, CompleteWithoutAttempt, StageMove, AbstractStep
<1>7. CASE MarkInFlight(op)
  <2>1. /\ Others(op) /\ row[op].status = "pending"
        /\ row'[op].status = "in_flight"
        /\ row'[op].reconciledAt = row[op].reconciledAt
    BY <1>7 DEF MarkInFlight, Others, SameRow, TypeOK, Row
  <2>2. StageOf(op) = "waiting" /\ StageOf(op)' = "attempting"
    BY <2>1 DEF StageOf
  <2>3. QED
    BY <1>7, <2>1, <2>2, StageStep DEF MarkInFlight, StageMove, AbstractStep
<1>8. CASE Publish(op)
  BY <1>1, <1>8, SendStep
     DEF Publish, ConsistentAt, CallMatchesRow, CallMatchesWire, AbstractStep
<1>9. CASE CompleteInFlight(op)
  <2> DEFINE result == call[op].result
  <2>1. /\ StageOf(op) = "attempting" /\ published' = published
        /\ call[op].pc = "complete" /\ result \in Results
    BY <1>9 DEF CompleteInFlight, StageOf, TypeOK, Call
  <2>2. /\ result = "unsent" => published[op] = 0
        /\ result \in {"succeeded", "device_error", "protocol_error"} =>
               published[op] = 1
    BY <1>1, <2>1 DEF ConsistentAt, CallMatchesWire
  <2>3. CASE row' = [row EXCEPT ![op].status = "deleted"] /\ result = "succeeded"
    <3>1. StageOf(op)' = "forgotten"
      BY <2>3, DeleteKeepsOthers DEF StageOf
    <3>2. StageMove(StageOf(op), StageOf(op)', op)
      BY <2>1, <2>2, <2>3, <3>1 DEF StageMove
    <3>3. QED
      BY <2>1, <2>3, <3>2, DeleteKeepsOthers, StageStep DEF AbstractStep
  <2>4. CASE Settle(op, StatusOf(result), call[op].endedAt, result = "unsent")
    <3>1. /\ Others(op) /\ row'[op].status = StatusOf(result)
          /\ row'[op].unsent = (result = "unsent")
          /\ row'[op].reconciledAt = row[op].reconciledAt
      BY <2>4, SettleKeepsOthers
    <3>2. \/ result = "succeeded" /\ StageOf(op)' = "succeeded"
          \/ result \in {"device_error", "protocol_error"}
             /\ StageOf(op)' = "rejected"
          \/ result = "unsent" /\ StageOf(op)' = "unsent"
          \/ StageOf(op)' = "outcome_unknown"
      BY <2>1, <3>1 DEF StatusOf, StageOf, Results
    <3>3. StageMove(StageOf(op), StageOf(op)', op)
      BY <2>1, <2>2, <3>2 DEF StageMove
    <3>4. QED
      BY <2>1, <3>1, <3>3, StageStep DEF AbstractStep
  <2>5. QED
    BY <1>9, <2>3, <2>4 DEF CompleteInFlight
<1>10. QED
  BY <1>2, <1>3, <1>4, <1>5, <1>6, <1>7, <1>8, <1>9 DEF Execute, Begin,
     BeginPatch, FinishScan, TurnAway, Admit, StartBackgroundAttempt, Refuse,
     TransportThrows, Outcome, PostCompletion

\* So is every reconciliation, retention and recovery of one row.
LEMMA MaintainImplements ==
  ASSUME TypeOK, Consistent, NEW op \in Ops, Maintain(op)
  PROVE  AbstractStep
<1> USE DEF durable, memory, world
<1>1. published' = published
  BY DEF Maintain, ReconcileByOperator, ReconcileByOverride, ReconcileBySchedule,
         ClaimByOverride, ReleaseByOverride, PruneRoutineOperation, Recover
<1>2. ASSUME NEW origin, Reconcilable(op, now), Reconcile(op, now, origin)
      PROVE  AbstractStep
  BY <1>1, <1>2, AcknowledgeStep DEF Reconcilable, Unknown, TypeOK, AbstractStep
<1>3. CASE row' = row
  BY <1>1, <1>3, Stutter DEF SameRow, AbstractStep
<1>4. CASE PruneRoutineOperation(op)
  <2>1. /\ StageOf(op)' = "forgotten"
        /\ \/ StageOf(op) = "succeeded"
           \/ StageOf(op) = "outcome_unknown" /\ row[op].reconciledAt # None
    BY <1>4, DeleteKeepsOthers DEF PruneRoutineOperation, StageOf, Unknown
  <2>2. QED
    BY <1>1, <1>4, <2>1, DeleteKeepsOthers, StageStep
       DEF PruneRoutineOperation, StageMove, AbstractStep
<1>5. CASE Recover(op)
  <2>1. /\ Others(op) /\ row'[op].status = RecoveredStatus(op)
        /\ row'[op].reconciledAt = row[op].reconciledAt
    BY <1>5, SettleKeepsOthers DEF Recover
  <2>2. \/ StageOf(op) = "waiting" /\ StageOf(op)' \in {"timed_out", "cancelled"}
        \/ StageOf(op) = "attempting" /\ StageOf(op)' = "outcome_unknown"
    BY <1>5, <2>1 DEF Recover, RecoveredStatus, StageOf, Consistent, PhaseMatches,
       Live
  <2>3. QED
    BY <1>1, <2>1, <2>2, StageStep DEF StageMove, AbstractStep
<1>6. QED
  BY <1>2, <1>3, <1>4, <1>5 DEF Maintain, ReconcileByOperator,
     ReconcileByOverride, ReconcileBySchedule, ClaimByOverride, ReleaseByOverride

\* The process itself is invisible to the life-cycle.
LEMMA LifeImplements ==
  ASSUME \/ Boot \/ RecoveryFails \/ FinishRecovery
         \/ Crash \/ BeginShutdown \/ Exit
         \/ \E d \in Devices : SignalDeviceAvailable(d)
         \/ Tick \/ SetClockBack
  PROVE  AbstractStep
<1>1. row' = row /\ published' = published
  BY DEF Boot, RecoveryFails, FinishRecovery, Crash, BeginShutdown, Exit,
         SignalDeviceAvailable, Tick, SetClockBack, durable, world
<1>2. QED
  BY <1>1, Stutter DEF SameRow, AbstractStep

\* Whatever crashes, is refused, lost, listed late or pruned, an operation
\* lives the life OperationLifecycle describes.
THEOREM ServiceImplementsLifecycle == Spec => ImplementsLifecycle
<1>1. Init => Lifecycle!LifecycleInit
  BY DEF Init, Lifecycle!LifecycleInit, StageOf, NoRow
<1>2. TypeOK /\ Consistent /\ LeaseKept /\ [Next]_vars
      => [Lifecycle!LifecycleNext]_Lifecycle!lifecycleVars
  <2> SUFFICES ASSUME TypeOK, Consistent, LeaseKept, [Next]_vars
               PROVE  AbstractStep
    BY DEF AbstractStep
  <2>1. CASE UNCHANGED vars
    BY <2>1, Stutter DEF vars, durable, world, SameRow, AbstractStep
  <2>2. QED
    BY <2>1, ExecuteImplements, MaintainImplements, LifeImplements DEF Next
<1>3. QED
  BY <1>1, <1>2, TypeCorrect, Consistency, LeaseKeeping, PTL
     DEF Spec, ImplementsLifecycle, Lifecycle!LifecycleSpec
=============================================================================
