--------------------------- MODULE DeliveryProofs ---------------------------
(***************************************************************************)
(* What holds of what the controller keeps sending without being asked (a  *)
(* wireless update, a compiled schedule, the time, the outputs) for any    *)
(* number of devices, requests, days and failures.                         *)
(***************************************************************************)
EXTENDS FirmwareUpdates, ScheduleDelivery, TimeSync, OutputRefresh, TLAPS

-----------------------------------------------------------------------------
(* Wireless updates.                                                       *)

Esps == [version : Versions, report : Reports, marker : 0 .. 3,
         busy : BOOLEAN, runs : BOOLEAN, connected : BOOLEAN, off : BOOLEAN]
Devs == [version : Versions, report : Reports, off : BOOLEAN, online : BOOLEAN, enabled : BOOLEAN]
Requests == [target : {Nil, "base", "new"}, mode : {"immediate", "when_off"},
             status : Statuses, op : BOOLEAN]
Works == [pc : {"idle", "insert", "read", "send", "await", "write"}, row : Requests,
          status : Statuses, op : BOOLEAN, fresh : BOOLEAN]
Tasks == {"signal", "reconcile", "reconcile_all"}
Wires == [command : BOOLEAN, answer : {Nil, "accepted", "failed"}]
Outcomes == [pc : {"idle", "send", "write"}, status : Statuses, op : BOOLEAN]

\* FirmwareTypeOK, and the task that runs.
FirmwareTyping ==
  /\ esp \in Esps /\ dev \in Devs /\ row \in Requests /\ work \in Works /\ wire \in Wires
  /\ policy \in {Nil, "immediate", "when_off"}
  /\ service \in {"up", "draining", "down"}
  /\ tasks \in Seq(Tasks) /\ Len(tasks) <= MaxTasks
  /\ sent \in Nat /\ restarted \in BOOLEAN /\ lost \in BOOLEAN

\* The constants as the steps below need them.
LEMMA FirmwareBounds == MaxTasks \in Nat \ {0} /\ Modes \subseteq {"immediate", "when_off"}
  BY FirmwareConstants

\* The typing says all that the type invariant of the model does.
LEMMA FirmwareTypingIsTypeOK == FirmwareTyping => FirmwareTypeOK
  BY DEF FirmwareTyping, FirmwareTypeOK, Esps, Devs, Requests, Wires, Tasks

-----------------------------------------------------------------------------
(* What the operators return. *)

\* A device that boots is a device.
LEMMA BootedTyped ==
  ASSUME NEW e \in Esps
  PROVE  Booted(e) \in Esps
<1> DEFINE off == [e EXCEPT !.busy = FALSE, !.runs = FALSE, !.connected = FALSE, !.off = TRUE]
<1>1. off \in Esps /\ off.marker = e.marker
  BY DEF Esps
<1> HIDE DEF off
<1>2. [off EXCEPT !.version = "base", !.marker = 0, !.report = "failed"] \in Esps
  <2>1. "base" \in Versions /\ 0 \in 0 .. 3 /\ "failed" \in Reports
    BY DEF Versions, Reports
  <2>2. QED
    BY <1>1, <2>1 DEF Esps
<1>3. [off EXCEPT !.report = "idle"] \in Esps
  BY <1>1 DEF Esps, Reports
<1>4. ASSUME e.marker # 0, e.marker < 3
      PROVE  [off EXCEPT !.report = "probation", !.marker = off.marker + 1] \in Esps
  <2>1. e.marker + 1 \in 0 .. 3
    BY <1>4 DEF Esps
  <2>2. "probation" \in Reports
    BY DEF Reports, UnderWay
  <2>3. QED
    BY <1>1, <2>1, <2>2 DEF Esps
<1>5. CASE e.marker = 0
  BY <1>3, <1>5 DEF Booted, off
<1>6. CASE e.marker # 0 /\ e.marker < 3
  <2>1. [off EXCEPT !.report = "probation", !.marker = off.marker + 1] \in Esps
    BY <1>4, <1>6
  <2>2. QED
    BY <2>1, <1>6 DEF Booted, off
<1>7. CASE e.marker # 0 /\ ~(e.marker < 3)
  BY <1>2, <1>7 DEF Booted, off
<1>8. QED
  BY <1>5, <1>6, <1>7

\* So is one that goes back to its older image.
LEMMA RolledBackTyped ==
  ASSUME NEW e \in Esps
  PROVE  RolledBack(e) \in Esps
<1>1. [e EXCEPT !.marker = 0] \in Esps
  BY DEF Esps
<1>2. Booted([e EXCEPT !.marker = 0]) \in Esps
  BY <1>1, BootedTyped
<1>3. QED
  BY <1>2 DEF RolledBack, Esps, Versions, Reports

\* A request made of a device is a request.
LEMMA RequestedTyped ==
  ASSUME NEW d \in Devs, NEW mode \in {"immediate", "when_off"}
  PROVE  Requested(d, mode) \in Requests
  BY DEF Requested, InitialStatus, Requests, Statuses, Terminal, UnderWay

\* The statuses a request does not leave on its own behalf.
Over == Terminal \cup UnderWay

\* What the policy decides; it starts nothing for a request that is over.
LEMMA DecisionTyped ==
  ASSUME NEW d \in Devs, NEW r \in Requests
  PROVE  /\ Decision(d, r) \in Outcomes
         /\ r.status \in Over => \/ Decision(d, r).pc = "idle"
                                 \/ Decision(d, r).pc = "write" /\ Decision(d, r).status \in Over
<1>1. d.report \in Reports /\ r.op \in BOOLEAN
  BY DEF Devs, Requests
<1>2. QED
  BY <1>1 DEF Decision, Evidence, Attempt, To, Return, Outcomes, Statuses, Over, Terminal,
              UnderWay, Reports

-----------------------------------------------------------------------------
(* Types. *)

\* The initial states are typed.
LEMMA FirmwareTypingInit == FirmwareInit => FirmwareTyping
<1> SUFFICES ASSUME FirmwareInit PROVE FirmwareTyping
  OBVIOUS
<1>1. NoRequest \in Requests /\ NoWire \in Wires
  BY DEF NoRequest, Requests, Statuses, Terminal, NoWire, Wires
<1>2. NoWork \in Works
  BY <1>1 DEF NoWork, Works, Statuses, Terminal
<1>3. esp \in Esps
  <2>1. PICK v \in {"usb", "base"} :
          esp = [version |-> v, report |-> "idle", marker |-> 0, busy |-> FALSE,
                 runs |-> FALSE, connected |-> FALSE, off |-> FALSE]
    BY DEF FirmwareInit
  <2>2. v \in Versions /\ "idle" \in Reports /\ 0 \in 0 .. 3
    BY DEF Versions, Reports
  <2>3. QED
    BY <2>1, <2>2 DEF Esps
<1>4. row \in Requests
  BY <1>1 DEF FirmwareInit, Requests
<1>5. dev \in Devs
  BY <1>3 DEF FirmwareInit, Devs, Esps, Reports
<1>6. tasks \in Seq(Tasks) /\ Len(tasks) <= MaxTasks
  BY FirmwareBounds DEF FirmwareInit
<1>7. QED
  BY <1>1, <1>2, <1>3, <1>4, <1>5, <1>6 DEF FirmwareInit, FirmwareTyping

\* The task that does nothing, and the absent row.
LEMMA NoWorkTyped == NoWork \in Works /\ NoRequest \in Requests
<1>1. NoRequest \in Requests
  BY DEF NoRequest, Requests, Statuses, Terminal
<1>2. QED
  BY <1>1 DEF NoWork, Works, Statuses, Terminal

\* An announcement keeps to the queue's bound.
LEMMA AnnouncedTyped ==
  ASSUME FirmwareTyping, Announced(esp), Len(tasks) < MaxTasks
  PROVE  dev' \in Devs /\ tasks' \in Seq(Tasks) /\ Len(tasks') <= MaxTasks
<1>1. dev' \in Devs
  BY DEF Announced, FirmwareTyping, Esps, Devs
<1>2. Append(tasks, "signal") \in Seq(Tasks) /\ Len(Append(tasks, "signal")) = Len(tasks) + 1
  BY DEF FirmwareTyping, Tasks
<1>3. QED
  BY <1>1, <1>2, FirmwareBounds DEF Announced, FirmwareTyping

\* A request joins the queue.
LEMMA QueuedTyped ==
  ASSUME FirmwareTyping, NEW t \in Tasks, Len(tasks) < MaxTasks
  PROVE  Append(tasks, t) \in Seq(Tasks) /\ Len(Append(tasks, t)) <= MaxTasks
  BY FirmwareBounds DEF FirmwareTyping

\* Every step keeps the types.
LEMMA FirmwareTypingNext == FirmwareTyping /\ [FirmwareNext]_firmwareVars => FirmwareTyping'
<1> SUFFICES ASSUME FirmwareTyping, [FirmwareNext]_firmwareVars PROVE FirmwareTyping'
  OBVIOUS
<1> USE DEF disk, process, history
<1>1. ASSUME NEW m \in Modes, RequestDeviceUpdate(m) PROVE FirmwareTyping'
  <2>1. row' \in Requests
    BY <1>1, RequestedTyped, FirmwareBounds DEF RequestDeviceUpdate, NewRequest, FirmwareTyping
  <2>2. work' \in Works
    BY <1>1 DEF RequestDeviceUpdate, NewRequest, FirmwareTyping, Works
  <2>3. tasks' \in Seq(Tasks) /\ Len(tasks') <= MaxTasks
    BY <1>1, QueuedTyped DEF RequestDeviceUpdate, Tasks
  <2>4. QED
    BY <1>1, <2>1, <2>2, <2>3 DEF RequestDeviceUpdate, NewRequest, FirmwareTyping
<1>2. ASSUME NEW m \in Modes, RequestFleetUpdate(m) PROVE FirmwareTyping'
  <2>1. FleetDeviceMode(dev, m) \in {"immediate", "when_off"} /\ m \in {"immediate", "when_off"}
    BY FirmwareBounds DEF FleetDeviceMode
  <2>2. Requested(dev, FleetDeviceMode(dev, m)) \in Requests
    BY <2>1, RequestedTyped DEF FirmwareTyping
  <2>3. row' \in Requests
    BY <1>2, <2>2 DEF RequestFleetUpdate, NewRequest, FirmwareTyping
  <2>4. [work EXCEPT !.fresh = FALSE] \in Works
    BY DEF FirmwareTyping, Works
  <2>5. work' \in Works /\ sent' \in Nat /\ restarted' \in BOOLEAN /\ lost' \in BOOLEAN
    <3>1. CASE NewRequest(Requested(dev, FleetDeviceMode(dev, m)))
      BY <2>4, <3>1 DEF NewRequest
    <3>2. CASE UNCHANGED <<row, work, history>>
      BY <3>2 DEF FirmwareTyping
    <3>3. QED
      BY <1>2, <3>1, <3>2 DEF RequestFleetUpdate
  <2>6. tasks' \in Seq(Tasks) /\ Len(tasks') <= MaxTasks
    BY <1>2, QueuedTyped DEF RequestFleetUpdate, Tasks
  <2>7. QED
    BY <1>2, <2>1, <2>3, <2>5, <2>6 DEF RequestFleetUpdate, FirmwareTyping
<1>3. CASE TaskStep
  <2>1. CASE StartTask
    <3>1. Enrolment \in Requests \/ policy = Nil
      <4>1. policy # Nil =>
              (IF policy = "immediate" THEN "when_off" ELSE policy) \in {"immediate", "when_off"}
        BY DEF FirmwareTyping
      <4>2. QED
        BY <4>1, RequestedTyped DEF FirmwareTyping, Enrolment
    <3>2. Wanted => [NoWork EXCEPT !.pc = "insert", !.row = Enrolment] \in Works
      BY <3>1, NoWorkTyped DEF Wanted, Works
    <3>3. [NoWork EXCEPT !.pc = "read"] \in Works
      BY NoWorkTyped DEF Works
    <3>4. work' \in Works
      BY <2>1, <3>2, <3>3, NoWorkTyped DEF StartTask
    <3>5. tasks' \in Seq(Tasks) /\ Len(tasks') <= MaxTasks
      BY <2>1, FirmwareBounds DEF StartTask, FirmwareTyping
    <3>6. QED
      BY <2>1, <3>4, <3>5 DEF StartTask, FirmwareTyping
  <2>2. CASE Enrol
    <3>1. [NoWork EXCEPT !.pc = "read"] \in Works /\ work.row \in Requests
      BY NoWorkTyped DEF Works, FirmwareTyping
    <3>2. QED
      BY <2>2, <3>1 DEF Enrol, FirmwareTyping
  <2>3. CASE ReadAndDecide
    <3>1. Decision(dev, row) \in Outcomes
      BY DecisionTyped DEF FirmwareTyping
    <3>2. CASE row.target = Nil
      BY <2>3, <3>2, NoWorkTyped DEF ReadAndDecide, FirmwareTyping
    <3>3. CASE row.target # Nil
      <4>1. PICK d : d = Decision(dev, row)
        OBVIOUS
      <4>2. d \in Outcomes
        BY <3>1, <4>1
      <4>3. work' = [pc |-> d.pc, row |-> row, status |-> d.status, op |-> d.op, fresh |-> TRUE]
        BY <2>3, <3>3, <4>1 DEF ReadAndDecide
      <4>4. work' \in Works
        BY <4>2, <4>3 DEF Outcomes, Works, FirmwareTyping
      <4>5. QED
        BY <2>3, <4>4 DEF ReadAndDecide, FirmwareTyping
    <3>4. QED
      BY <3>2, <3>3
  <2>4. CASE Transition
    <3>1. row' \in Requests
      BY <2>4 DEF Transition, FirmwareTyping, Requests, Works
    <3>2. QED
      BY <2>4, <3>1, NoWorkTyped DEF Transition, FirmwareTyping
  <2>5. CASE PublishOta
    <3>0. [work EXCEPT !.pc = "await"] \in Works /\ [command |-> TRUE, answer |-> Nil] \in Wires
      BY DEF FirmwareTyping, Works, Wires
    <3>1. CASE dev.enabled
      <4>1. work' \in Works /\ wire' \in Wires
        BY <2>5, <3>0, <3>1 DEF PublishOta
      <4>2. sent' \in Nat
        BY <2>5, <3>1 DEF PublishOta, FirmwareTyping
      <4>3. QED
        BY <2>5, <4>1, <4>2 DEF PublishOta, FirmwareTyping
    <3>2. CASE ~dev.enabled
      BY <2>5, <3>2, NoWorkTyped DEF PublishOta, FirmwareTyping
    <3>3. QED
      BY <3>1, <3>2
  <2>6. CASE NotAttempted
    <3>1. work' \in Works
      BY <2>6 DEF NotAttempted, FirmwareTyping, Works, Statuses
    <3>2. QED
      BY <2>6, <3>1 DEF NotAttempted, FirmwareTyping
  <2>7. CASE OperationSettles
    <3>1. Settled(wire.answer) \in Statuses
      BY DEF Settled, FirmwareTyping, Wires, Statuses, UnderWay, Terminal
    <3>2. work' \in Works
      BY <2>7, <3>1 DEF OperationSettles, FirmwareTyping, Works
    <3>3. wire' \in Wires /\ dev' \in Devs
      BY <2>7 DEF OperationSettles, FirmwareTyping, Wires, Devs
    <3>4. QED
      BY <2>7, <3>2, <3>3 DEF OperationSettles, FirmwareTyping
  <2>8. QED
    BY <1>3, <2>1, <2>2, <2>3, <2>4, <2>5, <2>6, <2>7 DEF TaskStep
<1>4. CASE OperatorIncludes \/ StopService \/ StartService
  <2>1. dev' \in Devs
    BY <1>4 DEF OperatorIncludes, StopService, StartService, FirmwareTyping, Devs
  <2>2. QED
    BY <1>4, <2>1 DEF OperatorIncludes, StopService, StartService, FirmwareTyping
<1>5. CASE Exit \/ Crash
  <2>1. ServiceEnds
    BY <1>5 DEF Exit, Crash
  <2>2. wire' \in Wires
    BY <2>1 DEF ServiceEnds, FirmwareTyping, Wires
  <2>3. tasks' \in Seq(Tasks) /\ Len(tasks') <= MaxTasks
    BY <2>1, FirmwareBounds DEF ServiceEnds
  <2>4. QED
    BY <2>1, <2>2, <2>3, NoWorkTyped DEF ServiceEnds, FirmwareTyping
<1>6. CASE HandleOta
  <2>1. [esp EXCEPT !.busy = TRUE, !.report = "accepted"] \in Esps
    BY DEF FirmwareTyping, Esps, Reports, UnderWay
  <2>2. esp' \in Esps /\ wire' \in Wires
    BY <1>6, <2>1 DEF HandleOta, FirmwareTyping, Wires
  <2>3. QED
    BY <1>6, <2>2 DEF HandleOta, FirmwareTyping
<1>7. CASE CommandLost
  <2>1. wire' \in Wires
    BY <1>7 DEF CommandLost, FirmwareTyping, Wires
  <2>2. QED
    BY <1>7, <2>1 DEF CommandLost, FirmwareTyping
<1>8. CASE BeginDownload \/ DownloadFails \/ OutputsGoOff
  <2>1. esp' \in Esps
    BY <1>8 DEF BeginDownload, DownloadFails, OutputsGoOff, FirmwareTyping, Esps, Reports, UnderWay
  <2>2. QED
    BY <1>8, <2>1 DEF BeginDownload, DownloadFails, OutputsGoOff, FirmwareTyping
<1>9. CASE InstallImage \/ ProbationTimesOut \/ LosePower
  <2>0. esp \in Esps /\ "new" \in Versions /\ 1 \in 0 .. 3
    BY DEF FirmwareTyping, Versions
  <2>1. [esp EXCEPT !.version = "new", !.marker = 1] \in Esps
    BY <2>0 DEF Esps
  <2>2. esp' \in Esps
    BY <1>9, <2>1, BootedTyped, RolledBackTyped DEF InstallImage, ProbationTimesOut, LosePower, FirmwareTyping
  <2>3. QED
    BY <1>9, <2>2 DEF InstallImage, ProbationTimesOut, LosePower, FirmwareTyping
<1>10. CASE Connect
  <2>1. /\ [esp EXCEPT !.connected = TRUE, !.marker = 0, !.report = "succeeded"] \in Esps
        /\ [esp EXCEPT !.connected = TRUE, !.report = "failed"] \in Esps
        /\ [esp EXCEPT !.connected = TRUE] \in Esps
    <3>1. esp \in Esps /\ {"succeeded", "failed"} \subseteq Reports /\ 0 \in 0 .. 3
      BY DEF FirmwareTyping, Reports
    <3>2. QED
      BY <3>1 DEF Esps
  <2>2. esp' \in Esps
    BY <1>10, <2>1 DEF Connect, OnProbation, FirmwareTyping
  <2>3. dev' \in Devs /\ tasks' \in Seq(Tasks) /\ Len(tasks') <= MaxTasks
    <3>1. CASE Len(tasks) < MaxTasks /\ Announced(esp)
      BY <3>1, AnnouncedTyped
    <3>2. CASE UNCHANGED <<dev, tasks>>
      BY <3>2 DEF FirmwareTyping
    <3>3. QED
      BY <1>10, <3>1, <3>2 DEF Connect
  <2>4. QED
    BY <1>10, <2>2, <2>3 DEF Connect, FirmwareTyping
<1>11. CASE SignalDeviceAnnouncement
  <2>1. dev' \in Devs /\ tasks' \in Seq(Tasks) /\ Len(tasks') <= MaxTasks
    BY <1>11, AnnouncedTyped DEF SignalDeviceAnnouncement
  <2>2. QED
    BY <1>11, <2>1 DEF SignalDeviceAnnouncement, FirmwareTyping
<1>12. CASE UNCHANGED firmwareVars
  BY <1>12 DEF firmwareVars, FirmwareTyping
<1>13. QED
  BY <1>1, <1>2, <1>3, <1>4, <1>5, <1>6, <1>7, <1>8, <1>9, <1>10, <1>11, <1>12
     DEF FirmwareNext, DeviceStep

(* The device, its row, the request, the task that runs and the queue keep  *)
(* to their domains.                                                       *)
THEOREM FirmwareTyped == FirmwareSafety => []FirmwareTypeOK
<1>1. FirmwareSafety => []FirmwareTyping
  BY FirmwareTypingInit, FirmwareTypingNext, PTL DEF FirmwareSafety
<1>2. QED
  BY <1>1, FirmwareTypingIsTypeOK, PTL

-----------------------------------------------------------------------------
(* One command per request. *)

\* Once the command of a request was published, the task that did it is still
\* at it, or the row remembers it.
SentOnce ==
  sent # 0 /\ ~restarted =>
     /\ sent = 1 /\ work.fresh
     /\ \/ work.pc = "await"
        \/ work.pc = "write" /\ work.status \in Over
        \/ work.pc \in {"idle", "insert", "read"} /\ row.status \in Over

\* A request is sent for only if there is one, and a row never goes away.
SentForARow == (sent # 0 \/ work.pc \in {"send", "await", "write"}) => row.target # Nil

\* Every step keeps: a command is sent for a row.
LEMMA SentForARowNext ==
  FirmwareTyping /\ SentForARow /\ [FirmwareNext]_firmwareVars => SentForARow'
<1> SUFFICES ASSUME FirmwareTyping, SentForARow, [FirmwareNext]_firmwareVars PROVE SentForARow'
  OBVIOUS
<1> USE DEF SentForARow, disk, process, history
<1>1. ASSUME NEW m \in Modes, RequestDeviceUpdate(m) \/ RequestFleetUpdate(m) PROVE SentForARow'
  BY <1>1 DEF RequestDeviceUpdate, RequestFleetUpdate, NewRequest, Requested, FirmwareTyping, Works, Nil
<1>2. CASE TaskStep
  <2>1. CASE StartTask
    BY <2>1 DEF StartTask, NoWork
  <2>2. CASE Enrol
    BY <2>2 DEF Enrol, NoWork
  <2>3. CASE ReadAndDecide
    BY <2>3 DEF ReadAndDecide, NoWork
  <2>4. CASE Transition
    BY <2>4 DEF Transition, NoWork, FirmwareTyping, Requests
  <2>5. CASE PublishOta
    BY <2>5 DEF PublishOta, NoWork, FirmwareTyping, Works
  <2>6. CASE NotAttempted \/ OperationSettles
    BY <2>6 DEF NotAttempted, OperationSettles, FirmwareTyping, Works
  <2>7. QED
    BY <1>2, <2>1, <2>2, <2>3, <2>4, <2>5, <2>6 DEF TaskStep
<1>3. CASE OperatorIncludes \/ StopService \/ StartService \/ CommandLost \/ LosePower
  BY <1>3 DEF OperatorIncludes, StopService, StartService, CommandLost, LosePower
<1>4. CASE Exit \/ Crash
  BY <1>4 DEF Exit, Crash, ServiceEnds, NoWork
<1>5. CASE DeviceStep \/ SignalDeviceAnnouncement
  BY <1>5 DEF DeviceStep, HandleOta, BeginDownload, DownloadFails, InstallImage, Connect,
              ProbationTimesOut, OutputsGoOff, SignalDeviceAnnouncement
<1>6. CASE UNCHANGED firmwareVars
  BY <1>6 DEF firmwareVars
<1>7. QED
  BY <1>1, <1>2, <1>3, <1>4, <1>5, <1>6 DEF FirmwareNext

\* Every step keeps: the command is at hand or on record.
LEMMA SentOnceNext ==
  FirmwareTyping /\ SentForARow /\ SentOnce /\ [FirmwareNext]_firmwareVars => SentOnce'
<1> SUFFICES ASSUME FirmwareTyping, SentForARow, SentOnce, [FirmwareNext]_firmwareVars PROVE SentOnce'
  OBVIOUS
<1> USE DEF SentOnce, disk, process, history
<1>0. sent \in Nat /\ work \in Works /\ row \in Requests
  BY DEF FirmwareTyping
<1>1. ASSUME NEW m \in Modes, RequestDeviceUpdate(m) \/ RequestFleetUpdate(m) PROVE SentOnce'
  BY <1>1 DEF RequestDeviceUpdate, RequestFleetUpdate, NewRequest
<1>2. CASE TaskStep
  <2>1. CASE StartTask
    BY <1>0, <2>1 DEF StartTask, NoWork
  <2>2. CASE Enrol
    BY <1>0, <2>2 DEF Enrol, NoWork, SentForARow
  <2>3. CASE ReadAndDecide
    <3>1. row.status \in Over => \/ Decision(dev, row).pc = "idle"
                                 \/ /\ Decision(dev, row).pc = "write"
                                    /\ Decision(dev, row).status \in Over
      BY DecisionTyped DEF FirmwareTyping
    <3>2. QED
      BY <1>0, <2>3, <3>1 DEF ReadAndDecide, NoWork
  <2>4. CASE Transition
    BY <1>0, <2>4 DEF Transition, NoWork, Works, Requests
  <2>5. CASE PublishOta
    BY <1>0, <2>5 DEF PublishOta, NoWork, Works
  <2>6. CASE NotAttempted
    BY <1>0, <2>6 DEF NotAttempted, Works
  <2>7. CASE OperationSettles
    <3>1. Settled(wire.answer) \in Over
      BY DEF Settled, FirmwareTyping, Wires, Over, UnderWay, Terminal
    <3>2. QED
      BY <1>0, <2>7, <3>1 DEF OperationSettles, Works
  <2>8. QED
    BY <1>2, <2>1, <2>2, <2>3, <2>4, <2>5, <2>6, <2>7 DEF TaskStep
<1>3. CASE OperatorIncludes \/ StopService \/ StartService \/ CommandLost \/ LosePower
  BY <1>3 DEF OperatorIncludes, StopService, StartService, CommandLost, LosePower
<1>4. CASE Exit \/ Crash
  BY <1>4 DEF Exit, Crash, ServiceEnds
<1>5. CASE DeviceStep \/ SignalDeviceAnnouncement
  BY <1>5 DEF DeviceStep, HandleOta, BeginDownload, DownloadFails, InstallImage, Connect,
              ProbationTimesOut, OutputsGoOff, SignalDeviceAnnouncement
<1>6. CASE UNCHANGED firmwareVars
  BY <1>6 DEF firmwareVars
<1>7. QED
  BY <1>1, <1>2, <1>3, <1>4, <1>5, <1>6 DEF FirmwareNext

(* However often the device announces itself, the fleet is asked to update  *)
(* and the command or its answer is lost: unless the process ended in the   *)
(* middle, the image of a request is ordered once.                         *)
THEOREM OrderedOnce == FirmwareSafety => []OneCommandPerRequest
<1>1. FirmwareSafety => []FirmwareTyping
  BY FirmwareTypingInit, FirmwareTypingNext, PTL DEF FirmwareSafety
<1>2. FirmwareInit => SentForARow /\ SentOnce
  BY DEF FirmwareInit, SentForARow, SentOnce, NoWork
<1>3. FirmwareTyping /\ SentOnce => OneCommandPerRequest
  BY DEF FirmwareTyping, SentOnce, OneCommandPerRequest
<1>4. QED
  BY <1>1, <1>2, <1>3, SentForARowNext, SentOnceNext, PTL DEF FirmwareSafety
-----------------------------------------------------------------------------
(* Compiled schedules.                                                     *)

Artifacts == [revision : Nat, compiled : BOOLEAN, hash : Schedules \cup {None},
              delivery : Deliveries]
Lifetimes == [scheduling : {"none", "started", "failed"}, accepting : BOOLEAN, commanding : BOOLEAN]
Sessions == [transport : BOOLEAN, ready : BOOLEAN, pass : {None, "starting", "queued", "done"}]
Triggers == {"startup", "mutation", "announcement"}
Entries == [trigger : Triggers, behind : BOOLEAN]
Passes == [pc : {"idle", "decide", "send", "save"}, trigger : Triggers, behind : BOOLEAN,
           hash : Hashes \cup {None}, revision : Nat, evidence : Schedules \cup {None},
           result : {None, "succeeded", "failed", "outcome_unknown"}]
Spent == [changes : 0 .. MaxChanges, losses : 0 .. MaxLosses]

\* ScheduleTypeOK, with what a reconciliation carries.
ScheduleTyped ==
    /\ wanted \in [hash : Hashes, revision : 1 .. MaxChanges + 1]
    /\ spent \in Spent /\ wanted.revision = spent.changes + 1
    /\ runs \in Schedules /\ reported \in Schedules \cup {None}
    /\ artifact \in Artifacts /\ artifact.revision <= wanted.revision
    /\ operation \in Unresolved \cup {None}
    /\ services \in Lifetimes /\ runtime \in Sessions /\ notices \in Nat
    /\ handlers \in [recorded : Nat, synced : Nat] /\ tail \in Seq(Entries)
    /\ handlers.recorded + handlers.synced + Len(tail) <= MaxQueued
    /\ running \in Passes /\ running.revision <= wanted.revision
    /\ running.pc # "idle" => running.hash \in Hashes
    /\ running.pc \in {"send", "save"} => running.hash \in Schedules
    /\ running.pc = "save" => running.result # None

\* A saved row is a row, of no later revision than what was saved.
LEMMA SavedTyped ==
  ASSUME NEW a \in Artifacts, NEW r \in Nat, NEW h \in Hashes, NEW delivery \in Deliveries
  PROVE  /\ Saved(a, r, h, delivery) \in Artifacts
         /\ \A n \in Nat : a.revision <= n /\ r <= n => Saved(a, r, h, delivery).revision <= n
  BY DEF Saved, Artifacts, Hashes

\* The tail with one more pass is a tail.
LEMMA PassQueuedTyped ==
  ASSUME ScheduleTyped, NEW t \in Triggers
  PROVE  Queued(t) \in Seq(Entries) /\ Len(Queued(t)) = Len(tail) + 1
<1> DEFINE e == [trigger |-> t, behind |-> running.pc # "idle" \/ tail # <<>>]
<1>1. e \in Entries
  BY DEF Entries
<1>2. tail \in Seq(Entries) /\ Queued(t) = Append(tail, e)
  BY DEF ScheduleTyped, Queued
<1> HIDE DEF e
<1>3. QED
  BY <1>1, <1>2

\* A pass that ends, or fails, leaves the service idle.
LEMMA NoPassTyped ==
  NoPass \in Passes /\ NoPass.pc = "idle" /\ NoPass.revision = 0
  BY DEF NoPass, Passes, Triggers, None

LEMMA EndTyped ==
  ASSUME ScheduleTyped, Finish \/ Thrown
  PROVE  /\ running' = NoPass /\ running' \in Passes /\ running'.pc = "idle"
         /\ running'.revision = 0
         /\ runtime' \in Sessions
<1>1. runtime' \in Sessions
  BY DEF ScheduleTyped, Finish, Thrown, Sessions, None
<1>2. running' = NoPass
  BY DEF Finish, Thrown
<1>3. QED
  BY <1>1, <1>2, NoPassTyped

\* A loss is counted.
LEMMA LoseTyped ==
  ASSUME ScheduleTyped, Lose
  PROVE  spent' \in Spent /\ spent'.changes = spent.changes
<1>1. /\ spent \in [changes : 0 .. MaxChanges, losses : 0 .. MaxLosses]
      /\ MaxLosses \in Nat
  BY ScheduleConstants DEF ScheduleTyped, Spent
<1>2. spent.losses < MaxLosses /\ spent' = [spent EXCEPT !.losses = @ + 1]
  BY DEF Lose
<1>3. spent.losses + 1 \in 0 .. MaxLosses
  BY <1>1, <1>2
<1>4. QED
  BY <1>1, <1>2, <1>3 DEF Spent

\* The initial states are typed.
LEMMA ScheduleTypedInit == ScheduleInit => ScheduleTyped
<1> SUFFICES ASSUME ScheduleInit PROVE ScheduleTyped
  OBVIOUS
<1>1. PICK s \in Schedules : wanted = [hash |-> s, revision |-> 1]
  BY DEF ScheduleInit
<1>2. MaxChanges \in Nat /\ MaxLosses \in Nat /\ MaxQueued \in Nat
  BY ScheduleConstants
<1>3. NoArtifact \in Artifacts /\ NoArtifact.revision = 0
  BY DEF NoArtifact, Artifacts, Deliveries, None
<1>4. wanted \in [hash : Hashes, revision : 1 .. MaxChanges + 1]
  BY <1>1, <1>2 DEF Hashes
<1>5. spent \in Spent /\ spent.changes = 0
  BY <1>2 DEF ScheduleInit, Spent
<1>6. runtime \in Sessions /\ services \in Lifetimes
  BY DEF ScheduleInit, Sessions, Lifetimes, NoRuntime, NoServices, None
<1>7. /\ handlers \in [recorded : Nat, synced : Nat] /\ tail \in Seq(Entries)
      /\ handlers.recorded + handlers.synced + Len(tail) <= MaxQueued
  BY <1>2 DEF ScheduleInit, NoHandlers
<1>8. QED
  BY <1>1, <1>3, <1>4, <1>5, <1>6, <1>7, NoPassTyped DEF ScheduleInit, ScheduleTyped

\* What waits keeps to its bound, and its types.
Waiting ==
    /\ handlers \in [recorded : Nat, synced : Nat] /\ tail \in Seq(Entries)
    /\ handlers.recorded + handlers.synced + Len(tail) <= MaxQueued

\* What asks for a reconciliation, or brings one about.
Asking ==
    \/ RequestScheduleReconciliation \/ NoticeLost \/ TransportReady \/ TransportLost
    \/ StartScheduling \/ BeginStartupPass \/ BecomeReady
    \/ AnnounceInQuiet \/ AnnounceAgain \/ HandlerReturns \/ SignalTimeSync \/ ReconcileAnnounced
    \/ TimeSyncFails \/ OtherCommandThrows

LEMMA AskingTyped == ASSUME ScheduleTyped, Asking PROVE ScheduleTyped'
<1> USE ScheduleConstants
<1>0. /\ wanted.revision \in Nat /\ MaxQueued \in Nat /\ Len(tail) \in Nat
      /\ handlers.recorded \in Nat /\ handlers.synced \in Nat
      /\ handlers = [recorded |-> handlers.recorded, synced |-> handlers.synced]
  BY DEF ScheduleTyped
<1>a. Waiting
  BY DEF ScheduleTyped, Waiting
<1>1. ASSUME UNCHANGED <<wanted, runs, artifact, operation>>, reported' \in Schedules \cup {None},
             running' \in Passes,
             running' = running \/ running' = [running EXCEPT !.trigger = "mutation"],
             services' \in Lifetimes, runtime' \in Sessions, notices' \in Nat, Waiting',
             UNCHANGED spent \/ Lose
      PROVE  ScheduleTyped'
  <2>1. spent' \in Spent /\ wanted.revision = spent'.changes + 1
    BY <1>1, LoseTyped DEF ScheduleTyped
  <2>2. /\ running'.pc = running.pc /\ running'.hash = running.hash
        /\ running'.revision = running.revision /\ running'.result = running.result
    BY <1>1 DEF ScheduleTyped, Passes
  <2>3. QED
    BY <1>1, <2>1, <2>2 DEF ScheduleTyped, Waiting
<1>2. ASSUME RequestScheduleReconciliation PROVE ScheduleTyped'
  <2>1. tail' \in Seq(Entries) /\ Len(tail') <= Len(tail) + 1
    BY <1>0, <1>2, PassQueuedTyped DEF RequestScheduleReconciliation, ScheduleTyped, Triggers
  <2>2. Waiting' /\ notices' \in Nat
    BY <1>0, <1>2, <2>1 DEF RequestScheduleReconciliation, Waiting, Room, ScheduleTyped
  <2>3. QED
    BY <1>1, <1>2, <2>2 DEF RequestScheduleReconciliation, ScheduleTyped
<1>3. ASSUME NoticeLost PROVE ScheduleTyped'
  BY <1>1, <1>3, <1>a DEF NoticeLost, ScheduleTyped, Waiting
<1>4. ASSUME TransportReady PROVE ScheduleTyped'
  <2>1. runtime' \in Sessions
    BY <1>4 DEF TransportReady, Sessions
  <2>2. QED
    BY <1>1, <1>4, <1>a, <2>1 DEF TransportReady, ScheduleTyped, Waiting, surroundings
<1>5. ASSUME TransportLost PROVE ScheduleTyped'
  <2>1. runtime' \in Sessions
    BY <1>5 DEF TransportLost, NoRuntime, Sessions, None
  <2>2. tail' \in Seq(Entries) /\ Len(tail') = Len(tail)
    <3>1. /\ tail \in Seq(Entries) /\ DOMAIN tail = 1 .. Len(tail)
      BY DEF ScheduleTyped
    <3>2. \A i \in DOMAIN tail :
              [tail[i] EXCEPT !.trigger = IF @ = "startup" THEN "mutation" ELSE @] \in Entries
      <4>1. \A i \in DOMAIN tail : tail[i] \in Entries
        BY <3>1
      <4>2. \A e \in Entries :
                [e EXCEPT !.trigger = IF @ = "startup" THEN "mutation" ELSE @] \in Entries
        BY DEF Entries, Triggers
      <4>3. QED
        BY <4>1, <4>2
    <3>3. tail' \in [1 .. Len(tail) -> Entries]
      BY <1>5, <3>1, <3>2 DEF TransportLost
    <3>4. QED
      BY <1>0, <3>3
  <2>3. /\ running' \in Passes
        /\ running' = running \/ running' = [running EXCEPT !.trigger = "mutation"]
    BY <1>5 DEF TransportLost, ScheduleTyped, Passes, Triggers
  <2>4. Waiting' /\ notices' \in Nat
    BY <1>5, <1>a, <2>2 DEF TransportLost, Waiting, ScheduleTyped
  <2>5. QED
    BY <1>1, <1>5, <2>1, <2>3, <2>4 DEF TransportLost, ScheduleTyped
<1>6. ASSUME StartScheduling PROVE ScheduleTyped'
  <2>1. services' \in Lifetimes
    BY <1>6 DEF StartScheduling, ScheduleTyped, Lifetimes
  <2>2. QED
    BY <1>1, <1>6, <1>a, <2>1 DEF StartScheduling, ScheduleTyped, Waiting, surroundings
<1>7. ASSUME BeginStartupPass PROVE ScheduleTyped'
  <2>1. runtime' \in Sessions
    BY <1>7 DEF BeginStartupPass, ScheduleTyped, Sessions, None
  <2>2. tail' \in Seq(Entries) /\ (tail' = tail \/ (Room /\ Len(tail') = Len(tail) + 1))
    BY <1>7, PassQueuedTyped DEF BeginStartupPass, ScheduleTyped, Triggers
  <2>3. Waiting' /\ notices' \in Nat
    BY <1>0, <1>7, <1>a, <2>2 DEF BeginStartupPass, Waiting, Room, ScheduleTyped
  <2>4. QED
    BY <1>1, <1>7, <2>1, <2>3 DEF BeginStartupPass, ScheduleTyped
<1>8. ASSUME BecomeReady PROVE ScheduleTyped'
  <2>1. runtime' \in Sessions
    BY <1>8 DEF BecomeReady, ScheduleTyped, Sessions, Lifetimes, None
  <2>2. QED
    BY <1>1, <1>8, <1>a, <2>1 DEF BecomeReady, ScheduleTyped, Waiting, surroundings
<1>9. ASSUME Announce, UNCHANGED spent \/ Lose PROVE ScheduleTyped'
  <2>1. Waiting' /\ reported' \in Schedules
    BY <1>0, <1>9 DEF Announce, Room, Waiting, ScheduleTyped
  <2>2. QED
    BY <1>1, <1>9, <2>1 DEF Announce, ScheduleTyped
<1>10. ASSUME HandlerReturns PROVE ScheduleTyped'
  <2>1. Waiting'
    BY <1>0, <1>10, <1>a DEF HandlerReturns, Waiting
  <2>2. QED
    BY <1>1, <1>10, <2>1 DEF HandlerReturns, ScheduleTyped
<1>11. ASSUME SignalTimeSync PROVE ScheduleTyped'
  <2>1. Waiting'
    BY <1>0, <1>11, <1>a DEF SignalTimeSync, Waiting
  <2>2. QED
    BY <1>1, <1>11, <2>1 DEF SignalTimeSync, ScheduleTyped
<1>12. ASSUME ReconcileAnnounced PROVE ScheduleTyped'
  <2>1. tail' \in Seq(Entries) /\ Len(tail') = Len(tail) + 1
    BY <1>12, PassQueuedTyped DEF ReconcileAnnounced, Triggers
  <2>2. Waiting'
    BY <1>0, <1>12, <1>a, <2>1 DEF ReconcileAnnounced, Waiting
  <2>3. QED
    BY <1>1, <1>12, <2>2 DEF ReconcileAnnounced, ScheduleTyped
<1>13. ASSUME TimeSyncFails PROVE ScheduleTyped'
  <2>1. services' \in Lifetimes
    BY <1>13 DEF TimeSyncFails, ScheduleTyped, Lifetimes
  <2>2. QED
    BY <1>1, <1>13, <1>a, <2>1 DEF TimeSyncFails, ScheduleTyped, Waiting, surroundings
<1>14. ASSUME OtherCommandThrows PROVE ScheduleTyped'
  <2>1. services' \in Lifetimes
    BY <1>14 DEF OtherCommandThrows, ScheduleTyped, Lifetimes
  <2>2. QED
    BY <1>1, <1>14, <1>a, <2>1 DEF OtherCommandThrows, ScheduleTyped, Waiting, surroundings
<1>15. QED
  BY <1>2, <1>3, <1>4, <1>5, <1>6, <1>7, <1>8, <1>9, <1>10, <1>11, <1>12, <1>13, <1>14
     DEF Asking, AnnounceInQuiet, AnnounceAgain

\* Every step keeps the types.
LEMMA ScheduleTypedNext == ScheduleTyped /\ [ScheduleNext]_scheduleVars => ScheduleTyped'
<1> SUFFICES ASSUME ScheduleTyped, [ScheduleNext]_scheduleVars PROVE ScheduleTyped'
  OBVIOUS
<1> USE ScheduleConstants
<1>0. MaxChanges \in Nat /\ MaxLosses \in Nat /\ wanted.revision \in Nat
  BY DEF ScheduleTyped
<1>1. ASSUME NEW h \in Hashes, Change(h) PROVE ScheduleTyped'
  <2>1. spent' \in Spent /\ spent'.changes = spent.changes + 1
    BY <1>0, <1>1 DEF ScheduleTyped, Change, Spent
  <2>2. /\ wanted' \in [hash : Hashes, revision : 1 .. MaxChanges + 1]
        /\ wanted'.revision = wanted.revision + 1
    BY <1>0, <1>1 DEF ScheduleTyped, Change, Spent
  <2>3. artifact.revision \in Nat /\ running.revision \in Nat /\ wanted.revision \in Nat
    BY DEF ScheduleTyped, Artifacts, Passes
  <2>4. QED
    BY <1>1, <2>1, <2>2, <2>3 DEF ScheduleTyped, Change
<1>2. ASSUME Asking PROVE ScheduleTyped'
  BY <1>2, AskingTyped
<1>3. ASSUME LoadProjection PROVE ScheduleTyped'
  <2>1. tail \in Seq(Entries) /\ tail # <<>>
    BY <1>3 DEF LoadProjection, ScheduleTyped
  <2>2. Head(tail) \in Entries /\ Tail(tail) \in Seq(Entries) /\ Len(Tail(tail)) = Len(tail) - 1
    BY <2>1
  <2>3. /\ running' \in Passes /\ running'.pc = "decide" /\ running'.revision = wanted.revision
        /\ running'.hash \in Hashes
    BY <1>0, <1>3, <2>2 DEF LoadProjection, ScheduleTyped, Passes, Entries, None
  <2>4. handlers'.recorded + handlers'.synced + Len(tail') <= MaxQueued
    BY <1>3, <2>2 DEF LoadProjection, ScheduleTyped
  <2>5. QED
    BY <1>0, <1>3, <2>2, <2>3, <2>4 DEF LoadProjection, ScheduleTyped
<1>4. ASSUME NEW delivery \in Deliveries, Save(delivery), Finish, running.pc # "idle",
             UNCHANGED <<surroundings, runs, services, spent>>,
             operation' \in Unresolved \cup {None}
      PROVE  ScheduleTyped'
  <2>1. /\ running.revision \in Nat /\ running.hash \in Hashes
        /\ wanted.revision \in Nat /\ artifact \in Artifacts
        /\ artifact.revision <= wanted.revision /\ running.revision <= wanted.revision
    BY <1>0, <1>4 DEF ScheduleTyped, Passes
  <2>2. artifact' \in Artifacts /\ artifact'.revision <= wanted.revision
    BY <1>4, <2>1, SavedTyped DEF Save
  <2>3. QED
    BY <1>4, <2>1, <2>2, EndTyped DEF ScheduleTyped, surroundings
<1>5. ASSUME CompileFails PROVE ScheduleTyped'
  <2>1. "not_required" \in Deliveries
    BY DEF Deliveries
  <2>2. QED
    BY <1>4, <1>5, <2>1 DEF CompileFails, ScheduleTyped
<1>6. ASSUME Blocked PROVE ScheduleTyped'
  <2>1. operation \in Deliveries
    BY <1>6 DEF Deliveries, Blocked, ScheduleTyped
  <2>2. QED
    BY <1>4, <1>6, <2>1 DEF Blocked, ScheduleTyped
<1>7. ASSUME Decide PROVE ScheduleTyped'
  <2>1. artifact.delivery \in Deliveries /\ "not_required" \in Deliveries
    BY DEF ScheduleTyped, Artifacts, Deliveries
  <2>2. CASE running' = [running EXCEPT !.pc = "send"] /\ UNCHANGED <<artifact, runtime>>
    <3>1. /\ running' \in Passes /\ running'.pc = "send" /\ running'.hash \in Schedules
          /\ running'.revision = running.revision
      BY <1>7, <2>2 DEF Decide, ScheduleTyped, Passes, Hashes
    <3>2. QED
      BY <1>7, <2>2, <3>1 DEF Decide, ScheduleTyped, surroundings
  <2>3. CASE Finish /\ \E delivery \in {"not_required", artifact.delivery} : Save(delivery)
    BY <1>4, <1>7, <2>1, <2>3 DEF Decide
  <2>4. QED
    BY <1>7, <2>2, <2>3 DEF Decide
<1>8. ASSUME NEW r \in {"succeeded", "failed", "outcome_unknown"}, Answered(r), running.pc = "send",
             Took \/ UNCHANGED runs, operation' \in Unresolved \cup {None},
             UNCHANGED <<surroundings, artifact, services, runtime>>, UNCHANGED spent \/ Lose
      PROVE  ScheduleTyped'
  <2>1. /\ running' \in Passes /\ running'.pc = "save" /\ running'.result # None
        /\ running'.revision = running.revision /\ running'.hash = running.hash
    BY <1>8 DEF Answered, ScheduleTyped, Passes, None
  <2>2. runs' \in Schedules
    BY <1>8 DEF Took, ScheduleTyped
  <2>3. spent' \in Spent /\ spent'.changes = spent.changes
    BY <1>8, LoseTyped DEF ScheduleTyped
  <2>4. QED
    BY <1>8, <2>1, <2>2, <2>3 DEF ScheduleTyped, surroundings
<1>9. ASSUME Deliver PROVE ScheduleTyped'
  <2>1. PICK r \in {"succeeded", "failed"} : Answered(r)
    BY <1>9 DEF Deliver
  <2>2. QED
    BY <1>8, <1>9, <2>1 DEF Deliver, ScheduleTyped
<1>10. ASSUME DeliverUnknown PROVE ScheduleTyped'
  BY <1>8, <1>10 DEF DeliverUnknown, Unresolved
<1>11. ASSUME SaveDelivery PROVE ScheduleTyped'
  <2>1. running.result \in Deliveries
    BY <1>11 DEF SaveDelivery, ScheduleTyped, Passes, Deliveries, Unresolved
  <2>2. QED
    BY <1>4, <1>11, <2>1 DEF SaveDelivery, ScheduleTyped
<1>12. ASSUME Thrown, runs' \in Schedules, operation' \in Unresolved \cup {None},
              services' \in Lifetimes, UNCHANGED <<surroundings, artifact>>, UNCHANGED spent \/ Lose
       PROVE  ScheduleTyped'
  <2>1. spent' \in Spent /\ spent'.changes = spent.changes
    BY <1>12, LoseTyped DEF ScheduleTyped
  <2>2. QED
    BY <1>0, <1>12, <2>1, EndTyped DEF ScheduleTyped, surroundings
<1>13. ASSUME DispatchThrows PROVE ScheduleTyped'
  <2>1. runs' \in Schedules
    BY <1>13 DEF DispatchThrows, Took, ScheduleTyped
  <2>2. services' \in Lifetimes /\ operation' \in Unresolved \cup {None}
    BY <1>13 DEF DispatchThrows, ScheduleTyped, Lifetimes, Unresolved
  <2>3. QED
    BY <1>12, <1>13, <2>1, <2>2 DEF DispatchThrows
<1>14. ASSUME DispatchBlocked PROVE ScheduleTyped'
  BY <1>12, <1>14 DEF DispatchBlocked, ScheduleTyped
<1>15. ASSUME ReconcileFails PROVE ScheduleTyped'
  BY <1>12, <1>15 DEF ReconcileFails, ScheduleTyped
<1>16. ASSUME Restart PROVE ScheduleTyped'
  <2>1. runs' \in Schedules
    BY <1>16 DEF Restart, Took, ScheduleTyped
  <2>2. operation' \in Unresolved \cup {None} /\ notices' \in Nat
    BY <1>16 DEF Restart, ScheduleTyped, Unresolved
  <2>3. services' \in Lifetimes /\ runtime' \in Sessions
    BY <1>16 DEF Restart, NoServices, NoRuntime, Lifetimes, Sessions, None
  <2>4. spent' \in Spent /\ spent'.changes = spent.changes
    BY <1>16, LoseTyped DEF Restart
  <2>5. /\ handlers' \in [recorded : Nat, synced : Nat] /\ tail' \in Seq(Entries)
        /\ handlers'.recorded + handlers'.synced + Len(tail') <= MaxQueued
    BY <1>16 DEF Restart, NoHandlers
  <2>6. QED
    BY <1>0, <1>16, <2>1, <2>2, <2>3, <2>4, <2>5, NoPassTyped DEF Restart, ScheduleTyped
<1>17. CASE UNCHANGED scheduleVars
  BY <1>17 DEF scheduleVars, surroundings, ScheduleTyped
<1>18. QED
  BY <1>1, <1>2, <1>3, <1>5, <1>6, <1>7, <1>9, <1>10, <1>11, <1>13, <1>14, <1>15, <1>16, <1>17
     DEF ScheduleNext, Asking, Reconcile, HandleTransportReady, HandleAnnouncement

(* Every variable of a schedule's delivery keeps its type; a row is never  *)
(* of a revision that the configuration has not reached.                   *)
THEOREM ScheduleTypes == ScheduleSafety => []ScheduleTypeOK
<1>1. ScheduleTyped => ScheduleTypeOK
  <2> SUFFICES ASSUME ScheduleTyped PROVE ScheduleTypeOK
    OBVIOUS
  <2>1. handlers \in [recorded : 0 .. MaxQueued, synced : 0 .. MaxQueued]
    BY ScheduleConstants DEF ScheduleTyped
  <2>2. QED
    BY <2>1 DEF ScheduleTyped, ScheduleTypeOK, Artifacts, Lifetimes, Sessions, Passes
<1>2. QED
  BY <1>1, ScheduleTypedInit, ScheduleTypedNext, PTL DEF ScheduleSafety

-----------------------------------------------------------------------------
\* DeliveredWasTaken, and what the delivery under way has seen.
Taken ==
    /\ DeliveredWasTaken
    /\ running.pc = "save" /\ running.result = "succeeded" => running.hash \in taken

\* Every step keeps: what is shown as delivered was taken.
LEMMA TakenNext ==
  Taken /\ ScheduleTyped /\ [ScheduleNext]_scheduleVars => Taken'
<1> SUFFICES ASSUME Taken, ScheduleTyped, [ScheduleNext]_scheduleVars PROVE Taken'
  OBVIOUS
<1> USE DEF Taken, DeliveredWasTaken
<1>1. ASSUME NEW delivery, Save(delivery), Finish, taken' = taken,
             delivery = "succeeded" => running.hash \in taken /\ running.hash # "bad"
      PROVE  Taken'
  <2>1. running'.pc = "idle"
    BY <1>1, NoPassTyped DEF Finish
  <2>2. QED
    BY <1>1, <2>1 DEF Save, Saved
<1>2. ASSUME CompileFails PROVE Taken'
  BY <1>1, <1>2 DEF CompileFails
<1>3. ASSUME Blocked PROVE Taken'
  <2>1. operation # "succeeded"
    BY DEF ScheduleTyped, Unresolved, None
  <2>2. QED
    BY <1>1, <1>3, <2>1 DEF Blocked
<1>4. ASSUME Decide PROVE Taken'
  <2>1. CASE running' = [running EXCEPT !.pc = "send"] /\ UNCHANGED <<artifact, runtime>>
    <3>1. running'.pc = "send"
      BY <2>1 DEF ScheduleTyped, Passes
    <3>2. QED
      BY <1>4, <2>1, <3>1 DEF Decide
  <2>2. CASE Save("not_required") /\ Finish
    BY <1>1, <1>4, <2>2 DEF Decide
  <2>3. CASE Save(artifact.delivery) /\ Finish /\ artifact.hash = running.hash
    BY <1>1, <1>4, <2>3 DEF Decide
  <2>4. QED
    BY <1>4, <2>1, <2>2, <2>3 DEF Decide
<1>5. ASSUME Deliver PROVE Taken'
  <2>1. CASE Took /\ Answered("succeeded")
    BY <1>5, <2>1 DEF Deliver, Took, Answered, ScheduleTyped, Passes
  <2>2. CASE Answered("failed") /\ UNCHANGED taken
    BY <1>5, <2>2 DEF Deliver, Answered, ScheduleTyped, Passes
  <2>3. QED
    BY <1>5, <2>1, <2>2 DEF Deliver
<1>6. ASSUME DeliverUnknown PROVE Taken'
  <2>1. running'.result = "outcome_unknown" /\ taken \subseteq taken'
    BY <1>6 DEF DeliverUnknown, Answered, Took, ScheduleTyped, Passes
  <2>2. QED
    BY <1>6, <2>1 DEF DeliverUnknown
<1>7. ASSUME SaveDelivery PROVE Taken'
  <2>1. running.hash # "bad"
    BY <1>7, ScheduleConstants DEF SaveDelivery, ScheduleTyped
  <2>2. QED
    BY <1>1, <1>7, <2>1 DEF SaveDelivery
<1>8. ASSUME running' = NoPass, UNCHANGED artifact, taken \subseteq taken' PROVE Taken'
  BY <1>8, NoPassTyped
<1>9. ASSUME DispatchThrows \/ DispatchBlocked \/ ReconcileFails \/ Restart PROVE Taken'
  BY <1>8, <1>9 DEF DispatchThrows, DispatchBlocked, ReconcileFails, Restart, Thrown, Took
<1>10. ASSUME LoadProjection PROVE Taken'
  BY <1>10 DEF LoadProjection
<1>11. ASSUME TransportLost PROVE Taken'
  <2>1. /\ running'.pc = running.pc /\ running'.hash = running.hash
        /\ running'.result = running.result
    BY <1>11 DEF TransportLost, ScheduleTyped, Passes
  <2>2. QED
    BY <1>11, <2>1 DEF TransportLost
<1>12. ASSUME UNCHANGED <<artifact, running, taken>> PROVE Taken'
  BY <1>12
<1>13. ASSUME Asking, ~TransportLost PROVE Taken'
  BY <1>12, <1>13
     DEF Asking, RequestScheduleReconciliation, NoticeLost, TransportReady, StartScheduling,
         BeginStartupPass, BecomeReady, AnnounceInQuiet, AnnounceAgain, Announce, HandlerReturns,
         SignalTimeSync, ReconcileAnnounced, TimeSyncFails, OtherCommandThrows
<1>14. QED
  BY <1>2, <1>3, <1>4, <1>5, <1>6, <1>7, <1>9, <1>10, <1>11, <1>12, <1>13
     DEF ScheduleNext, Asking, Reconcile, HandleTransportReady, HandleAnnouncement, Change, scheduleVars

(* A row that says its schedule was delivered holds one the device took,   *)
(* though an answer is written after the state it is about has moved on,   *)
(* commands throw, and the process ends at any step of it.                 *)
THEOREM DeliveriesAreReal == ScheduleSafety => []DeliveredWasTaken
<1>1. ScheduleInit => Taken
  BY DEF ScheduleInit, Taken, DeliveredWasTaken, NoArtifact, NoPass
<1>2. Taken => DeliveredWasTaken
  BY DEF Taken
<1>3. QED
  BY <1>1, <1>2, ScheduleTypedInit, ScheduleTypedNext, TakenNext, PTL DEF ScheduleSafety
-----------------------------------------------------------------------------
(* Time synchronisation.                                                   *)

Guards == [day : Never .. MaxTime, started : Never .. MaxTime, updated : Never .. MaxTime,
           success : Never .. MaxTime]
DailyRuns == [on : BOOLEAN, day : Never .. MaxTime, at : Never .. MaxTime, left : SUBSET Clocks,
         failed : BOOLEAN]

\* TimeTypeOK, and the daily run.
TimeTyped ==
    /\ now \in 0 .. MaxTime
    /\ guard \in [Clocks -> Guards]
    /\ coordinator \in {"down", "starting", "ready", "stopping", "failed"}
    /\ daily \in DailyRuns
    /\ claimed \subseteq Clocks /\ announced \subseteq Clocks /\ synced \subseteq Clocks
    /\ counted \in [steps : Nat, restarts : Nat]
    /\ launched \in [Clocks -> [0 .. Day(MaxTime) -> Nat]]

\* The day of a time is no later than the time.
LEMMA DayBounded ==
  ASSUME NEW t \in 0 .. MaxTime
  PROVE  Day(t) \in 0 .. MaxTime
<1>1. DayLength \in Nat \ {0} /\ MaxTime \in Nat
  BY TimeSyncConstants
<1> DEFINE q == t \div DayLength
           r == t % DayLength
<1>2. q \in Nat /\ r \in 0 .. DayLength - 1 /\ t = DayLength * q + r
  BY <1>1
<1>3. q <= DayLength * q
  BY <1>1, <1>2
<1>4. QED
  BY <1>1, <1>2, <1>3 DEF Day

\* A later time is on no earlier day.
LEMMA DayMonotone ==
  ASSUME NEW s \in Nat, NEW t \in Nat, s <= t
  PROVE  Day(s) \in Nat /\ Day(t) \in Nat /\ Day(s) <= Day(t)
<1>1. DayLength \in Nat \ {0}
  BY TimeSyncConstants
<1>2. /\ s \div DayLength \in Nat /\ s % DayLength \in 0 .. DayLength - 1
      /\ s = DayLength * (s \div DayLength) + (s % DayLength)
      /\ t \div DayLength \in Nat /\ t % DayLength \in 0 .. DayLength - 1
      /\ t = DayLength * (t \div DayLength) + (t % DayLength)
  BY <1>1
<1>3. ASSUME NEW a \in Nat, NEW b \in Nat, a < b
      PROVE  DayLength * a + DayLength <= DayLength * b
  <2>1. a + 1 <= b
    BY <1>3
  <2>2. PICK k \in Nat : b = a + 1 + k
    <3>1. b - (a + 1) \in Nat
      BY <2>1
    <3>2. b = a + 1 + (b - (a + 1))
      OBVIOUS
    <3>3. QED
      BY <3>1, <3>2
  <2>3. DayLength * b = DayLength * a + DayLength + DayLength * k /\ DayLength * k >= 0
    BY <1>1, <2>2
  <2>4. QED
    BY <1>1, <2>3
<1>4. QED
  BY <1>1, <1>2, <1>3 DEF Day

\* The run that the timer begins is a run.
LEMMA RunTyped ==
  ASSUME TimeTyped
  PROVE  Run \in DailyRuns
<1>1. Day(now) \in 0 .. MaxTime /\ now \in 0 .. MaxTime /\ MaxTime \in Nat
  BY DayBounded, TimeSyncConstants DEF TimeTyped
<1>2. CASE Due(now)
  BY <1>1, <1>2 DEF Run, DailyRuns, Never
<1>3. CASE ~Due(now)
  <2>1. Run = [on |-> TRUE, day |-> Never, at |-> Never, left |-> {}, failed |-> FALSE]
    BY <1>3 DEF Run, NoRun
  <2>2. Never \in Never .. MaxTime /\ {} \in SUBSET Clocks
    BY <1>1 DEF Never
  <2>3. QED
    BY <2>1, <2>2 DEF DailyRuns
<1>4. QED
  BY <1>2, <1>3

\* Counting up one entry keeps a table of counts.
LEMMA BumpTyped ==
  ASSUME NEW D, NEW f \in [D -> Nat], NEW x
  PROVE  [f EXCEPT ![x] = f[x] + 1] \in [D -> Nat]
<1>1. CASE x \in D
  BY <1>1
<1>2. CASE x \notin D
  <2>1. [f EXCEPT ![x] = f[x] + 1] = f
    BY <1>2
  <2>2. QED
    BY <2>1
<1>3. QED
  BY <1>1, <1>2

\* The initial states are typed.
LEMMA TimeTypedInit == TimeInit => TimeTyped
<1> SUFFICES ASSUME TimeInit PROVE TimeTyped
  OBVIOUS
<1>1. MaxTime \in Nat
  BY TimeSyncConstants
<1>2. NoGuard \in Guards /\ NoRun \in DailyRuns
  BY <1>1 DEF NoGuard, NoRun, Guards, DailyRuns, Never
<1>3. launched \in [Clocks -> [0 .. Day(MaxTime) -> Nat]]
  BY DEF TimeInit
<1>4. now \in 0 .. MaxTime /\ counted \in [steps : Nat, restarts : Nat]
  BY <1>1 DEF TimeInit
<1>5. guard \in [Clocks -> Guards] /\ daily \in DailyRuns
  BY <1>2 DEF TimeInit
<1>6. QED
  BY <1>3, <1>4, <1>5 DEF TimeInit, TimeTyped

\* Every step keeps the types.
LEMMA TimeTypedNext == TimeTyped /\ [TimeNext]_timeVars => TimeTyped'
<1> SUFFICES ASSUME TimeTyped, [TimeNext]_timeVars PROVE TimeTyped'
  OBVIOUS
<1>0. MaxTime \in Nat
  BY TimeSyncConstants
<1>1. NoRun \in DailyRuns /\ Run \in DailyRuns
  BY <1>0, RunTyped DEF NoRun, DailyRuns, Never
<1>2. CASE Tick
  BY <1>0, <1>2 DEF Tick, TimeTyped
<1>3. CASE ClockStepsBack
  BY <1>0, <1>3 DEF ClockStepsBack, TimeTyped
<1>4. CASE StartSync
  BY <1>1, <1>4 DEF StartSync, TimeTyped
<1>5. CASE DailyTimerFires
  BY <1>1, <1>5 DEF DailyTimerFires, TimeTyped
<1>6. ASSUME NEW d \in Clocks, ClaimNext(d) PROVE TimeTyped'
  <2> DEFINE answer == Claim(guard[d], daily.day, daily.at)
  <2>1. daily' \in DailyRuns
    <3>1. daily.left \ {d} \in SUBSET Clocks /\ {} \in SUBSET Clocks
      BY DEF TimeTyped, DailyRuns
    <3>2. daily' = [daily EXCEPT !.left = IF answer = "error" THEN {} ELSE @ \ {d},
                                 !.failed = @ \/ answer = "error"]
      BY <1>6 DEF ClaimNext
    <3>3. QED
      BY <3>1, <3>2 DEF TimeTyped, DailyRuns
  <2>2. CASE answer = "claimed"
    <3>1. /\ guard' = [guard EXCEPT ![d].day = daily.day, ![d].started = daily.at,
                                    ![d].updated = daily.at]
          /\ claimed' = claimed \cup {d}
          /\ launched' = [launched EXCEPT ![d][daily.day] = @ + 1]
      BY <1>6, <2>2 DEF ClaimNext
    <3>2. guard' \in [Clocks -> Guards]
      BY <3>1 DEF TimeTyped, Guards, DailyRuns
    <3>3. launched' \in [Clocks -> [0 .. Day(MaxTime) -> Nat]]
      <4>1. launched[d] \in [0 .. Day(MaxTime) -> Nat]
        BY DEF TimeTyped
      <4> DEFINE f == launched[d]
                 D == 0 .. Day(MaxTime)
      <4>2. [f EXCEPT ![daily.day] = f[daily.day] + 1] \in [D -> Nat]
        <5>1. f \in [D -> Nat]
          BY <4>1
        <5>2. QED
          BY <5>1, BumpTyped
      <4>3. launched' = [launched EXCEPT ![d] = [launched[d] EXCEPT ![daily.day] = @ + 1]]
        BY <3>1
      <4>4. QED
        BY <4>2, <4>3 DEF TimeTyped
    <3>4. QED
      BY <1>6, <2>1, <3>1, <3>2, <3>3 DEF ClaimNext, TimeTyped
  <2>3. CASE answer # "claimed"
    BY <1>6, <2>1, <2>3 DEF ClaimNext, TimeTyped
  <2>4. QED
    BY <2>2, <2>3
<1>7. ASSUME NEW d \in Clocks, DailySyncEnds(d) PROVE TimeTyped'
  <2>1. daily' \in DailyRuns
    BY <1>7 DEF DailySyncEnds, TimeTyped, DailyRuns
  <2>2. guard' \in [Clocks -> Guards]
    <3>1. CASE guard' = guard
      BY <3>1 DEF TimeTyped
    <3>2. CASE \E ok \in BOOLEAN :
                  guard' = [guard EXCEPT ![d].updated = now,
                                         ![d].success = IF ok THEN daily.day ELSE @]
      <4>1. guard[d] \in Guards /\ daily.day \in Never .. MaxTime /\ now \in Never .. MaxTime
        BY <1>0 DEF TimeTyped, DailyRuns, Never
      <4>2. PICK ok \in BOOLEAN :
                  guard' = [guard EXCEPT ![d].updated = now,
                                         ![d].success = IF ok THEN daily.day ELSE @]
        BY <3>2
      <4>3. [guard[d] EXCEPT !.updated = now, !.success = IF ok THEN daily.day ELSE @] \in Guards
        BY <4>1 DEF Guards
      <4>4. guard' = [guard EXCEPT ![d] = [guard[d] EXCEPT !.updated = now,
                                                   !.success = IF ok THEN daily.day ELSE @]]
        BY <4>2 DEF TimeTyped
      <4>5. QED
        BY <4>3, <4>4 DEF TimeTyped
    <3>3. QED
      BY <1>7, <3>1, <3>2 DEF DailySyncEnds
  <2>3. claimed' \subseteq Clocks /\ synced' \subseteq Clocks
    BY <1>7 DEF DailySyncEnds, TimeTyped
  <2>4. QED
    BY <1>7, <2>1, <2>2, <2>3 DEF DailySyncEnds, TimeTyped
<1>8. CASE DailyRunEnds
  BY <1>1, <1>8 DEF DailyRunEnds, TimeTyped
<1>9. CASE StopSync
  BY <1>9 DEF StopSync, TimeTyped
<1>10. CASE SyncEnds
  BY <1>1, <1>10 DEF SyncEnds, TimeTyped
<1>11. ASSUME NEW d \in Clocks,
              SignalAnnouncement(d) \/ AnnouncementSyncEnds(d) \/ SignalDeviceUnavailable(d)
       PROVE  TimeTyped'
  BY <1>11 DEF SignalAnnouncement, AnnouncementSyncEnds, SignalDeviceUnavailable, TimeTyped
<1>12. ASSUME NEW d \in Clocks,
              DailySyncThrows(d) \/ AnnouncementSyncThrows(d)
       PROVE  TimeTyped'
  <2>1. daily' \in DailyRuns
    BY <1>12 DEF DailySyncThrows, AnnouncementSyncThrows, TimeTyped, DailyRuns
  <2>2. QED
    BY <1>12, <2>1 DEF DailySyncThrows, AnnouncementSyncThrows, TimeTyped
<1>13. CASE TraversalThrows
  <2>1. daily' \in DailyRuns
    BY <1>13 DEF TraversalThrows, TimeTyped, DailyRuns
  <2>2. QED
    BY <1>13, <2>1 DEF TraversalThrows, TimeTyped
<1>14. CASE UNCHANGED timeVars
  BY <1>14 DEF timeVars, TimeTyped
<1>15. QED
  BY <1>2, <1>3, <1>4, <1>5, <1>6, <1>7, <1>8, <1>9, <1>10, <1>11, <1>12, <1>13, <1>14
     DEF TimeNext

(* The clock, the guards and the runs of the time synchronisation stay in   *)
(* their domains, whatever the clock does and whoever restarts.            *)
THEOREM TimeTypes == TimeSafety => []TimeTypeOK
<1>1. TimeTyped => TimeTypeOK
  BY DEF TimeTyped, TimeTypeOK, Guards, DailyRuns
<1>2. QED
  BY <1>1, TimeTypedInit, TimeTypedNext, PTL DEF TimeSafety

-----------------------------------------------------------------------------
\* OneDailySyncPerDay: no day after the one of a device's guard has a sync.
LaunchedOnce ==
    \A d \in Clocks : \A n \in 0 .. Day(MaxTime) :
        launched[d][n] <= 1 /\ (n > guard[d].day => launched[d][n] = 0)

\* Every step keeps: no sync after the day of the guard.
LEMMA LaunchedOnceNext ==
  LaunchedOnce /\ TimeTyped /\ [TimeNext]_timeVars => LaunchedOnce'
<1> SUFFICES ASSUME LaunchedOnce, TimeTyped, [TimeNext]_timeVars,
                    NEW c \in Clocks, NEW n \in 0 .. Day(MaxTime)
             PROVE  launched'[c][n] <= 1 /\ (n > guard'[c].day => launched'[c][n] = 0)
  BY DEF LaunchedOnce
<1>0. /\ launched[c][n] <= 1 /\ (n > guard[c].day => launched[c][n] = 0)
      /\ launched[c][n] \in Nat /\ guard[c].day \in Int
  <2>1. launched[c] \in [0 .. Day(MaxTime) -> Nat] /\ guard[c] \in Guards
    BY DEF TimeTyped
  <2>2. launched[c][n] \in Nat
    BY <2>1
  <2>3. guard[c].day \in Never .. MaxTime
    BY <2>1 DEF Guards
  <2>4. QED
    BY <2>2, <2>3 DEF LaunchedOnce, Never
<1>1. ASSUME NEW d \in Clocks, ClaimNext(d)
      PROVE  launched'[c][n] <= 1 /\ (n > guard'[c].day => launched'[c][n] = 0)
  <2> DEFINE answer == Claim(guard[d], daily.day, daily.at)
  <2>1. CASE answer = "claimed"
    <3>1. /\ guard' = [guard EXCEPT ![d].day = daily.day, ![d].started = daily.at,
                                    ![d].updated = daily.at]
          /\ launched' = [launched EXCEPT ![d][daily.day] = @ + 1]
      BY <1>1, <2>1 DEF ClaimNext
    <3>2. guard[d].day < daily.day /\ daily.day \in Int
      BY <2>1 DEF Claim, TimeTyped, Guards, DailyRuns, Never
    <3>3. guard'[c].day = IF c = d THEN daily.day ELSE guard[c].day
      BY <3>1 DEF TimeTyped, Guards
    <3>4. launched'[c][n] = IF c = d /\ n = daily.day THEN launched[c][n] + 1 ELSE launched[c][n]
      BY <3>1 DEF TimeTyped
    <3>5. QED
      BY <1>0, <3>2, <3>3, <3>4
  <2>2. CASE answer # "claimed"
    BY <1>0, <1>1, <2>2 DEF ClaimNext
  <2>3. QED
    BY <2>1, <2>2
<1>2. ASSUME NEW d \in Clocks, DailySyncEnds(d)
      PROVE  launched'[c][n] <= 1 /\ (n > guard'[c].day => launched'[c][n] = 0)
  <2>1. guard'[c].day = guard[c].day /\ launched' = launched
    BY <1>2 DEF DailySyncEnds, TimeTyped, Guards
  <2>2. QED
    BY <1>0, <2>1
<1>3. CASE UNCHANGED <<guard, launched>>
  BY <1>0, <1>3
<1>4. QED
  BY <1>1, <1>2, <1>3 DEF TimeNext, timeVars, Tick, ClockStepsBack, StartSync, DailyTimerFires,
       DailyRunEnds, StopSync, SyncEnds, SignalAnnouncement, AnnouncementSyncEnds,
       SignalDeviceUnavailable, TraversalThrows, DailySyncThrows, AnnouncementSyncThrows

(* A device is sent its daily sync at most once a day: the claim is written *)
(* before the command, and no claim of a day follows one of a later day.   *)
THEOREM SyncedOnce == TimeSafety => []OneDailySyncPerDay
<1>1. TimeInit => LaunchedOnce
  BY DEF TimeInit, LaunchedOnce
<1>2. LaunchedOnce /\ TimeTyped => OneDailySyncPerDay
  BY DEF LaunchedOnce, TimeTyped, OneDailySyncPerDay
<1>3. QED
  BY <1>1, <1>2, TimeTypedInit, TimeTypedNext, LaunchedOnceNext, PTL DEF TimeSafety

-----------------------------------------------------------------------------
\* While the clock has never been set back, nothing on disk is of a later time
\* than the clock's, and what a run has still to claim is older than the run.
Written(d) ==
    guard[d].started <= now /\ guard[d].updated <= now /\ guard[d].day <= Day(now)
Claimable(d) ==
    d \notin claimed /\ guard[d].day <= daily.day /\ guard[d].updated <= daily.at
Steady ==
    /\ \A d \in Clocks : Written(d)
    /\ daily.on => daily.at <= now /\ daily.day <= Day(now)
    /\ \A d \in daily.left : Claimable(d)
    /\ claimed # {} => daily.on /\ coordinator # "down"

\* What the coordinator fails for.
Excused == errored \/ counted.steps > 0 \/ overnight

ClockTroubles ==
    /\ coordinator = "failed" \/ daily.failed => Excused
    /\ counted.steps = 0 => Steady

\* Nothing has failed at first.
LEMMA ClockTroublesInit == TimeInit => ClockTroubles
<1> SUFFICES ASSUME TimeInit PROVE ClockTroubles
  OBVIOUS
<1>1. Day(0) \in Nat
  BY DayMonotone
<1>2. \A d \in Clocks : Written(d)
  BY <1>1 DEF TimeInit, Written, NoGuard, Never
<1>3. QED
  BY <1>2 DEF TimeInit, ClockTroubles, Steady, NoRun

\* A run begins.
LEMMA RunSteady ==
  ASSUME TimeTyped, Steady, claimed = {}, claimed' = {}, daily' = Run,
         UNCHANGED <<now, guard>>
  PROVE  Steady'
<1>1. now \in Nat /\ Day(now) \in Nat
  BY DayMonotone, TimeSyncConstants DEF TimeTyped
<1>2. \A d \in Clocks : Written(d)'
  BY DEF Steady, Written
<1>3. CASE Due(now)
  <2>1. daily'.at = now /\ daily'.day = Day(now) /\ daily'.left = Clocks
    BY <1>3 DEF Run
  <2>2. \A d \in Clocks : Claimable(d)'
    BY <2>1 DEF Steady, Written, Claimable
  <2>3. QED
    BY <1>1, <1>2, <2>1, <2>2 DEF Steady
<1>4. CASE ~Due(now)
  <2>1. daily'.at = -1 /\ daily'.day = -1 /\ daily'.left = {}
    BY <1>4 DEF Run, NoRun, Never
  <2>2. QED
    BY <1>1, <1>2, <2>1 DEF Steady
<1>5. QED
  BY <1>3, <1>4

\* Every step keeps: only the clock, or an error, makes the coordinator fail.
LEMMA ClockTroublesNext ==
  ClockTroubles /\ TimeTyped /\ [TimeNext]_timeVars => ClockTroubles'
<1> SUFFICES ASSUME ClockTroubles, TimeTyped, [TimeNext]_timeVars PROVE ClockTroubles'
  OBVIOUS
<1>0. /\ counted.steps \in Nat /\ now \in Nat /\ Day(now) \in Nat
      /\ counted \in [steps : Nat, restarts : Nat]
      /\ \A d \in Clocks : /\ guard[d].started \in Int /\ guard[d].updated \in Int
                           /\ guard[d].day \in Int
      /\ daily.day \in Int /\ daily.at \in Int
  <2>1. now \in Nat /\ Day(now) \in Nat
    BY DayMonotone, TimeSyncConstants DEF TimeTyped
  <2>2. ASSUME NEW d \in Clocks
        PROVE  guard[d].started \in Int /\ guard[d].updated \in Int /\ guard[d].day \in Int
    <3>1. guard[d] \in Guards
      BY DEF TimeTyped
    <3>2. QED
      BY <3>1 DEF Guards, Never
  <2>3. daily.day \in Int /\ daily.at \in Int
    <3>1. daily \in DailyRuns
      BY DEF TimeTyped
    <3>2. QED
      BY <3>1 DEF DailyRuns, Never
  <2>4. QED
    BY <2>1, <2>2, <2>3 DEF TimeTyped
<1>1. CASE Tick
  <2>1. Day(now) <= Day(now') /\ Day(now') \in Nat /\ now' = now + 1
    BY <1>0, <1>1, DayMonotone DEF Tick
  <2>2. ASSUME Steady PROVE Steady'
    <3>1. ASSUME NEW d \in Clocks PROVE Written(d)'
      BY <1>0, <1>1, <2>1, <2>2 DEF Tick, Steady, Written
    <3>2. daily.on => daily.at <= now' /\ daily.day <= Day(now')
      BY <1>0, <2>1, <2>2 DEF Steady
    <3>3. \A d \in daily.left : Claimable(d)'
      BY <1>1, <2>2 DEF Tick, Steady, Claimable
    <3>4. QED
      BY <1>1, <2>2, <3>1, <3>2, <3>3 DEF Tick, Steady
  <2>3. QED
    BY <1>1, <2>2 DEF Tick, ClockTroubles, Excused
<1>2. CASE ClockStepsBack
  <2>1. counted'.steps > 0
    BY <1>0, <1>2 DEF ClockStepsBack
  <2>2. QED
    BY <2>1 DEF ClockTroubles, Excused
<1>3. CASE StartSync \/ DailyTimerFires
  <2>1. daily' = Run /\ UNCHANGED <<now, guard, claimed, counted, overnight, errored>>
        /\ (coordinator' = "failed" => coordinator = "failed")
    BY <1>3 DEF StartSync, DailyTimerFires
  <2>2. ~daily'.failed
    BY <2>1 DEF Run, NoRun
  <2>3. ASSUME counted.steps = 0 PROVE Steady'
    <3>1. Steady /\ claimed = {}
      BY <1>3, <2>3 DEF ClockTroubles, Steady, StartSync, DailyTimerFires
    <3>2. QED
      BY <2>1, <3>1, RunSteady
  <2>4. QED
    BY <2>1, <2>2, <2>3 DEF ClockTroubles, Excused
<1>4. ASSUME NEW d \in Clocks, ClaimNext(d) PROVE ClockTroubles'
  <2> DEFINE answer == Claim(guard[d], daily.day, daily.at)
  <2>1. /\ UNCHANGED <<now, coordinator, counted, overnight, errored>>
        /\ daily.on /\ Accepting /\ d \in daily.left
    BY <1>4 DEF ClaimNext
  <2>2. /\ daily'.failed = (daily.failed \/ answer = "error") /\ daily'.on = daily.on
        /\ daily'.day = daily.day /\ daily'.at = daily.at
        /\ daily'.left \subseteq daily.left \ {d}
    BY <1>4 DEF ClaimNext, TimeTyped, DailyRuns
  <2>3. ASSUME Steady PROVE answer # "error"
    BY <1>0, <2>1, <2>3 DEF Steady, Claimable, Claim
  <2>4. ASSUME Steady PROVE Steady'
    <3>1. CASE answer = "claimed"
      <4>1. /\ guard' = [guard EXCEPT ![d].day = daily.day, ![d].started = daily.at,
                                      ![d].updated = daily.at]
            /\ claimed' = claimed \cup {d}
        BY <1>4, <3>1 DEF ClaimNext
      <4>2. /\ guard'[d].started = daily.at /\ guard'[d].updated = daily.at
            /\ guard'[d].day = daily.day
            /\ \A c \in Clocks \ {d} : guard'[c] = guard[c]
        BY <4>1 DEF TimeTyped, Guards
      <4>3. \A c \in Clocks : Written(c)'
        BY <2>1, <2>4, <4>2 DEF Steady, Written
      <4>4. daily.left \subseteq Clocks
        BY DEF TimeTyped, DailyRuns
      <4>5. \A c \in daily'.left : Claimable(c)'
        BY <2>2, <2>4, <4>1, <4>2, <4>4 DEF Steady, Claimable
      <4>6. coordinator # "down"
        BY <2>1 DEF Accepting
      <4>7. QED
        BY <2>1, <2>2, <2>4, <4>3, <4>5, <4>6 DEF Steady
    <3>2. CASE answer # "claimed"
      <4>1. UNCHANGED <<guard, claimed>>
        BY <1>4, <3>2 DEF ClaimNext
      <4>2. QED
        BY <2>1, <2>2, <2>4, <4>1 DEF Steady, Written, Claimable
    <3>3. QED
      BY <3>1, <3>2
  <2>5. ASSUME daily'.failed PROVE Excused
    <3>1. daily.failed \/ answer = "error"
      BY <2>2, <2>5, Zenon
    <3>2. QED
      BY <1>0, <2>3, <3>1 DEF ClockTroubles, Excused
  <2>6. QED
    BY <1>0, <2>1, <2>4, <2>5 DEF ClockTroubles, Excused
<1>5. ASSUME NEW d \in Clocks, DailySyncEnds(d) PROVE ClockTroubles'
  <2>1. /\ d \in claimed /\ claimed' = claimed \ {d}
        /\ UNCHANGED <<now, coordinator, counted, errored>>
    BY <1>5 DEF DailySyncEnds
  <2>2. PICK outcome \in {"succeeded", "failed", "blocked"} :
          LET ok == outcome = "succeeded"
              answer == IF outcome = "blocked" THEN "blocked"
                        ELSE Record(guard[d], daily.day, now, ok)
          IN  /\ daily' = [daily EXCEPT !.failed = @ \/ answer = "error"]
              /\ guard' = IF answer = "recorded"
                          THEN [guard EXCEPT ![d].updated = now,
                                             ![d].success = IF ok THEN daily.day ELSE @]
                          ELSE guard
              /\ overnight' = (overnight \/ (ok /\ Day(now) > daily.day))
    BY <1>5 DEF DailySyncEnds
  <2> DEFINE ok == outcome = "succeeded"
             answer == IF outcome = "blocked" THEN "blocked"
                       ELSE Record(guard[d], daily.day, now, ok)
  <2>3. /\ daily'.failed = (daily.failed \/ answer = "error") /\ daily'.on = daily.on
        /\ daily'.day = daily.day /\ daily'.at = daily.at /\ daily'.left = daily.left
    BY <2>2 DEF TimeTyped, DailyRuns
  <2>4. (ok /\ Day(now) > daily.day => overnight') /\ (overnight => overnight')
    BY <2>2, Zenon
  <2>5. ASSUME Steady, answer = "error" PROVE overnight'
    <3>1. daily.day <= Day(now) /\ Written(d)
      BY <2>1, <2>5 DEF Steady, TimeTyped
    <3>2. ok /\ Day(now) # daily.day
      BY <1>0, <2>1, <2>5, <3>1 DEF Written, Record, TimeTyped
    <3>3. Day(now) > daily.day
      BY <1>0, <3>1, <3>2
    <3>4. QED
      BY <2>4, <3>2, <3>3
  <2>6. ASSUME Steady PROVE Steady'
    <3>1. /\ guard'[d].started = guard[d].started /\ guard'[d].updated \in {now, guard[d].updated}
          /\ guard'[d].day = guard[d].day
          /\ \A c \in Clocks \ {d} : guard'[c] = guard[c]
      BY <2>2 DEF TimeTyped, Guards
    <3>2. \A c \in Clocks : Written(c)'
      BY <1>0, <2>1, <2>6, <3>1 DEF Steady, Written
    <3>3. daily.left \subseteq Clocks
      BY DEF TimeTyped, DailyRuns
    <3>4. \A c \in daily'.left : Claimable(c)'
      BY <2>1, <2>3, <2>6, <3>1, <3>3 DEF Steady, Claimable
    <3>5. QED
      BY <2>1, <2>3, <2>6, <3>2, <3>4 DEF Steady
  <2>7. ASSUME daily'.failed PROVE Excused'
    <3>1. daily.failed \/ answer = "error"
      BY <2>3, <2>7, Zenon
    <3>2. CASE daily.failed
      BY <2>1, <2>4, <3>2 DEF ClockTroubles, Excused
    <3>3. CASE answer = "error"
      BY <1>0, <2>1, <2>5, <3>3 DEF ClockTroubles, Excused
    <3>4. QED
      BY <3>1, <3>2, <3>3
  <2>8. coordinator' = "failed" => Excused'
    BY <2>1, <2>4 DEF ClockTroubles, Excused
  <2>9. QED
    BY <2>1, <2>6, <2>7, <2>8 DEF ClockTroubles
<1>6. CASE DailyRunEnds \/ SyncEnds
  <2>1. /\ daily' = NoRun /\ claimed' = {} /\ UNCHANGED <<now, guard, overnight>>
        /\ counted'.steps = counted.steps
    BY <1>0, <1>6 DEF DailyRunEnds, SyncEnds
  <2>2. coordinator' = "failed" => (coordinator = "failed" \/ daily.failed) /\ errored' = errored
    BY <1>6 DEF DailyRunEnds, SyncEnds
  <2>3. ASSUME Steady PROVE Steady'
    BY <2>1, <2>3 DEF Steady, Written, NoRun
  <2>4. coordinator' = "failed" => Excused'
    BY <2>1, <2>2 DEF ClockTroubles, Excused
  <2>5. QED
    BY <2>1, <2>3, <2>4 DEF ClockTroubles, NoRun
<1>7. ASSUME TraversalThrows \/ (\E d \in Clocks : DailySyncThrows(d)) PROVE ClockTroubles'
  <2>1. /\ UNCHANGED <<now, guard, counted>> /\ errored' /\ claimed' \subseteq claimed
        /\ coordinator' = coordinator
    BY <1>7 DEF TraversalThrows, DailySyncThrows
  <2>2. /\ daily'.on = daily.on /\ daily'.day = daily.day /\ daily'.at = daily.at
        /\ daily'.left \subseteq daily.left
    BY <1>7 DEF TraversalThrows, DailySyncThrows, TimeTyped, DailyRuns
  <2>3. ASSUME Steady PROVE Steady'
    BY <2>1, <2>2, <2>3 DEF Steady, Written, Claimable
  <2>4. QED
    BY <2>1, <2>3 DEF ClockTroubles, Excused
<1>8. ASSUME NEW d \in Clocks, AnnouncementSyncThrows(d) PROVE ClockTroubles'
  <2>1. /\ UNCHANGED <<now, guard, daily, claimed, counted>> /\ errored'
        /\ coordinator' = "failed"
    BY <1>8 DEF AnnouncementSyncThrows
  <2>2. ASSUME Steady PROVE Steady'
    BY <2>1, <2>2 DEF Steady, Written, Claimable
  <2>3. QED
    BY <2>1, <2>2 DEF ClockTroubles, Excused
<1>9. CASE UNCHANGED <<now, guard, daily, claimed, counted, overnight, errored>>
           /\ (coordinator' \in {"down", "failed"} => coordinator' = coordinator)
  BY <1>9 DEF ClockTroubles, Excused, Steady, Written, Claimable
<1>10. QED
  BY <1>1, <1>2, <1>3, <1>4, <1>5, <1>6, <1>7, <1>8, <1>9
     DEF TimeNext, timeVars, StopSync, SignalAnnouncement, AnnouncementSyncEnds,
         SignalDeviceUnavailable

(* The coordinator gives up for a cause only: it never fails unless a      *)
(* command or the database threw in this process, the wall clock was set   *)
(* back, or an answer came after midnight.  The claims and the results     *)
(* that it writes itself, of any day, before or after any restart, never   *)
(* make it.                                                                *)
THEOREM FailsForCause == TimeSafety => []GivesUpForCause
<1>1. ClockTroubles => GivesUpForCause
  BY DEF ClockTroubles, GivesUpForCause, Excused
<1>2. QED
  BY <1>1, ClockTroublesInit, ClockTroublesNext, TimeTypedInit, TimeTypedNext, PTL
     DEF TimeSafety
-----------------------------------------------------------------------------
(* Refreshed outputs.                                                      *)

Batches == [schedules : Version \cup {NoVersion}, overrides : Version \cup {NoVersion}]
Workers == [pending : Batches, running : Batches, next : 1 .. Outputs, sent : BOOLEAN]
Parts == {"schedules", "overrides"}

\* RefreshTypeOK, one conjunct after the other.
RefreshTyped ==
    /\ phase \in Phases /\ latched \in BOOLEAN /\ requested \in BOOLEAN
    /\ timer \in [armed : BOOLEAN, left : 0 .. Interval]
    /\ tick \in [active : BOOLEAN, read : Batches]
    /\ worker \in [Devices -> Workers]
    /\ cooldown \in [Devices -> 0 .. Cooldown]
    /\ newest \in Version /\ faults \in 0 .. MaxFailures
    /\ shown \in [Devices -> [1 .. Outputs -> Version \cup {NoVersion}]]

\* The constants, and the values that stand for nothing, are typed.
LEMMA RefreshBasics ==
  /\ MaxVersions \in Nat /\ MaxFailures \in Nat
  /\ Outputs \in Nat \ {0} /\ Interval \in Nat \ {0} /\ Cooldown \in Nat \ {0}
  /\ NoBatch \in Batches /\ IdleWorker \in Workers
  /\ NoTick \in [active : BOOLEAN, read : Batches]
<1>1. /\ MaxVersions \in Nat /\ MaxFailures \in Nat
      /\ Outputs \in Nat \ {0} /\ Interval \in Nat \ {0} /\ Cooldown \in Nat \ {0}
  BY RefreshConstants
<1>2. NoBatch \in Batches
  BY DEF NoBatch, Batches
<1>3. 1 \in 1 .. Outputs
  BY <1>1
<1>4. IdleWorker \in Workers
  BY <1>2, <1>3 DEF IdleWorker, Workers
<1>5. NoTick \in [active : BOOLEAN, read : Batches]
  BY <1>2 DEF NoTick
<1>6. QED
  BY <1>1, <1>2, <1>4, <1>5

\* A worker whose batch has ended is a worker.
LEMMA AfterBatchTyped ==
  ASSUME NEW d, NEW w \in Workers, NEW wait
  PROVE  AfterBatch(d, w, wait) \in Workers
  BY RefreshBasics DEF AfterBatch, Workers

\* So is one whose waiting batch is dropped, with the timer disarmed.
LEMMA DiscardedTyped ==
  ASSUME RefreshTyped
  PROVE  /\ Discarded \in [Devices -> Workers]
         /\ Disarmed \in [armed : BOOLEAN, left : 0 .. Interval]
<1>1. ASSUME NEW d \in Devices PROVE [worker[d] EXCEPT !.pending = NoBatch] \in Workers
  BY RefreshBasics DEF RefreshTyped, Workers
<1>2. Discarded \in [Devices -> Workers]
  BY <1>1 DEF Discarded
<1>3. Disarmed \in [armed : BOOLEAN, left : 0 .. Interval]
  BY DEF Disarmed, RefreshTyped
<1>4. QED
  BY <1>2, <1>3

\* What a batch shows is a version, or nothing yet.
LEMMA ShowsTyped ==
  ASSUME NEW b \in Batches, NEW o
  PROVE  Shows(b, o) \in Version \cup {NoVersion}
  BY DEF Shows, Batches

\* The initial states are typed.
LEMMA RefreshTypedInit == RefreshInit => RefreshTyped
<1> SUFFICES ASSUME RefreshInit PROVE RefreshTyped
  OBVIOUS
<1>1. phase \in Phases /\ newest \in Version /\ faults \in 0 .. MaxFailures
  BY RefreshBasics DEF RefreshInit, Phases, Version
<1>2. timer \in [armed : BOOLEAN, left : 0 .. Interval]
  BY RefreshBasics DEF RefreshInit
<1>3. cooldown \in [Devices -> 0 .. Cooldown]
  BY RefreshBasics DEF RefreshInit
<1>4. shown \in [Devices -> [1 .. Outputs -> Version \cup {NoVersion}]]
  BY DEF RefreshInit
<1>5. worker \in [Devices -> Workers] /\ tick \in [active : BOOLEAN, read : Batches]
  BY RefreshBasics DEF RefreshInit
<1>6. QED
  BY <1>1, <1>2, <1>3, <1>4, <1>5 DEF RefreshInit, RefreshTyped

\* Every step keeps the types.
LEMMA RefreshTypedNext == RefreshTyped /\ [RefreshNext]_refreshVars => RefreshTyped'
<1> SUFFICES ASSUME RefreshTyped, [RefreshNext]_refreshVars PROVE RefreshTyped'
  OBVIOUS
<1>0. /\ MaxVersions \in Nat /\ MaxFailures \in Nat
      /\ Outputs \in Nat \ {0} /\ Interval \in Nat \ {0} /\ Cooldown \in Nat \ {0}
      /\ NoTick \in [active : BOOLEAN, read : Batches]
      /\ newest \in Nat /\ newest \in Version
      /\ faults \in 0 .. MaxFailures
      /\ timer.left \in 0 .. Interval /\ timer.armed \in BOOLEAN
      /\ tick.read \in Batches /\ tick.active \in BOOLEAN
  BY RefreshBasics DEF RefreshTyped, Version
<1>1. CASE StartRefresh
  BY <1>0, <1>1 DEF StartRefresh, RefreshTyped, Phases
<1>2. CASE ChangeOutputs
  <2>1. newest' \in Version
    <3>1. newest < MaxVersions /\ newest' = newest + 1
      BY <1>2 DEF ChangeOutputs
    <3>2. QED
      BY <1>0, <3>1 DEF Version
  <2>2. timer' \in [armed : BOOLEAN, left : 0 .. Interval] /\ requested' \in BOOLEAN
    <3>1. [armed |-> TRUE, left |-> 0] \in [armed : BOOLEAN, left : 0 .. Interval]
      BY <1>0
    <3>2. (timer' = timer \/ timer' = [armed |-> TRUE, left |-> 0])
          /\ (requested' = requested \/ requested' = TRUE)
      BY <1>2 DEF ChangeOutputs
    <3>3. QED
      BY <3>1, <3>2 DEF RefreshTyped
  <2>3. QED
    BY <1>2, <2>1, <2>2 DEF ChangeOutputs, RefreshTyped
<1>3. CASE Fire
  <2>1. tick' \in [active : BOOLEAN, read : Batches]
    BY <1>0, <1>3 DEF Fire, RefreshTyped
  <2>2. timer' \in [armed : BOOLEAN, left : 0 .. Interval]
    BY <1>3 DEF Fire, RefreshTyped
  <2>3. QED
    BY <1>3, <2>1, <2>2 DEF Fire, RefreshTyped
<1>4. ASSUME NEW part \in Parts, Read(part) PROVE RefreshTyped'
  <2>1. [tick.read EXCEPT ![part] = newest] \in Batches
    BY <1>0 DEF Batches, Parts
  <2>2. tick' = [tick EXCEPT !.read = [tick.read EXCEPT ![part] = newest]]
    BY <1>4 DEF Read, RefreshTyped
  <2>3. tick' \in [active : BOOLEAN, read : Batches]
    BY <2>1, <2>2 DEF RefreshTyped
  <2>4. QED
    BY <1>4, <2>3 DEF Read, RefreshTyped
<1>5. CASE EndTick
  <2>1. ASSUME NEW d \in Devices PROVE Offered(d, tick.read) \in Workers
    <3>1. worker[d] \in Workers
      BY DEF RefreshTyped
    <3>2. QED
      BY <1>0, <3>1, RefreshBasics DEF Offered, Workers
  <2>2. worker' \in [Devices -> Workers]
    BY <1>5, <2>1 DEF EndTick
  <2>3. timer' \in [armed : BOOLEAN, left : 0 .. Interval] /\ requested' \in BOOLEAN
    <3>1. CASE Running
      <4>1. /\ requested' = FALSE
            /\ timer' = [armed |-> TRUE,
                         left |-> IF requested THEN 0
                                  ELSE IF timer.left = 0 THEN Interval ELSE timer.left]
        BY <1>5, <3>1 DEF EndTick, Rearm
      <4>2. (IF requested THEN 0 ELSE IF timer.left = 0 THEN Interval ELSE timer.left)
              \in 0 .. Interval
        BY <1>0
      <4>3. QED
        BY <4>1, <4>2
    <3>2. CASE ~Running
      BY <1>5, <3>2 DEF EndTick, RefreshTyped
    <3>3. QED
      BY <3>1, <3>2
  <2>4. tick' \in [active : BOOLEAN, read : Batches]
    BY <1>0, <1>5 DEF EndTick, Rearm
  <2>5. QED
    BY <1>5, <2>2, <2>3, <2>4 DEF EndTick, RefreshTyped
<1>6. CASE TickFails
  <2>1. phase' \in Phases /\ faults' \in 0 .. MaxFailures
    BY <1>0, <1>6 DEF TickFails, Phases, RefreshTyped
  <2>2. QED
    BY <1>0, <1>6, <2>1, DiscardedTyped DEF TickFails, RefreshTyped
<1>7. ASSUME NEW d \in Devices PROVE worker[d] \in Workers
  BY DEF RefreshTyped
<1>8. ASSUME NEW d \in Devices, NEW w \in Workers, worker' = [worker EXCEPT ![d] = w]
      PROVE  worker' \in [Devices -> Workers]
  BY <1>8 DEF RefreshTyped
<1>9. ASSUME NEW d \in Devices, NEW v \in Version \cup {NoVersion}, NEW o
      PROVE  [shown EXCEPT ![d][o] = v] \in [Devices -> [1 .. Outputs -> Version \cup {NoVersion}]]
  <2>1. shown[d] \in [1 .. Outputs -> Version \cup {NoVersion}]
    BY DEF RefreshTyped
  <2>2. [shown[d] EXCEPT ![o] = v] \in [1 .. Outputs -> Version \cup {NoVersion}]
    BY <2>1
  <2>3. QED
    BY <2>2 DEF RefreshTyped
<1>10. ASSUME NEW d \in Devices, Send(d) PROVE RefreshTyped'
  <2>1. [worker[d] EXCEPT !.sent = TRUE] \in Workers /\ AfterBatch(d, worker[d], 0) \in Workers
    BY <1>7, AfterBatchTyped DEF Workers
  <2>2. PICK w \in Workers : worker' = [worker EXCEPT ![d] = w]
    BY <1>10, <2>1 DEF Send
  <2>3. worker' \in [Devices -> Workers]
    BY <1>8, <2>2
  <2>4. QED
    BY <1>10, <2>3 DEF Send, RefreshTyped
<1>11. ASSUME NEW d \in Devices, Succeed(d) PROVE RefreshTyped'
  <2>1. ASSUME worker[d].next < Outputs
        PROVE  [worker[d] EXCEPT !.next = @ + 1, !.sent = FALSE] \in Workers
    <3>1. worker[d].next + 1 \in 1 .. Outputs
      BY <1>0, <1>7, <2>1 DEF Workers
    <3>2. QED
      BY <1>7, <3>1 DEF Workers
  <2>2. AfterBatch(d, worker[d], 0) \in Workers
    BY <1>7, AfterBatchTyped
  <2>3. PICK w \in Workers : worker' = [worker EXCEPT ![d] = w]
    <3>1. CASE worker[d].next < Outputs /\ worker[d].pending = NoBatch /\ Running
      BY <1>11, <2>1, <3>1 DEF Succeed
    <3>2. CASE ~(worker[d].next < Outputs /\ worker[d].pending = NoBatch /\ Running)
      BY <1>11, <2>2, <3>2 DEF Succeed
    <3>3. QED
      BY <3>1, <3>2
  <2>4. worker' \in [Devices -> Workers]
    BY <1>8, <2>3
  <2>5. Shows(worker[d].running, worker[d].next) \in Version \cup {NoVersion}
    BY <1>7, ShowsTyped DEF Workers
  <2>6. shown' \in [Devices -> [1 .. Outputs -> Version \cup {NoVersion}]]
    BY <1>9, <1>11, <2>5 DEF Succeed
  <2>7. QED
    BY <1>11, <2>4, <2>6 DEF Succeed, RefreshTyped
<1>12. ASSUME NEW d \in Devices, Miss(d) PROVE RefreshTyped'
  <2>1. AfterBatch(d, worker[d], Cooldown) \in Workers
    BY <1>7, AfterBatchTyped
  <2>2. worker' \in [Devices -> Workers]
    BY <1>8, <1>12, <2>1 DEF Miss
  <2>3. Shows(worker[d].running, worker[d].next) \in Version \cup {NoVersion}
    BY <1>7, ShowsTyped DEF Workers
  <2>4. shown' \in [Devices -> [1 .. Outputs -> Version \cup {NoVersion}]]
    <3>1. \/ shown' = shown
          \/ shown' = [shown EXCEPT ![d][worker[d].next] =
                           Shows(worker[d].running, worker[d].next)]
      BY <1>12 DEF Miss
    <3>2. [shown EXCEPT ![d][worker[d].next] = Shows(worker[d].running, worker[d].next)]
            \in [Devices -> [1 .. Outputs -> Version \cup {NoVersion}]]
      BY <1>9, <2>3
    <3>3. shown \in [Devices -> [1 .. Outputs -> Version \cup {NoVersion}]]
      BY DEF RefreshTyped
    <3>4. QED
      BY <3>1, <3>2, <3>3
  <2>5. cooldown' \in [Devices -> 0 .. Cooldown] /\ faults' \in 0 .. MaxFailures
    BY <1>0, <1>12 DEF Miss, RefreshTyped
  <2>6. QED
    BY <1>12, <2>2, <2>4, <2>5 DEF Miss, RefreshTyped
<1>13. ASSUME NEW d \in Devices, Throw(d) PROVE RefreshTyped'
  <2>1. worker' \in [Devices -> Workers]
    BY <1>13, DiscardedTyped, RefreshBasics DEF Throw
  <2>2. phase' \in Phases /\ faults' \in 0 .. MaxFailures
    BY <1>0, <1>13 DEF Throw, Halt, Phases, RefreshTyped
  <2>3. QED
    BY <1>13, <2>1, <2>2, DiscardedTyped DEF Throw, RefreshTyped
<1>14. CASE LatchElsewhere
  BY <1>0, <1>14 DEF LatchElsewhere, RefreshTyped
<1>15. CASE Report \/ Stopped
  BY <1>15 DEF Report, Stopped, Phases, RefreshTyped
<1>16. CASE StopRefresh
  BY <1>16, DiscardedTyped DEF StopRefresh, Phases, RefreshTyped
<1>17. ASSUME NEW d \in Devices, Available(d) PROVE RefreshTyped'
  BY <1>0, <1>17 DEF Available, RefreshTyped
<1>18. CASE Pass
  <2>1. (timer.left - 1) % Interval \in 0 .. Interval
    BY <1>0
  <2>2. timer' \in [armed : BOOLEAN, left : 0 .. Interval]
    BY <1>18, <2>1 DEF Pass, RefreshTyped
  <2>3. cooldown' \in [Devices -> 0 .. Cooldown]
    BY <1>0, <1>18 DEF Pass, RefreshTyped
  <2>4. QED
    BY <1>18, <2>2, <2>3 DEF Pass, RefreshTyped
<1>19. CASE UNCHANGED refreshVars
  BY <1>19 DEF refreshVars, RefreshTyped
<1>20. QED
  BY <1>1, <1>2, <1>3, <1>4, <1>5, <1>6, <1>10, <1>11, <1>12, <1>13, <1>14, <1>15, <1>16, <1>17,
     <1>18, <1>19 DEF RefreshNext, Closing, TickStep, Answer, Parts

(* The scheduler, its tick, its workers and what the outputs show stay in   *)
(* their domains.                                                          *)
THEOREM RefreshTypes == RefreshSafety => []RefreshTypeOK
<1>1. RefreshTyped => RefreshTypeOK
  BY DEF RefreshTyped, RefreshTypeOK, Batches, Workers
<1>2. QED
  BY <1>1, RefreshTypedInit, RefreshTypedNext, PTL DEF RefreshSafety
-----------------------------------------------------------------------------
\* What a device shows is no newer than the batch it is sent, that one no newer
\* than the batch that waits, and neither is newer than what a tick has read.
Rows == [1 .. Outputs -> Version \cup {NoVersion}]

Fit(w, line, read, latest) ==
    /\ \A p \in Parts : w.running[p] <= latest /\ w.pending[p] <= latest
    /\ w.pending = NoBatch \/ \A p \in Parts : w.running[p] <= w.pending[p]
    /\ \A p \in Parts : read[p] # NoVersion => w.running[p] <= read[p] /\ w.pending[p] <= read[p]
    /\ w.sent => w.running # NoBatch
    /\ \A o \in 1 .. Outputs :
           /\ line[o] <= latest
           /\ w.running # NoBatch => line[o] <= Shows(w.running, o)
           /\ Shows(read, o) # NoVersion => line[o] <= Shows(read, o)

InOrder ==
    /\ \A d \in Devices : Fit(worker[d], shown[d], tick.read, newest)
    /\ \A p \in Parts : tick.read[p] <= newest

\* Versions are numbers, and none is below that of nothing read.
LEMMA Numbers ==
  ASSUME NEW b \in Batches, NEW p \in Parts
  PROVE  b[p] \in Int /\ b[p] >= -1 /\ NoBatch[p] = -1 /\ NoVersion = -1
  BY DEF Batches, Parts, Version, NoVersion, NoBatch

\* So is what an output shows.
LEMMA RowNumbers ==
  ASSUME NEW line \in Rows, NEW o \in 1 .. Outputs, NEW b \in Batches
  PROVE  line[o] \in Int /\ line[o] >= -1 /\ Shows(b, o) \in Int
  BY DEF Rows, Batches, Shows, Version, NoVersion

\* A worker that gives up its batches is still in order.
LEMMA FitIdle ==
  ASSUME NEW w \in Workers, NEW line \in Rows, NEW read \in Batches, NEW latest \in Version,
         Fit(w, line, read, latest)
  PROVE  Fit(IdleWorker, line, read, latest)
<1>1. /\ IdleWorker.running = NoBatch /\ IdleWorker.pending = NoBatch /\ IdleWorker.sent = FALSE
  BY DEF IdleWorker
<1>2. ASSUME NEW p \in Parts
      PROVE  NoBatch[p] <= latest /\ (read[p] # NoVersion => NoBatch[p] <= read[p])
  BY Numbers DEF Version
<1>3. QED
  BY <1>1, <1>2 DEF Fit

\* So is one that drops the batch that waits.
LEMMA FitDiscarded ==
  ASSUME NEW w \in Workers, NEW line \in Rows, NEW read \in Batches, NEW latest \in Version,
         Fit(w, line, read, latest)
  PROVE  Fit([w EXCEPT !.pending = NoBatch], line, read, latest)
<1> DEFINE v == [w EXCEPT !.pending = NoBatch]
<1>1. v.running = w.running /\ v.pending = NoBatch /\ v.sent = w.sent
  BY DEF Workers
<1>2. ASSUME NEW p \in Parts
      PROVE  NoBatch[p] <= latest /\ (read[p] # NoVersion => NoBatch[p] <= read[p])
  BY Numbers DEF Version
<1> HIDE DEF v
<1>3. Fit(v, line, read, latest)
  BY <1>1, <1>2 DEF Fit
<1>4. QED
  BY <1>3 DEF v

\* A worker begins a batch that is not older than the one before.
LEMMA FitBegun ==
  ASSUME NEW w \in Workers, NEW line \in Rows, NEW read \in Batches, NEW latest \in Version,
         Fit(w, line, read, latest), NEW b \in Batches,
         \A p \in Parts : b[p] <= latest /\ (read[p] # NoVersion => b[p] <= read[p]),
         \A o \in 1 .. Outputs : line[o] <= Shows(b, o)
  PROVE  Fit([IdleWorker EXCEPT !.running = b], line, read, latest)
<1> DEFINE v == [IdleWorker EXCEPT !.running = b]
<1>1. v.running = b /\ v.pending = NoBatch /\ v.sent = FALSE
  BY DEF IdleWorker
<1>2. ASSUME NEW p \in Parts
      PROVE  NoBatch[p] <= latest /\ (read[p] # NoVersion => NoBatch[p] <= read[p])
  BY Numbers DEF Version
<1> HIDE DEF v
<1>3. Fit(v, line, read, latest)
  BY <1>1, <1>2 DEF Fit
<1>4. QED
  BY <1>3 DEF v

\* So is one that goes on to the batch that waited.
LEMMA FitAfter ==
  ASSUME NEW w \in Workers, NEW line \in Rows, NEW read \in Batches, NEW latest \in Version,
         Fit(w, line, read, latest), NEW d, NEW wait, w.running # NoBatch
  PROVE  Fit(AfterBatch(d, w, wait), line, read, latest)
<1>1. CASE w.pending = NoBatch \/ ~Running \/ wait > 0
  BY <1>1, FitIdle DEF AfterBatch
<1>2. CASE ~(w.pending = NoBatch \/ ~Running \/ wait > 0)
  <2>1. w.pending \in Batches /\ w.running \in Batches
    BY DEF Workers
  <2>2. \A p \in Parts : w.pending[p] <= latest /\ (read[p] # NoVersion => w.pending[p] <= read[p])
    BY DEF Fit
  <2>3. ASSUME NEW o \in 1 .. Outputs PROVE line[o] <= Shows(w.pending, o)
    <3>1. line[o] <= Shows(w.running, o)
      BY DEF Fit
    <3>2. Shows(w.running, o) <= Shows(w.pending, o)
      BY <1>2 DEF Fit, Shows, Parts
    <3>3. QED
      BY <2>1, <3>1, <3>2, RowNumbers
  <2>4. QED
    BY <1>2, <2>1, <2>2, <2>3, FitBegun DEF AfterBatch
<1>3. QED
  BY <1>1, <1>2

\* An output takes its value of the batch that is sent.
LEMMA FitShown ==
  ASSUME NEW w \in Workers, NEW line \in Rows, NEW read \in Batches, NEW latest \in Version,
         Fit(w, line, read, latest), w.running # NoBatch, NEW k \in 1 .. Outputs
  PROVE  /\ Fit(w, [line EXCEPT ![k] = Shows(w.running, k)], read, latest)
         /\ line[k] <= Shows(w.running, k)
<1> DEFINE v == [line EXCEPT ![k] = Shows(w.running, k)]
<1>1. w.running \in Batches
  BY DEF Workers
<1>2. ASSUME NEW o \in 1 .. Outputs
      PROVE  /\ v[o] <= latest /\ v[o] <= Shows(w.running, o)
             /\ Shows(read, o) # NoVersion => v[o] <= Shows(read, o)
  <2>1. Shows(w.running, o) \in Int
    BY <1>1, RowNumbers
  <2>2. v[o] = IF o = k THEN Shows(w.running, o) ELSE line[o]
    BY DEF Rows
  <2>3. Shows(w.running, o) <= latest
        /\ (Shows(read, o) # NoVersion => Shows(w.running, o) <= Shows(read, o))
    BY DEF Fit, Shows, Parts
  <2>4. QED
    BY <2>1, <2>2, <2>3 DEF Fit
<1> HIDE DEF v
<1>3. Fit(w, v, read, latest)
  BY <1>2 DEF Fit
<1>4. QED
  BY <1>3 DEF Fit, v

\* A newer configuration leaves everything in order.
LEMMA FitNewer ==
  ASSUME NEW w \in Workers, NEW line \in Rows, NEW read \in Batches, NEW latest \in Version,
         Fit(w, line, read, latest), NEW later \in Version, latest <= later
  PROVE  Fit(w, line, read, later)
<1>1. ASSUME NEW p \in Parts PROVE w.running[p] <= later /\ w.pending[p] <= later
  <2>1. w.running[p] \in Int /\ w.pending[p] \in Int /\ latest \in Int /\ later \in Int
    BY Numbers DEF Workers, Version
  <2>2. QED
    BY <2>1 DEF Fit
<1>2. ASSUME NEW o \in 1 .. Outputs PROVE line[o] <= later
  <2>1. line[o] \in Int /\ latest \in Int /\ later \in Int
    BY RowNumbers DEF Version
  <2>2. QED
    BY <2>1 DEF Fit
<1>3. QED
  BY <1>1, <1>2 DEF Fit

\* One of the two reads of a tick answers with the present.
LEMMA FitRead ==
  ASSUME NEW w \in Workers, NEW line \in Rows, NEW read \in Batches, NEW latest \in Version,
         Fit(w, line, read, latest), NEW part \in Parts
  PROVE  Fit(w, line, [read EXCEPT ![part] = latest], latest)
<1> DEFINE r == [read EXCEPT ![part] = latest]
<1>1. \A p \in Parts : r[p] = IF p = part THEN latest ELSE read[p]
  BY DEF Batches, Parts
<1>2. \A o \in 1 .. Outputs : Shows(r, o) = latest \/ Shows(r, o) = Shows(read, o)
  BY DEF Shows, Batches, Parts
<1> HIDE DEF r
<1>3. Fit(w, line, r, latest)
  <2>1. \A p \in Parts : r[p] # NoVersion => w.running[p] <= r[p] /\ w.pending[p] <= r[p]
    BY <1>1 DEF Fit
  <2>2. \A o \in 1 .. Outputs : Shows(r, o) # NoVersion => line[o] <= Shows(r, o)
    BY <1>2 DEF Fit
  <2>3. QED
    BY <2>1, <2>2 DEF Fit
<1>4. QED
  BY <1>3 DEF r

\* So does a tick that forgets what it has read.
LEMMA FitUnread ==
  ASSUME NEW w, NEW line, NEW read, NEW latest, Fit(w, line, read, latest)
  PROVE  Fit(w, line, NoBatch, latest)
<1>1. \A p \in Parts : NoBatch[p] = NoVersion
  BY DEF NoBatch, Parts
<1>2. \A o \in 1 .. Outputs : Shows(NoBatch, o) = NoVersion
  BY DEF NoBatch, Shows
<1>3. QED
  BY <1>1, <1>2 DEF Fit

\* The batch of a tick is offered once both reads have answered.
LEMMA FitOffered ==
  ASSUME NEW d \in Devices, RefreshTyped, NEW line \in Rows, NEW read \in Batches,
         Fit(worker[d], line, read, newest),
         \A p \in Parts : read[p] # NoVersion /\ read[p] <= newest
  PROVE  Fit(Offered(d, read), line, read, newest)
<1>1. worker[d] \in Workers /\ newest \in Version
  BY DEF RefreshTyped
<1>2. \A o \in 1 .. Outputs : line[o] <= Shows(read, o)
  BY DEF Fit, Shows, Parts
<1>3. \A p \in Parts : read[p] <= read[p]
  BY Numbers
<1>4. Fit([IdleWorker EXCEPT !.running = read], line, read, newest)
  BY <1>1, <1>2, <1>3, FitBegun
<1>5. Fit([worker[d] EXCEPT !.pending = read], line, read, newest)
  <2> DEFINE v == [worker[d] EXCEPT !.pending = read]
  <2>1. v.running = worker[d].running /\ v.pending = read /\ v.sent = worker[d].sent
    BY <1>1 DEF Workers
  <2> HIDE DEF v
  <2>2. Fit(v, line, read, newest)
    BY <1>3, <2>1 DEF Fit
  <2>3. QED
    BY <2>2 DEF v
<1>6. QED
  BY <1>4, <1>5 DEF Offered

\* Nothing is shown, sent or read at first.
LEMMA InOrderInit == RefreshInit => InOrder
<1> SUFFICES ASSUME RefreshInit PROVE InOrder
  OBVIOUS
<1>1. tick.read = NoBatch /\ newest = 0
  BY DEF RefreshInit, NoTick
<1>2. \A p \in Parts : NoBatch[p] = -1
  BY DEF NoBatch, NoVersion, Parts
<1>3. ASSUME NEW d \in Devices PROVE Fit(worker[d], shown[d], NoBatch, 0)
  <2>1. /\ worker[d].running = NoBatch /\ worker[d].pending = NoBatch /\ worker[d].sent = FALSE
    BY DEF RefreshInit, IdleWorker
  <2>2. \A o \in 1 .. Outputs : shown[d][o] = -1 /\ Shows(NoBatch, o) = -1
    BY DEF RefreshInit, NoVersion, Shows, NoBatch
  <2>3. QED
    BY <1>2, <2>1, <2>2 DEF Fit, NoVersion
<1>4. QED
  BY <1>1, <1>2, <1>3 DEF InOrder

\* Nothing that a step leaves alone gets out of order: the worker and the line of
\* the one device it moves are looked at, and those of no other.
LEMMA InOrderOfOne ==
  ASSUME RefreshTyped, InOrder, UNCHANGED <<tick, newest>>, NEW d \in Devices,
         NEW w, worker' = [worker EXCEPT ![d] = w],
         NEW line, shown' = [shown EXCEPT ![d] = line], Fit(w, line, tick.read, newest)
  PROVE  InOrder'
<1>1. ASSUME NEW e \in Devices PROVE Fit(worker'[e], shown'[e], tick.read, newest)
  <2>1. CASE e = d
    BY <2>1 DEF RefreshTyped
  <2>2. CASE e # d
    <3>1. worker'[e] = worker[e] /\ shown'[e] = shown[e]
      BY <2>2 DEF RefreshTyped
    <3>2. QED
      BY <3>1 DEF InOrder
  <2>3. QED
    BY <2>1, <2>2
<1>2. QED
  BY <1>1 DEF InOrder, Fit

\* Every step keeps the order, and no output goes back.
LEMMA InOrderNext ==
  ASSUME RefreshTyped, InOrder, RefreshNext
  PROVE  /\ InOrder'
         /\ \A d \in Devices, o \in 1 .. Outputs : shown'[d][o] >= shown[d][o]
<1>0. /\ newest \in Version /\ tick.read \in Batches
      /\ \A d \in Devices : worker[d] \in Workers /\ shown[d] \in Rows
      /\ \A d \in Devices : Fit(worker[d], shown[d], tick.read, newest)
  BY DEF RefreshTyped, InOrder, Rows
<1>a. ASSUME shown' = shown
      PROVE  \A d \in Devices, o \in 1 .. Outputs : shown'[d][o] >= shown[d][o]
  <2>1. \A d \in Devices, o \in 1 .. Outputs : shown[d][o] \in Int
    BY <1>0, RefreshBasics, RowNumbers
  <2>2. QED
    BY <1>a, <2>1
<1>b. ASSUME UNCHANGED <<tick, newest, worker, shown>> PROVE InOrder'
  BY <1>b DEF InOrder, Fit
<1>c. ASSUME NEW d \in Devices, NEW w, UNCHANGED <<tick, newest, shown>>,
             worker' = [worker EXCEPT ![d] = w], Fit(w, shown[d], tick.read, newest)
      PROVE  InOrder'
  <2>1. shown' = [shown EXCEPT ![d] = shown[d]]
    BY <1>c DEF RefreshTyped
  <2>2. QED
    BY <1>c, <2>1, InOrderOfOne
<1>d. \A d \in Devices : Fit([worker[d] EXCEPT !.pending = NoBatch], shown[d], tick.read, newest)
  BY <1>0, FitDiscarded
<1>e. \A d \in Devices : Fit(IdleWorker, shown[d], tick.read, newest)
  BY <1>0, FitIdle
<1>f. NoTick.read = NoBatch /\ \A p \in Parts : NoBatch[p] <= newest
  BY <1>0 DEF NoTick, NoBatch, NoVersion, Parts, Version
<1>g. \A p \in Parts : tick.read[p] <= newest
  BY DEF InOrder
<1>1. CASE StartRefresh \/ LatchElsewhere \/ Closing \/ Pass
  BY <1>1, <1>a, <1>b DEF StartRefresh, LatchElsewhere, Closing, Report, Stopped, Pass
<1>2. CASE ChangeOutputs
  <2>1. newest' = newest + 1 /\ newest < MaxVersions /\ UNCHANGED <<tick, worker, shown>>
    BY <1>2 DEF ChangeOutputs
  <2>2. newest' \in Version /\ newest <= newest'
    BY <1>0, <2>1, RefreshBasics DEF Version
  <2>3. \A d \in Devices : Fit(worker[d], shown[d], tick.read, newest')
    BY <1>0, <2>2, FitNewer
  <2>4. ASSUME NEW p \in Parts PROVE tick.read[p] <= newest'
    <3>1. tick.read[p] \in Int /\ newest \in Int
      BY <1>0, Numbers DEF Version
    <3>2. QED
      BY <1>g, <2>1, <3>1
  <2>5. InOrder'
    BY <2>1, <2>3, <2>4 DEF InOrder, Fit
  <2>6. QED
    BY <1>a, <2>1, <2>5
<1>3. CASE Fire
  <2>1. (tick'.read = NoBatch \/ tick'.read = tick.read) /\ UNCHANGED <<worker, newest, shown>>
    BY <1>3 DEF Fire, NoTick
  <2>2. \A d \in Devices : Fit(worker[d], shown[d], tick'.read, newest)
    BY <1>0, <2>1, FitUnread
  <2>3. \A p \in Parts : tick'.read[p] <= newest
    BY <1>f, <1>g, <2>1
  <2>4. InOrder'
    BY <2>1, <2>2, <2>3 DEF InOrder, Fit
  <2>5. QED
    BY <1>a, <2>1, <2>4
<1>4. ASSUME NEW part \in Parts, Read(part)
      PROVE  InOrder' /\ \A d \in Devices, o \in 1 .. Outputs : shown'[d][o] >= shown[d][o]
  <2>1. tick'.read = [tick.read EXCEPT ![part] = newest] /\ UNCHANGED <<worker, newest, shown>>
    BY <1>4 DEF Read, RefreshTyped
  <2>2. ASSUME NEW d \in Devices PROVE Fit(worker[d], shown[d], tick'.read, newest)
    <3>1. Fit(worker[d], shown[d], [tick.read EXCEPT ![part] = newest], newest)
      BY <1>0, <1>4, FitRead
    <3>2. QED
      BY <2>1, <3>1
  <2>3. ASSUME NEW p \in Parts PROVE tick'.read[p] <= newest
    <3>1. tick'.read[p] = IF p = part THEN newest ELSE tick.read[p]
      BY <1>0, <2>1 DEF Batches, Parts
    <3>2. newest <= newest
      BY <1>0 DEF Version
    <3>3. QED
      BY <1>g, <3>1, <3>2
  <2>4. InOrder'
    BY <2>1, <2>2, <2>3 DEF InOrder, Fit
  <2>5. QED
    BY <1>a, <2>1, <2>4
<1>5. CASE EndTick
  <2>1. /\ tick' = NoTick /\ UNCHANGED <<newest, shown>>
        /\ \A d \in Devices : worker'[d] = Offered(d, tick.read)
    BY <1>5 DEF EndTick, Rearm
  <2>2. \A p \in Parts : tick.read[p] # NoVersion
    BY <1>0, <1>5 DEF EndTick, Batches, Parts
  <2>3. \A d \in Devices : Fit(Offered(d, tick.read), shown[d], tick.read, newest)
    BY <1>0, <1>g, <2>2, FitOffered
  <2>4. \A d \in Devices : Fit(worker'[d], shown[d], NoBatch, newest)
    BY <2>1, <2>3, FitUnread
  <2>5. InOrder'
    BY <1>f, <2>1, <2>4 DEF InOrder, Fit
  <2>6. QED
    BY <1>a, <2>1, <2>5
<1>6. CASE TickFails
  <2>1. tick' = NoTick /\ worker' = Discarded /\ UNCHANGED <<newest, shown>>
    BY <1>6 DEF TickFails
  <2>2. \A d \in Devices : Fit(worker'[d], shown[d], NoBatch, newest)
    BY <1>d, <2>1, FitUnread DEF Discarded
  <2>3. InOrder'
    BY <1>f, <2>1, <2>2 DEF InOrder, Fit
  <2>4. QED
    BY <1>a, <2>1, <2>3
<1>7. ASSUME NEW d \in Devices, Send(d)
      PROVE  InOrder' /\ \A e \in Devices, o \in 1 .. Outputs : shown'[e][o] >= shown[e][o]
  <2>1. UNCHANGED <<tick, newest, shown>> /\ worker[d].running # NoBatch
    BY <1>7 DEF Send, Busy
  <2>2. CASE latched
    <3>1. Fit(AfterBatch(d, worker[d], 0), shown[d], tick.read, newest)
      BY <1>0, <2>1, FitAfter
    <3>2. worker' = [worker EXCEPT ![d] = AfterBatch(d, worker[d], 0)]
      BY <1>7, <2>2 DEF Send
    <3>3. QED
      BY <1>a, <1>c, <2>1, <3>1, <3>2
  <2>3. CASE ~latched
    <3> DEFINE w == [worker[d] EXCEPT !.sent = TRUE]
    <3>1. w.running = worker[d].running /\ w.pending = worker[d].pending
      BY <1>0 DEF Workers
    <3>2. worker' = [worker EXCEPT ![d] = w]
      BY <1>7, <2>3 DEF Send
    <3> HIDE DEF w
    <3>3. Fit(w, shown[d], tick.read, newest)
      BY <1>0, <2>1, <3>1 DEF Fit
    <3>4. QED
      BY <1>a, <1>c, <2>1, <3>2, <3>3
  <2>4. QED
    BY <2>2, <2>3
<1>h. ASSUME NEW d \in Devices, worker[d].sent
      PROVE  LET line == [shown[d] EXCEPT ![worker[d].next] = Shows(worker[d].running, worker[d].next)]
             IN  /\ Fit(worker[d], line, tick.read, newest) /\ line \in Rows
                 /\ worker[d].running # NoBatch
                 /\ shown[d][worker[d].next] <= Shows(worker[d].running, worker[d].next)
  <2>1. worker[d].running # NoBatch /\ worker[d].next \in 1 .. Outputs
    BY <1>0, <1>h DEF Fit, Workers
  <2>2. Shows(worker[d].running, worker[d].next) \in Version \cup {NoVersion}
    BY <1>0, ShowsTyped DEF Workers
  <2>3. [shown[d] EXCEPT ![worker[d].next] = Shows(worker[d].running, worker[d].next)] \in Rows
    BY <1>0, <2>1, <2>2 DEF Rows
  <2>4. QED
    BY <1>0, <2>1, <2>3, FitShown
<1>i. ASSUME NEW d \in Devices, NEW k \in 1 .. Outputs, NEW v, shown[d][k] <= v,
             shown' = [shown EXCEPT ![d][k] = v]
      PROVE  \A e \in Devices, o \in 1 .. Outputs : shown'[e][o] >= shown[e][o]
  <2> TAKE e \in Devices, o \in 1 .. Outputs
  <2>1. shown[e][o] \in Int
    BY <1>0, RefreshBasics, RowNumbers
  <2>2. shown'[e][o] = IF e = d /\ o = k THEN v ELSE shown[e][o]
    BY <1>0, <1>i DEF RefreshTyped, Rows
  <2>3. CASE e = d /\ o = k
    BY <1>i, <2>2, <2>3
  <2>4. CASE ~(e = d /\ o = k)
    BY <2>1, <2>2, <2>4
  <2>5. QED
    BY <2>3, <2>4
<1>8. ASSUME NEW d \in Devices, Succeed(d)
      PROVE  InOrder' /\ \A e \in Devices, o \in 1 .. Outputs : shown'[e][o] >= shown[e][o]
  <2> DEFINE k == worker[d].next
             v == Shows(worker[d].running, k)
             line == [shown[d] EXCEPT ![k] = v]
  <2>1. /\ worker[d].sent /\ UNCHANGED <<tick, newest>>
        /\ shown' = [shown EXCEPT ![d][k] = v]
    BY <1>8 DEF Succeed
  <2>2. /\ Fit(worker[d], line, tick.read, newest) /\ line \in Rows
        /\ worker[d].running # NoBatch /\ shown[d][k] <= v
    BY <1>h, <2>1
  <2>3. k \in 1 .. Outputs
    BY <1>0 DEF Workers
  <2>4. shown' = [shown EXCEPT ![d] = line]
    BY <2>1
  <2>5. PICK w : /\ worker' = [worker EXCEPT ![d] = w]
                 /\ \/ w = [worker[d] EXCEPT !.next = @ + 1, !.sent = FALSE]
                    \/ w = AfterBatch(d, worker[d], 0)
    <3>1. CASE worker[d].next < Outputs /\ worker[d].pending = NoBatch /\ Running
      BY <1>8, <3>1 DEF Succeed
    <3>2. CASE ~(worker[d].next < Outputs /\ worker[d].pending = NoBatch /\ Running)
      BY <1>8, <3>2 DEF Succeed
    <3>3. QED
      BY <3>1, <3>2
  <2> HIDE DEF line
  <2>6. Fit(w, line, tick.read, newest)
    <3>1. CASE w = AfterBatch(d, worker[d], 0)
      BY <1>0, <2>2, <3>1, FitAfter
    <3>2. CASE w = [worker[d] EXCEPT !.next = @ + 1, !.sent = FALSE]
      <4>1. w.running = worker[d].running /\ w.pending = worker[d].pending /\ w.sent = FALSE
        BY <1>0, <3>2 DEF Workers
      <4>2. QED
        BY <2>2, <4>1 DEF Fit
    <3>3. QED
      BY <2>5, <3>1, <3>2
  <2>7. InOrder'
    BY <2>1, <2>4, <2>5, <2>6, InOrderOfOne
  <2>8. QED
    BY <1>i, <2>1, <2>2, <2>3, <2>7
<1>9. ASSUME NEW d \in Devices, Miss(d)
      PROVE  InOrder' /\ \A e \in Devices, o \in 1 .. Outputs : shown'[e][o] >= shown[e][o]
  <2> DEFINE k == worker[d].next
             v == Shows(worker[d].running, k)
             line == [shown[d] EXCEPT ![k] = v]
  <2>1. /\ worker[d].sent /\ UNCHANGED <<tick, newest>>
        /\ worker' = [worker EXCEPT ![d] = AfterBatch(d, worker[d], Cooldown)]
        /\ shown' = shown \/ shown' = [shown EXCEPT ![d][k] = v]
    BY <1>9 DEF Miss
  <2>2. /\ Fit(worker[d], line, tick.read, newest) /\ line \in Rows
        /\ worker[d].running # NoBatch /\ shown[d][k] <= v
    BY <1>h, <2>1
  <2>3. k \in 1 .. Outputs
    BY <1>0 DEF Workers
  <2>4. CASE shown' = shown
    <3>1. Fit(AfterBatch(d, worker[d], Cooldown), shown[d], tick.read, newest)
      BY <1>0, <2>2, FitAfter
    <3>2. QED
      BY <1>a, <1>c, <2>1, <2>4, <3>1
  <2>5. CASE shown' = [shown EXCEPT ![d][k] = v]
    <3>1. shown' = [shown EXCEPT ![d] = line]
      BY <2>5
    <3> HIDE DEF line
    <3>2. Fit(AfterBatch(d, worker[d], Cooldown), line, tick.read, newest)
      BY <1>0, <2>2, FitAfter
    <3>3. InOrder'
      BY <2>1, <3>1, <3>2, InOrderOfOne
    <3>4. QED
      BY <1>i, <2>2, <2>3, <2>5, <3>3
  <2>6. QED
    BY <2>1, <2>4, <2>5
<1>10. ASSUME NEW d \in Devices, Throw(d)
       PROVE  InOrder' /\ \A e \in Devices, o \in 1 .. Outputs : shown'[e][o] >= shown[e][o]
  <2>1. worker' = [Discarded EXCEPT ![d] = IdleWorker] /\ UNCHANGED <<tick, newest, shown>>
    BY <1>10 DEF Throw
  <2>2. ASSUME NEW e \in Devices PROVE Fit(worker'[e], shown[e], tick.read, newest)
    <3>1. worker'[e] = IdleWorker \/ worker'[e] = [worker[e] EXCEPT !.pending = NoBatch]
      BY <2>1 DEF Discarded
    <3>2. QED
      BY <1>d, <1>e, <3>1
  <2>3. InOrder'
    BY <1>g, <2>1, <2>2 DEF InOrder, Fit
  <2>4. QED
    BY <1>a, <2>1, <2>3
<1>11. CASE StopRefresh
  <2>1. worker' = Discarded /\ UNCHANGED <<tick, newest, shown>>
    BY <1>11 DEF StopRefresh
  <2>2. \A d \in Devices : Fit(worker'[d], shown[d], tick.read, newest)
    BY <1>d, <2>1 DEF Discarded
  <2>3. InOrder'
    BY <1>g, <2>1, <2>2 DEF InOrder, Fit
  <2>4. QED
    BY <1>a, <2>1, <2>3
<1>12. ASSUME NEW d \in Devices, Available(d)
       PROVE  InOrder' /\ \A e \in Devices, o \in 1 .. Outputs : shown'[e][o] >= shown[e][o]
  BY <1>12, <1>a, <1>b DEF Available
<1>13. QED
  BY <1>1, <1>2, <1>3, <1>4, <1>5, <1>6, <1>7, <1>8, <1>9, <1>10, <1>11, <1>12
     DEF RefreshNext, TickStep, Answer, Parts

\* OutputRefreshScheduler: an output never goes back to an older version of the
\* configuration, whatever ticks, requests and slow commands cross: InOrder
\* follows a version from the tick that read it to the output that shows it.
THEOREM NewestShown == RefreshSafety => NewestWins
<1>1. InOrder /\ UNCHANGED refreshVars => InOrder'
  BY DEF InOrder, Fit, refreshVars
<1>2. RefreshTyped /\ InOrder /\ [RefreshNext]_refreshVars => InOrder'
  BY <1>1, InOrderNext
<1>3. RefreshTyped /\ InOrder /\ [RefreshNext]_refreshVars =>
        [\A d \in Devices, o \in 1 .. Outputs : shown'[d][o] >= shown[d][o]]_refreshVars
  BY InOrderNext
<1>4. QED
  BY <1>2, <1>3, RefreshTypedInit, RefreshTypedNext, InOrderInit, PTL DEF RefreshSafety, NewestWins
=============================================================================
