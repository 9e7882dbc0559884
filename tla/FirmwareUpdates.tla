--------------------------- MODULE FirmwareUpdates ----------------------------
(***************************************************************************)
(* Wireless firmware updates of one device: the request row and the        *)
(* rollout policy of FirmwareUpdateService with its serial queue of tasks, *)
(* the announcements that wake it, and the device, which takes the `ota`   *)
(* command, installs the image, runs it on probation and confirms it or    *)
(* goes back.                                                              *)
(*                                                                         *)
(* "new" is the version of the artifact this release carries, "base" the   *)
(* one an earlier release installed, "usb" one too old for wireless        *)
(* updates.                                                                *)
(***************************************************************************)
EXTENDS Integers, Sequences

CONSTANTS
    MaxRequests,    \* bound: requests of the operator
    MaxFaults,      \* bound: restarts of the controller, power losses of the
                    \* device and operations that end before they publish
    MaxTasks,       \* bound: tasks that wait
    Modes           \* the modes the operator asks for

ASSUME FirmwareConstants ==
    /\ {MaxRequests, MaxFaults} \subseteq Nat
    /\ MaxTasks \in Nat \ {0}
    /\ Modes \subseteq {"immediate", "when_off"}

VARIABLES
    esp,        \* the device
    dev,        \* the devices row
    row,        \* the firmware_update_requests row
    policy,     \* the firmware_rollout_policy row
    service,    \* whether FirmwareUpdateService accepts, drains or is down
    tasks,      \* tasks behind #tail
    work,       \* the task that runs
    wire,       \* the ota command and its answer
    count,      \* requests and faults so far, and whether power was lost
    sent,       \* history: ota commands published for this request
    restarted,  \* history: the controller ended since this request
    lost        \* history: so did the command, or the device's memory of it

disk == <<dev, row, policy>>
process == <<service, tasks, work>>
history == <<sent, restarted, lost>>
firmwareVars == <<esp, disk, process, wire, count, history>>

Nil == "none"
Versions == {"usb", "base", "new"}
Terminal == {"failed", "usb_required", "succeeded"}
UnderWay == {"accepted", "downloading", "probation"}
Reports == {"idle", "failed", "succeeded"} \cup UnderWay
Statuses == Terminal \cup UnderWay \cup {"waiting_for_device", "waiting_for_off", "pending"}

NoRequest == [target |-> Nil, mode |-> "when_off", status |-> "succeeded", op |-> FALSE]
NoWork == [pc |-> "idle", row |-> NoRequest, status |-> "succeeded", op |-> FALSE, fresh |-> TRUE]
NoWire == [command |-> FALSE, answer |-> Nil]

\* How a device starts: what its markers say of the image it runs.
Booted(e) ==
    LET off == [e EXCEPT !.busy = FALSE, !.runs = FALSE, !.connected = FALSE, !.off = TRUE]
        back == [off EXCEPT !.version = "base", !.marker = 0, !.report = "failed"]
    IN  IF e.marker = 0 THEN [off EXCEPT !.report = "idle"]
        ELSE IF e.marker < 3 THEN [off EXCEPT !.report = "probation", !.marker = @ + 1]
        ELSE back       \* the third boot on probation, then the boot of the old image

\* rollbackOta, and the boot of the previous partition.
RolledBack(e) ==
    [Booted([e EXCEPT !.marker = 0]) EXCEPT !.version = "base", !.report = "failed"]

OnProbation(e) == e.marker > 0 /\ e.version = "new"

-----------------------------------------------------------------------------
(* The service's decisions.                                                *)

Reachable(d) == d.online

InitialStatus(d, mode) ==
    IF d.version = "new" THEN "succeeded"
    ELSE IF d.version = "usb" THEN "usb_required"
    ELSE IF ~Reachable(d) THEN "waiting_for_device"
    ELSE IF mode = "when_off" /\ ~d.off THEN "waiting_for_off"
    ELSE "pending"

Requested(d, mode) ==
    [target |-> "new", mode |-> mode, status |-> InitialStatus(d, mode), op |-> FALSE]

FleetDeviceMode(d, mode) ==
    IF mode = "immediate" /\ ~Reachable(d) THEN "when_off" ELSE mode

To(status, op) == [pc |-> "write", status |-> status, op |-> op]
Return == [pc |-> "idle", status |-> "succeeded", op |-> FALSE]

\* The rest of #reconcileDevice, once the device's reports are dealt with: the
\* statuses that wait for nothing more from here are left alone.
Attempt(d, r, leave) ==
    IF r.status \in leave THEN Return
    ELSE IF ~Reachable(d) THEN To("waiting_for_device", r.op)
    ELSE IF r.mode = "when_off" /\ ~d.off THEN To("waiting_for_off", r.op)
    ELSE [Return EXCEPT !.pc = "send"]

\* A report speaks of this request once its operation is known.
Evidence(d, r) == r.op /\ r.target = "new" /\ d.report # "idle"

MutantDecisionWaits(d, r) ==
    IF d.version = r.target THEN To("succeeded", r.op)
    ELSE IF d.version = "usb" THEN To("usb_required", FALSE)
    ELSE IF Evidence(d, r) THEN To(d.report, TRUE)
    ELSE Attempt(d, r, Terminal \cup UnderWay \cup {"waiting_for_off"})

\* What #reconcileDevice does about what it read: the pc, the status and op.
Decision(d, r) ==
    IF d.version = r.target THEN To("succeeded", r.op)
    ELSE IF d.version = "usb" THEN To("usb_required", FALSE)
    ELSE IF Evidence(d, r) THEN To(d.report, TRUE)
    ELSE Attempt(d, r, Terminal \cup UnderWay)

-----------------------------------------------------------------------------
FirmwareInit ==
    /\ esp \in {[version |-> v, report |-> "idle", marker |-> 0, busy |-> FALSE,
                 runs |-> FALSE, connected |-> FALSE, off |-> FALSE] : v \in {"usb", "base"}}
    /\ row \in {NoRequest, [NoRequest EXCEPT !.target = "base", !.op = TRUE]}
    /\ dev = [version |-> esp.version, report |-> "idle", off |-> FALSE,
              online |-> FALSE, enabled |-> row.target = Nil]
    /\ policy = Nil
    /\ service = "up" /\ tasks = <<>> /\ work = NoWork
    /\ wire = NoWire
    /\ count = [requests |-> 0, faults |-> 0, power |-> FALSE]
    /\ sent = 0 /\ restarted = FALSE /\ lost = FALSE

\* A new request forgets what was sent for the one before, and the task under
\* way will find the row changed.
NewRequest(r) ==
    /\ row' = r
    /\ work' = [work EXCEPT !.fresh = FALSE]
    /\ sent' = 0 /\ restarted' = FALSE /\ lost' = FALSE

RequestDeviceUpdate(mode) ==
    /\ service = "up" /\ Len(tasks) < MaxTasks
    /\ count.requests < MaxRequests
    /\ NewRequest(Requested(dev, mode))
    /\ tasks' = Append(tasks, "reconcile")
    /\ count' = [count EXCEPT !.requests = @ + 1]
    /\ UNCHANGED <<esp, dev, policy, service, wire>>

RequestFleetUpdate(mode) ==
    /\ service = "up" /\ Len(tasks) < MaxTasks
    /\ count.requests < MaxRequests
    /\ policy' = mode
    /\ IF dev.enabled /\ dev.version # "new"
       THEN NewRequest(Requested(dev, FleetDeviceMode(dev, mode)))
       ELSE UNCHANGED <<row, work, history>>
    /\ tasks' = Append(tasks, "reconcile_all")
    /\ count' = [count EXCEPT !.requests = @ + 1]
    /\ UNCHANGED <<esp, dev, service, wire>>

\* #ensureFleetRequest up to its commit: whether to enrol, and with what.
Wanted == policy # Nil /\ dev.enabled /\ dev.version # "new" /\ row.target # "new"
Enrolment == Requested(dev, IF policy = "immediate" THEN "when_off" ELSE policy)

\* #schedule: the next task begins, with its first read, when the one before
\* has ended.  #reconcileAll passes over the rows of another target.
StartTask ==
    /\ service # "down" /\ work.pc = "idle" /\ tasks # <<>>
    /\ work' = IF Head(tasks) = "signal" /\ Wanted
               THEN [NoWork EXCEPT !.pc = "insert", !.row = Enrolment]
               ELSE IF Head(tasks) = "reconcile_all" /\ row.target # "new" THEN NoWork
               ELSE [NoWork EXCEPT !.pc = "read"]
    /\ tasks' = Tail(tasks)
    /\ UNCHANGED <<esp, disk, service, wire, count, history>>

\* The commit: a row of any target stays as it is.
Enrol ==
    /\ work.pc = "insert"
    /\ row' = IF row.target = Nil THEN work.row ELSE row
    /\ work' = [NoWork EXCEPT !.pc = "read"]
    /\ UNCHANGED <<esp, dev, policy, service, tasks, wire, count, history>>

ReadAndDecide ==
    /\ work.pc = "read"
    /\ work' = IF row.target = Nil THEN NoWork
               ELSE LET d == Decision(dev, row)
                    IN  [pc |-> d.pc, row |-> row, status |-> d.status, op |-> d.op,
                         fresh |-> TRUE]
    /\ UNCHANGED <<esp, disk, service, tasks, wire, count, history>>

\* #transition: only the row that was read is written.
Transition ==
    /\ work.pc = "write"
    /\ row' = IF work.fresh THEN [row EXCEPT !.status = work.status, !.op = work.op] ELSE row
    /\ work' = NoWork
    /\ UNCHANGED <<esp, dev, policy, service, tasks, wire, count, history>>

\* executeDeviceOperation publishes, or throws because the device is excluded.
PublishOta ==
    /\ work.pc = "send"
    /\ IF dev.enabled
       THEN /\ work' = [work EXCEPT !.pc = "await"]
            /\ wire' = [command |-> TRUE, answer |-> Nil]
            /\ sent' = IF work.fresh THEN sent + 1 ELSE sent
       ELSE work' = NoWork /\ UNCHANGED <<wire, sent>>
    /\ UNCHANGED <<esp, disk, service, tasks, count, restarted, lost>>

\* Cancelled, out of time before its turn, or the transport was down.
NotAttempted ==
    /\ work.pc = "send" /\ dev.enabled
    /\ count.faults < MaxFaults
    /\ work' = [work EXCEPT !.pc = "write", !.status = "pending", !.op = TRUE]
    /\ count' = [count EXCEPT !.faults = @ + 1]
    /\ UNCHANGED <<esp, disk, service, tasks, wire, history>>

MutantSettled(answer) == IF answer = Nil THEN "pending" ELSE answer

\* What the end of the operation makes of the request: no answer is an
\* outcome nobody knows.
Settled(answer) == IF answer = Nil THEN "accepted" ELSE answer

OperationSettles ==
    /\ work.pc = "await"
    /\ work' = [work EXCEPT !.pc = "write", !.op = TRUE, !.status = Settled(wire.answer)]
    /\ wire' = [wire EXCEPT !.answer = Nil]
    /\ dev' = [dev EXCEPT !.online = wire.answer # Nil]
    /\ UNCHANGED <<esp, row, policy, service, tasks, count, history>>

-----------------------------------------------------------------------------
(* The operator and the process, seen from here.                           *)

OperatorIncludes ==
    /\ service = "up" /\ ~dev.enabled
    /\ dev' = [dev EXCEPT !.enabled = TRUE]
    /\ UNCHANGED <<esp, row, policy, process, wire, count, history>>

StopService ==
    /\ service = "up" /\ count.faults < MaxFaults
    /\ service' = "draining"
    /\ UNCHANGED <<esp, disk, tasks, work, wire, count, history>>

\* The process ends: what waits in its memory is gone.
ServiceEnds ==
    /\ service' = "down" /\ tasks' = <<>> /\ work' = NoWork
    /\ wire' = [wire EXCEPT !.answer = Nil]
    /\ count' = [count EXCEPT !.faults = @ + 1]
    /\ restarted' = TRUE
    /\ UNCHANGED <<esp, disk, sent, lost>>

\* drain, then the end of stop.
Exit == service = "draining" /\ work.pc = "idle" /\ tasks = <<>> /\ ServiceEnds

Crash == service # "down" /\ count.faults < MaxFaults /\ ServiceEnds

StartService ==
    /\ service = "down"
    /\ service' = "up"
    /\ dev' = [dev EXCEPT !.online = FALSE]
    /\ UNCHANGED <<esp, row, policy, tasks, work, wire, count, history>>

-----------------------------------------------------------------------------
(* The device.                                                             *)

\* The `ota` branch of handleCommand.
HandleOta ==
    /\ wire.command /\ esp.connected
    /\ LET taken == ~OnProbation(esp) /\ ~esp.busy /\ esp.version # "new" /\ esp.version # "usb"
       IN  /\ esp' = IF taken THEN [esp EXCEPT !.busy = TRUE, !.report = "accepted"] ELSE esp
           /\ wire' = [command |-> FALSE,
                       answer |-> IF work.pc # "await" THEN Nil
                                  ELSE IF taken THEN "accepted" ELSE "failed"]
    /\ UNCHANGED <<disk, process, count, history>>

CommandLost ==
    /\ wire.command /\ wire' = [wire EXCEPT !.command = FALSE]
    /\ lost' = TRUE
    /\ UNCHANGED <<esp, disk, process, count, sent, restarted>>

\* An announcement of e: the registry writes the row, the service is told.
Announced(e) ==
    /\ dev' = [version |-> e.version, report |-> e.report, off |-> e.off,
               online |-> TRUE, enabled |-> dev.enabled]
    /\ tasks' = IF service = "up" THEN Append(tasks, "signal") ELSE tasks

BeginDownload ==
    /\ esp.busy /\ ~esp.runs /\ ~OnProbation(esp)
    /\ esp' = [esp EXCEPT !.busy = FALSE, !.runs = TRUE, !.report = "downloading"]
    /\ UNCHANGED <<disk, process, wire, count, history>>

DownloadFails ==
    /\ esp.runs
    /\ esp' = [esp EXCEPT !.busy = FALSE, !.runs = FALSE, !.report = "failed"]
    /\ UNCHANGED <<disk, process, wire, count, history>>

\* The image is complete: the marker is written, the device restarts.
InstallImage ==
    /\ esp.runs
    /\ esp' = Booted([esp EXCEPT !.version = "new", !.marker = 1])
    /\ UNCHANGED <<disk, process, wire, count, history>>

\* The device connects and announces itself, which confirms the image; the
\* announcement is lost on a controller that is down.
Connect ==
    /\ ~esp.connected
    /\ \/ Len(tasks) < MaxTasks /\ service # "down" /\ Announced(esp)
       \/ UNCHANGED <<dev, tasks>>
    /\ \E confirmed \in BOOLEAN :
           esp' = IF OnProbation(esp)
                  THEN IF confirmed
                       THEN [esp EXCEPT !.connected = TRUE, !.marker = 0, !.report = "succeeded"]
                       ELSE [esp EXCEPT !.connected = TRUE, !.report = "failed"]
                  ELSE [esp EXCEPT !.connected = TRUE]
    /\ UNCHANGED <<row, policy, service, work, wire, count, history>>

\* signalDeviceAnnouncement, for what the device says by itself or because the
\* controller asked who is there.
SignalDeviceAnnouncement ==
    /\ esp.connected /\ service # "down" /\ Len(tasks) < MaxTasks
    /\ Announced(esp)
    /\ UNCHANGED <<esp, row, policy, service, work, wire, count, history>>

ProbationTimesOut ==
    /\ OnProbation(esp)
    /\ esp' = RolledBack(esp)
    /\ UNCHANGED <<disk, process, wire, count, history>>

OutputsGoOff ==
    /\ ~esp.off /\ esp' = [esp EXCEPT !.off = TRUE]
    /\ UNCHANGED <<disk, process, wire, count, history>>

LosePower ==
    /\ count.faults < MaxFaults
    /\ esp' = Booted(esp)
    /\ count' = [count EXCEPT !.faults = @ + 1, !.power = TRUE]
    /\ lost' = TRUE
    /\ UNCHANGED <<disk, process, wire, sent, restarted>>

-----------------------------------------------------------------------------
TaskStep ==
    \/ StartTask \/ Enrol \/ ReadAndDecide
    \/ Transition \/ PublishOta \/ NotAttempted \/ OperationSettles

DeviceStep ==
    \/ HandleOta \/ BeginDownload \/ DownloadFails \/ InstallImage \/ Connect
    \/ ProbationTimesOut \/ OutputsGoOff

FirmwareNext ==
    \/ \E m \in Modes : RequestDeviceUpdate(m) \/ RequestFleetUpdate(m)
    \/ SignalDeviceAnnouncement \/ TaskStep \/ DeviceStep
    \/ OperatorIncludes \/ StopService \/ Exit \/ Crash \/ StartService
    \/ CommandLost \/ LosePower

-----------------------------------------------------------------------------
FirmwareTypeOK ==
    /\ esp \in [version : Versions, report : Reports, marker : 0 .. 3,
                busy : BOOLEAN, runs : BOOLEAN, connected : BOOLEAN, off : BOOLEAN]
    /\ dev \in [version : Versions, report : Reports, off : BOOLEAN,
                online : BOOLEAN, enabled : BOOLEAN]
    /\ row \in [target : {Nil, "base", "new"}, mode : {"immediate", "when_off"},
                status : Statuses, op : BOOLEAN]
    /\ policy \in {Nil, "immediate", "when_off"}
    /\ service \in {"up", "draining", "down"}
    /\ tasks \in Seq({"signal", "reconcile", "reconcile_all"}) /\ Len(tasks) <= MaxTasks
    /\ wire \in [command : BOOLEAN, answer : {Nil, "accepted", "failed"}]
    /\ sent \in Nat /\ restarted \in BOOLEAN /\ lost \in BOOLEAN

(* A request has its image sent to the device once: whatever becomes of    *)
(* the answer, the service never sends it again on its own, unless the     *)
(* process ended between the command and the row that remembers it.        *)
OneCommandPerRequest == sent <= 1 \/ restarted

(* A request of a device that takes part comes to an end: it succeeds, it  *)
(* fails, it asks for a cable, or the command was lost on the way.         *)
Unsettled == row.status \notin Terminal
Resolved == row.status \in Terminal \/ lost \/ ~dev.enabled
UpdateSettles == Unsettled ~> Resolved

FirmwareSafety == FirmwareInit /\ [][FirmwareNext]_firmwareVars

FirmwareSpec ==
    /\ FirmwareSafety
    /\ WF_firmwareVars(TaskStep)
    /\ WF_firmwareVars(SignalDeviceAnnouncement)
    /\ WF_firmwareVars(HandleOta)
    /\ WF_firmwareVars(BeginDownload)
    /\ WF_firmwareVars(DownloadFails \/ InstallImage)
    /\ WF_firmwareVars(Connect \/ ProbationTimesOut)
    /\ WF_firmwareVars(OutputsGoOff)
    /\ WF_firmwareVars(Exit \/ StartService)
=============================================================================
