----------------------------- MODULE Maintenance -----------------------------
(***************************************************************************)
(* The controller's daily maintenance: the event retention of a day, the   *)
(* backup of a day with the pruning of older ones, and the health check    *)
(* that measures what the two have left behind and opens the built-in      *)
(* alerts.                                                                 *)
(*                                                                         *)
(* Time passes in slots, PerDay to a day; both daily hours fall on the     *)
(* slot DailySlot.  A backup is a directory named by the slot it was begun *)
(* in, so at most one is begun in a slot; what is in it is StorageRecovery.*)
(* The content of a good backup that changes under an unchanged size and   *)
(* time is not modelled: the identity of the files would not tell it.      *)
(***************************************************************************)
EXTENDS Integers, FiniteSetsExt

CONSTANTS
    PerDay,         \* slots of a day
    DailySlot,      \* the slot of DAILY_..._OFFSET_MS
    Freshness,      \* freshnessThresholdMs, in slots
    DailyDays,      \* CONTROLLER_BACKUP_DAILY_RETENTION_DAYS
    WeeklyDays,     \* CONTROLLER_BACKUP_WEEKLY_RETENTION_DAYS
    WeekDays,       \* days of a week
    MaxSlot,        \* bound: slots
    MaxTrouble      \* bound: failures, shutdowns, crashes, damage, clock steps

ASSUME MaintenanceConstants ==
    /\ {PerDay, Freshness, DailyDays, WeeklyDays, WeekDays} \subseteq Nat \ {0}
    /\ DailySlot \in 0 .. PerDay - 1 /\ DailyDays < WeeklyDays
    /\ MaxSlot \in Nat \ {0} /\ MaxTrouble \in Nat

VARIABLES
    slot,       \* Date.now()
    server,     \* "down", the coordinator that starts, "up" or "stopping"
    retaining,  \* the retention coordinator: timer, step and day of the run
    backingUp,  \* the backup coordinator: timer, step and time of the run
    claimed,    \* scheduler_guards: the day of the last claim
    retentions, \* retention_runs: the run of a day, its status and its time
    directory,  \* what is in the directory of a backup
    outcomes,   \* the last maintenance.backup row of a slot, or that it is lost
    succeeded,  \* the slots of the maintenance.backup rows with a success
    cache,      \* #verificationCache: a backup, and its files when verified
    health,     \* the built-in alerts, and the slot of the last check
    runs,       \* job.run calls for a day
    trouble     \* what went wrong so far, by kind

maintenanceVars == <<slot, server, retaining, backingUp, claimed, retentions,
                     directory, outcomes, succeeded, cache, health, runs,
                     trouble>>

NoSlot == MaxSlot + PerDay
NoDay == -1
Slots == 0 .. MaxSlot
Day(s) == s \div PerDay
Hour == slot % PerDay
Week(s) == Day(s) \div WeekDays
Days == 0 .. Day(MaxSlot)
Largest(S) == IF S = {} THEN NoSlot ELSE Max(S)

Whole == {s \in Slots : directory[s] = "whole"}

NoCache == [of |-> NoSlot, files |-> "none"]

Troubles == {"failure", "shutdown", "crash", "damage", "clock"}
Happens(kind) ==
    /\ trouble["failure"] + trouble["shutdown"] + trouble["crash"] + trouble["damage"]
          + trouble["clock"] < MaxTrouble
    /\ trouble' = [trouble EXCEPT ![kind] = @ + 1]

MaintenanceInit ==
    /\ slot = 0 /\ server = "down"
    /\ retaining = [timer |-> NoSlot, step |-> "idle"]
    /\ backingUp = [timer |-> NoSlot, step |-> "idle", at |-> 0]
    /\ claimed = NoDay /\ retentions = [d \in Days |-> [status |-> "none", at |-> 0]]
    /\ directory = [s \in Slots |-> "none"] /\ outcomes = [s \in Slots |-> "none"]
    /\ succeeded = {}
    /\ cache = NoCache
    /\ health = [at |-> NoSlot, stale |-> FALSE, failed |-> FALSE]
    /\ runs = [d \in Days |-> 0]
    /\ trouble = [k \in Troubles |-> 0]

\* #armDailyTimer: the delay until the next daily hour.
UntilDaily == (IF Hour < DailySlot THEN DailySlot ELSE DailySlot + PerDay) - Hour

\* No run is under way.
Idle == retaining.step \in {"idle", "failed"} /\ backingUp.step = "idle"

-----------------------------------------------------------------------------
(* The event retention of the day.                                         *)

MutantDue == Hour = DailySlot

\* #runDailyIfDue.
Due == Hour >= DailySlot

\* recoverStaleRuns, when the run of an earlier day has never ended.
RunsRecovered ==
    [d \in Days |-> IF retentions[d].status = "running" /\ d < Day(slot)
                    THEN [status |-> "failed", at |-> slot] ELSE retentions[d]]

\* The cycle of a day, at start or when the timer fires.
DailyCycle ==
    /\ retaining.step = "idle"
    /\ \/ server = "retention" /\ retaining.timer = NoSlot
       \/ server = "up" /\ retaining.timer = 0

\* tryClaimDailyRun refuses a day before the one it has claimed.
ClaimThrows == Due /\ Day(slot) < claimed

\* The day is claimed before the job runs, and the timer is set again when
\* all is done.
BeginRetention ==
    /\ DailyCycle /\ ~ClaimThrows
    /\ IF Due /\ Day(slot) # claimed
       THEN /\ claimed' = Day(slot)
            /\ retaining' = [timer |-> NoSlot, step |-> "claimed"]
       ELSE /\ UNCHANGED claimed
            /\ retaining' = [retaining EXCEPT !.timer = UntilDaily]
    /\ retentions' = RunsRecovered
    /\ UNCHANGED <<slot, server, backingUp, directory, outcomes, succeeded, cache, health, runs, trouble>>

\* #fail: an error of the recovery or of the claim ends the coordinator until
\* the process starts again.  It is not ready any more, and no timer is set;
\* a start it ends is given up.
RetentionFails ==
    /\ DailyCycle
    /\ \/ ClaimThrows /\ retentions' = RunsRecovered /\ UNCHANGED trouble
       \/ retentions' \in {retentions, RunsRecovered} /\ Happens("failure")
    /\ retaining' = [timer |-> NoSlot, step |-> "failed"]
    /\ server' = IF server = "retention" THEN "stopping" ELSE server
    /\ UNCHANGED <<slot, backingUp, claimed, directory, outcomes, succeeded, cache, health, runs>>

\* The usage is read first, and that refuses a success in the future.
FutureSuccess == \E s \in succeeded : s > slot

RetentionDone == [timer |-> IF server = "stopping" THEN NoSlot ELSE UntilDaily, step |-> "idle"]

\* runEventRetention: the row of the run, which an error may forestall.
RunRetention ==
    /\ retaining.step = "claimed"
    /\ runs' = [runs EXCEPT ![Day(slot)] = @ + 1]
    /\ \/ /\ ~FutureSuccess
          /\ retaining' = [retaining EXCEPT !.step = "running"]
          /\ retentions' = [retentions EXCEPT ![Day(slot)] = [status |-> "running", at |-> slot]]
          /\ UNCHANGED trouble
       \/ /\ IF FutureSuccess THEN UNCHANGED trouble ELSE Happens("failure")
          /\ retaining' = RetentionDone
          /\ UNCHANGED retentions
    /\ UNCHANGED <<slot, server, backingUp, claimed, directory, outcomes, succeeded, cache, health>>

\* Its end, which an error may leave unwritten.
EndRetention ==
    LET ended(status) == [retentions EXCEPT ![Day(slot)] = [status |-> status, at |-> slot]]
    IN  /\ retaining.step = "running"
        /\ retaining' = RetentionDone
        /\ \/ retentions' = ended("succeeded") /\ UNCHANGED trouble
           \/ retentions' \in {ended("failed"), retentions} /\ Happens("failure")
        /\ UNCHANGED <<slot, server, backingUp, claimed, directory, outcomes, succeeded, cache, health, runs>>

-----------------------------------------------------------------------------
(* The backup of the day.                                                  *)

\* The success whose directory is looked up: the latest row says which.
Reference == Largest(succeeded)
Files == IF Reference = NoSlot THEN "none" ELSE directory[Reference]

MutantVerified == IF cache.of = Reference THEN cache.files = "whole" ELSE Files = "whole"

\* readLatestVerifiedBackupAtMs: the backup is verified, unless it was when
\* its files were what they are.
Verified ==
    IF cache = [of |-> Reference, files |-> Files] THEN cache.files = "whole"
    ELSE Files = "whole"

\* A directory that lacks a file has no identity.
CacheAfter == IF Files \in {"none", "partial"} THEN NoCache
              ELSE [of |-> Reference, files |-> Files]

Missing == Reference = NoSlot \/ ~Verified
Future == ~Missing /\ Reference > slot
Stale == Missing \/ slot - Reference > Freshness

\* #runStartup: a success in the future, or one that cannot be read, ends the
\* start of the controller.
StartBackups ==
    /\ server = "backup" /\ backingUp = [timer |-> NoSlot, step |-> "idle", at |-> 0]
    /\ cache' = CacheAfter
    /\ \/ /\ IF Future THEN UNCHANGED trouble ELSE Happens("failure")
          /\ server' = "stopping" /\ retaining' = [retaining EXCEPT !.timer = NoSlot]
          /\ UNCHANGED backingUp
       \/ /\ ~Future
          /\ backingUp' = IF Stale THEN [timer |-> NoSlot, step |-> "begun", at |-> slot]
                          ELSE [backingUp EXCEPT !.timer = UntilDaily]
          /\ UNCHANGED <<server, retaining, trouble>>
    /\ UNCHANGED <<slot, claimed, retentions, directory, outcomes, succeeded, health, runs>>

\* The timer: whatever the time is by now, a backup is made.
BackupTimer ==
    /\ server = "up" /\ backingUp.step = "idle" /\ backingUp.timer = 0
    /\ backingUp' = [timer |-> NoSlot, step |-> "begun", at |-> slot]
    /\ UNCHANGED <<slot, server, retaining, claimed, retentions, directory, outcomes, succeeded, cache, health, runs, trouble>>

\* The end of a run: its row, and the timer that follows it.  The row of a
\* failure may be lost to a second one.
Ends(outcome) ==
    /\ outcomes' = [outcomes EXCEPT ![backingUp.at] =
                       IF outcome = "lost" /\ @ # "none" THEN @ ELSE outcome]
    /\ succeeded' = IF outcome = "succeeded" THEN succeeded \cup {backingUp.at} ELSE succeeded
    /\ backingUp' = [timer |-> IF server = "stopping" THEN NoSlot ELSE UntilDaily, step |-> "idle", at |-> 0]

\* The directory is made.  One that is there is an error, and left alone.
MakeDirectory ==
    /\ backingUp.step = "begun"
    /\ IF directory[backingUp.at] = "none"
       THEN /\ directory' = [directory EXCEPT ![backingUp.at] = "partial"]
            /\ backingUp' = [backingUp EXCEPT !.step = "copying"]
            /\ UNCHANGED <<outcomes, succeeded, trouble>>
       ELSE /\ \/ Ends("failed") /\ UNCHANGED trouble
               \/ Ends("lost") /\ Happens("failure")
            /\ UNCHANGED directory
    /\ UNCHANGED <<slot, server, retaining, claimed, retentions, cache, health, runs>>

\* The copies and, last, the manifest; an error removes the directory.
CompleteBackup ==
    /\ backingUp.step = "copying"
    /\ \/ /\ directory' = [directory EXCEPT ![backingUp.at] = "whole"]
          /\ backingUp' = [backingUp EXCEPT !.step = "pruning"]
          /\ UNCHANGED <<outcomes, succeeded, trouble>>
       \/ /\ directory' = [directory EXCEPT ![backingUp.at] = "none"]
          /\ Ends("failed") \/ Ends("lost")
          /\ Happens("failure")
    /\ UNCHANGED <<slot, server, retaining, claimed, retentions, cache, health, runs>>

MutantSelected(now) ==
    LET age(s) == now - s
        newest(s, S) == \A t \in S : t >= s
        daily == {s \in Whole : s <= now /\ age(s) < DailyDays * PerDay}
        weekly == {s \in Whole : s <= now /\ age(s) < WeeklyDays * PerDay} \ daily
    IN  {s \in Whole : s > now}
        \cup {s \in daily : newest(s, {t \in daily : Day(t) = Day(s)})}
        \cup {s \in weekly : newest(s, {t \in weekly : Week(t) = Week(s)})}

\* selectControllerBackupRetention: those of the future, the newest of every
\* recent day, and the newest of every week before that.
Selected(now) ==
    LET age(s) == now - s
        newest(s, S) == \A t \in S : t <= s
        daily == {s \in Whole : s <= now /\ age(s) < DailyDays * PerDay}
        weekly == {s \in Whole : s <= now /\ age(s) < WeeklyDays * PerDay} \ daily
    IN  {s \in Whole : s > now}
        \cup {s \in daily : newest(s, {t \in daily : Day(t) = Day(s)})}
        \cup {s \in weekly : newest(s, {t \in weekly : Week(t) = Week(s)})}

\* pruneVerifiedControllerBackups, which may stop half way, and the row.
PruneBackups ==
    /\ backingUp.step = "pruning"
    /\ \E gone \in SUBSET (Whole \ Selected(backingUp.at)) :
           /\ directory' = [s \in Slots |-> IF s \in gone THEN "none" ELSE directory[s]]
           /\ \/ gone = Whole \ Selected(backingUp.at) /\ Ends("succeeded") /\ UNCHANGED trouble
              \/ (Ends("failed") \/ Ends("lost")) /\ Happens("failure")
    /\ UNCHANGED <<slot, server, retaining, claimed, retentions, cache, health, runs>>

-----------------------------------------------------------------------------
(* The health check.                                                       *)

\* readLatestBackupOutcomeFailed and countUnresolvedRetentionFailures.
LatestOutcomeFailed ==
    LET rows == {s \in Slots : outcomes[s] \in {"succeeded", "failed"}}
    IN  rows # {} /\ outcomes[Max(rows)] = "failed"
UnresolvedRetention ==
    \E d \in Days :
        /\ retentions[d].status = "failed"
        /\ \A e \in Days : retentions[e].status = "succeeded" =>
               \/ retentions[d].at > retentions[e].at
               \/ retentions[d].at = retentions[e].at /\ d > e

\* The metrics, their sensors and the alerts of their rules.  The first check
\* is part of the start; one that fails then ends it, and later is reported.
CheckHealth ==
    /\ server \in {"health", "up"}
    /\ health.at # slot \/ server = "health"
    /\ cache' = CacheAfter
    /\ \/ /\ server = "health"
          /\ IF Future THEN UNCHANGED trouble ELSE Happens("failure")
          /\ UNCHANGED health
          /\ server' = "stopping"
          /\ retaining' = [retaining EXCEPT !.timer = NoSlot]
          /\ backingUp' = [backingUp EXCEPT !.timer = NoSlot]
       \/ /\ ~Future
          /\ health' = [at |-> slot, stale |-> Stale,
                        failed |-> LatestOutcomeFailed \/ UnresolvedRetention]
          /\ server' = "up"
          /\ UNCHANGED <<retaining, backingUp, trouble>>
    /\ UNCHANGED <<slot, claimed, retentions, directory, outcomes, succeeded, runs>>

-----------------------------------------------------------------------------
(* The process, the clock and the disk.                                    *)

Start ==
    /\ server = "down"
    /\ server' = "retention"
    /\ cache' = NoCache
    /\ UNCHANGED <<slot, retaining, backingUp, claimed, retentions, directory, outcomes, succeeded, health, runs, trouble>>

Started ==
    /\ Idle
    /\ \/ server = "retention" /\ retaining.timer # NoSlot
       \/ server = "backup" /\ backingUp.timer # NoSlot

\* startController goes on when a coordinator has started.
StartNext ==
    /\ Started
    /\ server' = IF server = "retention" THEN "backup" ELSE "health"
    /\ UNCHANGED <<slot, retaining, backingUp, claimed, retentions, directory, outcomes, succeeded, cache, health, runs, trouble>>

\* The signal, which a start heeds between two coordinators; stopping them
\* waits for their runs.
Shutdown ==
    /\ server = "up" \/ Started
    /\ Happens("shutdown")
    /\ server' = "stopping"
    /\ retaining' = [retaining EXCEPT !.timer = NoSlot]
    /\ backingUp' = [backingUp EXCEPT !.timer = NoSlot]
    /\ UNCHANGED <<slot, claimed, retentions, directory, outcomes, succeeded, cache, health, runs>>

Stopped ==
    /\ server = "stopping" /\ Idle
    /\ server' = "down"
    /\ retaining' = [retaining EXCEPT !.step = "idle"]
    /\ UNCHANGED <<slot, backingUp, claimed, retentions, directory, outcomes, succeeded, cache, health, runs, trouble>>

ServerCrash ==
    /\ server # "down" /\ Happens("crash")
    /\ server' = "down"
    /\ retaining' = [timer |-> NoSlot, step |-> "idle"]
    /\ backingUp' = [timer |-> NoSlot, step |-> "idle", at |-> 0]
    /\ UNCHANGED <<slot, claimed, retentions, directory, outcomes, succeeded, cache, health, runs>>

\* A run takes less than a slot, a timer fires in the slot it is due, and the
\* check interval is shorter than a slot.
SlotPasses ==
    LET elapsed(timer) == IF timer = NoSlot THEN NoSlot ELSE timer - 1
    IN  /\ slot < MaxSlot /\ Idle
        /\ server \in {"down", "up"} /\ (server = "up" => health.at = slot \/ Future)
        /\ 0 \notin {retaining.timer, backingUp.timer}
        /\ slot' = slot + 1
        /\ retaining' = [retaining EXCEPT !.timer = elapsed(@)]
        /\ backingUp' = [backingUp EXCEPT !.timer = elapsed(@)]
        /\ UNCHANGED <<server, claimed, retentions, directory, outcomes, succeeded, cache, health, runs, trouble>>

\* The clock is set back; the timers do not notice.
ClockStepsBack ==
    /\ Idle /\ server \in {"down", "up"} /\ Happens("clock")
    /\ \E earlier \in Slots : earlier < slot /\ slot' = earlier
    /\ UNCHANGED <<server, retaining, backingUp, claimed, retentions, directory, outcomes, succeeded, cache, health, runs>>

\* Someone removes or changes the files of a backup.
Damage ==
    /\ Happens("damage") /\ backingUp.step = "idle"
    /\ \E s \in Whole, left \in {"none", "damaged"} :
           /\ directory' = [directory EXCEPT ![s] = left]
    /\ UNCHANGED <<slot, server, retaining, backingUp, claimed, retentions, outcomes, succeeded, cache, health, runs>>

-----------------------------------------------------------------------------
Retains == BeginRetention \/ RetentionFails \/ RunRetention \/ EndRetention
BacksUp == StartBackups \/ BackupTimer \/ MakeDirectory \/ CompleteBackup \/ PruneBackups

MaintenanceNext ==
    \/ Retains \/ BacksUp \/ CheckHealth
    \/ Start \/ StartNext \/ Shutdown \/ Stopped \/ ServerCrash
    \/ SlotPasses \/ ClockStepsBack \/ Damage

MaintenanceSpec == MaintenanceInit /\ [][MaintenanceNext]_maintenanceVars

-----------------------------------------------------------------------------
Timers == 0 .. PerDay \cup {NoSlot}

MaintenanceTypeOK ==
    /\ slot \in Slots
    /\ server \in {"down", "retention", "backup", "health", "up", "stopping"}
    /\ retaining \in [timer : Timers, step : {"idle", "claimed", "running", "failed"}]
    /\ backingUp \in [timer : Timers, step : {"idle", "begun", "copying", "pruning"}, at : Slots]
    /\ claimed \in Days \cup {NoDay}
    /\ retentions \in [Days -> [status : {"none", "running", "succeeded", "failed"}, at : Slots]]
    /\ directory \in [Slots -> {"none", "partial", "whole", "damaged"}]
    /\ outcomes \in [Slots -> {"none", "succeeded", "failed", "lost"}]
    /\ succeeded \subseteq Slots
    /\ cache \in [of : Slots \cup {NoSlot}, files : {"none", "whole", "damaged"}]
    /\ health \in [at : Slots \cup {NoSlot}, stale : BOOLEAN, failed : BOOLEAN]
    /\ runs \in [Days -> Nat] /\ trouble \in [Troubles -> 0 .. MaxTrouble]

(* Pruning day by day keeps what it promises to keep: for every backup     *)
(* that succeeded there is one at least as new, of the same day while it   *)
(* is recent and of the same week until it is too old, whatever runs have  *)
(* failed half way, crashed or found the clock set back since.  A backup   *)
(* someone has damaged is not pruned either; one someone has removed is    *)
(* beyond it.                                                              *)
HistoryKept ==
    LET horizon == Max({slot} \cup succeeded \cup Whole)
        kept == {s \in Slots : directory[s] \in {"whole", "damaged"}}
    IN  trouble["damage"] = 0 => \A s \in succeeded :
            /\ horizon - s < DailyDays * PerDay => \E b \in kept : b >= s /\ Day(b) = Day(s)
            /\ horizon - s < WeeklyDays * PerDay => \E b \in kept : b >= s /\ Week(b) = Week(s)

\* Every day whose run began, before the day of the last claim, has a success
\* of its own or of a later day.
NothingLeftUndone ==
    \A d \in Days : d < claimed /\ retentions[d].status # "none" =>
        \E e \in Days : e >= d /\ retentions[e].status = "succeeded"

(* "Backup freshness is based on the actual verified artifact": a check    *)
(* that raises no alert of a stale backup has found, at its time, a backup *)
(* that is whole and fresh on the disk, with the cache of verifications in *)
(* between; one that raises no alert of failed work has found no day's     *)
(* retention that failed, was cut short by a crash or never wrote its end  *)
(* without one of that day or a later that succeeded.                      *)
QuietMeansBackedUp ==
    [][health' # health =>
           /\ \/ health'.stale
              \/ \E s \in Whole' : slot' >= s /\ slot' - s <= Freshness
           /\ health'.failed \/ NothingLeftUndone']_maintenanceVars

(* No day is skipped and none is done twice: while the controller runs,    *)
(* the retention of the day has been claimed once its hour has come,       *)
(* unless an error has ended its coordinator for as long as the process    *)
(* runs, it is run once at most, and the last backup, good or bad, is no   *)
(* older than a start accepts and a day.                                   *)
NoDayIsSkipped ==
    /\ \A d \in Days : runs[d] <= 1
    /\ server = "up" /\ Idle /\ 0 \notin {retaining.timer, backingUp.timer} /\ trouble["clock"] = 0 =>
           /\ Hour >= DailySlot => claimed = Day(slot) \/ retaining.step = "failed"
           /\ \E s \in Slots : outcomes[s] # "none" /\ s + Freshness + PerDay >= slot
=============================================================================
