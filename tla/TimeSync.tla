------------------------------- MODULE TimeSync -------------------------------
(***************************************************************************)
(* TimeSyncCoordinator and the daily guards it keeps in scheduler_guards:  *)
(* every device has its clock set once a day, however often the controller *)
(* restarts, and once more when it announces itself.                       *)
(***************************************************************************)
EXTENDS Integers, FiniteSets

CONSTANTS
    Clocks,         \* enabled devices that are online, stale or offline
    DayLength,      \* ticks of a UTC day
    DailyOffset,    \* the tick of the day the daily run is due from
    MaxTime,        \* bound: the clock
    MaxSteps,       \* bound: times the wall clock is set back
    MaxRestarts     \* bound: ends of the process

ASSUME TimeSyncConstants ==
    /\ IsFiniteSet(Clocks)
    /\ DayLength \in Nat \ {0} /\ DailyOffset \in 0 .. DayLength - 1
    /\ {MaxTime, MaxSteps, MaxRestarts} \subseteq Nat

VARIABLES
    now,        \* the wall clock
    guard,      \* scheduler_guards
    coordinator, \* its phase
    daily,      \* the daily run: its day, when it began, who is left
    claimed,    \* devices whose daily sync is under way
    announced,  \* devices whose announcement sync is under way
    synced,     \* #announcementSyncedDeviceIds
    armed,      \* when the daily timer fires
    counted,    \* clock steps and restarts so far
    launched,   \* history: daily syncs by device and day
    overnight,  \* history: a daily sync succeeded on a later day
    errored     \* history: a command or the database threw in this process

timeVars == <<now, guard, coordinator, daily, claimed, announced, synced, armed, counted, launched,
              overnight, errored>>

Never == -1
Day(t) == t \div DayLength
Due(t) == t >= Day(t) * DayLength + DailyOffset
NextDue(t) == IF Due(t) THEN (Day(t) + 1) * DayLength + DailyOffset
              ELSE Day(t) * DayLength + DailyOffset

NoGuard == [day |-> Never, started |-> Never, updated |-> Never, success |-> Never]
NoRun == [on |-> FALSE, day |-> Never, at |-> Never, left |-> {}, failed |-> FALSE]

\* tryClaimDailyRun: the claim, a refusal, or an error.
MutantClaim(g, day, at) ==
    IF g.day > day \/ at < g.updated THEN "error" ELSE "claimed"

Claim(g, day, at) ==
    IF g.day > day THEN "error"
    ELSE IF g.day = day THEN "refused"
    ELSE IF at < g.updated THEN "error"
    ELSE "claimed"

\* recordDailyRunResult: a success of a later day is refused by its schema.
Record(g, day, at, succeeded) ==
    IF succeeded /\ Day(at) # day THEN "error"
    ELSE IF g.day # day THEN "superseded"
    ELSE IF at < g.started \/ at < g.updated THEN "error"
    ELSE "recorded"

Accepting == coordinator \in {"starting", "ready"}

-----------------------------------------------------------------------------
TimeInit ==
    /\ now = 0 /\ guard = [d \in Clocks |-> NoGuard]
    /\ coordinator = "down" /\ daily = NoRun /\ claimed = {} /\ announced = {} /\ synced = {}
    /\ armed = Never /\ counted = [steps |-> 0, restarts |-> 0]
    /\ launched = [d \in Clocks |-> [n \in 0 .. Day(MaxTime) |-> 0]] /\ overnight = FALSE /\ errored = FALSE

Tick ==
    /\ now < MaxTime /\ now' = now + 1
    /\ UNCHANGED <<guard, coordinator, daily, claimed, announced, synced, armed, counted, launched,
                   overnight, errored>>

ClockStepsBack ==
    /\ now > 0 /\ counted.steps < MaxSteps
    /\ now' = now - 1 /\ counted' = [counted EXCEPT !.steps = @ + 1]
    /\ UNCHANGED <<guard, coordinator, daily, claimed, announced, synced, armed, launched, overnight,
                   errored>>

\* #runDailyIfDue up to its first claim.
Run == IF Due(now) THEN [on |-> TRUE, day |-> Day(now), at |-> now, left |-> Clocks, failed |-> FALSE]
       ELSE [NoRun EXCEPT !.on = TRUE]

StartSync ==
    /\ coordinator = "down"
    /\ coordinator' = "starting" /\ daily' = Run
    /\ UNCHANGED <<now, guard, claimed, announced, synced, armed, counted, launched, overnight,
                   errored>>

DailyTimerFires ==
    /\ coordinator = "ready" /\ ~daily.on /\ armed # Never
    /\ now >= armed \/ counted.steps > 0
    /\ daily' = Run /\ armed' = Never
    /\ UNCHANGED <<now, guard, coordinator, claimed, announced, synced, counted, launched, overnight,
                   errored>>

\* One turn of the loop: the claim is on disk before the command goes out.
ClaimNext(d) ==
    /\ daily.on /\ Accepting /\ d \in daily.left
    /\ LET answer == Claim(guard[d], daily.day, daily.at)
       IN  /\ daily' = [daily EXCEPT !.left = IF answer = "error" THEN {} ELSE @ \ {d},
                                     !.failed = @ \/ answer = "error"]
           /\ IF answer = "claimed"
              THEN /\ guard' = [guard EXCEPT ![d].day = daily.day, ![d].started = daily.at,
                                             ![d].updated = daily.at]
                   /\ claimed' = claimed \cup {d}
                   /\ launched' = [launched EXCEPT ![d][daily.day] = @ + 1]
              ELSE UNCHANGED <<guard, claimed, launched>>
    /\ UNCHANGED <<now, coordinator, announced, synced, armed, counted, overnight, errored>>

\* The list of the devices, or the claim, throws: the loop ends, and what was
\* claimed goes on.
TraversalThrows ==
    /\ daily.on /\ daily.left # {}
    /\ daily' = [daily EXCEPT !.left = {}, !.failed = TRUE]
    /\ errored' = TRUE
    /\ UNCHANGED <<now, guard, coordinator, claimed, announced, synced, armed, counted, launched,
                   overnight>>

\* #runClaimedDailySync after the dispatch, which may be blocked.
DailySyncEnds(d) ==
    /\ d \in claimed
    /\ claimed' = claimed \ {d}
    /\ \E outcome \in {"succeeded", "failed", "blocked"} :
           LET ok == outcome = "succeeded"
               answer == IF outcome = "blocked" THEN "blocked"
                         ELSE Record(guard[d], daily.day, now, ok)
           IN  /\ daily' = [daily EXCEPT !.failed = @ \/ answer = "error"]
               /\ guard' = IF answer = "recorded"
                           THEN [guard EXCEPT ![d].updated = now,
                                              ![d].success = IF ok THEN daily.day ELSE @]
                           ELSE guard
               /\ synced' = IF ok /\ answer # "error" THEN synced \cup {d} ELSE synced
               /\ overnight' = (overnight \/ (ok /\ Day(now) > daily.day))
    /\ UNCHANGED <<now, coordinator, announced, armed, counted, launched, errored>>

\* The dispatch throws, which latches the dispatcher, or the record does.
DailySyncThrows(d) ==
    /\ d \in claimed
    /\ claimed' = claimed \ {d}
    /\ daily' = [daily EXCEPT !.failed = TRUE]
    /\ errored' = TRUE
    /\ UNCHANGED <<now, guard, coordinator, announced, synced, armed, counted, launched, overnight>>

\* An error ends the coordinator for good; else the timer is armed again.
DailyRunEnds ==
    /\ daily.on /\ claimed = {} /\ (daily.left = {} \/ ~Accepting)
    /\ daily' = NoRun
    /\ IF daily.failed THEN coordinator' = "failed" /\ armed' = Never
       ELSE IF Accepting THEN coordinator' = "ready" /\ armed' = NextDue(now)
       ELSE UNCHANGED <<coordinator, armed>>
    /\ UNCHANGED <<now, guard, claimed, announced, synced, counted, launched, overnight,
                   errored>>

SignalAnnouncement(d) ==
    /\ Accepting /\ d \notin synced /\ d \notin announced
    /\ announced' = announced \cup {d}
    /\ UNCHANGED <<now, guard, coordinator, daily, claimed, synced, armed, counted, launched, overnight,
                   errored>>

AnnouncementSyncEnds(d) ==
    /\ d \in announced
    /\ announced' = announced \ {d}
    /\ synced' \in {synced, synced \cup {d}}
    /\ UNCHANGED <<now, guard, coordinator, daily, claimed, armed, counted, launched, overnight,
                   errored>>

\* #fail: nothing is claimed or armed any more, and signalAnnouncement throws.
AnnouncementSyncThrows(d) ==
    /\ d \in announced
    /\ announced' = announced \ {d}
    /\ coordinator' = "failed" /\ armed' = Never /\ errored' = TRUE
    /\ UNCHANGED <<now, guard, daily, claimed, synced, counted, launched, overnight>>

SignalDeviceUnavailable(d) ==
    /\ d \in synced /\ synced' = synced \ {d}
    /\ UNCHANGED <<now, guard, coordinator, daily, claimed, announced, armed, counted, launched, overnight,
                   errored>>

StopSync ==
    /\ Accepting /\ counted.restarts < MaxRestarts
    /\ coordinator' = "stopping" /\ armed' = Never
    /\ UNCHANGED <<now, guard, daily, claimed, announced, synced, counted, launched, overnight,
                   errored>>

\* The process ends, at the end of stop or by a crash.
SyncEnds ==
    /\ coordinator # "down" /\ counted.restarts < MaxRestarts
    /\ coordinator' = "down" /\ daily' = NoRun /\ claimed' = {} /\ announced' = {} /\ synced' = {}
    /\ armed' = Never
    /\ counted' = [counted EXCEPT !.restarts = @ + 1]
    /\ errored' = FALSE
    /\ UNCHANGED <<now, guard, launched, overnight>>

TimeNext ==
    \/ Tick \/ ClockStepsBack \/ StartSync \/ DailyTimerFires \/ DailyRunEnds \/ StopSync \/ SyncEnds
    \/ TraversalThrows
    \/ \E d \in Clocks :
           \/ ClaimNext(d) \/ DailySyncEnds(d) \/ DailySyncThrows(d)
           \/ SignalAnnouncement(d) \/ AnnouncementSyncEnds(d) \/ AnnouncementSyncThrows(d)
           \/ SignalDeviceUnavailable(d)

TimeSafety == TimeInit /\ [][TimeNext]_timeVars

-----------------------------------------------------------------------------
TimeTypeOK ==
    /\ now \in 0 .. MaxTime
    /\ guard \in [Clocks -> [day : Never .. MaxTime, started : Never .. MaxTime,
                              updated : Never .. MaxTime, success : Never .. MaxTime]]
    /\ coordinator \in {"down", "starting", "ready", "stopping", "failed"}
    /\ daily.left \subseteq Clocks /\ claimed \subseteq Clocks
    /\ announced \subseteq Clocks /\ synced \subseteq Clocks

(* A device is sent its daily sync at most once a day, whatever stops, and *)
(* restarts, between the claim and the answer.                             *)
OneDailySyncPerDay == \A d \in Clocks : \A n \in DOMAIN launched[d] : launched[d][n] <= 1

(* The coordinator never gives up by itself: the claims, the records, the  *)
(* restarts and the announcements of a day contradict one another only     *)
(* when the wall clock was set back or a daily sync succeeded on a later   *)
(* day than it was for; what else ends it is an error that a command or    *)
(* the database threw in this very process.                                *)
GivesUpForCause == coordinator = "failed" => errored \/ counted.steps > 0 \/ overnight
=============================================================================
