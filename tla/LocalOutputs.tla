---------------------------- MODULE LocalOutputs ----------------------------
(***************************************************************************)
(* What a device does with its outputs on its own                          *)
(* (firmware/esp32/ESP32Code/ESP32Code.ino): it holds them at zero after   *)
(* power-up or fades them in after an update, follows its schedule, lends  *)
(* an output to the controller for a lease, gives it back when the         *)
(* controller falls silent, and retries outputs it could not attach.       *)
(*                                                                         *)
(* The firmware has one thread: a pass of loop() is the action Pass, and   *)
(* commands are taken between passes.  A duty is the level it stands for,  *)
(* whatever the resolution, so what an edit of the configuration rescales  *)
(* stays the same.  Attaching a pin or writing to it may fail; detaching   *)
(* does not, and no caller in src sends a set without the lease.           *)
(***************************************************************************)
EXTENDS Integers, FiniteSets

CONSTANTS
    Pins,
    Full,           \* the level of an output that is fully on
    Lease,          \* OVERWRITE_DURATION, in passes
    Retry,          \* SCHEDULE_ATTACH_RETRY_INTERVAL
    HoldTime,       \* STARTUP_OUTPUT_HOLD_MS
    FadeTime,       \* startupFadeDurationMs, if the update asked for a fade
    MaxSets,        \* bound on the controller's sets and edits
    MaxSchedules,   \* bound on the schedules it sends
    MaxBreaks,      \* bound on failed attachments and writes
    MaxBoots        \* bound on power losses and updates

ASSUME LocalAssumption ==
    /\ Full \in Nat \ {0}
    /\ Lease \in Nat /\ Retry \in Nat \ {0} /\ HoldTime \in Nat \ {0}
    /\ FadeTime \in Nat \ {0}
    /\ Retry < Lease /\ HoldTime < Lease /\ FadeTime < Lease
    /\ {MaxSets, MaxSchedules, MaxBreaks, MaxBoots} \subseteq Nat

VARIABLES
    output,     \* pin -> its record
    followed,   \* activeChannels: scheduled pin -> what it shows at each hour
    flash,      \* the schedule that survives a power loss
    clockKnown, \* scheduleTimeAvailableThisBoot
    hour,       \* the time of day
    hold,       \* passes left of the startup hold
    fade,       \* passes done of the startup fade, or Done
    sets, schedules, breaks, boots

localVars == <<output, followed, flash, clockKnown, hour, hold, fade,
               sets, schedules, breaks, boots>>

Unknown == -1       \* a cached percentage that matches no target
Done == -1

Hours == 0..1
Levels == 0..Full

\* A flat course, which only an invalidated cache makes the device write
\* again, and one that changes.
Courses == {[h \in Hours |-> Full], [h \in Hours |-> IF h = 0 THEN 0 ELSE Full]}
Timetables == UNION {[S -> Courses] : S \in SUBSET Pins}

\* attachedPins, the duty, lastPinValues, pinStates, the cached percentage of
\* the channel, startupFadeTargets, and whether the fade was led astray by a
\* failed write: the cached percentage then names a value that is not shown.
Off == [attached |-> FALSE, duty |-> 0, last |-> 0, lent |-> FALSE, age |-> 0,
        cached |-> Unknown, goal |-> Unknown, stray |-> FALSE]

LocalTypeOK ==
    /\ output \in [Pins -> [attached : BOOLEAN, duty : Levels, last : Levels,
                            lent : BOOLEAN, age : 0..Lease,
                            cached : Levels \cup {Unknown},
                            goal : Levels \cup {Unknown}, stray : BOOLEAN]]
    /\ followed \in Timetables /\ flash \in Timetables
    /\ clockKnown \in BOOLEAN /\ hour \in Hours
    /\ hold \in 0..HoldTime /\ fade \in 0..FadeTime \cup {Done}

----------------------------------------------------------------------------
(* One output.                                                             *)

\* ledcWrite and the bookkeeping that follows it.
Written(r, level) == [r EXCEPT !.duty = level, !.last = level]

\* A pin that is driven low is attached and written, or stays as it is; a
\* failed attachment ends its lease.
Attached(r, fails) == [Off EXCEPT !.goal = r.goal, !.attached = ~fails]

\* Detached, driven low and forgotten.
Removed(r) == [Off EXCEPT !.goal = r.goal]

\* startupFadeValue: what of a level is shown so far.
Faded(level) == IF fade = Done THEN level ELSE (level * fade) \div FadeTime
Aimed(r, level) == IF fade = Done THEN r ELSE [r EXCEPT !.goal = level]

----------------------------------------------------------------------------
(* The parts of a pass of loop().                                          *)

MutantGivenBack(r, p, broken) ==
    IF p \notin DOMAIN followed \/ ~clockKnown
    THEN IF p \in broken THEN [r EXCEPT !.age = Lease - Retry]
         ELSE [Written(r, 0) EXCEPT !.lent = FALSE]
    ELSE [r EXCEPT !.lent = FALSE]

\* checkOverwriteExpiries: with no scheduled value to restore the output goes
\* off, or the attempt is repeated; else the cache is invalidated.
GivenBack(r, p, broken) ==
    IF p \notin DOMAIN followed \/ ~clockKnown
    THEN IF p \in broken THEN [r EXCEPT !.age = Lease - Retry]
         ELSE [Written(r, 0) EXCEPT !.lent = FALSE]
    ELSE [r EXCEPT !.lent = FALSE, !.cached = Unknown]

Expired(r, p, broken) ==
    IF r.lent /\ r.age >= Lease THEN GivenBack(r, p, broken) ELSE r

\* serviceStartupOutputTransition: every output with a known goal moves on; a
\* failed write is not repeated once the fade is over.
FadeStep(r, p, broken) ==
    LET level == IF fade = Done \/ r.goal = Unknown THEN r.last
                 ELSE Faded(r.goal) IN
    IF fade = Done \/ ~r.attached \/ r.goal = Unknown \/ level = r.last THEN r
    ELSE IF p \in broken THEN [r EXCEPT !.stray = r.stray \/ fade = FadeTime]
    ELSE Written(r, level)

\* retryMissingSchedulePins.
Retried(r, p, broken) ==
    IF p \in DOMAIN followed /\ ~r.attached /\ hold = 0
    THEN Attached(r, p \in broken)
    ELSE r

\* The scheduled write: skipped while lent, and when the cached percentage
\* says that the output shows the target already.
Followed(r, p, broken, h, fading) ==
    IF p \notin DOMAIN followed \/ ~r.attached \/ r.lent \/ ~clockKnown \/ hold > 0
    THEN r
    ELSE LET goal == followed[p][h]
             aimed == IF fading THEN [r EXCEPT !.goal = goal] ELSE r
         IN IF r.cached = goal /\ ~fading THEN r
            ELSE IF p \in broken THEN aimed
            ELSE [Written(aimed, IF fading THEN Faded(goal) ELSE goal)
                     EXCEPT !.cached = goal, !.stray = FALSE]

\* The fade is over when its last step has been taken.
Fading == fade # Done /\ fade < FadeTime

OnePass(r, p, broken, h) ==
    Followed(Retried(FadeStep(Expired(r, p, broken), p, broken), p, broken),
             p, broken, h, Fading)

\* Time passes, and loop() runs.
Loop ==
    \E broken \in SUBSET Pins, h \in Hours :
      /\ breaks + Cardinality(broken) <= MaxBreaks
      /\ breaks' = breaks + Cardinality(broken)
      /\ hour' = h
      /\ hold' = IF hold > 0 THEN hold - 1 ELSE 0
      /\ fade' = IF Fading THEN fade + 1 ELSE Done
      /\ output' = [p \in Pins |->
           LET r == OnePass(output[p], p, broken, h)
           IN [r EXCEPT !.age = IF r.lent /\ r.age < Lease THEN r.age + 1 ELSE r.age]]
      /\ UNCHANGED <<followed, flash, clockKnown, sets, schedules, boots>>

----------------------------------------------------------------------------
(* Commands.                                                               *)

\* set_pwm: the goal of the fade moves even when the attachment or the write
\* fails, and only a write that succeeds lends the output.
SetPwm ==
    \E p \in Pins, level \in Levels, fails \in BOOLEAN :
      LET r == Aimed(output[p], level)
          set == [Written(r, Faded(level)) EXCEPT !.attached = TRUE,
                                                  !.lent = TRUE, !.age = 0]
      IN /\ sets < MaxSets /\ (fails => breaks < MaxBreaks)
         /\ sets' = sets + 1
         /\ breaks' = IF fails THEN breaks + 1 ELSE breaks
         /\ output' = [output EXCEPT ![p] =
                IF fails THEN [r EXCEPT !.stray = r.stray \/ fade # Done] ELSE set]
         /\ UNCHANGED <<followed, flash, clockKnown, hour, hold, fade, schedules, boots>>

\* What a replacement schedule leaves: missing pins are attached, pins it no
\* longer names are detached, and every scheduled pin is to be written again.
Replaced(table, broken) ==
    [p \in Pins |->
        CASE p \in DOMAIN table /\ ~output[p].attached ->
                Attached(output[p], p \in broken)
          [] p \in DOMAIN followed \ DOMAIN table -> Removed(output[p])
          [] p \in DOMAIN table /\ output[p].attached -> [output[p] EXCEPT !.cached = Unknown]
          [] OTHER -> output[p]]

\* handleScheduleCommand; when the schedule cannot be stored, the pins that
\* were attached for it are detached again.
TakeSchedule ==
    \E table \in Timetables, broken \in SUBSET Pins, stored \in BOOLEAN :
      LET cost == Cardinality(broken) + (IF stored THEN 0 ELSE 1) IN
      /\ schedules < MaxSchedules /\ breaks + cost <= MaxBreaks
      /\ broken \subseteq {p \in DOMAIN table : ~output[p].attached}
      /\ schedules' = schedules + 1 /\ breaks' = breaks + cost
      /\ IF stored
         THEN /\ output' = Replaced(table, broken)
              /\ flash' = table /\ followed' = table
         ELSE /\ output' = [p \in Pins |->
                   IF p \in DOMAIN table /\ ~output[p].attached
                   THEN Removed(output[p]) ELSE output[p]]
              /\ UNCHANGED <<flash, followed>>
      /\ UNCHANGED <<clockKnown, hour, hold, fade, sets, boots>>

\* edit_configuration: every attached pin is attached anew.  When that fails
\* the pins are put back, and one that cannot be is forced off and forgotten.
EditConfiguration ==
    \E lost \in SUBSET {p \in Pins : output[p].attached}, done \in BOOLEAN :
      LET cost == Cardinality(lost) + (IF done THEN 0 ELSE 1) IN
      /\ sets < MaxSets /\ breaks + cost <= MaxBreaks
      /\ done => lost = {}
      /\ sets' = sets + 1 /\ breaks' = breaks + cost
      /\ output' = [p \in Pins |->
             IF p \in lost THEN Removed(output[p])
             ELSE IF done THEN [output[p] EXCEPT !.cached = Unknown]
             ELSE output[p]]
      /\ UNCHANGED <<followed, flash, clockKnown, hour, hold, fade, schedules, boots>>

\* release_startup_hold.
Release ==
    /\ hold > 0 /\ hold' = 0
    /\ UNCHANGED <<output, followed, flash, clockKnown, hour, fade,
                   sets, schedules, breaks, boots>>

\* sync_time, or a time server: scheduled values can be computed.
LearnTime ==
    /\ ~clockKnown /\ clockKnown' = TRUE
    /\ UNCHANGED <<output, followed, flash, hour, hold, fade,
                   sets, schedules, breaks, boots>>

\* processSchedule: the stored schedule's pins are attached.
Restored(table, broken) ==
    [p \in Pins |-> IF p \in DOMAIN table THEN Attached(Off, p \in broken) ELSE Off]

\* setup() after a power loss or, with a fade, after an update: the outputs
\* are off and the stored schedule is loaded.
Boot ==
    \E updated \in BOOLEAN, known \in BOOLEAN, broken \in SUBSET DOMAIN flash :
      /\ boots < MaxBoots /\ breaks + Cardinality(broken) <= MaxBreaks
      /\ boots' = boots + 1 /\ breaks' = breaks + Cardinality(broken)
      /\ followed' = flash
      /\ output' = Restored(flash, broken)
      /\ clockKnown' = known
      /\ hold' = IF updated THEN 0 ELSE HoldTime
      /\ fade' = IF updated THEN 0 ELSE Done
      /\ UNCHANGED <<flash, hour, sets, schedules>>

----------------------------------------------------------------------------
\* A new device, just started.
LocalInit ==
    /\ output = [p \in Pins |-> Off]
    /\ flash \in {t \in Timetables : DOMAIN t = {}} /\ followed = flash
    /\ clockKnown = FALSE /\ hour = 0 /\ hold = HoldTime /\ fade = Done
    /\ sets = 0 /\ schedules = 0 /\ breaks = 0 /\ boots = 0

LocalNext ==
    \/ Loop \/ SetPwm \/ TakeSchedule \/ EditConfiguration
    \/ Release \/ LearnTime \/ Boot

LocalSpec == LocalInit /\ [][LocalNext]_localVars /\ WF_localVars(Loop)

\* When the controller falls silent and nothing breaks any more, the device
\* ends up in charge: no output stays lent, what is not scheduled is off, and,
\* once it knows the time, every scheduled output is attached and shows what
\* its schedule asks for, even if that never changes.  The one exception is an
\* output whose startup fade was led astray by a failed write.
LocalControlReturns ==
    <>[]\A p \in Pins :
        /\ ~output[p].lent
        /\ IF p \in DOMAIN followed
           THEN clockKnown =>
                  /\ output[p].attached
                  /\ output[p].stray \/ output[p].duty = followed[p][hour]
           ELSE output[p].duty = 0
=============================================================================
