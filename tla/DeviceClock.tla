---------------------------- MODULE DeviceClock ----------------------------
(***************************************************************************)
(* The clock of a device without a battery                                 *)
(* (firmware/esp32/ESP32Code/ESP32Code.ino): it is set by a time server or *)
(* by the controller, and its value is written to the EEPROM, whose cells  *)
(* wear out, so that the schedule goes on after a power loss.  The machine *)
(* is one boot; time is counted in ticks since it began, the value of the  *)
(* clock matters only by whether it is known.                              *)
(***************************************************************************)
EXTENDS Integers

CONSTANTS
    Hour,       \* TIME_CHECKPOINT_INTERVAL_MS and PERSISTENCE_RETRY_INTERVAL_MS
    AnswerTime, \* NTP_SYNC_TIMEOUT_MS
    NtpRetry,   \* NTP_RETRY_INTERVAL_MS
    Resync,     \* NTP_RESYNC_INTERVAL_MS
    MaxTicks    \* bound on the length of the boot

ASSUME ClockAssumption ==
    /\ {Hour, AnswerTime, NtpRetry, Resync, MaxTicks} \subseteq Nat \ {0}
    /\ AnswerTime <= NtpRetry /\ NtpRetry <= Hour /\ Hour <= Resync

VARIABLES
    up,         \* millis(), from the last power-up
    known,      \* timeInitialized
    checkpoint, \* the flags and times of the checkpoint of the clock
    ntp,        \* those of the time server's
    commits     \* attempts to write the EEPROM

clockVars == <<up, known, checkpoint, ntp, commits>>

NotYet == -1

ClockTypeOK ==
    /\ up \in 0..MaxTicks /\ known \in BOOLEAN /\ commits \in Nat
    /\ checkpoint \in [pending : BOOLEAN, immediate : BOOLEAN, fresh : BOOLEAN,
                       failed : BOOLEAN, attemptAt : 0..MaxTicks,
                       successAt : 0..MaxTicks]
    /\ ntp \in [asking : BOOLEAN, arrived : BOOLEAN, askedAt : 0..MaxTicks \cup {NotYet},
                doneAt : 0..MaxTicks \cup {NotYet}]

----------------------------------------------------------------------------
(* The checkpoint.                                                         *)

\* serviceTimeCheckpoint: one becomes pending when the last is an hour old.
HourPassed(c) ==
    IF up - c.successAt >= Hour THEN [c EXCEPT !.pending = TRUE] ELSE c

CheckpointDue(c) ==
    /\ c.pending
    /\ IF c.failed THEN up - c.attemptAt >= Hour
       ELSE (c.immediate /\ ~c.fresh) \/ up - c.successAt >= Hour

\* persistTimeCheckpoint; freshTimeCheckpointCommittedThisBoot is set by the
\* first success after the clock was set.
CheckpointWritten(c, works) ==
    IF works
    THEN [c EXCEPT !.pending = FALSE, !.immediate = FALSE, !.failed = FALSE,
                   !.fresh = c.fresh \/ c.immediate,
                   !.attemptAt = up, !.successAt = up]
    ELSE [c EXCEPT !.failed = TRUE, !.attemptAt = up]

ServiceCheckpoint(c) ==
    LET next == HourPassed(c) IN
    IF CheckpointDue(next)
    THEN \E works \in BOOLEAN :
           checkpoint' = CheckpointWritten(next, works) /\ commits' = commits + 1
    ELSE checkpoint' = next /\ UNCHANGED commits

MutantCheckpointQueued(c) ==
    IF c.fresh THEN [c EXCEPT !.pending = TRUE]
    ELSE [c EXCEPT !.pending = TRUE, !.immediate = TRUE, !.failed = FALSE]

\* queueTimeCheckpoint(true): a clock that has just been set does not wait
\* behind a failed checkpoint of an estimate, once.
CheckpointQueued(c) ==
    IF c.fresh \/ c.immediate THEN [c EXCEPT !.pending = TRUE]
    ELSE [c EXCEPT !.pending = TRUE, !.immediate = TRUE, !.failed = FALSE]

----------------------------------------------------------------------------
(* Steps.                                                                  *)

\* loadTimeInfo: the estimate of the last checkpoint is good enough, if valid.
ClockInit ==
    /\ up = 0 /\ known \in BOOLEAN /\ commits = 0
    /\ checkpoint = [pending |-> FALSE, immediate |-> FALSE, fresh |-> FALSE,
                     failed |-> FALSE, attemptAt |-> 0, successAt |-> 0]
    /\ ntp = [asking |-> FALSE, arrived |-> FALSE, askedAt |-> NotYet, doneAt |-> NotYet]

\* sync_time: the controller sets the clock.
TakeSync ==
    /\ known' = TRUE /\ ServiceCheckpoint(CheckpointQueued(checkpoint))
    /\ UNCHANGED <<up, ntp>>

\* The time server's answer arrives on another task, which sets a flag.
NtpAnswers ==
    /\ ntp.askedAt # NotYet /\ ~ntp.arrived
    /\ ntp' = [ntp EXCEPT !.arrived = TRUE]
    /\ UNCHANGED <<up, known, checkpoint, commits>>

\* serviceTimeSynchronization: an answer is taken even after the deadline.
TakeNtpTime ==
    /\ ntp.arrived
    /\ \/ /\ known' = TRUE /\ ServiceCheckpoint(CheckpointQueued(checkpoint))
          /\ ntp' = [ntp EXCEPT !.arrived = FALSE, !.asking = FALSE, !.doneAt = up]
       \/ /\ ntp' = [ntp EXCEPT !.arrived = FALSE]      \* an unusable time
          /\ UNCHANGED <<known, checkpoint, commits>>
    /\ UNCHANGED up

NtpTimesOut ==
    /\ ntp.asking /\ up - ntp.askedAt >= AnswerTime
    /\ ntp' = [ntp EXCEPT !.asking = FALSE]
    /\ UNCHANGED <<up, known, checkpoint, commits>>

\* beginNtpSync, while the network is there.
BeginNtpSync ==
    /\ ~ntp.asking
    /\ ntp.doneAt = NotYet \/ up - ntp.doneAt >= Resync
    /\ ntp.askedAt = NotYet \/ up - ntp.askedAt >= NtpRetry
    /\ ntp' = [ntp EXCEPT !.asking = TRUE, !.askedAt = up]
    /\ UNCHANGED <<up, known, checkpoint, commits>>

\* Time passes, and loop() services the checkpoint of a known clock.
ClockTick ==
    /\ up < MaxTicks /\ up' = up + 1 /\ UNCHANGED <<known, ntp>>
    /\ IF known THEN ServiceCheckpoint(checkpoint) ELSE UNCHANGED <<checkpoint, commits>>

ClockNext ==
    \/ TakeSync \/ NtpAnswers \/ TakeNtpTime \/ NtpTimesOut \/ BeginNtpSync
    \/ ClockTick

ClockSpec == ClockInit /\ [][ClockNext]_clockVars

\* However often the clock is set, and however often a write fails, the EEPROM
\* is written at most once an hour, and once more for a clock that is set.
WearIsBounded == commits <= up \div Hour + 1
=============================================================================
