-------------------------- MODULE ScheduleFallback --------------------------
(***************************************************************************)
(* The two readings of one channel's schedule: the controller evaluates it *)
(* exactly and sends an 8-bit value (packages/domain/src/schedule.ts), and *)
(* the device, when the controller is gone, interpolates between rounded   *)
(* percentages of a schedule compiled for it (schedule-compiler.ts,        *)
(* schedule-artifact-compiler.ts, getScheduledValue in ESP32Code.ino).     *)
(*                                                                         *)
(* A day has LastMinute + 1 minutes.  Throttle and gain are hundredths.    *)
(* The controller's arithmetic is taken to be exact; the device's single   *)
(* precision may fall just short of a whole percentage and be truncated to *)
(* the one below.                                                          *)
(***************************************************************************)
EXTENDS Integers, Sequences

CONSTANTS
    LastMinute,     \* UTC_MINUTE_MAX
    Percentages,    \* those of the schedule's points
    Throttles,      \* the area's throttle, in percent
    Gains,          \* the mapping profile's output gain, in hundredths
    MaxPoints       \* bound on the points of a schedule

ASSUME FallbackAssumption ==
    /\ LastMinute \in Nat \ {0} /\ MaxPoints \in Nat
    /\ Percentages \subseteq 0..100 /\ Throttles \subseteq 0..100 /\ Gains \subseteq 0..100

VARIABLES
    points,     \* the channel's points, by position
    scale,      \* its throttle and gain
    fallback,   \* the outcome of the compilation and the compiled links
    minute      \* of the day

fallbackVars == <<points, scale, fallback, minute>>

Point == [minute : 0..LastMinute, percent : Percentages]

FallbackTypeOK ==
    /\ Len(points) <= MaxPoints /\ \A i \in DOMAIN points : points[i] \in Point
    /\ scale \in [throttle : Throttles, gain : Gains]
    /\ fallback.status \in {"none", "refused", "compiled"}
    /\ \A i \in DOMAIN fallback.links :
         fallback.links[i] \in [source : [minute : 0..LastMinute, percent : 0..100],
                                target : [minute : 0..LastMinute, percent : 0..100]]
    /\ minute \in 0..LastMinute

----------------------------------------------------------------------------
(* The schedule.                                                           *)

\* roundHalfEven of a quotient.
RoundHalfEven(n, d) ==
    LET low == n \div d
        rest == 2 * (n % d)
    IN IF rest < d \/ (rest = d /\ low % 2 = 0) THEN low ELSE low + 1

\* scheduleGraphFromPoints: adjacent points make a segment.
Segments(pts) ==
    [i \in 1..(Len(pts) - 1) |-> [source |-> pts[i], target |-> pts[i + 1]]]

\* validateScheduleGraph: forward segments without gap, overlap or jump that
\* go from midnight round to midnight.
ValidGraph(segs) ==
    /\ segs # <<>>
    /\ \A i \in DOMAIN segs : segs[i].source.minute < segs[i].target.minute
    /\ segs[1].source.minute = 0 /\ segs[Len(segs)].target.minute = LastMinute
    /\ \A i \in 2..Len(segs) : segs[i - 1].target = segs[i].source
    /\ segs[1].source.percent = segs[Len(segs)].target.percent

\* The first segment whose minutes, both ends included, cover a minute.
Covering(segs, m) ==
    LET covers(i) == segs[i].source.minute <= m /\ m <= segs[i].target.minute
    IN CHOOSE i \in DOMAIN segs : covers(i) /\ \A j \in 1..(i - 1) : ~covers(j)

\* interpolateSegment, as a quotient.
Between(seg, m) ==
    LET duration == seg.target.minute - seg.source.minute IN
    [n |-> seg.source.percent * duration
             + (m - seg.source.minute) * (seg.target.percent - seg.source.percent),
     d |-> duration]

\* toHostPwm of evaluateSchedulePercent.
HostPwm(segs, m) ==
    LET at == Between(segs[Covering(segs, m)], m)
    IN RoundHalfEven(at.n * 255 * scale.throttle * scale.gain, at.d * 1000000)

----------------------------------------------------------------------------
(* Its copy on the device.                                                 *)

MutantScaled(percent) == RoundHalfEven(percent * scale.throttle, 100)

\* The percentage of a compiled point.
Scaled(percent) == RoundHalfEven(percent * scale.throttle * scale.gain, 10000)

\* compileSegment.
Link(seg) ==
    [source |-> [seg.source EXCEPT !.percent = Scaled(seg.source.percent)],
     target |-> [seg.target EXCEPT !.percent = Scaled(seg.target.percent)]]

\* validatedGraph and compileDeviceScheduleArtifact.
Compile ==
    LET segs == Segments(points) IN
    /\ fallback.status = "none"
    /\ fallback' = IF ValidGraph(segs)
                   THEN [status |-> "compiled",
                         links |-> [i \in DOMAIN segs |-> Link(segs[i])]]
                   ELSE [status |-> "refused", links |-> <<>>]
    /\ UNCHANGED <<points, scale, minute>>

\* getScheduledValue: the whole percentages the device may show.
DevicePercents(links, m) ==
    LET at == Between(links[Covering(links, m)], m)
        whole == at.n \div at.d
    IN IF at.n % at.d = 0 /\ whole > 0 THEN {whole - 1, whole} ELSE {whole}

MinutePasses ==
    /\ fallback.status = "compiled"
    /\ minute' = (minute + 1) % (LastMinute + 1)
    /\ UNCHANGED <<points, scale, fallback>>

----------------------------------------------------------------------------
FallbackInit ==
    /\ points \in UNION {[1..n -> Point] : n \in 0..MaxPoints}
    /\ scale \in [throttle : Throttles, gain : Gains]
    /\ fallback = [status |-> "none", links |-> <<>>] /\ minute = 0

FallbackNext == Compile \/ MinutePasses

FallbackSpec == FallbackInit /\ [][FallbackNext]_fallbackVars

\* A schedule that is compiled covers every minute of the day, and whenever the
\* controller goes silent the output that the device falls back to is less than
\* two percent points below what the controller last sent and less than one
\* above, whatever the throttle and the gain.
FallbackIsClose ==
    fallback.status = "compiled" =>
        /\ \E i \in DOMAIN fallback.links :
             /\ fallback.links[i].source.minute <= minute
             /\ minute <= fallback.links[i].target.minute
        /\ \A percent \in DevicePercents(fallback.links, minute) :
             LET apart == percent * 255 - HostPwm(Segments(points), minute) * 100
             IN -2 * 255 < apart /\ apart < 255
=============================================================================
