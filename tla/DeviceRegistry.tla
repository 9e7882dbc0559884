---------------------------- MODULE DeviceRegistry ----------------------------
(***************************************************************************)
(* The devices row of one ESP32 and everyone who writes it: DeviceRegistry *)
(* with its serial tail (announcements, response contacts, timeouts,       *)
(* protocol faults, health ticks), the operator who includes and excludes, *)
(* and the configuration edit of a device operation.                       *)
(***************************************************************************)
EXTENDS Integers, FiniteSets

CONSTANTS
    PersistInterval, StaleAfter, OfflineAfter,  \* the registry's durations
    MaxTime,        \* bound: the clock
    MaxEvents,      \* bound: protocol faults, timeouts, edits and changes of the device
    MaxCalls        \* bound: calls that wait on the tail

ASSUME RegistryConstants ==
    /\ PersistInterval \in Nat \ {0}
    /\ PersistInterval < StaleAfter /\ StaleAfter < OfflineAfter
    /\ {StaleAfter, OfflineAfter, MaxTime, MaxEvents, MaxCalls} \subseteq Nat

VARIABLES
    esp,        \* the ESP32: how it is, and its configuration
    row,        \* its devices row
    inbox,      \* calls on their way to #serialize: each has the time it was seen
    edit,       \* the edit under way
    now,
    used,       \* faults, timeouts and edits so far
    quarantined,    \* history: a protocol fault was recorded and the operator
                    \* has not included the device since
    edited      \* history: an edit wrote the row since that fault

registryVars == <<esp, row, inbox, edit, now, used, quarantined, edited>>

Never == -1
Configurations == {1, 2}
Errors == {"none", "protocol_invalid_response", "device_reported_status",
           "firmware_unsupported", "configuration_mismatch", "firmware_reported"}
Connection == {"online", "stale", "offline"}

Call(kind, at) == [kind |-> kind, at |-> at, ok |-> TRUE, supported |-> TRUE,
                   configuration |-> 1, trouble |-> FALSE]

\* What the device says of itself; trouble: it reports an error as active.
Announcement(d, at) ==
    [kind |-> "announcement", at |-> at, ok |-> d.ok, supported |-> d.supported,
     configuration |-> d.configuration, trouble |-> d.trouble]

AnnouncementError(a, desired) ==
    IF ~a.ok THEN "device_reported_status"
    ELSE IF ~a.supported THEN "firmware_unsupported"
    ELSE IF a.configuration # desired THEN "configuration_mismatch"
    ELSE IF a.trouble THEN "firmware_reported"
    ELSE "none"

StatusOf(a, error) ==
    IF a.ok /\ error # "firmware_unsupported" THEN "online" ELSE "error"

NoRow == [known |-> FALSE, enabled |-> FALSE, status |-> "unknown", seen |-> Never,
          error |-> "none", desired |-> 1, reported |-> 1]

Registered(a) ==
    LET error == AnnouncementError(a, a.configuration)
    IN  [known |-> TRUE, enabled |-> TRUE, status |-> StatusOf(a, error), seen |-> a.at,
         error |-> error, desired |-> a.configuration, reported |-> a.configuration]

\* A quarantined device stays as it is; one the operator hid comes back.
Reported(r, a) ==
    LET held == ~r.enabled /\ r.error = "protocol_invalid_response"
        error == IF held THEN r.error ELSE AnnouncementError(a, r.desired)
    IN  [r EXCEPT !.enabled = @ \/ (~held /\ a.ok),
                  !.status = IF held THEN "error" ELSE StatusOf(a, error),
                  !.error = error, !.reported = a.configuration,
                  !.seen = a.at]

\* Nothing but the time would change, and the time was written not long ago.
MutantRepeated(r, a) ==
    /\ [Reported(r, a) EXCEPT !.seen = r.seen, !.status = r.status] = r
    /\ r.seen # Never /\ a.at - r.seen < PersistInterval

Repeated(r, a) ==
    /\ [Reported(r, a) EXCEPT !.seen = r.seen] = r
    /\ r.seen # Never /\ a.at - r.seen < PersistInterval

MutantAfterAnnouncement(r, a) ==
    IF ~r.known THEN Registered(a)
    ELSE IF a.at < r.seen \/ Repeated(r, a) THEN r
    ELSE [Reported(r, a) EXCEPT !.enabled = @ \/ a.ok]

AfterAnnouncement(r, a) ==
    IF ~r.known THEN Registered(a)
    ELSE IF a.at < r.seen \/ Repeated(r, a) THEN r
    ELSE Reported(r, a)

AfterContact(r, at) ==
    IF at < r.seen THEN r
    ELSE IF r.status \notin {"stale", "offline", "unknown"}
            /\ r.seen # Never /\ at - r.seen < PersistInterval THEN r
    ELSE [r EXCEPT !.status = IF @ = "error" THEN "error" ELSE "online", !.seen = at]

AfterTimeout(r) ==
    IF r.enabled /\ r.status \in {"online", "stale"} THEN [r EXCEPT !.status = "offline"] ELSE r

AfterFault(r) ==
    [r EXCEPT !.enabled = FALSE, !.status = "error", !.error = "protocol_invalid_response"]

\* refreshConnectionStatuses, for one device.
AfterHealthTick(r) ==
    IF ~(r.enabled /\ r.status \in {"online", "stale"} /\ r.seen \in 0 .. now) THEN r
    ELSE IF now - r.seen >= OfflineAfter THEN [r EXCEPT !.status = "offline"]
    ELSE IF now - r.seen >= StaleAfter THEN [r EXCEPT !.status = "stale"]
    ELSE r

Eligible(r) == r.known /\ r.enabled /\ r.status \in Connection

-----------------------------------------------------------------------------
RegistryInit ==
    /\ esp \in [ok : {TRUE}, supported : BOOLEAN, configuration : {1}, trouble : {FALSE}]
    /\ row = NoRow /\ inbox = {} /\ edit = "none" /\ now = 0
    /\ used = 0
    /\ quarantined = FALSE /\ edited = FALSE

ClockTick ==
    /\ now < MaxTime /\ now' = now + 1
    /\ UNCHANGED <<esp, row, inbox, edit, used, quarantined, edited>>

\* The device announces itself; the call joins the tail.
Announces ==
    /\ Cardinality(inbox) < MaxCalls /\ \A c \in inbox : c.kind # "announcement"
    /\ inbox' = inbox \cup {Announcement(esp, now)}
    /\ UNCHANGED <<esp, row, edit, now, used, quarantined, edited>>

EspChanges ==
    /\ used < MaxEvents /\ used' = used + 1
    /\ esp' \in {[esp EXCEPT !.ok = ~@], [esp EXCEPT !.trouble = ~@]}
    /\ UNCHANGED <<row, inbox, edit, now, quarantined, edited>>

\* The end of an operation: an answer, silence, or nonsense.
Contacts ==
    /\ row.known /\ Cardinality(inbox) < MaxCalls /\ now < MaxTime
    /\ inbox' = inbox \cup {Call("contact", now)}
    /\ UNCHANGED <<esp, row, edit, now, used, quarantined, edited>>

TimesOut ==
    /\ row.known /\ Cardinality(inbox) < MaxCalls /\ used < MaxEvents
    /\ inbox' = inbox \cup {Call("timeout", now)}
    /\ used' = used + 1
    /\ UNCHANGED <<esp, row, edit, now, quarantined, edited>>

AnswersNonsense ==
    /\ row.known /\ Cardinality(inbox) < MaxCalls /\ used < MaxEvents
    /\ inbox' = inbox \cup {Call("fault", now)}
    /\ used' = used + 1
    /\ UNCHANGED <<esp, row, edit, now, quarantined, edited>>

Apply(c) ==
    /\ inbox' = inbox \ {c}
    /\ row' = CASE c.kind = "announcement" -> AfterAnnouncement(row, c)
                [] c.kind = "contact" -> AfterContact(row, c.at)
                [] c.kind = "timeout" -> AfterTimeout(row)
                [] c.kind = "fault" -> AfterFault(row)
    /\ IF c.kind = "fault" THEN quarantined' = TRUE /\ edited' = FALSE
       ELSE UNCHANGED <<quarantined, edited>>
    /\ UNCHANGED <<esp, edit, now, used>>

HealthTick ==
    /\ row' = AfterHealthTick(row) /\ row' # row
    /\ UNCHANGED <<esp, inbox, edit, now, used, quarantined, edited>>

\* setDeviceEnabled: including a quarantined device forgets the fault.
SetDeviceEnabled(enabled) ==
    /\ row.known /\ row.enabled # enabled
    /\ row' = IF enabled /\ row.error = "protocol_invalid_response"
              THEN [row EXCEPT !.enabled = TRUE, !.status = "unknown", !.error = "none"]
              ELSE [row EXCEPT !.enabled = enabled]
    /\ quarantined' = (quarantined /\ ~enabled)
    /\ UNCHANGED <<esp, inbox, edit, now, used, edited>>

-----------------------------------------------------------------------------
(* The edit: eligible when it was asked, created a moment later.           *)

CheckEdit ==
    /\ edit = "none" /\ used < MaxEvents /\ Eligible(row)
    /\ edit' = "checked"
    /\ UNCHANGED <<esp, row, inbox, now, used, quarantined, edited>>

CreateEdit ==
    /\ edit = "checked"
    /\ LET wanted == 3 - row.desired
       IN  row' = [row EXCEPT !.desired = wanted,
                      !.error = IF row.reported # wanted THEN "configuration_mismatch"
                                ELSE IF @ = "configuration_mismatch" THEN "none" ELSE @]
    /\ edit' = "sent" /\ edited' = TRUE
    /\ used' = used + 1
    /\ UNCHANGED <<esp, inbox, now, quarantined>>

\* The device takes the edit or not, and the controller hears of it or not.
FinishEdit ==
    /\ edit = "sent" /\ edit' = "none"
    /\ \E taken, heard \in BOOLEAN :
           /\ esp' = IF taken THEN [esp EXCEPT !.configuration = row.desired] ELSE esp
           /\ row' = IF taken /\ heard
                     THEN [row EXCEPT !.reported = row.desired, !.error = "none"] ELSE row
           /\ edited' = (edited \/ (taken /\ heard))
    /\ UNCHANGED <<inbox, now, used, quarantined>>

-----------------------------------------------------------------------------
RegistryNext ==
    \/ ClockTick \/ Announces \/ EspChanges \/ Contacts \/ TimesOut \/ AnswersNonsense
    \/ (\E c \in inbox : Apply(c))
    \/ HealthTick \/ (\E e \in BOOLEAN : SetDeviceEnabled(e))
    \/ CheckEdit \/ CreateEdit \/ FinishEdit

ApplyAnnouncement == \E c \in inbox : c.kind = "announcement" /\ Apply(c)
ApplyResult == \E c \in inbox : c.kind # "announcement" /\ Apply(c)

RegistrySafety == RegistryInit /\ [][RegistryNext]_registryVars

RegistrySpec ==
    /\ RegistrySafety
    /\ WF_registryVars(ClockTick)
    /\ WF_registryVars(Announces)
    /\ WF_registryVars(ApplyAnnouncement)
    /\ WF_registryVars(ApplyResult)

-----------------------------------------------------------------------------
RegistryTypeOK ==
    /\ row \in [known : BOOLEAN, enabled : BOOLEAN, status : Connection \cup {"unknown", "error"},
                seen : {Never} \cup 0 .. now, error : Errors, desired : Configurations,
                reported : Configurations]
    /\ \A c \in inbox : c.at \in 0 .. now
    /\ edit \in {"none", "checked", "sent"} /\ now \in 0 .. MaxTime

(* A device whose answer broke the protocol takes no more commands until   *)
(* the operator includes it, whatever it announces and whatever else is    *)
(* still on its way: as long as no edit writes its row.                    *)
QuarantineHoldsWithoutEdits == (quarantined /\ ~edited) => ~row.enabled

(* No device is given up: once it announces itself well again, a device    *)
(* that is stale, offline or unknown is online, unless someone excludes it *)
(* or it goes wrong again.                                                 *)
Silent == row.known /\ row.status \in {"stale", "offline", "unknown"}
BackOrExcused == row.status = "online" \/ ~row.enabled \/ ~esp.ok \/ ~esp.supported
SilentDeviceReturns == Silent ~> BackOrExcused
=============================================================================
