---------------------------- MODULE RecordsProofs ----------------------------
(***************************************************************************)
(* What holds of what the controller keeps on record (the row of a device, *)
(* an alert and its notifications, the two databases and their backups,    *)
(* the daily maintenance) for any number of calls, transitions, changes    *)
(* and failures, and for any length of the day and of the history.         *)
(***************************************************************************)
EXTENDS DeviceRegistry, AlertLifecycle, StorageRecovery, Maintenance, WellFoundedInduction, TLAPS

-----------------------------------------------------------------------------
(* Least and greatest numbers.                                             *)

Below == {p \in Nat \X Nat : p[1] < p[2]}

\* The order of the natural numbers is well-founded.
LEMMA BelowIsWellFounded == IsWellFoundedOn(Below, Nat)
<1>1. Below = OpToRel(<, Nat)
  BY DEF Below, OpToRel
<1>2. QED
  BY <1>1, NatLessThanWellFounded

\* A set of numbers that is not empty has a least one.
LEMMA LeastOf ==
  ASSUME NEW S \in SUBSET Nat, S # {}
  PROVE  \E i \in S : \A j \in S : i <= j
<1>1. PICK i \in S : \A j \in S : <<j, i>> \notin Below
  BY BelowIsWellFounded, WFMin
<1>2. ASSUME NEW x \in Nat, NEW y \in Nat, x < y PROVE <<x, y>> \in Below
  BY <1>2 DEF Below
<1>3. ASSUME NEW j \in S PROVE i <= j
  <2>1. i \in Nat /\ j \in Nat /\ ~(j < i)
    BY <1>1, <1>2
  <2>2. QED
    BY <2>1
<1>4. QED
  BY <1>3

\* One that is bounded has a greatest one, which is its Max.
LEMMA GreatestOf ==
  ASSUME NEW N \in Nat, NEW S \in SUBSET (0 .. N), S # {}
  PROVE  Max(S) \in S /\ \A j \in S : j <= Max(S)
<1> DEFINE T == {N - i : i \in S}
<1>0. \A i \in S : i \in Nat /\ i <= N /\ N - i \in Nat
  OBVIOUS
<1>1. T \in SUBSET Nat /\ T # {}
  <2>1. PICK k \in S : TRUE
    OBVIOUS
  <2>2. N - k \in T
    OBVIOUS
  <2>3. QED
    BY <1>0, <2>2
<1>2. PICK t \in T : \A u \in T : t <= u
  BY <1>1, LeastOf
<1>3. PICK i \in S : t = N - i
  BY <1>2
<1>4. ASSUME NEW j \in S PROVE i >= j
  <2>1. t <= N - j
    BY <1>2
  <2>2. i \in Nat /\ j \in Nat
    BY <1>0
  <2>3. QED
    BY <1>3, <2>1, <2>2
<1>5. Max(S) \in S /\ \A j \in S : Max(S) >= j
  BY <1>3, <1>4 DEF Max
<1>6. QED
  BY <1>5

-----------------------------------------------------------------------------
(* The registry.                                                           *)

Condition == Connection \cup {"unknown", "error"}
DeviceRows == [known : BOOLEAN, enabled : BOOLEAN, status : Condition, seen : {Never} \cup Nat,
               error : Errors, desired : Configurations, reported : Configurations]
Calls == [kind : {"announcement", "contact", "timeout", "fault"}, at : Nat, ok : BOOLEAN,
          supported : BOOLEAN, configuration : Configurations, trouble : BOOLEAN]
Esps == [ok : BOOLEAN, supported : BOOLEAN, configuration : Configurations, trouble : BOOLEAN]

\* RegistryTypeOK, with the times apart: none is later than now.
RegistryTyped ==
    /\ esp \in Esps
    /\ row \in DeviceRows /\ inbox \subseteq Calls
    /\ edit \in {"none", "checked", "sent"} /\ now \in 0 .. MaxTime
    /\ row.seen <= now /\ \A c \in inbox : c.at <= now
    /\ quarantined \in BOOLEAN /\ edited \in BOOLEAN

\* The row after an announcement is a row, seen no later than that.
LEMMA AnnouncedTyped ==
  ASSUME NEW r \in DeviceRows, NEW a \in Calls, NEW latest \in Nat, r.seen <= latest, a.at <= latest
  PROVE  AfterAnnouncement(r, a) \in DeviceRows /\ AfterAnnouncement(r, a).seen <= latest
<1>1. \A desired : AnnouncementError(a, desired) \in Errors
  BY DEF AnnouncementError, Errors
<1>2. \A error : StatusOf(a, error) \in Condition
  BY DEF StatusOf, Condition, Connection
<1>3. Registered(a) \in DeviceRows /\ Registered(a).seen <= latest
  BY <1>1, <1>2 DEF Registered, DeviceRows, Calls
<1>4. Reported(r, a) \in DeviceRows /\ Reported(r, a).seen <= latest
  <2> DEFINE held == ~r.enabled /\ r.error = "protocol_invalid_response"
             error == IF held THEN r.error ELSE AnnouncementError(a, r.desired)
  <2>1. error \in Errors /\ "error" \in Condition
    BY <1>1 DEF DeviceRows, Condition
  <2>2. (IF held THEN "error" ELSE StatusOf(a, error)) \in Condition
    BY <1>2, <2>1
  <2>3. (r.enabled \/ (~held /\ a.ok)) \in BOOLEAN
    OBVIOUS
  <2>4. a.at \in {Never} \cup Nat /\ a.configuration \in Configurations
    BY DEF Calls
  <2>5. /\ Reported(r, a) = [r EXCEPT !.enabled = r.enabled \/ (~held /\ a.ok),
                  !.status = IF held THEN "error" ELSE StatusOf(a, error),
                  !.error = error, !.reported = a.configuration, !.seen = a.at]
    BY DEF Reported
  <2> HIDE DEF held, error
  <2>6. QED
    BY <2>1, <2>2, <2>3, <2>4, <2>5 DEF DeviceRows
<1>5. QED
  BY <1>3, <1>4 DEF AfterAnnouncement

\* So is the row after a response.
LEMMA ContactedTyped ==
  ASSUME NEW r \in DeviceRows, NEW at \in Nat, NEW latest \in Nat, r.seen <= latest, at <= latest
  PROVE  AfterContact(r, at) \in DeviceRows /\ AfterContact(r, at).seen <= latest
<1>1. (IF r.status = "error" THEN "error" ELSE "online") \in Condition
  BY DEF Condition, Connection
<1>2. /\ [r EXCEPT !.status = IF @ = "error" THEN "error" ELSE "online", !.seen = at] \in DeviceRows
      /\ [r EXCEPT !.status = IF @ = "error" THEN "error" ELSE "online", !.seen = at].seen = at
  BY <1>1 DEF DeviceRows
<1>3. QED
  BY <1>2 DEF AfterContact

\* So are those after a timeout, a fault and a health tick, as before seen.
LEMMA MovedTyped ==
  ASSUME NEW r \in DeviceRows, NEW latest \in Nat, r.seen <= latest
  PROVE  /\ AfterTimeout(r) \in DeviceRows /\ AfterTimeout(r).seen <= latest
         /\ AfterFault(r) \in DeviceRows /\ AfterFault(r).seen <= latest
         /\ AfterHealthTick(r) \in DeviceRows /\ AfterHealthTick(r).seen <= latest
<1>1. ASSUME NEW s \in Condition
      PROVE  [r EXCEPT !.status = s] \in DeviceRows /\ [r EXCEPT !.status = s].seen <= latest
  BY DEF DeviceRows
<1>2. "offline" \in Condition /\ "stale" \in Condition /\ "error" \in Condition
  BY DEF Condition, Connection
<1>3. AfterFault(r) \in DeviceRows /\ AfterFault(r).seen <= latest
  BY <1>2 DEF AfterFault, DeviceRows, Errors
<1>4. QED
  BY <1>1, <1>2, <1>3 DEF AfterTimeout, AfterHealthTick

\* The initial states are typed.
LEMMA RegistryTypedInit == RegistryInit => RegistryTyped
<1> SUFFICES ASSUME RegistryInit PROVE RegistryTyped
  OBVIOUS
<1>1. NoRow \in DeviceRows /\ NoRow.seen = -1
  BY DEF NoRow, DeviceRows, Condition, Errors, Configurations, Never
<1>2. esp \in Esps
  <2>1. esp \in [ok : {TRUE}, supported : BOOLEAN, configuration : {1}, trouble : {FALSE}]
    BY DEF RegistryInit
  <2>2. 1 \in Configurations
    BY DEF Configurations
  <2>3. QED
    BY <2>1, <2>2 DEF Esps
<1>3. MaxTime \in Nat
  BY RegistryConstants
<1>4. now \in 0 .. MaxTime /\ row.seen <= now
  BY <1>1, <1>3 DEF RegistryInit
<1>5. QED
  BY <1>1, <1>2, <1>4 DEF RegistryInit, RegistryTyped

\* Every step keeps the types.
LEMMA RegistryTypedNext == RegistryTyped /\ [RegistryNext]_registryVars => RegistryTyped'
<1> SUFFICES ASSUME RegistryTyped, [RegistryNext]_registryVars PROVE RegistryTyped'
  OBVIOUS
<1>0. MaxTime \in Nat /\ now \in Nat /\ row \in DeviceRows /\ row.seen <= now
  BY RegistryConstants DEF RegistryTyped
<1>1. CASE ClockTick
  <2>1. now' \in 0 .. MaxTime /\ now' = now + 1
    BY <1>0, <1>1 DEF ClockTick
  <2>2. row.seen <= now' /\ \A c \in inbox : c.at <= now'
    BY <1>0, <2>1 DEF RegistryTyped, DeviceRows, Calls, Never
  <2>3. QED
    BY <1>1, <2>1, <2>2 DEF ClockTick, RegistryTyped
<1>2. CASE Announces
  <2>1. Announcement(esp, now) \in Calls /\ Announcement(esp, now).at <= now
    BY <1>0 DEF Announcement, Calls, Esps, RegistryTyped
  <2>2. QED
    BY <1>2, <2>1 DEF Announces, RegistryTyped
<1>3. CASE EspChanges
  BY <1>3 DEF EspChanges, Esps, RegistryTyped
<1>4. CASE Contacts \/ TimesOut \/ AnswersNonsense
  <2>1. \A kind \in {"contact", "timeout", "fault"} : Call(kind, now) \in Calls /\ Call(kind, now).at <= now
    BY <1>0 DEF Call, Calls, Configurations
  <2>2. QED
    BY <1>4, <2>1 DEF Contacts, TimesOut, AnswersNonsense, RegistryTyped
<1>5. ASSUME NEW c \in inbox, Apply(c) PROVE RegistryTyped'
  <2>1. c \in Calls /\ c.at \in Nat /\ c.at <= now
    BY DEF RegistryTyped, Calls
  <2>2. row' \in DeviceRows /\ row'.seen <= now
    <3>1. row' \in {AfterAnnouncement(row, c), AfterContact(row, c.at), AfterTimeout(row), AfterFault(row)}
      BY <1>5, <2>1 DEF Apply, Calls
    <3>2. QED
      BY <1>0, <2>1, <3>1, AnnouncedTyped, ContactedTyped, MovedTyped
  <2>3. quarantined' \in BOOLEAN /\ edited' \in BOOLEAN
    BY <1>5 DEF Apply, RegistryTyped
  <2>4. QED
    BY <1>5, <2>2, <2>3 DEF Apply, RegistryTyped
<1>6. CASE HealthTick
  BY <1>0, <1>6, MovedTyped DEF HealthTick, RegistryTyped
<1>7. ASSUME NEW e \in BOOLEAN, SetDeviceEnabled(e) PROVE RegistryTyped'
  <2>1. row' \in DeviceRows /\ row'.seen = row.seen
    BY <1>0, <1>7 DEF SetDeviceEnabled, DeviceRows, Condition, Errors
  <2>2. QED
    BY <1>7, <2>1 DEF SetDeviceEnabled, RegistryTyped
<1>8. CASE CheckEdit
  BY <1>8 DEF CheckEdit, RegistryTyped
<1>9. CASE CreateEdit
  <2>1. 3 - row.desired \in Configurations
    BY <1>0 DEF DeviceRows, Configurations
  <2>2. row' \in DeviceRows /\ row'.seen = row.seen
    BY <1>0, <1>9, <2>1 DEF CreateEdit, DeviceRows, Errors
  <2>3. QED
    BY <1>9, <2>2 DEF CreateEdit, RegistryTyped
<1>10. CASE FinishEdit
  <2>1. row' \in DeviceRows /\ row'.seen = row.seen
    BY <1>0, <1>10 DEF FinishEdit, DeviceRows, Errors
  <2>2. esp' \in Esps
    BY <1>0, <1>10 DEF FinishEdit, DeviceRows, Esps, RegistryTyped
  <2>3. QED
    BY <1>10, <2>1, <2>2 DEF FinishEdit, RegistryTyped
<1>11. CASE UNCHANGED registryVars
  BY <1>11 DEF registryVars, RegistryTyped
<1>12. QED
  BY <1>1, <1>2, <1>3, <1>4, <1>5, <1>6, <1>7, <1>8, <1>9, <1>10, <1>11 DEF RegistryNext

(* The row of a device and the calls on their way to it keep to their      *)
(* domains, and the row was never written by a call from the future.       *)
THEOREM RegistryTypes == RegistrySafety => []RegistryTypeOK
<1>1. RegistryTyped => RegistryTypeOK
  <2> SUFFICES ASSUME RegistryTyped PROVE RegistryTypeOK
    OBVIOUS
  <2>1. row.seen \in {Never} \cup 0 .. now /\ \A c \in inbox : c.at \in 0 .. now
    BY DEF RegistryTyped, DeviceRows, Calls
  <2>2. QED
    BY <2>1 DEF RegistryTyped, RegistryTypeOK, DeviceRows, Condition
<1>2. QED
  BY <1>1, RegistryTypedInit, RegistryTypedNext, PTL DEF RegistrySafety

-----------------------------------------------------------------------------
Held(r) == ~r.enabled /\ r.known /\ r.error = "protocol_invalid_response"

\* A quarantined device is known and excluded, and its row names the fault,
\* which is what an announcement looks at before it includes a device.
Quarantine ==
    /\ quarantined /\ ~edited => Held(row)
    /\ \A c \in inbox : c.kind # "announcement" => row.known

\* No call of the tail makes a device unknown or lifts its quarantine.
LEMMA RowsAfter ==
  ASSUME NEW r \in DeviceRows, NEW a, NEW at
  PROVE  /\ r.known => \A s \in {AfterAnnouncement(r, a), AfterContact(r, at), AfterTimeout(r),
                                 AfterFault(r), AfterHealthTick(r)} : s.known
         /\ Held(r) => \A s \in {AfterAnnouncement(r, a), AfterContact(r, at), AfterTimeout(r),
                                 AfterFault(r), AfterHealthTick(r)} : Held(s)
         /\ r.known => Held(AfterFault(r))
<1>1. /\ r.known => AfterAnnouncement(r, a).known
      /\ Held(r) => Held(AfterAnnouncement(r, a))
  BY DEF AfterAnnouncement, Reported, DeviceRows, Held
<1>2. /\ AfterContact(r, at).known = r.known /\ AfterContact(r, at).enabled = r.enabled
      /\ AfterContact(r, at).error = r.error
  BY DEF AfterContact, DeviceRows
<1>3. /\ AfterTimeout(r).known = r.known /\ AfterTimeout(r).enabled = r.enabled
      /\ AfterTimeout(r).error = r.error
  BY DEF AfterTimeout, DeviceRows
<1>4. /\ AfterHealthTick(r).known = r.known /\ AfterHealthTick(r).enabled = r.enabled
      /\ AfterHealthTick(r).error = r.error
  BY DEF AfterHealthTick, DeviceRows
<1>5. /\ AfterFault(r).known = r.known /\ AfterFault(r).enabled = FALSE
      /\ AfterFault(r).error = "protocol_invalid_response"
  BY DEF AfterFault, DeviceRows
<1>6. QED
  BY <1>1, <1>2, <1>3, <1>4, <1>5 DEF Held

\* Every step keeps a quarantined device as it is.
LEMMA QuarantineNext ==
  RegistryTyped /\ Quarantine /\ [RegistryNext]_registryVars => Quarantine'
<1> SUFFICES ASSUME RegistryTyped, Quarantine, [RegistryNext]_registryVars PROVE Quarantine'
  OBVIOUS
<1>0. row \in DeviceRows /\ inbox \subseteq Calls
  BY DEF RegistryTyped
<1>1. ASSUME NEW c \in inbox, Apply(c) PROVE Quarantine'
  <2>1. c.kind \in {"announcement", "contact", "timeout", "fault"} /\ inbox' \subseteq inbox
    BY <1>0, <1>1 DEF Apply, Calls
  <2>2. /\ c.kind = "fault" => row' = AfterFault(row)
        /\ row' \in {AfterAnnouncement(row, c), AfterContact(row, c.at), AfterTimeout(row), AfterFault(row)}
    BY <1>1, <2>1 DEF Apply
  <2>3. row.known => row'.known
    BY <1>0, <2>2, RowsAfter
  <2>4. \A k \in inbox' : k.kind # "announcement" => row'.known
    BY <2>1, <2>3 DEF Quarantine
  <2>5. CASE c.kind = "fault"
    <3>1. row.known
      BY <2>5 DEF Quarantine
    <3>2. Held(row')
      BY <1>0, <2>2, <2>5, <3>1, RowsAfter
    <3>3. QED
      BY <2>4, <3>2 DEF Quarantine, Held
  <2>6. CASE c.kind # "fault"
    <3>1. UNCHANGED <<quarantined, edited>>
      BY <1>1, <2>6 DEF Apply
    <3>2. Held(row) => Held(row')
      BY <1>0, <2>2, RowsAfter
    <3>3. QED
      BY <2>4, <3>1, <3>2 DEF Quarantine, Held
  <2>7. QED
    BY <2>5, <2>6
<1>2. CASE HealthTick
  <2>1. (row.known => row'.known) /\ (Held(row) => Held(row'))
    BY <1>0, <1>2, RowsAfter DEF HealthTick
  <2>2. QED
    BY <1>2, <2>1 DEF HealthTick, Quarantine, Held
<1>3. ASSUME NEW e \in BOOLEAN, SetDeviceEnabled(e) PROVE Quarantine'
  <2>1. row'.known = row.known
    BY <1>0, <1>3 DEF SetDeviceEnabled, DeviceRows
  <2>2. /\ (e = TRUE \/ e = FALSE) /\ row.enabled # e /\ quarantined' = (quarantined /\ ~e)
    BY <1>3 DEF SetDeviceEnabled
  <2>3. ~(quarantined' /\ ~edited')
    <3>1. edited' = edited /\ row.enabled \in BOOLEAN
      BY <1>0, <1>3 DEF SetDeviceEnabled, DeviceRows
    <3>2. CASE e = TRUE
      BY <2>2, <3>2
    <3>3. CASE e = FALSE
      BY <2>2, <3>1, <3>3 DEF Quarantine, Held
    <3>4. QED
      BY <2>2, <3>2, <3>3
  <2>4. QED
    BY <1>3, <2>1, <2>3 DEF SetDeviceEnabled, Quarantine
<1>4. CASE CreateEdit
  <2>1. row'.known = row.known
    BY <1>0, <1>4 DEF CreateEdit, DeviceRows
  <2>2. QED
    BY <1>4, <2>1 DEF CreateEdit, Quarantine
<1>5. CASE FinishEdit
  <2>1. PICK taken \in BOOLEAN, heard \in BOOLEAN :
            /\ row' = IF taken /\ heard
                      THEN [row EXCEPT !.reported = row.desired, !.error = "none"] ELSE row
            /\ edited' = (edited \/ (taken /\ heard))
    BY <1>5 DEF FinishEdit
  <2>2. /\ row'.known = row.known /\ (row' = row \/ (taken /\ heard))
        /\ UNCHANGED <<quarantined, inbox>>
    BY <1>0, <1>5, <2>1 DEF FinishEdit, DeviceRows
  <2>3. QED
    BY <2>1, <2>2 DEF Quarantine, Held
<1>6. CASE Announces
  <2>1. \A k \in inbox' : k \in inbox \/ k.kind = "announcement"
    BY <1>6 DEF Announces, Announcement
  <2>2. QED
    BY <1>6, <2>1 DEF Announces, Quarantine, Held
<1>7. CASE Contacts \/ TimesOut \/ AnswersNonsense
  BY <1>7 DEF Contacts, TimesOut, AnswersNonsense, Quarantine, Held
<1>8. CASE ClockTick \/ EspChanges \/ CheckEdit \/ UNCHANGED registryVars
  BY <1>8 DEF ClockTick, EspChanges, CheckEdit, registryVars, Quarantine, Held
<1>9. QED
  BY <1>1, <1>2, <1>3, <1>4, <1>5, <1>6, <1>7, <1>8 DEF RegistryNext

(* A device whose answer broke the protocol stays excluded until the       *)
(* operator includes it, whatever it announces and whatever crosses the    *)
(* fault on the tail, as long as no edit writes its row.                   *)
THEOREM QuarantineHolds == RegistrySafety => []QuarantineHoldsWithoutEdits
<1>1. RegistryInit => Quarantine
  BY DEF RegistryInit, Quarantine
<1>2. Quarantine => QuarantineHoldsWithoutEdits
  BY DEF Quarantine, QuarantineHoldsWithoutEdits, Held
<1>3. QED
  BY <1>1, <1>2, RegistryTypedInit, RegistryTypedNext, QuarantineNext, PTL DEF RegistrySafety
-----------------------------------------------------------------------------
(* Alerts and notifications.                                               *)

\* The first of a set of positions is one of them, and none is before it.
LEMMA FirstIsLeast ==
  ASSUME NEW S \in SUBSET Nat, S # {}
  PROVE  First(S) \in S /\ \A j \in S : First(S) <= j
  BY LeastOf DEF First

Attempts == Terminal \cup {"pending", "attempting"}
DeliveryRows == [transition : Transitions, at : 0 .. MaxClock, began : 0 .. MaxClock, status : Attempts,
                 recorded : BOOLEAN]
Evaluations == [online : BOOLEAN, loaded : BOOLEAN, edits : 0 .. MaxEdits]
Hands == [phase : {"down", "recovering", "running", "failed"},
          step : {"idle", "send", "delivered", "failed", "settled"}, hand : 0 .. MaxTransitions,
          batch : SUBSET (1 .. MaxTransitions)]

\* AlertTypeOK, and what the runtime has in hand is there.
AlertTyped ==
    /\ clock \in 0 .. MaxClock
    /\ device \in [online : BOOLEAN, enabled : BOOLEAN]
    /\ rule \in [status : Statuses, edits : 0 .. MaxEdits]
    /\ alert \in {"none", "open", "acknowledged", "recovered"} /\ pending \in Int /\ pending <= None
    /\ passes \in Seq(Evaluations) /\ Len(passes) <= MaxPasses
    /\ deliveries \in Seq(DeliveryRows) /\ Len(deliveries) <= MaxTransitions
    /\ runtime \in Hands
    /\ runtime.step # "idle" => runtime.hand \in DOMAIN deliveries
    /\ runtime.batch \subseteq DOMAIN deliveries
    /\ audited \subseteq 1 .. MaxTransitions /\ faults \in 0 .. MaxFaults
    /\ received \in Seq(Nat)

\* The constants as the steps below need them.
LEMMA AlertNumbers ==
  /\ Delay \in Nat /\ MaxEdits \in Nat /\ MaxFaults \in Nat /\ MaxClock \in Nat
  /\ MaxPasses \in Nat \ {0} /\ MaxTransitions \in Nat \ {0} /\ None \in Nat /\ None = Delay + 1
  BY AlertConstants DEF None

\* The rows there are keep what they tell, and when it was.
DatesKept ==
    \A i \in DOMAIN deliveries :
        /\ deliveries'[i].transition = deliveries[i].transition
        /\ deliveries'[i].at = deliveries[i].at

\* One delivery goes on, and the others stay.
LEMMA WithTyped ==
  ASSUME AlertTyped, NEW i \in DOMAIN deliveries, NEW status \in Attempts, deliveries' = With(i, status)
  PROVE  /\ deliveries' \in Seq(DeliveryRows) /\ Len(deliveries') = Len(deliveries)
         /\ \A j \in DOMAIN deliveries :
                deliveries'[j].status = IF j = i THEN status ELSE deliveries[j].status
         /\ DatesKept
<1> DEFINE b == IF status = "attempting" THEN clock ELSE 0
           changed == [deliveries[i] EXCEPT !.status = status, !.began = b]
<1>1. deliveries \in Seq(DeliveryRows) /\ deliveries[i] \in DeliveryRows
  BY DEF AlertTyped
<1>2. b \in 0 .. MaxClock
  BY AlertNumbers DEF AlertTyped
<1>3. deliveries' = [deliveries EXCEPT ![i] = changed]
  BY <1>1 DEF With
<1> HIDE DEF b
<1>4. /\ changed \in DeliveryRows /\ changed.status = status
      /\ changed.transition = deliveries[i].transition /\ changed.at = deliveries[i].at
  BY <1>1, <1>2 DEF DeliveryRows
<1> HIDE DEF changed
<1>5. deliveries' \in Seq(DeliveryRows) /\ Len(deliveries') = Len(deliveries)
  BY <1>1, <1>3, <1>4
<1>6. \A j \in DOMAIN deliveries : deliveries'[j] = IF j = i THEN changed ELSE deliveries[j]
  BY <1>1, <1>3
<1>7. QED
  BY <1>4, <1>5, <1>6 DEF DatesKept

\* A transition adds a pending delivery behind the others.
LEMMA CommitTyped ==
  ASSUME AlertTyped, NEW transition \in Transitions, NEW next, Commit(transition, next)
  PROVE  /\ deliveries' \in Seq(DeliveryRows) /\ Len(deliveries') <= MaxTransitions
         /\ Len(deliveries') = Len(deliveries) + 1
         /\ \A i \in DOMAIN deliveries : deliveries'[i] = deliveries[i]
         /\ deliveries'[Len(deliveries) + 1].status = "pending"
         /\ deliveries'[Len(deliveries) + 1].transition = transition
         /\ deliveries'[Len(deliveries) + 1].at = clock
<1> DEFINE new == [transition |-> transition, at |-> clock, status |-> "pending", began |-> 0,
                   recorded |-> FALSE]
<1>1. /\ new \in DeliveryRows /\ new.status = "pending"
      /\ new.transition = transition /\ new.at = clock
  <2>1. clock \in 0 .. MaxClock /\ 0 \in 0 .. MaxClock
    BY AlertNumbers DEF AlertTyped
  <2>2. QED
    BY <2>1 DEF DeliveryRows, Attempts
<1>2. /\ deliveries \in Seq(DeliveryRows) /\ Len(deliveries) < MaxTransitions
      /\ deliveries' = Append(deliveries, new)
  BY DEF Commit, AlertTyped
<1> HIDE DEF new
<1>3. QED
  BY <1>1, <1>2, AlertNumbers

\* The delivery at hand is one of those that it is picked from.
LEMMA PickedTyped ==
  ASSUME AlertTyped
  PROVE  /\ Interrupted # {} => First(Interrupted) \in Interrupted
         /\ Unrecorded # {} => First(Unrecorded) \in Unrecorded
         /\ \A S \in {Waiting, Interrupted, Unrecorded} : S \subseteq DOMAIN deliveries
<1>1. \A S \in {Waiting, Interrupted, Unrecorded} : S \subseteq DOMAIN deliveries
  BY DEF Waiting, Interrupted, Unrecorded
<1>2. DOMAIN deliveries \subseteq Nat
  BY DEF AlertTyped
<1>3. QED
  BY <1>1, <1>2, FirstIsLeast

\* The next of the batch has the earliest date, and the first id of that date.
LEMMA FollowingIsFirst ==
  ASSUME AlertTyped, runtime.batch # {}
  PROVE  /\ Following \in runtime.batch
         /\ \A j \in runtime.batch :
                \/ deliveries[Following].at < deliveries[j].at
                \/ deliveries[Following].at = deliveries[j].at /\ Following <= j
<1> DEFINE S == runtime.batch
           dates == {deliveries[i].at : i \in S}
           earliest == {i \in S : \A j \in S : deliveries[i].at <= deliveries[j].at}
<1>1. S \subseteq DOMAIN deliveries /\ DOMAIN deliveries \subseteq Nat
  BY DEF AlertTyped
<1>2. \A i \in S : deliveries[i].at \in Nat
  <2>1. \A i \in DOMAIN deliveries : deliveries[i] \in DeliveryRows
    BY DEF AlertTyped
  <2>2. QED
    BY <1>1, <2>1, AlertNumbers DEF DeliveryRows
<1>3. dates \in SUBSET Nat /\ dates # {}
  BY <1>2
<1>4. PICK d \in dates : \A e \in dates : d <= e
  BY <1>3, LeastOf
<1>5. PICK i \in S : d = deliveries[i].at
  BY <1>4
<1>6. i \in earliest /\ earliest \in SUBSET Nat
  <2>1. \A j \in S : deliveries[i].at <= deliveries[j].at
    BY <1>4, <1>5
  <2>2. QED
    BY <1>1, <2>1
<1>7. First(earliest) \in earliest /\ \A j \in earliest : First(earliest) <= j
  <2> HIDE DEF earliest
  <2>1. QED
    BY <1>6, FirstIsLeast
<1>8. Following = First(earliest)
  BY DEF Following, FirstDated
<1>9. ASSUME NEW j \in S
      PROVE  \/ deliveries[Following].at < deliveries[j].at
             \/ deliveries[Following].at = deliveries[j].at /\ Following <= j
  <2>1. deliveries[Following].at <= deliveries[j].at /\ Following \in S
    BY <1>7, <1>8
  <2>2. CASE deliveries[Following].at = deliveries[j].at
    <3>1. \A k \in S : deliveries[j].at <= deliveries[k].at
      BY <1>7, <1>8, <2>2
    <3>2. j \in earliest
      BY <3>1
    <3>3. QED
      BY <1>7, <1>8, <2>2, <3>2
  <2>3. CASE deliveries[Following].at # deliveries[j].at
    BY <1>2, <2>1, <2>3
  <2>4. QED
    BY <2>2, <2>3
<1>10. QED
  BY <1>7, <1>8, <1>9

\* The initial states are typed.
LEMMA AlertTypedInit == AlertInit => AlertTyped
<1> SUFFICES ASSUME AlertInit PROVE AlertTyped
  OBVIOUS
<1>1. /\ rule \in [status : Statuses, edits : 0 .. MaxEdits] /\ pending \in Int /\ pending <= None
      /\ faults \in 0 .. MaxFaults /\ clock \in 0 .. MaxClock
  BY AlertNumbers DEF AlertInit, Statuses
<1>2. passes \in Seq(Evaluations) /\ Len(passes) <= MaxPasses
  BY AlertNumbers DEF AlertInit
<1>3. deliveries \in Seq(DeliveryRows) /\ Len(deliveries) <= MaxTransitions /\ received \in Seq(Nat)
  BY AlertNumbers DEF AlertInit
<1>4. runtime \in Hands /\ runtime.step = "idle" /\ runtime.batch = {}
  BY AlertNumbers DEF AlertInit, Hands, NoHand, EmptyHanded
<1>5. QED
  BY <1>1, <1>2, <1>3, <1>4 DEF AlertInit, AlertTyped

\* What moves the runtime, its deliveries and the webhook, and nothing else.
LEMMA NotifiedTyped ==
  ASSUME AlertTyped, UNCHANGED <<clock, device, rule, alert, pending, passes>>,
         runtime' \in Hands, deliveries' \in Seq(DeliveryRows), Len(deliveries') = Len(deliveries),
         runtime'.step # "idle" => runtime'.hand \in DOMAIN deliveries,
         runtime'.batch \subseteq DOMAIN deliveries,
         audited' \subseteq 1 .. MaxTransitions, faults' \in 0 .. MaxFaults, received' \in Seq(Nat)
  PROVE  AlertTyped'
<1>1. DOMAIN deliveries' = DOMAIN deliveries
  BY DEF AlertTyped
<1>2. QED
  BY <1>1 DEF AlertTyped

\* Every step keeps the types.
LEMMA AlertTypedNext == AlertTyped /\ [AlertNext]_alertVars => AlertTyped'
<1> SUFFICES ASSUME AlertTyped, [AlertNext]_alertVars PROVE AlertTyped'
  OBVIOUS
<1>0. /\ Delay \in Nat /\ MaxEdits \in Nat /\ MaxFaults \in Nat /\ None = Delay + 1
      /\ MaxPasses \in Nat \ {0} /\ MaxTransitions \in Nat \ {0} /\ None \in Nat
      /\ faults \in 0 .. MaxFaults /\ pending \in Int /\ pending <= None
      /\ clock \in 0 .. MaxClock /\ MaxClock \in Nat
      /\ Len(deliveries) \in Nat /\ Len(deliveries) <= MaxTransitions
      /\ DOMAIN deliveries = 1 .. Len(deliveries)
  BY AlertNumbers DEF AlertTyped
<1>1. CASE DeviceChanges
  BY <1>1 DEF DeviceChanges, AlertTyped
<1>2. CASE BeginPass
  <2>1. [online |-> device.online, loaded |-> FALSE, edits |-> 0] \in Evaluations
    BY <1>0 DEF Evaluations, AlertTyped
  <2>2. passes' \in Seq(Evaluations) /\ Len(passes') <= MaxPasses
    <3>1. /\ passes' = Append(passes, [online |-> device.online, loaded |-> FALSE, edits |-> 0])
          /\ Len(passes) < MaxPasses
      BY <1>2 DEF BeginPass
    <3>2. QED
      BY <1>0, <2>1, <3>1 DEF AlertTyped
  <2>3. rule' \in [status : Statuses, edits : 0 .. MaxEdits]
    BY <1>2 DEF BeginPass, AlertTyped, Statuses
  <2>4. QED
    BY <1>2, <2>2, <2>3 DEF BeginPass, AlertTyped
<1>3. ASSUME passes # << >>
      PROVE  Tail(passes) \in Seq(Evaluations) /\ Len(Tail(passes)) <= MaxPasses
  BY <1>0, <1>3 DEF AlertTyped
<1>4. CASE LoadRules
  <2>1. passes' \in Seq(Evaluations) /\ Len(passes') <= MaxPasses
    <3>1. passes # << >> /\ passes[1] \in Evaluations /\ rule.edits \in 0 .. MaxEdits
      BY <1>4 DEF LoadRules, AlertTyped
    <3> DEFINE loaded == [passes[1] EXCEPT !.loaded = TRUE, !.edits = rule.edits]
    <3>2. loaded \in Evaluations
      BY <3>1 DEF Evaluations
    <3>3. CASE rule.status = "enabled"
      <4>1. passes' = [passes EXCEPT ![1] = loaded]
        BY <1>4, <3>1, <3>3 DEF LoadRules
      <4> HIDE DEF loaded
      <4>2. QED
        BY <3>1, <3>2, <4>1 DEF AlertTyped
    <3>4. CASE rule.status # "enabled"
      BY <1>3, <1>4, <3>1, <3>4 DEF LoadRules
    <3>5. QED
      BY <3>3, <3>4
  <2>2. pending' \in Int /\ pending' <= None
    BY <1>0, <1>4 DEF LoadRules
  <2>3. QED
    BY <1>4, <2>1, <2>2 DEF LoadRules, AlertTyped
<1>5. ASSUME NEW transition \in Transitions, NEW next \in {"open", "acknowledged", "recovered"},
             Commit(transition, next), UNCHANGED <<clock, device, rule, runtime, received, audited, faults>>,
             passes' \in Seq(Evaluations), Len(passes') <= MaxPasses, pending' \in Int /\ pending' <= None
      PROVE  AlertTyped'
  <2>1. deliveries' \in Seq(DeliveryRows) /\ Len(deliveries') <= MaxTransitions
        /\ Len(deliveries') = Len(deliveries) + 1
    BY <1>5, CommitTyped
  <2>2. DOMAIN deliveries \subseteq DOMAIN deliveries'
    BY <1>0, <2>1
  <2>3. alert' \in {"none", "open", "acknowledged", "recovered"}
    BY <1>5 DEF Commit
  <2>4. QED
    BY <1>5, <2>1, <2>2, <2>3 DEF AlertTyped
<1>6. CASE EvaluateRule
  <2>1. passes' \in Seq(Evaluations) /\ Len(passes') <= MaxPasses
        /\ UNCHANGED <<clock, device, rule, runtime, received, audited, faults>>
    BY <1>3, <1>6 DEF EvaluateRule
  <2>2. PersistPending \/ DeletePending \/ UNCHANGED pending => (pending' \in Int /\ pending' <= None)
    BY <1>0 DEF PersistPending, DeletePending
  <2>3. CASE OpenAlert
    <3>1. (IF alert = "none" THEN "opened" ELSE "reopened") \in Transitions
      BY DEF Transitions
    <3>2. QED
      BY <1>5, <2>1, <2>2, <2>3, <3>1 DEF OpenAlert
  <2>4. CASE RecoverAlert
    <3>1. "recovered" \in Transitions
      BY DEF Transitions
    <3>2. QED
      BY <1>5, <2>1, <2>2, <2>4, <3>1 DEF RecoverAlert
  <2>5. CASE (PersistPending \/ DeletePending \/ UNCHANGED pending) /\ UNCHANGED <<alert, deliveries>>
    BY <2>1, <2>2, <2>5 DEF AlertTyped
  <2>6. QED
    BY <1>6, <2>3, <2>4, <2>5 DEF EvaluateRule
<1>7. CASE Acknowledge
  <2>1. "acknowledged" \in Transitions
    BY DEF Transitions
  <2>2. QED
    BY <1>5, <1>7, <2>1 DEF Acknowledge, AlertTyped
<1>8. ASSUME NEW status \in Statuses, EditTo(status) PROVE AlertTyped'
  <2>1. rule' \in [status : Statuses, edits : 0 .. MaxEdits]
    <3>1. rule.edits \in 0 .. MaxEdits /\ rule.edits < MaxEdits
      BY <1>8 DEF EditTo, AlertTyped
    <3>2. rule.edits + 1 \in 0 .. MaxEdits
      BY <1>0, <3>1
    <3>3. QED
      BY <1>8, <3>2 DEF EditTo
  <2>2. pending' \in Int /\ pending' <= None
    BY <1>0, <1>8 DEF EditTo
  <2>3. QED
    BY <1>8, <2>1, <2>2 DEF EditTo, AlertTyped
<1>9. CASE EditRule
  <2>1. PICK status \in Statuses : EditTo(status)
    BY <1>9 DEF EditRule, CreateRule, PatchRule, DeleteRule, Statuses
  <2>2. QED
    BY <1>8, <2>1
<1>10. CASE Tick
  <2>1. pending' \in Int /\ pending' <= None
    BY <1>0, <1>10 DEF Tick
  <2>2. clock' \in 0 .. MaxClock
    BY <1>0, <1>10 DEF Tick
  <2>3. QED
    BY <1>10, <2>1, <2>2 DEF Tick, AlertTyped
<1>22. CASE SetClockBack
  <2>1. PICK earlier \in 0 .. clock - 1 :
            /\ clock' = earlier
            /\ pending' = IF pending = None THEN None ELSE pending - (clock - earlier)
    BY <1>22 DEF SetClockBack
  <2>2. clock' \in 0 .. MaxClock /\ pending' \in Int /\ pending' <= None
    BY <1>0, <2>1
  <2>3. faults' \in 0 .. MaxFaults
    BY <1>0, <1>22 DEF SetClockBack
  <2>4. QED
    BY <1>22, <2>2, <2>3 DEF SetClockBack, AlertTyped
<1>11. ASSUME NEW phase \in {"down", "recovering", "running", "failed"}
       PROVE  /\ EmptyHanded(phase) \in Hands /\ EmptyHanded(phase).step = "idle"
              /\ EmptyHanded(phase).batch \subseteq DOMAIN deliveries
  <2>1. NoHand \in 0 .. MaxTransitions
    BY <1>0 DEF NoHand
  <2>2. QED
    BY <2>1 DEF EmptyHanded, Hands
<1>12. CASE StartRuntime
  BY <1>11, <1>12, NotifiedTyped DEF StartRuntime, stateRows, AlertTyped
<1>13. CASE RecoverInterrupted
  <2>1. CASE runtime' \in {EmptyHanded("failed"), EmptyHanded("running")} /\ UNCHANGED deliveries
    BY <1>11, <1>13, <2>1, NotifiedTyped DEF RecoverInterrupted, AlertTyped
  <2>2. CASE /\ Interrupted # {}
             /\ deliveries' = With(First(Interrupted), Recovered) /\ UNCHANGED runtime
    <3>1. First(Interrupted) \in DOMAIN deliveries /\ Recovered \in Attempts
      BY <2>2, PickedTyped DEF Recovered, Attempts, Terminal
    <3>2. deliveries' \in Seq(DeliveryRows) /\ Len(deliveries') = Len(deliveries)
      BY <2>2, <3>1, WithTyped
    <3>3. QED
      BY <1>13, <2>2, <3>2, NotifiedTyped DEF RecoverInterrupted, AlertTyped
  <2>3. QED
    BY <1>13, <2>1, <2>2 DEF RecoverInterrupted
<1>14. CASE RecordOutcome
  <2> DEFINE i == First(Unrecorded)
  <2>1. i \in DOMAIN deliveries
    BY <1>14, PickedTyped DEF RecordOutcome
  <2>2. CASE i \notin audited
    <3>1. audited' = audited \cup {i} /\ UNCHANGED <<deliveries, runtime>>
      BY <1>14, <2>2 DEF RecordOutcome
    <3>2. audited' \subseteq 1 .. MaxTransitions
      <4>1. i \in 1 .. MaxTransitions
        BY <1>0, <2>1
      <4> HIDE DEF i
      <4>2. QED
        BY <3>1, <4>1 DEF AlertTyped
    <3>3. QED
      BY <1>14, <3>1, <3>2, NotifiedTyped DEF RecordOutcome, AlertTyped
  <2>3. CASE i \in audited
    <3>1. deliveries[i] \in DeliveryRows /\ deliveries \in Seq(DeliveryRows)
      BY <2>1 DEF AlertTyped
    <3>2. [deliveries[i] EXCEPT !.recorded = TRUE] \in DeliveryRows
      BY <3>1 DEF DeliveryRows
    <3>3. /\ deliveries' = [deliveries EXCEPT ![i] = [deliveries[i] EXCEPT !.recorded = TRUE]]
          /\ runtime' = [runtime EXCEPT !.step = "idle", !.hand = NoHand]
          /\ UNCHANGED audited
      BY <1>14, <2>3, <3>1 DEF RecordOutcome
    <3>4. deliveries' \in Seq(DeliveryRows) /\ Len(deliveries') = Len(deliveries)
      BY <2>1, <3>1, <3>2, <3>3
    <3>5. runtime' \in Hands /\ runtime'.step = "idle" /\ runtime'.batch = runtime.batch
      <4>1. NoHand \in 0 .. MaxTransitions
        BY <1>0 DEF NoHand
      <4>2. QED
        BY <3>3, <4>1 DEF AlertTyped, Hands
    <3>6. QED
      BY <1>14, <3>3, <3>4, <3>5, NotifiedTyped DEF RecordOutcome, AlertTyped
  <2>4. QED
    BY <2>2, <2>3
<1>15. CASE Claim
  <2>1. Following \in runtime.batch /\ Following \in DOMAIN deliveries /\ "attempting" \in Attempts
    BY <1>15, FollowingIsFirst DEF Claim, Attempts, AlertTyped
  <2>2. CASE Ahead(Following)
    BY <1>11, <1>15, <2>2, NotifiedTyped DEF Claim, AlertTyped
  <2>3. CASE ~Ahead(Following)
    <3>1. /\ deliveries' = With(Following, "attempting")
          /\ runtime' = [runtime EXCEPT !.step = "send", !.hand = Following,
                                         !.batch = runtime.batch \ {Following}]
      BY <1>15, <2>3 DEF Claim, AlertTyped, Hands
    <3>2. deliveries' \in Seq(DeliveryRows) /\ Len(deliveries') = Len(deliveries)
      BY <2>1, <3>1, WithTyped
    <3>3. Following \in 0 .. MaxTransitions
      BY <1>0, <2>1
    <3>4. /\ runtime' \in Hands /\ runtime'.hand = Following
          /\ runtime'.batch \subseteq DOMAIN deliveries
      BY <3>1, <3>3 DEF AlertTyped, Hands
    <3>5. QED
      BY <1>15, <2>1, <3>2, <3>4, NotifiedTyped DEF Claim, AlertTyped
  <2>4. QED
    BY <2>2, <2>3
<1>23. CASE ListPending
  <2>1. Waiting \subseteq DOMAIN deliveries /\ Waiting \subseteq 1 .. MaxTransitions
    BY <1>0, PickedTyped
  <2>2. runtime' = [runtime EXCEPT !.batch = Waiting] /\ runtime.step = "idle"
    BY <1>23 DEF ListPending
  <2>3. runtime' \in Hands /\ runtime'.step = "idle" /\ runtime'.batch \subseteq DOMAIN deliveries
    BY <2>1, <2>2 DEF AlertTyped, Hands
  <2>4. QED
    BY <1>23, <2>3, NotifiedTyped DEF ListPending, stateRows, AlertTyped
<1>16. ASSUME NEW ok \in BOOLEAN, Send(ok) PROVE AlertTyped'
  <2>1. /\ runtime' \in Hands /\ runtime'.hand = runtime.hand /\ runtime.step # "idle"
        /\ runtime'.batch = runtime.batch
    <3>1. (IF ok THEN "delivered" ELSE "failed") \in {"idle", "send", "delivered", "failed", "settled"}
      OBVIOUS
    <3>2. QED
      BY <1>16, <3>1 DEF Send, AlertTyped, Hands
  <2>2. faults' \in 0 .. MaxFaults
    BY <1>0, <1>16 DEF Send
  <2>3. received' = received \/ received' = Append(received, runtime.hand)
    BY <1>16 DEF Send
  <2>4. received' \in Seq(Nat)
    <3>1. runtime.hand \in Nat /\ received \in Seq(Nat)
      BY <1>0 DEF AlertTyped, Hands
    <3>2. Append(received, runtime.hand) \in Seq(Nat)
      BY <3>1
    <3>3. QED
      BY <2>3, <3>1, <3>2
  <2>5. QED
    BY <1>16, <2>1, <2>2, <2>4, NotifiedTyped DEF Send, stateRows, AlertTyped
<1>17. CASE Mark
  <2>1. runtime.hand \in DOMAIN deliveries /\ runtime.step \in Attempts
    BY <1>17 DEF Mark, AlertTyped, Attempts, Terminal
  <2>2. CASE runtime' = EmptyHanded("failed") /\ UNCHANGED deliveries
    BY <1>11, <1>17, <2>2, NotifiedTyped DEF Mark, AlertTyped
  <2>3. CASE /\ deliveries' = With(runtime.hand, runtime.step)
             /\ runtime' = [runtime EXCEPT !.step = "settled"]
    <3>1. deliveries' \in Seq(DeliveryRows) /\ Len(deliveries') = Len(deliveries)
      BY <2>1, <2>3, WithTyped
    <3>2. runtime' \in Hands /\ runtime'.hand = runtime.hand /\ runtime'.batch = runtime.batch
      BY <2>3 DEF AlertTyped, Hands
    <3>3. QED
      BY <1>17, <2>1, <3>1, <3>2, NotifiedTyped DEF Mark, AlertTyped
  <2>4. QED
    BY <1>17, <2>2, <2>3 DEF Mark
<1>18. CASE Fail
  <2>1. faults' \in 0 .. MaxFaults
    BY <1>0, <1>18 DEF Fail
  <2>2. QED
    BY <1>11, <1>18, <2>1, NotifiedTyped DEF Fail, stateRows, AlertTyped
<1>19. CASE Crash
  <2>1. /\ runtime' \in Hands /\ runtime'.step = "idle"
        /\ runtime'.batch \subseteq DOMAIN deliveries
    BY <1>11, <1>19 DEF Crash
  <2>2. faults' \in 0 .. MaxFaults
    BY <1>0, <1>19 DEF Crash
  <2>3. passes' \in Seq(Evaluations) /\ Len(passes') <= MaxPasses
    BY <1>0, <1>19 DEF Crash
  <2>4. QED
    BY <1>19, <2>1, <2>2, <2>3 DEF Crash, stateRows, AlertTyped
<1>20. CASE UNCHANGED alertVars
  BY <1>20 DEF alertVars, stateRows, AlertTyped
<1>21. QED
  BY <1>1, <1>2, <1>4, <1>6, <1>7, <1>9, <1>10, <1>12, <1>13, <1>14, <1>15, <1>16, <1>17, <1>18,
     <1>19, <1>20, <1>22, <1>23 DEF AlertNext, Evaluation, Notification

(* The alert, its rule, its evaluations and its notifications keep to      *)
(* their domains, for any number of each.                                  *)
THEOREM AlertTypes == AlertSafety => []AlertTypeOK
<1>1. AlertTyped => AlertTypeOK
  BY DEF AlertTyped, AlertTypeOK, Evaluations, DeliveryRows, Attempts, Hands
<1>2. QED
  BY <1>1, AlertTypedInit, AlertTypedNext, PTL DEF AlertSafety
-----------------------------------------------------------------------------
\* ReopenedBefore, of the rows of any state, the order in which two of them may
\* be sent, and whether one still waits.
Overtaken(rows, i, j) ==
    \E k \in i + 1 .. j : rows[k].transition = "reopened" /\ rows[k].at < rows[i].at
InOrder(rows, a, b) == a < b \/ (a > b /\ Overtaken(rows, b, a))
Waits(rows, i) == rows[i].status = "pending"

\* A row before another is in order with it.
LEMMA EarlierFirst ==
    ASSUME NEW rows, NEW a, NEW b, a < b
    PROVE  InOrder(rows, a, b)
BY Zenon DEF InOrder

\* Only a reopening is dated before what came before it.
Dated ==
    \A i, j \in DOMAIN deliveries :
        i < j => deliveries[i].at <= deliveries[j].at \/ Overtaken(deliveries, i, j)

\* What waits may be sent after all that does not, and the batch before what
\* has come since; what the webhook got is touched, and in order with the one
\* that is about to be sent.
Notified ==
    /\ Dated
    /\ alert = "none" => deliveries = << >>
    /\ \A i \in runtime.batch : Waits(deliveries, i)
    /\ \A i \in runtime.batch, j \in DOMAIN deliveries \ runtime.batch : Waits(deliveries, j) => i < j
    /\ \A i, j \in DOMAIN deliveries :
           ~Waits(deliveries, i) /\ Waits(deliveries, j) => InOrder(deliveries, i, j)
    /\ \A k \in DOMAIN received :
           received[k] \in DOMAIN deliveries /\ ~Waits(deliveries, received[k])
    /\ runtime.step # "idle" => ~Waits(deliveries, runtime.hand)
    /\ runtime.step = "send" =>
           \A k \in DOMAIN received : InOrder(deliveries, received[k], runtime.hand)
    /\ \A a, b \in DOMAIN received : a < b => InOrder(deliveries, received[a], received[b])

\* The order of two deliveries depends on what does not change.
LEMMA OrderKept ==
  ASSUME AlertTyped, DatesKept, NEW i \in DOMAIN deliveries, NEW j \in DOMAIN deliveries
  PROVE  /\ Overtaken(deliveries', i, j) <=> Overtaken(deliveries, i, j)
         /\ InOrder(deliveries', i, j) <=> InOrder(deliveries, i, j)
<1>1. ASSUME NEW a \in DOMAIN deliveries, NEW b \in DOMAIN deliveries
      PROVE  Overtaken(deliveries', a, b) <=> Overtaken(deliveries, a, b)
  <2>1. a + 1 .. b \subseteq DOMAIN deliveries
    BY DEF AlertTyped
  <2>2. QED
    BY <2>1 DEF Overtaken, DatesKept
<1>2. QED
  BY <1>1 DEF InOrder

\* A step that makes no delivery wait or go on says nothing of the webhook.
LEMMA NotifiedKept ==
  ASSUME AlertTyped, Notified, received' = received, alert' = alert,
         DOMAIN deliveries' = DOMAIN deliveries, DatesKept,
         deliveries = << >> => deliveries' = << >>,
         \A i \in DOMAIN deliveries : Waits(deliveries', i) <=> Waits(deliveries, i),
         runtime'.batch \in {{}, runtime.batch},
         \/ runtime'.step = "idle"
         \/ /\ runtime.step # "idle" /\ runtime'.hand = runtime.hand
            /\ runtime'.step = "send" => runtime.step = "send"
  PROVE  Notified'
<1>1. runtime'.step # "idle" => runtime'.hand = runtime.hand /\ runtime.hand \in DOMAIN deliveries
  BY DEF AlertTyped
<1>2. runtime.batch \subseteq DOMAIN deliveries
  BY DEF AlertTyped
<1>3. \A i, j \in DOMAIN deliveries : /\ Overtaken(deliveries', i, j) <=> Overtaken(deliveries, i, j)
                                      /\ InOrder(deliveries', i, j) <=> InOrder(deliveries, i, j)
  BY OrderKept
<1>4. Dated'
  BY <1>3 DEF Notified, Dated, DatesKept
<1>5. alert' = "none" => deliveries' = << >>
  BY DEF Notified
<1>6. /\ \A i \in runtime'.batch : Waits(deliveries', i)
      /\ \A i \in runtime'.batch, j \in DOMAIN deliveries' \ runtime'.batch : Waits(deliveries', j) => i < j
  BY <1>2 DEF Notified
<1>7. \A i, j \in DOMAIN deliveries' :
          ~Waits(deliveries', i) /\ Waits(deliveries', j) => InOrder(deliveries', i, j)
  BY <1>3 DEF Notified
<1>8. \A k \in DOMAIN received' : received'[k] \in DOMAIN deliveries' /\ ~Waits(deliveries', received'[k])
  BY DEF Notified
<1>9. runtime'.step # "idle" => ~Waits(deliveries', runtime'.hand)
  BY <1>1 DEF Notified
<1>10. runtime'.step = "send" =>
           \A k \in DOMAIN received' : InOrder(deliveries', received'[k], runtime'.hand)
  BY <1>1, <1>3 DEF Notified
<1>11. \A a, b \in DOMAIN received' : a < b => InOrder(deliveries', received'[a], received'[b])
  BY <1>3 DEF Notified
<1>12. QED
  BY <1>4, <1>5, <1>6, <1>7, <1>8, <1>9, <1>10, <1>11 DEF Notified

\* A new delivery waits, after all the others.
LEMMA NotifiedCommitted ==
  ASSUME AlertTyped, Notified, NEW transition \in Transitions, NEW next, Commit(transition, next),
         next # "none", UNCHANGED <<received, runtime>>,
         \/ transition = "opened" /\ alert = "none"
         \/ transition = "reopened"
         \/ transition \in {"acknowledged", "recovered"} /\ Active /\ ~Regressed
  PROVE  Notified'
<1> DEFINE n == Len(deliveries) + 1
<1>1. /\ Len(deliveries') = n /\ deliveries' \in Seq(DeliveryRows)
      /\ \A i \in DOMAIN deliveries : deliveries'[i] = deliveries[i]
      /\ deliveries'[n].status = "pending" /\ deliveries'[n].transition = transition
      /\ deliveries'[n].at = clock
  BY CommitTyped
<1>2. /\ DOMAIN deliveries = 1 .. Len(deliveries) /\ Len(deliveries) \in Nat /\ clock \in Int
      /\ \A i \in DOMAIN deliveries : deliveries[i].at \in Int
  <2>1. clock \in Int /\ \A i \in DOMAIN deliveries : deliveries[i] \in DeliveryRows
    BY DEF AlertTyped
  <2>2. \A r \in DeliveryRows : r.at \in Int
    BY AlertNumbers DEF DeliveryRows
  <2>3. QED
    BY <2>1, <2>2 DEF AlertTyped
<1>3. /\ DOMAIN deliveries' = 1 .. n /\ DatesKept
      /\ \A i \in DOMAIN deliveries : Waits(deliveries', i) <=> Waits(deliveries, i)
      /\ Waits(deliveries', n)
  <2>1. DOMAIN deliveries' = 1 .. n
    BY <1>1
  <2>2. QED
    BY <1>1, <2>1 DEF DatesKept, Waits
<1>4. \A i, j \in DOMAIN deliveries : /\ Overtaken(deliveries', i, j) <=> Overtaken(deliveries, i, j)
                                      /\ InOrder(deliveries', i, j) <=> InOrder(deliveries, i, j)
  BY <1>3, OrderKept
<1>a. n = Len(deliveries) + 1
  OBVIOUS
<1> HIDE DEF n
<1>5. ASSUME NEW i \in DOMAIN deliveries
      PROVE  deliveries'[i].at <= deliveries'[n].at \/ Overtaken(deliveries', i, n)
  <2>1. n \in i + 1 .. n /\ i \in Int
    BY <1>2, <1>a
  <2>2. CASE transition = "opened" /\ alert = "none"
    BY <2>2 DEF Notified
  <2>3. CASE transition = "reopened"
    <3>1. CASE clock < deliveries[i].at
      <4>1. deliveries'[n].transition = "reopened" /\ deliveries'[n].at < deliveries'[i].at
        BY <1>1, <2>3, <3>1
      <4>2. QED
        BY <2>1, <4>1 DEF Overtaken
    <3>2. CASE ~(clock < deliveries[i].at)
      BY <1>1, <1>2, <3>2
    <3>3. QED
      BY <3>1, <3>2
  <2>4. CASE Active /\ ~Regressed
    <3>1. Len(deliveries) \in DOMAIN deliveries /\ deliveries[Len(deliveries)].at <= clock
      BY <1>2, <2>4 DEF Regressed, Ahead
    <3>2. CASE i = Len(deliveries)
      BY <1>1, <3>1, <3>2
    <3>3. CASE i # Len(deliveries)
      <4>1. i < Len(deliveries)
        BY <1>2, <3>3
      <4>2. CASE deliveries[i].at <= deliveries[Len(deliveries)].at
        BY <1>1, <1>2, <3>1, <4>2
      <4>3. CASE Overtaken(deliveries, i, Len(deliveries))
        <5>1. PICK k \in i + 1 .. Len(deliveries) :
                  deliveries[k].transition = "reopened" /\ deliveries[k].at < deliveries[i].at
          BY <4>3 DEF Overtaken
        <5>2. k \in i + 1 .. n /\ k \in DOMAIN deliveries
          BY <1>2, <1>a, <2>1, <5>1
        <5>3. deliveries'[k].transition = "reopened" /\ deliveries'[k].at < deliveries'[i].at
          BY <1>1, <5>1, <5>2
        <5>4. QED
          BY <5>2, <5>3 DEF Overtaken
      <4>4. QED
        BY <3>1, <4>1, <4>2, <4>3 DEF Notified, Dated
    <3>4. QED
      BY <3>2, <3>3
  <2>5. QED
    BY <2>2, <2>3, <2>4
<1>b. \A i \in DOMAIN deliveries' : i \in DOMAIN deliveries \/ i = n
  BY <1>2, <1>3, <1>a
<1>c. DOMAIN deliveries \subseteq DOMAIN deliveries' /\ \A i \in DOMAIN deliveries : i < n /\ ~(n < i)
  BY <1>2, <1>3, <1>a
<1>6. Dated'
  <2>1. ASSUME NEW i \in DOMAIN deliveries', NEW j \in DOMAIN deliveries', i < j
        PROVE  deliveries'[i].at <= deliveries'[j].at \/ Overtaken(deliveries', i, j)
    <3>1. CASE i \in DOMAIN deliveries /\ j = n
      BY <1>5, <3>1
    <3>2. CASE i \in DOMAIN deliveries /\ j \in DOMAIN deliveries
      <4>1. deliveries[i].at <= deliveries[j].at \/ Overtaken(deliveries, i, j)
        BY <2>1, <3>2 DEF Notified, Dated
      <4>2. QED
        BY <1>1, <1>4, <3>2, <4>1
    <3>3. CASE i = n
      <4>1. ~(n < n)
        BY <1>2, <1>a
      <4>2. QED
        BY <1>b, <1>c, <2>1, <3>3, <4>1
    <3>4. QED
      BY <1>b, <3>1, <3>2, <3>3
  <2>2. QED
    BY <2>1 DEF Dated
<1>7. /\ \A i \in runtime'.batch : Waits(deliveries', i)
      /\ \A i \in runtime'.batch, j \in DOMAIN deliveries' \ runtime'.batch : Waits(deliveries', j) => i < j
  <2>1. runtime'.batch = runtime.batch /\ runtime.batch \subseteq DOMAIN deliveries
    BY DEF AlertTyped
  <2>2. QED
    BY <1>3, <1>b, <1>c, <2>1 DEF Notified
<1>8. ASSUME NEW i \in DOMAIN deliveries', NEW j \in DOMAIN deliveries',
             ~Waits(deliveries', i), Waits(deliveries', j)
      PROVE  InOrder(deliveries', i, j)
  <2>1. i \in DOMAIN deliveries
    BY <1>3, <1>8, <1>b
  <2>2. CASE j = n
    <3>1. i < j
      BY <1>c, <2>1, <2>2
    <3>2. QED
      BY <3>1, EarlierFirst, Zenon
  <2>3. CASE j \in DOMAIN deliveries
    <3>1. InOrder(deliveries, i, j)
      BY <1>3, <1>8, <2>1, <2>3 DEF Notified
    <3>2. QED
      BY <1>4, <2>1, <2>3, <3>1
  <2>4. QED
    BY <1>b, <2>2, <2>3
<1>9. \A k \in DOMAIN received' : received'[k] \in DOMAIN deliveries' /\ ~Waits(deliveries', received'[k])
  BY <1>3, <1>c DEF Notified
<1>10. runtime'.step # "idle" => ~Waits(deliveries', runtime'.hand)
  BY <1>3 DEF Notified, AlertTyped
<1>11. runtime'.step = "send" =>
           \A k \in DOMAIN received' : InOrder(deliveries', received'[k], runtime'.hand)
  BY <1>4 DEF Notified, AlertTyped
<1>12. \A a, b \in DOMAIN received' : a < b => InOrder(deliveries', received'[a], received'[b])
  BY <1>4 DEF Notified
<1>13. alert' # "none"
  BY DEF Commit
<1>14. QED
  BY <1>6, <1>7, <1>8, <1>9, <1>10, <1>11, <1>12, <1>13 DEF Notified

\* Every step keeps the order of the notifications.
LEMMA NotifiedNext == AlertTyped /\ Notified /\ [AlertNext]_alertVars => Notified'
<1> SUFFICES ASSUME AlertTyped, Notified, [AlertNext]_alertVars PROVE Notified'
  OBVIOUS
<1>0. /\ DOMAIN deliveries = 1 .. Len(deliveries) /\ Len(deliveries) \in Nat /\ runtime \in Hands
      /\ received \in Seq(Nat) /\ \A i \in DOMAIN deliveries : deliveries[i] \in DeliveryRows
      /\ runtime.batch \subseteq DOMAIN deliveries
  BY DEF AlertTyped
<1>1. ASSUME UNCHANGED <<alert, deliveries, received>>,
             \/ runtime' = runtime
             \/ runtime'.step = "idle" /\ runtime'.batch = {}
      PROVE  Notified'
  BY <1>1, NotifiedKept DEF DatesKept
<1>a. ASSUME NEW phase PROVE EmptyHanded(phase).step = "idle" /\ EmptyHanded(phase).batch = {}
  BY DEF EmptyHanded
<1>2. CASE DeviceChanges \/ BeginPass \/ LoadRules \/ Tick \/ SetClockBack \/ Fail \/ Crash \/ StartRuntime
           \/ UNCHANGED alertVars
  <2>1. UNCHANGED <<alert, deliveries, received>>
    BY <1>2 DEF DeviceChanges, BeginPass, LoadRules, Tick, SetClockBack, Fail, Crash, StartRuntime,
       stateRows, alertVars
  <2>2. CASE DeviceChanges \/ BeginPass \/ LoadRules \/ Tick \/ SetClockBack \/ UNCHANGED alertVars
    BY <1>1, <2>1, <2>2 DEF DeviceChanges, BeginPass, LoadRules, Tick, SetClockBack, alertVars
  <2>3. CASE Fail \/ Crash \/ StartRuntime
    <3>1. \E phase \in {"recovering", "failed", "down"} : runtime' = EmptyHanded(phase)
      BY <2>3 DEF Fail, Crash, StartRuntime
    <3>2. QED
      BY <1>1, <1>a, <2>1, <3>1
  <2>4. QED
    BY <1>2, <2>2, <2>3
<1>3. CASE EvaluateRule
  <2>1. UNCHANGED <<received, runtime>>
    BY <1>3 DEF EvaluateRule
  <2>2. CASE Opens /\ OpenAlert
    <3> DEFINE transition == IF alert = "none" THEN "opened" ELSE "reopened"
    <3>1. transition \in Transitions /\ Commit(transition, "open") /\ "open" # "none"
      BY <2>2 DEF Transitions, OpenAlert
    <3>2. (transition = "opened" /\ alert = "none") \/ transition = "reopened"
      OBVIOUS
    <3> HIDE DEF transition
    <3>3. QED
      BY <2>1, <3>1, <3>2, NotifiedCommitted
  <2>3. CASE Active /\ ~Regressed /\ RecoverAlert
    <3>1. "recovered" \in Transitions /\ Commit("recovered", "recovered") /\ "recovered" # "none"
      BY <2>3 DEF Transitions, RecoverAlert
    <3>2. QED
      BY <2>1, <2>3, <3>1, NotifiedCommitted
  <2>4. CASE UNCHANGED <<alert, deliveries>>
    BY <1>1, <2>1, <2>4
  <2>5. QED
    BY <1>3, <2>2, <2>3, <2>4 DEF EvaluateRule
<1>4. CASE Acknowledge
  <2>1. /\ "acknowledged" \in Transitions /\ Commit("acknowledged", "acknowledged")
        /\ "acknowledged" # "none" /\ Active /\ ~Regressed /\ UNCHANGED <<received, runtime>>
    BY <1>4 DEF Transitions, Acknowledge, Active
  <2>2. QED
    BY <2>1, NotifiedCommitted
<1>5. CASE EditRule
  BY <1>1, <1>5 DEF EditRule, CreateRule, PatchRule, DeleteRule, EditTo
<1>b. ASSUME NEW i \in DOMAIN deliveries, ~Waits(deliveries, i), NEW status \in Attempts \ {"pending"},
             deliveries' = With(i, status), UNCHANGED <<alert, received>>,
             runtime'.batch = runtime.batch,
             \/ runtime' = runtime
             \/ runtime.step # "idle" /\ runtime'.hand = runtime.hand /\ runtime'.step = "settled"
      PROVE  Notified'
  <2>1. /\ deliveries' \in Seq(DeliveryRows) /\ Len(deliveries') = Len(deliveries) /\ DatesKept
        /\ \A j \in DOMAIN deliveries :
               deliveries'[j].status = IF j = i THEN status ELSE deliveries[j].status
    BY <1>b, WithTyped
  <2>2. /\ DOMAIN deliveries' = DOMAIN deliveries /\ (deliveries = << >> => deliveries' = << >>)
        /\ \A j \in DOMAIN deliveries : Waits(deliveries', j) <=> Waits(deliveries, j)
    BY <1>0, <1>b, <2>1 DEF Waits
  <2>3. QED
    BY <1>b, <2>1, <2>2, NotifiedKept
<1>6. CASE RecoverInterrupted
  <2>1. CASE runtime' \in {EmptyHanded("failed"), EmptyHanded("running")} /\ UNCHANGED deliveries
    BY <1>1, <1>6, <1>a, <2>1 DEF RecoverInterrupted
  <2>2. CASE /\ Interrupted # {}
             /\ deliveries' = With(First(Interrupted), Recovered) /\ UNCHANGED runtime
    <3> DEFINE i == First(Interrupted)
    <3>1. i \in DOMAIN deliveries /\ ~Waits(deliveries, i) /\ Recovered \in Attempts \ {"pending"}
      BY <2>2, PickedTyped DEF Interrupted, Waits, Recovered, Attempts, Terminal
    <3> HIDE DEF i
    <3>2. QED
      BY <1>6, <1>b, <2>2, <3>1 DEF RecoverInterrupted, i
  <2>3. QED
    BY <1>6, <2>1, <2>2 DEF RecoverInterrupted
<1>7. CASE RecordOutcome
  <2> DEFINE i == First(Unrecorded)
  <2>1. i \in DOMAIN deliveries
    BY <1>7, PickedTyped DEF RecordOutcome
  <2>2. CASE i \notin audited
    BY <1>1, <1>7, <2>2 DEF RecordOutcome
  <2>3. CASE i \in audited
    <3>1. /\ deliveries' = [deliveries EXCEPT ![i] = [deliveries[i] EXCEPT !.recorded = TRUE]]
          /\ runtime' = [runtime EXCEPT !.step = "idle", !.hand = NoHand]
          /\ UNCHANGED <<alert, received>>
      BY <1>0, <1>7, <2>1, <2>3 DEF RecordOutcome
    <3>2. runtime'.step = "idle" /\ runtime'.batch = runtime.batch
      BY <1>0, <3>1 DEF Hands
    <3> HIDE DEF i
    <3> DEFINE changed == [deliveries[i] EXCEPT !.recorded = TRUE]
    <3>3. changed.status = deliveries[i].status /\ changed.transition = deliveries[i].transition
          /\ changed.at = deliveries[i].at
      BY <1>0, <2>1 DEF DeliveryRows
    <3> HIDE DEF changed
    <3>4. /\ DOMAIN deliveries' = DOMAIN deliveries /\ (deliveries = << >> => deliveries' = << >>)
          /\ \A j \in DOMAIN deliveries : deliveries'[j] = IF j = i THEN changed ELSE deliveries[j]
      BY <1>0, <2>1, <3>1 DEF changed
    <3>5. QED
      BY <3>1, <3>2, <3>3, <3>4, NotifiedKept DEF Waits, DatesKept
  <2>4. QED
    BY <2>2, <2>3
<1>8. CASE ListPending
  <2>1. /\ UNCHANGED <<alert, deliveries, received>> /\ runtime.step = "idle"
        /\ runtime' = [runtime EXCEPT !.batch = Waiting]
    BY <1>8 DEF ListPending, stateRows
  <2>2. runtime'.step = "idle" /\ runtime'.batch = Waiting
    BY <1>0, <2>1 DEF Hands
  <2>3. \A j \in DOMAIN deliveries : Waits(deliveries, j) <=> j \in Waiting
    BY DEF Waits, Waiting
  <2>4. Waiting \subseteq DOMAIN deliveries
    BY DEF Waiting
  <2>5. QED
    BY <2>1, <2>2, <2>3, <2>4 DEF Notified, Dated
<1>9. CASE Claim
  <2>1. CASE Ahead(Following)
    BY <1>1, <1>9, <1>a, <2>1 DEF Claim
  <2>2. CASE ~Ahead(Following)
    <3> DEFINE i == Following
    <3>1. /\ i \in runtime.batch /\ i \in DOMAIN deliveries /\ Waits(deliveries, i)
          /\ "attempting" \in Attempts
          /\ \A j \in runtime.batch : \/ deliveries[i].at < deliveries[j].at
                                      \/ deliveries[i].at = deliveries[j].at /\ i <= j
      BY <1>0, <1>9, FollowingIsFirst DEF Claim, Notified, Attempts
    <3>2. /\ deliveries' = With(i, "attempting") /\ UNCHANGED <<alert, received>>
          /\ runtime' = [runtime EXCEPT !.step = "send", !.hand = i, !.batch = runtime.batch \ {i}]
      BY <1>0, <1>9, <2>2 DEF Claim, Hands
    <3> HIDE DEF i
    <3>3. /\ deliveries' \in Seq(DeliveryRows) /\ Len(deliveries') = Len(deliveries) /\ DatesKept
          /\ \A j \in DOMAIN deliveries :
                 deliveries'[j].status = IF j = i THEN "attempting" ELSE deliveries[j].status
      BY <3>1, <3>2, WithTyped
    <3>4. /\ runtime'.hand = i /\ runtime'.step = "send" /\ runtime'.batch = runtime.batch \ {i}
          /\ DOMAIN deliveries' = DOMAIN deliveries
          /\ \A j \in DOMAIN deliveries : Waits(deliveries', j) <=> Waits(deliveries, j) /\ j # i
      BY <1>0, <3>2, <3>3 DEF Hands, Waits
    <3>5. \A a, b \in DOMAIN deliveries :
              /\ Overtaken(deliveries', a, b) <=> Overtaken(deliveries, a, b)
              /\ InOrder(deliveries', a, b) <=> InOrder(deliveries, a, b)
      BY <3>3, OrderKept
    <3>6. ASSUME NEW j \in DOMAIN deliveries, Waits(deliveries, j), j # i
          PROVE  InOrder(deliveries, i, j)
      <4>1. i \in Int /\ j \in Int
        BY <1>0, <3>1
      <4>2. CASE i < j
        BY <4>2, EarlierFirst, Zenon
      <4>3. CASE j < i
        <5>1. j \in runtime.batch
          BY <3>1, <3>6, <4>1, <4>3 DEF Notified
        <5>2. deliveries[i].at < deliveries[j].at
          BY <3>1, <4>1, <4>3, <5>1
        <5>3. deliveries[j].at <= deliveries[i].at \/ Overtaken(deliveries, j, i)
          BY <3>1, <4>3 DEF Notified, Dated
        <5>4. deliveries[i].at \in Int /\ deliveries[j].at \in Int
          BY <1>0, <3>1, AlertNumbers DEF DeliveryRows
        <5>5. Overtaken(deliveries, j, i)
          BY <5>2, <5>3, <5>4
        <5>6. QED
          BY <4>1, <4>3, <5>5 DEF InOrder
      <4>4. QED
        BY <3>6, <4>1, <4>2, <4>3
    <3>7. Dated'
      BY <3>3, <3>4, <3>5 DEF Notified, Dated, DatesKept
    <3>8. /\ \A a \in runtime'.batch : Waits(deliveries', a)
          /\ \A a \in runtime'.batch, b \in DOMAIN deliveries' \ runtime'.batch :
                 Waits(deliveries', b) => a < b
      BY <1>0, <3>4 DEF Notified
    <3>9. \A a, b \in DOMAIN deliveries' :
              ~Waits(deliveries', a) /\ Waits(deliveries', b) => InOrder(deliveries', a, b)
      BY <3>4, <3>5, <3>6 DEF Notified
    <3>10. \A k \in DOMAIN received' :
               received'[k] \in DOMAIN deliveries' /\ ~Waits(deliveries', received'[k])
      BY <3>2, <3>4 DEF Notified
    <3>11. ~Waits(deliveries', runtime'.hand)
      BY <3>1, <3>4
    <3>12. \A k \in DOMAIN received' : InOrder(deliveries', received'[k], runtime'.hand)
      BY <3>1, <3>2, <3>4, <3>5 DEF Notified
    <3>13. \A a, b \in DOMAIN received' : a < b => InOrder(deliveries', received'[a], received'[b])
      BY <3>2, <3>5 DEF Notified
    <3>14. alert' # "none"
      BY <1>0, <3>1, <3>2 DEF Notified
    <3>15. QED
      BY <3>7, <3>8, <3>9, <3>10, <3>11, <3>12, <3>13, <3>14 DEF Notified
  <2>3. QED
    BY <2>1, <2>2
<1>10. ASSUME NEW ok \in BOOLEAN, Send(ok) PROVE Notified'
  <2>1. /\ runtime.step = "send" /\ UNCHANGED <<alert, deliveries>>
        /\ received' = received \/ received' = Append(received, runtime.hand)
        /\ runtime' = [runtime EXCEPT !.step = IF ok THEN "delivered" ELSE "failed"]
    BY <1>10 DEF Send, stateRows
  <2>2. /\ runtime'.step \notin {"send", "idle"} /\ runtime'.hand = runtime.hand
        /\ runtime'.batch = runtime.batch
    BY <1>0, <2>1 DEF Hands
  <2>3. CASE received' = received
    BY <2>1, <2>2, <2>3, NotifiedKept DEF DatesKept
  <2>4. CASE received' = Append(received, runtime.hand)
    <3>1. /\ DOMAIN received' = 1 .. Len(received) + 1 /\ DOMAIN received = 1 .. Len(received)
          /\ Len(received) \in Nat /\ received'[Len(received) + 1] = runtime.hand
          /\ \A k \in DOMAIN received : received'[k] = received[k]
      BY <1>0, <2>4 DEF Hands
    <3>2. runtime.hand \in DOMAIN deliveries /\ ~Waits(deliveries, runtime.hand)
      BY <2>1 DEF Notified, AlertTyped
    <3>3. \A k \in DOMAIN received' :
              received'[k] \in DOMAIN deliveries /\ ~Waits(deliveries, received'[k])
      BY <3>1, <3>2 DEF Notified
    <3>4. ASSUME NEW a \in DOMAIN received', NEW b \in DOMAIN received', a < b
          PROVE  InOrder(deliveries, received'[a], received'[b])
      <4>1. a \in DOMAIN received /\ received'[a] = received[a]
        BY <3>1, <3>4
      <4>2. CASE b = Len(received) + 1
        BY <2>1, <3>1, <4>1, <4>2 DEF Notified
      <4>3. CASE b # Len(received) + 1
        <5>1. b \in DOMAIN received
          BY <3>1, <4>3
        <5>2. QED
          BY <3>1, <3>4, <4>1, <5>1 DEF Notified
      <4>4. QED
        BY <4>2, <4>3
    <3>5. QED
      BY <2>1, <2>2, <3>2, <3>3, <3>4 DEF Notified, Dated
  <2>5. QED
    BY <2>1, <2>3, <2>4
<1>11. CASE Mark
  <2>1. /\ runtime.hand \in DOMAIN deliveries /\ runtime.step \in {"delivered", "failed"}
        /\ runtime.step \in Attempts \ {"pending"} /\ runtime.step # "idle"
        /\ UNCHANGED <<alert, received>>
    BY <1>11 DEF Mark, AlertTyped, Attempts, Terminal
  <2>2. CASE runtime' = EmptyHanded("failed") /\ UNCHANGED deliveries
    BY <1>1, <1>a, <2>1, <2>2
  <2>3. CASE /\ deliveries' = With(runtime.hand, runtime.step)
             /\ runtime' = [runtime EXCEPT !.step = "settled"]
    <3>1. runtime'.step = "settled" /\ runtime'.hand = runtime.hand /\ runtime'.batch = runtime.batch
      BY <1>0, <2>3 DEF Hands
    <3>2. ~Waits(deliveries, runtime.hand)
      BY <2>1 DEF Notified
    <3>3. QED
      BY <1>b, <2>1, <2>3, <3>1, <3>2
  <2>4. QED
    BY <1>11, <2>2, <2>3 DEF Mark
<1>12. QED
  BY <1>2, <1>3, <1>4, <1>5, <1>6, <1>7, <1>8, <1>9, <1>10, <1>11 DEF AlertNext, Evaluation, Notification

(* The webhook gets every notification at most once, for any number of     *)
(* transitions, crashes, failures and clocks set back, and in the order of *)
(* the transitions, unless a reopening was dated before what it overtakes: *)
(* what follows an opening is dated after it, and a batch is sent by its   *)
(* dates, before what has come since.                                      *)
THEOREM NotifiesInOrder == AlertSafety => []OnceAndInOrder
<1>1. AlertInit => Notified
  BY DEF AlertInit, Notified, Dated, EmptyHanded
<1>2. Notified => OnceAndInOrder
  BY DEF Notified, InOrder, Overtaken, OnceAndInOrder, ReopenedBefore
<1>3. QED
  BY <1>1, <1>2, AlertTypedInit, AlertTypedNext, NotifiedNext, PTL DEF AlertSafety
-----------------------------------------------------------------------------
(* The two databases.                                                      *)

Marks == {"none", "pending", "published"}
EventsRows == [rows : SUBSET Revisions, audited : BOOLEAN]
StateRows == [revision : 0 .. MaxRevisions, delivery : {"none", "terminal", "recorded"},
           outbox : [Revisions -> Marks]]

\* The constants as the steps below need them.
LEMMA StorageNumbers ==
  /\ Retained \in Nat /\ MaxRevisions \in Nat /\ MaxRevisions > 0
  /\ MaxBackups \in Nat /\ MaxFailures \in Nat
  BY StorageConstants

-----------------------------------------------------------------------------
(* Types. *)

\* StorageTypeOK, with the databases apart.
StorageTyping ==
  /\ state \in StateRows /\ events \in EventsRows
  /\ mirror \in 0 .. MaxRevisions
  /\ retention \in [step : {"idle", "reserved", "complete"}, rows : SUBSET Revisions]
  /\ backup \in [step : {"idle", "begun", "copied"}, start : 0 .. MaxRevisions, copy : EventsRows]
  /\ \A b \in backups : b.state \in StateRows /\ b.events \in EventsRows /\ b.start \in 0 .. MaxRevisions
  /\ archived \subseteq Revisions /\ restored \in 0 .. MaxRevisions + 1
  /\ begun \in 0 .. MaxBackups /\ failures \in 0 .. MaxFailures

\* The typing says all that the type invariant of the model does.
LEMMA StorageTypingIsTypeOK == StorageTyping => StorageTypeOK
  BY DEF StorageTyping, StorageTypeOK, Databases, StateRows, EventsRows, Marks

\* Marking some rows keeps a table of marks.
LEMMA WithRowsTyped ==
  ASSUME state \in StateRows, NEW S, NEW status \in Marks
  PROVE  WithRows(S, status) \in [Revisions -> Marks]
  BY DEF WithRows, StateRows

\* The initial states are typed.
LEMMA StorageTypingInit == StorageInit => StorageTyping
<1> SUFFICES ASSUME StorageInit PROVE StorageTyping
  OBVIOUS
<1>1. state \in StateRows
  BY StorageNumbers DEF StorageInit, StateRows, Marks
<1>2. events \in EventsRows /\ backup.copy \in EventsRows
  BY DEF StorageInit, NoEvents, NoBackup, EventsRows
<1>3. QED
  BY <1>1, <1>2, StorageNumbers DEF StorageInit, StorageTyping, NoRetention, NoBackup

\* Every step keeps the types.
LEMMA StorageTypingNext == StorageTyping /\ [StorageNext]_storageVars => StorageTyping'
<1> SUFFICES ASSUME StorageTyping, [StorageNext]_storageVars PROVE StorageTyping'
  OBVIOUS
<1> USE StorageNumbers
<1>1. CASE CommitChange
  <2>1. state' \in StateRows
    <3> DEFINE appended == [state.outbox EXCEPT ![state.revision + 1] = "pending"]
    <3>1. state' = [state EXCEPT !.revision = state.revision + 1, !.outbox = appended]
      BY <1>1 DEF CommitChange
    <3>2. /\ state.outbox \in [Revisions -> Marks] /\ "pending" \in Marks
          /\ state.revision \in 0 .. MaxRevisions
      BY DEF StorageTyping, StateRows, Marks
    <3>3. state.revision < MaxRevisions
      BY <1>1 DEF CommitChange
    <3>4. appended \in [Revisions -> Marks]
      BY <3>2
    <3>5. state.revision + 1 \in 0 .. MaxRevisions
      BY <3>2, <3>3
    <3> HIDE DEF appended
    <3>6. QED
      BY <3>1, <3>4, <3>5 DEF StorageTyping, StateRows
  <2>2. QED
    BY <1>1, <2>1 DEF CommitChange, StorageTyping
<1>2. CASE MirrorEvent
  <2>1. mirror' \in Revisions /\ events' \in EventsRows
    BY <1>2 DEF MirrorEvent, Mirrorable, Rows, StorageTyping, EventsRows
  <2>2. QED
    BY <1>2, <2>1 DEF MirrorEvent, StorageTyping, Revisions
<1>3. CASE MarkPublished
  <2>1. WithRows({mirror}, "published") \in [Revisions -> Marks]
    BY WithRowsTyped DEF StorageTyping, Marks
  <2>2. state' \in StateRows
    <3> DEFINE marked == WithRows({mirror}, "published")
    <3>1. marked \in [Revisions -> Marks] /\ state \in StateRows
      BY <2>1 DEF StorageTyping
    <3>2. state' = [state EXCEPT !.outbox = marked]
      BY <1>3 DEF MarkPublished
    <3> HIDE DEF marked
    <3>3. QED
      BY <3>1, <3>2 DEF StateRows
  <2>3. QED
    BY <1>3, <2>2 DEF MarkPublished, StorageTyping
<1>4. CASE PruneOutbox
  <2>1. state' \in StateRows
    BY <1>4, WithRowsTyped DEF PruneOutbox, StorageTyping, StateRows, Marks
  <2>2. QED
    BY <1>4, <2>1 DEF PruneOutbox, StorageTyping
<1>5. CASE Retention
  <2>1. CASE SelectCandidates
    <3>1. PICK n \in 1 .. Cardinality(events.rows) :
             retention' = [step |-> "reserved", rows |-> Oldest(n)]
      BY <2>1 DEF SelectCandidates
    <3>2. Oldest(n) \subseteq Revisions
      BY DEF Oldest, StorageTyping, EventsRows
    <3>3. QED
      BY <2>1, <3>1, <3>2 DEF SelectCandidates, StorageTyping
  <2>2. CASE WriteArchive
    BY <2>2 DEF WriteArchive, StorageTyping
  <2>3. CASE ArchiveFails
    BY <2>3 DEF ArchiveFails, StorageTyping, NoRetention
  <2>4. CASE DeleteCandidates
    <3>1. events' \in EventsRows
      BY <2>4 DEF DeleteCandidates, StorageTyping, EventsRows
    <3>2. QED
      BY <2>4, <3>1 DEF DeleteCandidates, StorageTyping, NoRetention
  <2>5. QED
    BY <1>5, <2>1, <2>2, <2>3, <2>4 DEF Retention
<1>6. CASE DeliveryEnds \/ Audit
  <2>1. state' \in StateRows /\ events' \in EventsRows
    BY <1>6 DEF DeliveryEnds, Audit, RecordTerminalOutcome, MarkOutcomeRecorded, StorageTyping, StateRows, EventsRows
  <2>2. QED
    BY <1>6, <2>1 DEF DeliveryEnds, Audit, RecordTerminalOutcome, MarkOutcomeRecorded, StorageTyping
<1>7. CASE BeginBackup \/ CopyEvents
  <2>1. state.revision \in 0 .. MaxRevisions
    BY DEF StorageTyping, StateRows
  <2>2. backup' \in [step : {"idle", "begun", "copied"}, start : 0 .. MaxRevisions, copy : EventsRows]
    BY <1>7, <2>1 DEF BeginBackup, CopyEvents, StorageTyping
  <2>3. begun' \in 0 .. MaxBackups
    BY <1>7 DEF BeginBackup, CopyEvents, StorageTyping
  <2>4. QED
    BY <1>7, <2>2, <2>3 DEF BeginBackup, CopyEvents, StorageTyping
<1>8. CASE CopyState
  <2>1. WithRows(Reset, "pending") \in [Revisions -> Marks]
    BY WithRowsTyped DEF StorageTyping, Marks
  <2>2. [state EXCEPT !.outbox = WithRows(Reset, "pending")] \in StateRows
    BY <2>1 DEF StorageTyping, StateRows
  <2>3. backup' \in [step : {"idle", "begun", "copied"}, start : 0 .. MaxRevisions, copy : EventsRows]
    BY <1>8 DEF CopyState, NoBackup, NoEvents, EventsRows
  <2>4. \A b \in backups' : b.state \in StateRows /\ b.events \in EventsRows /\ b.start \in 0 .. MaxRevisions
    BY <1>8, <2>2 DEF CopyState, StorageTyping
  <2>5. QED
    BY <1>8, <2>3, <2>4 DEF CopyState, StorageTyping
<1>9. CASE Outage
  BY <1>9 DEF Outage, Stop, StorageTyping, NoRetention, NoBackup, NoEvents, EventsRows
<1>10. CASE Restore
  <2>1. PICK b \in backups : state' = b.state /\ events' = b.events /\ restored' = b.start + 1
    BY <1>10 DEF Restore
  <2>2. QED
    BY <1>10, <2>1 DEF Restore, Stop, StorageTyping, NoRetention, NoBackup, NoEvents, EventsRows
<1>11. CASE UNCHANGED storageVars
  BY <1>11 DEF storageVars, StorageTyping
<1>12. QED
  BY <1>1, <1>2, <1>3, <1>4, <1>5, <1>6, <1>7, <1>8, <1>9, <1>10, <1>11
     DEF StorageNext, Mirror, Backup

(* The two databases, every backup of them and what the jobs remember keep  *)
(* to their domains.                                                       *)
THEOREM StorageTyped == StorageSpec => []StorageTypeOK
<1>1. StorageSpec => []StorageTyping
  BY StorageTypingInit, StorageTypingNext, PTL DEF StorageSpec
<1>2. QED
  BY <1>1, StorageTypingIsTypeOK, PTL

-----------------------------------------------------------------------------
(* No change is forgotten. *)

\* What the mirror pass is about to mark, and what the retention is about to
\* delete, is elsewhere already.
StepsInOrder ==
  /\ mirror # 0 => mirror \in events.rows \cup archived
  /\ retention.step = "complete" => retention.rows \subseteq archived

\* A backup, by itself, has every change from the revision at which it began.
BackupsComplete ==
  \A b \in backups : \A r \in Revisions :
     b.start <= r /\ r <= b.state.revision =>
        r \in b.events.rows \/ b.state.outbox[r] = "pending"

Remembered == StepsInOrder /\ BackupsComplete /\ NoChangeForgotten

\* There is nothing to forget at first.
LEMMA RememberedInit == StorageInit => Remembered
  BY DEF StorageInit, Remembered, StepsInOrder, BackupsComplete, NoChangeForgotten, NoRetention

\* Every step keeps: no change is forgotten.
LEMMA RememberedNext == StorageTyping /\ Remembered /\ [StorageNext]_storageVars => Remembered'
<1> SUFFICES ASSUME StorageTyping, Remembered, [StorageNext]_storageVars PROVE Remembered'
  OBVIOUS
<1> USE StorageNumbers
<1>0. /\ state.revision \in 0 .. MaxRevisions /\ state.outbox \in [Revisions -> Marks]
      /\ \A r : r \in 1 .. state.revision => r \in Revisions
  BY DEF StorageTyping, StateRows, Revisions
<1>1. CASE CommitChange
  <2>1. StepsInOrder' /\ BackupsComplete'
    BY <1>1 DEF CommitChange, Remembered, StepsInOrder, BackupsComplete
  <2>2. ASSUME NEW r \in 1 .. state'.revision PROVE (Kept(r) \/ r + 1 < restored)'
    <3>1. CASE r = state.revision + 1
      BY <1>0, <1>1, <3>1 DEF CommitChange, Kept, StorageTyping, StateRows, Revisions
    <3>2. CASE r # state.revision + 1
      BY <1>0, <1>1, <2>2, <3>2 DEF CommitChange, Kept, Remembered, NoChangeForgotten, StorageTyping, StateRows
    <3>3. QED
      BY <3>1, <3>2
  <2>3. QED
    BY <2>1, <2>2 DEF Remembered, NoChangeForgotten
<1>2. CASE MirrorEvent
  BY <1>0, <1>2 DEF MirrorEvent, Remembered, StepsInOrder, BackupsComplete, NoChangeForgotten, Kept,
                    StorageTyping, EventsRows
<1>3. CASE MarkPublished
  <2>1. StepsInOrder' /\ BackupsComplete'
    BY <1>3 DEF MarkPublished, Remembered, StepsInOrder, BackupsComplete
  <2>2. ASSUME NEW r \in 1 .. state'.revision PROVE (Kept(r) \/ r + 1 < restored)'
    BY <1>0, <1>3, <2>2 DEF MarkPublished, WithRows, Kept, Remembered, StepsInOrder,
                            NoChangeForgotten, StorageTyping, StateRows
  <2>3. QED
    BY <2>1, <2>2 DEF Remembered, NoChangeForgotten
<1>4. CASE PruneOutbox
  <2>1. StepsInOrder' /\ BackupsComplete'
    BY <1>4 DEF PruneOutbox, Remembered, StepsInOrder, BackupsComplete
  <2>2. ASSUME NEW r \in 1 .. state'.revision PROVE (Kept(r) \/ r + 1 < restored)'
    BY <1>0, <1>4, <2>2 DEF PruneOutbox, Prunable, Rows, WithRows, Kept, Remembered,
                            NoChangeForgotten, StorageTyping, StateRows
  <2>3. QED
    BY <2>1, <2>2 DEF Remembered, NoChangeForgotten
<1>5. CASE Retention
  BY <1>5 DEF Retention, SelectCandidates, WriteArchive, ArchiveFails, DeleteCandidates, MayDelete,
              NoRetention, Remembered, StepsInOrder, BackupsComplete, NoChangeForgotten, Kept,
              StorageTyping, EventsRows
<1>6. CASE DeliveryEnds \/ Audit
  BY <1>6 DEF DeliveryEnds, Audit, RecordTerminalOutcome, MarkOutcomeRecorded, Remembered,
              StepsInOrder, BackupsComplete, NoChangeForgotten, Kept, StorageTyping, StateRows, EventsRows
<1>7. CASE BeginBackup \/ CopyEvents \/ UNCHANGED storageVars
  BY <1>7 DEF BeginBackup, CopyEvents, storageVars, Remembered, StepsInOrder, BackupsComplete,
              NoChangeForgotten, Kept
<1>8. CASE CopyState
  <2>1. StepsInOrder' /\ NoChangeForgotten'
    BY <1>8 DEF CopyState, Remembered, StepsInOrder, NoChangeForgotten, Kept
  <2>2. CASE Covered
    <3> DEFINE copied == [state EXCEPT !.outbox = WithRows(Reset, "pending")]
    <3>1. \A r \in Revisions : backup.start <= r /\ r <= copied.revision =>
             r \in backup.copy.rows \/ copied.outbox[r] = "pending"
      BY <1>0, <2>2 DEF Covered, Reset, Rows, WithRows, StorageTyping, StateRows, Marks
    <3> HIDE DEF copied
    <3>2. \A b \in backups' :
             b \in backups \/ b = [start |-> backup.start, events |-> backup.copy, state |-> copied]
      BY <1>8 DEF CopyState, copied
    <3>3. QED
      BY <2>1, <3>1, <3>2 DEF Remembered, BackupsComplete
  <2>3. CASE ~Covered
    BY <1>8, <2>1, <2>3 DEF CopyState, Remembered, BackupsComplete
  <2>4. QED
    BY <2>2, <2>3
<1>9. CASE Outage
  BY <1>9 DEF Outage, Stop, NoRetention, Remembered, StepsInOrder, BackupsComplete,
              NoChangeForgotten, Kept
<1>10. CASE Restore
  <2>1. PICK b \in backups : state' = b.state /\ events' = b.events /\ restored' = b.start + 1
    BY <1>10 DEF Restore
  <2>2. b.start \in Nat /\ b.state.revision \in 0 .. MaxRevisions
    BY <2>1 DEF StorageTyping, StateRows
  <2>3. NoChangeForgotten'
    BY <2>1, <2>2 DEF Remembered, BackupsComplete, NoChangeForgotten, Kept, Revisions
  <2>4. QED
    BY <1>10, <2>3 DEF Restore, Stop, NoRetention, Remembered, StepsInOrder, BackupsComplete
<1>11. QED
  BY <1>1, <1>2, <1>3, <1>4, <1>5, <1>6, <1>7, <1>8, <1>9, <1>10 DEF StorageNext, Mirror, Backup

(* Through every interleaving of commits, mirroring, pruning, archiving,   *)
(* backups and restorations, with failures anywhere, a committed change is  *)
(* in events.db, in an archive, or still to be mirrored - except for what   *)
(* is older than the beginning of the backup that was restored.            *)
THEOREM NothingForgotten == StorageSpec => []NoChangeForgotten
<1>1. StorageSpec => []StorageTyping
  BY StorageTypingInit, StorageTypingNext, PTL DEF StorageSpec
<1>2. Remembered => NoChangeForgotten
  BY DEF Remembered
<1>3. QED
  BY <1>1, <1>2, RememberedInit, RememberedNext, PTL DEF StorageSpec
-----------------------------------------------------------------------------
(* The daily maintenance.                                                  *)

Retainings == [timer : Timers, step : {"idle", "claimed", "running", "failed"}]
BackingUps == [timer : Timers, step : {"idle", "begun", "copying", "pruning"}, at : Slots]
Endings == [status : {"none", "running", "succeeded", "failed"}, at : Slots]
Caches == [of : Slots \cup {NoSlot}, files : {"none", "whole", "damaged"}]
Checks == [at : Slots \cup {NoSlot}, stale : BOOLEAN, failed : BOOLEAN]
Disk == {"none", "partial", "whole", "damaged"}
Results == {"none", "succeeded", "failed", "lost"}

MaintenanceTyped ==
    /\ slot \in Slots
    /\ server \in {"down", "retention", "backup", "health", "up", "stopping"}
    /\ retaining \in Retainings /\ backingUp \in BackingUps
    /\ claimed \in Days \cup {NoDay} /\ retentions \in [Days -> Endings]
    /\ directory \in [Slots -> Disk]
    /\ outcomes \in [Slots -> Results]
    /\ succeeded \subseteq Slots /\ cache \in Caches /\ health \in Checks
    /\ runs \in [Days -> Nat] /\ trouble \in [Troubles -> 0 .. MaxTrouble]

\* The constants as the steps below need them.
LEMMA MaintenanceNumbers ==
  /\ PerDay \in Nat \ {0} /\ Freshness \in Nat \ {0} /\ DailyDays \in Nat \ {0}
  /\ WeeklyDays \in Nat \ {0} /\ WeekDays \in Nat \ {0} /\ DailySlot \in 0 .. PerDay - 1
  /\ MaxSlot \in Nat \ {0} /\ MaxTrouble \in Nat
  /\ NoSlot \in Nat /\ NoSlot = MaxSlot + PerDay
  BY MaintenanceConstants DEF NoSlot

\* The slot and its day, as division has them.
LEMMA DayOf ==
  ASSUME NEW s \in Nat
  PROVE  /\ Day(s) \in Nat /\ s % PerDay \in 0 .. PerDay - 1
         /\ s = (PerDay * Day(s)) + (s % PerDay)
         /\ Day(s) <= s
<1>1. PerDay \in Nat \ {0}
  BY MaintenanceNumbers
<1> DEFINE q == s \div PerDay
           r == s % PerDay
<1>2. q \in Nat /\ r \in 0 .. PerDay - 1 /\ s = (PerDay * q) + r
  BY <1>1
<1>3. q <= PerDay * q
  BY <1>1, <1>2
<1>4. q <= s
  BY <1>1, <1>2, <1>3
<1>5. Day(s) = q
  BY DEF Day
<1> HIDE DEF q
<1>6. QED
  BY <1>2, <1>4, <1>5

\* A later slot is on no earlier day.
LEMMA DayTyped ==
  ASSUME NEW s \in Slots, NEW t \in Slots
  PROVE  /\ s <= t => Day(s) <= Day(t)
         /\ Day(s) \in Days
<1>1. PerDay \in Nat \ {0} /\ MaxSlot \in Nat
  BY MaintenanceNumbers
<1>2. ASSUME NEW a \in Nat, NEW b \in Nat, a <= b PROVE Day(a) <= Day(b)
  <2>1. /\ Day(a) \in Nat /\ a % PerDay \in 0 .. PerDay - 1 /\ a = (PerDay * Day(a)) + (a % PerDay)
        /\ Day(b) \in Nat /\ b % PerDay \in 0 .. PerDay - 1 /\ b = (PerDay * Day(b)) + (b % PerDay)
    BY DayOf
  <2>2. ASSUME NEW m \in Nat, NEW n \in Nat, m < n PROVE PerDay * m + PerDay <= PerDay * n
    <3>1. n - (m + 1) \in Nat /\ n = m + 1 + (n - (m + 1))
      BY <2>2
    <3>2. PICK k \in Nat : n = m + 1 + k
      BY <3>1
    <3>3. PerDay * n = PerDay * m + PerDay + PerDay * k /\ PerDay * k >= 0
      BY <1>1, <3>2
    <3>4. QED
      BY <1>1, <3>3
  <2>3. QED
    BY <1>1, <1>2, <2>1, <2>2
<1>3. s \in Nat /\ t \in Nat /\ s <= MaxSlot
  BY <1>1 DEF Slots
<1>4. Day(s) \in Nat /\ Day(MaxSlot) \in Nat /\ Day(s) <= Day(MaxSlot)
  BY <1>1, <1>2, <1>3, DayOf
<1>5. QED
  BY <1>2, <1>3, <1>4 DEF Days

\* The timer is set within a day.
LEMMA UntilDailyTyped ==
  ASSUME slot \in Slots
  PROVE  UntilDaily \in 1 .. PerDay /\ UntilDaily \in Timers /\ Hour \in 0 .. PerDay - 1
<1>1. /\ PerDay \in Nat \ {0} /\ DailySlot \in 0 .. PerDay - 1
      /\ Hour \in 0 .. PerDay - 1
  BY MaintenanceNumbers, DayOf DEF Slots, Hour
<1>2. UntilDaily \in 1 .. PerDay
  BY <1>1 DEF UntilDaily
<1>3. QED
  BY <1>1, <1>2 DEF Timers

\* A trouble that happens is counted within its bound.
LEMMA HappensTyped ==
  ASSUME trouble \in [Troubles -> 0 .. MaxTrouble], NEW kind \in Troubles, Happens(kind)
  PROVE  trouble' \in [Troubles -> 0 .. MaxTrouble]
<1>1. /\ \A k \in Troubles : trouble[k] \in Nat
      /\ trouble["failure"] + trouble["shutdown"] + trouble["crash"] + trouble["damage"]
           + trouble["clock"] < MaxTrouble
      /\ trouble' = [trouble EXCEPT ![kind] = trouble[kind] + 1]
  BY MaintenanceNumbers DEF Happens
<1>2. /\ trouble["failure"] \in Nat /\ trouble["shutdown"] \in Nat /\ trouble["crash"] \in Nat
      /\ trouble["damage"] \in Nat /\ trouble["clock"] \in Nat
  BY <1>1 DEF Troubles
<1>3. trouble[kind] < MaxTrouble
  BY <1>1, <1>2, MaintenanceNumbers DEF Troubles
<1>4. trouble[kind] + 1 \in 0 .. MaxTrouble
  BY <1>1, <1>3, MaintenanceNumbers
<1>5. QED
  BY <1>1, <1>4

\* The largest of a set of slots is one of them, and none is after it.
LEMMA LargestTyped ==
  ASSUME NEW S \in SUBSET Slots
  PROVE  /\ Largest(S) \in Slots \cup {NoSlot}
         /\ S = {} => Largest(S) = NoSlot
         /\ S # {} => Largest(S) \in S /\ Largest(S) # NoSlot /\ \A j \in S : j <= Largest(S)
<1>1. MaxSlot \in Nat /\ Slots = 0 .. MaxSlot /\ NoSlot \notin Slots
  BY MaintenanceNumbers DEF Slots
<1>2. CASE S = {}
  BY <1>2 DEF Largest
<1>3. CASE S # {}
  <2>1. Max(S) \in S /\ \A j \in S : j <= Max(S)
    BY <1>1, <1>3, GreatestOf
  <2>2. QED
    BY <1>1, <1>3, <2>1 DEF Largest
<1>4. QED
  BY <1>2, <1>3

\* What the verification finds of the last success.
LEMMA FilesTyped ==
  ASSUME MaintenanceTyped
  PROVE  /\ Reference \in Slots \cup {NoSlot} /\ Files \in Disk
         /\ Reference # NoSlot => Reference \in succeeded /\ Files = directory[Reference]
         /\ Reference = NoSlot => Files = "none"
         /\ CacheAfter \in Caches
<1>1. /\ Reference \in Slots \cup {NoSlot}
      /\ Reference # NoSlot => Reference \in succeeded
  BY LargestTyped DEF Reference, MaintenanceTyped
<1>2. Files \in Disk
  BY <1>1 DEF Files, MaintenanceTyped, Disk
<1>3. CacheAfter \in Caches
  BY <1>1, <1>2 DEF CacheAfter, NoCache, Caches, Disk
<1>4. QED
  BY <1>1, <1>2, <1>3 DEF Files

\* A backup that ends keeps its rows typed.
LEMMA EndsTyped ==
  ASSUME MaintenanceTyped, NEW outcome \in {"succeeded", "failed", "lost"}, Ends(outcome)
  PROVE  /\ outcomes' \in [Slots -> Results]
         /\ succeeded' \subseteq Slots /\ backingUp' \in BackingUps
<1>1. backingUp.at \in Slots /\ slot \in Slots
  BY DEF MaintenanceTyped, BackingUps
<1>2. (IF server = "stopping" THEN NoSlot ELSE UntilDaily) \in Timers /\ 0 \in Slots
  BY <1>1, UntilDailyTyped, MaintenanceNumbers DEF Timers, Slots
<1>3. /\ outcomes' = [outcomes EXCEPT ![backingUp.at] =
                           IF outcome = "lost" /\ outcomes[backingUp.at] # "none"
                           THEN outcomes[backingUp.at] ELSE outcome]
      /\ succeeded' = IF outcome = "succeeded" THEN succeeded \cup {backingUp.at} ELSE succeeded
      /\ backingUp' = [timer |-> IF server = "stopping" THEN NoSlot ELSE UntilDaily,
                       step |-> "idle", at |-> 0]
  BY DEF Ends
<1>4. backingUp' \in BackingUps
  BY <1>2, <1>3 DEF BackingUps
<1>5. outcomes' \in [Slots -> Results]
  BY <1>1, <1>3 DEF MaintenanceTyped, Results
<1>6. QED
  BY <1>1, <1>3, <1>4, <1>5 DEF MaintenanceTyped

\* The recovery of the runs that never ended, and the timer after a run.
LEMMA RetentionTyped ==
  ASSUME MaintenanceTyped
  PROVE  RunsRecovered \in [Days -> Endings] /\ RetentionDone \in Retainings
<1>1. slot \in Slots /\ NoSlot \in Timers /\ UntilDaily \in Timers
  BY UntilDailyTyped DEF MaintenanceTyped, Timers
<1>2. ASSUME NEW d \in Days
      PROVE  (IF retentions[d].status = "running" /\ d < Day(slot)
              THEN [status |-> "failed", at |-> slot] ELSE retentions[d]) \in Endings
  BY <1>1 DEF Endings, MaintenanceTyped
<1>3. RunsRecovered \in [Days -> Endings]
  BY <1>2 DEF RunsRecovered
<1>4. RetentionDone \in Retainings
  BY <1>1 DEF RetentionDone, Retainings
<1>5. QED
  BY <1>3, <1>4

\* The initial states are typed.
LEMMA MaintenanceTypedInit == MaintenanceInit => MaintenanceTyped
<1> SUFFICES ASSUME MaintenanceInit PROVE MaintenanceTyped
  OBVIOUS
<1>1. /\ 0 \in Slots /\ NoSlot \in Timers /\ 0 \in 0 .. MaxTrouble
  BY MaintenanceNumbers DEF Slots, Timers
<1>2. retaining \in Retainings /\ backingUp \in BackingUps
  BY <1>1 DEF MaintenanceInit, Retainings, BackingUps
<1>3. retentions \in [Days -> Endings]
  BY <1>1 DEF MaintenanceInit, Endings
<1>4. cache \in Caches /\ health \in Checks
  BY <1>1 DEF MaintenanceInit, Caches, Checks, NoCache
<1>5. trouble \in [Troubles -> 0 .. MaxTrouble]
  BY <1>1 DEF MaintenanceInit
<1>6. QED
  BY <1>1, <1>2, <1>3, <1>4, <1>5 DEF MaintenanceInit, MaintenanceTyped, Disk, Results

\* Every step keeps the types.
LEMMA MaintenanceTypedNext == MaintenanceTyped /\ [MaintenanceNext]_maintenanceVars => MaintenanceTyped'
<1> SUFFICES ASSUME MaintenanceTyped, [MaintenanceNext]_maintenanceVars PROVE MaintenanceTyped'
  OBVIOUS
<1>0. /\ slot \in Slots /\ Day(slot) \in Days /\ NoSlot \in Timers /\ UntilDaily \in Timers
      /\ 0 \in Slots
      /\ retaining \in Retainings /\ backingUp \in BackingUps /\ backingUp.at \in Slots
  BY MaintenanceNumbers, DayTyped, UntilDailyTyped DEF MaintenanceTyped, Timers, Slots, BackingUps
<1>a. ASSUME NEW s \in {"none", "running", "succeeded", "failed"}
      PROVE  [retentions EXCEPT ![Day(slot)] = [status |-> s, at |-> slot]] \in [Days -> Endings]
  <2>1. [status |-> s, at |-> slot] \in Endings
    BY <1>0 DEF Endings
  <2>2. QED
    BY <2>1 DEF MaintenanceTyped
<1>b. ASSUME NEW t \in Timers
      PROVE  /\ [retaining EXCEPT !.timer = t] \in Retainings
             /\ [backingUp EXCEPT !.timer = t] \in BackingUps
             /\ [timer |-> t, step |-> "idle"] \in Retainings
             /\ [timer |-> t, step |-> "claimed"] \in Retainings
             /\ [timer |-> t, step |-> "idle", at |-> 0] \in BackingUps
             /\ [timer |-> t, step |-> "begun", at |-> slot] \in BackingUps
  BY <1>0 DEF Retainings, BackingUps
<1>1. CASE BeginRetention
  <2>1. retaining' \in Retainings /\ claimed' \in Days \cup {NoDay}
    BY <1>0, <1>1, <1>b DEF BeginRetention, MaintenanceTyped
  <2>2. QED
    BY <1>1, <2>1, RetentionTyped DEF BeginRetention, MaintenanceTyped
<1>21. CASE RetentionFails
  <2>1. retentions' \in [Days -> Endings]
    BY <1>21, RetentionTyped DEF RetentionFails, MaintenanceTyped
  <2>2. trouble' \in [Troubles -> 0 .. MaxTrouble]
    BY <1>21, HappensTyped DEF RetentionFails, MaintenanceTyped, Troubles
  <2>3. retaining' \in Retainings
    BY <1>0, <1>21 DEF RetentionFails, Retainings
  <2>4. QED
    BY <1>21, <2>1, <2>2, <2>3 DEF RetentionFails, MaintenanceTyped
<1>2. CASE RunRetention
  <2>1. retaining' \in Retainings
    <3>1. [retaining EXCEPT !.step = "running"] \in Retainings
      BY <1>0 DEF Retainings
    <3>2. QED
      BY <1>2, <3>1, RetentionTyped DEF RunRetention
  <2>2. retentions' \in [Days -> Endings]
    BY <1>2, <1>a DEF RunRetention, MaintenanceTyped
  <2>3. runs' \in [Days -> Nat]
    BY <1>0, <1>2 DEF RunRetention, MaintenanceTyped
  <2>4. trouble' \in [Troubles -> 0 .. MaxTrouble]
    BY <1>2, HappensTyped DEF RunRetention, MaintenanceTyped, Troubles
  <2>5. QED
    BY <1>2, <2>1, <2>2, <2>3, <2>4 DEF RunRetention, MaintenanceTyped
<1>3. CASE EndRetention
  <2>1. retaining' \in Retainings
    BY <1>3, RetentionTyped DEF EndRetention
  <2>2. retentions' \in [Days -> Endings]
    BY <1>3, <1>a DEF EndRetention, MaintenanceTyped
  <2>3. trouble' \in [Troubles -> 0 .. MaxTrouble]
    BY <1>3, HappensTyped DEF EndRetention, MaintenanceTyped, Troubles
  <2>4. QED
    BY <1>3, <2>1, <2>2, <2>3 DEF EndRetention, MaintenanceTyped
<1>4. CASE StartBackups
  <2>1. backingUp' \in BackingUps /\ retaining' \in Retainings
    BY <1>0, <1>4, <1>b DEF StartBackups
  <2>2. trouble' \in [Troubles -> 0 .. MaxTrouble]
    BY <1>4, HappensTyped DEF StartBackups, MaintenanceTyped, Troubles
  <2>3. QED
    BY <1>4, <2>1, <2>2, FilesTyped DEF StartBackups, MaintenanceTyped
<1>5. CASE BackupTimer
  BY <1>0, <1>5, <1>b DEF BackupTimer, MaintenanceTyped
<1>6. ASSUME NEW x \in Disk PROVE [directory EXCEPT ![backingUp.at] = x] \in [Slots -> Disk]
  BY <1>6 DEF MaintenanceTyped
<1>7. ASSUME NEW step \in {"copying", "pruning"} PROVE [backingUp EXCEPT !.step = step] \in BackingUps
  BY <1>0 DEF BackingUps
<1>8. CASE MakeDirectory
  <2>1. CASE directory[backingUp.at] = "none"
    <3>1. directory' \in [Slots -> Disk] /\ backingUp' \in BackingUps
      BY <1>6, <1>7, <1>8, <2>1 DEF MakeDirectory, Disk
    <3>2. QED
      BY <1>8, <2>1, <3>1 DEF MakeDirectory, MaintenanceTyped
  <2>2. CASE directory[backingUp.at] # "none"
    <3>1. (Ends("failed") \/ Ends("lost")) /\ UNCHANGED directory
      BY <1>8, <2>2 DEF MakeDirectory
    <3>2. trouble' \in [Troubles -> 0 .. MaxTrouble]
      BY <1>8, <2>2, HappensTyped DEF MakeDirectory, MaintenanceTyped, Troubles
    <3>3. QED
      BY <1>8, <3>1, <3>2, EndsTyped DEF MakeDirectory, MaintenanceTyped
  <2>3. QED
    BY <2>1, <2>2
<1>9. CASE CompleteBackup
  <2>1. CASE /\ directory' = [directory EXCEPT ![backingUp.at] = "whole"]
             /\ backingUp' = [backingUp EXCEPT !.step = "pruning"]
             /\ UNCHANGED <<outcomes, succeeded, trouble>>
    <3>1. directory' \in [Slots -> Disk] /\ backingUp' \in BackingUps
      BY <1>6, <1>7, <2>1 DEF Disk
    <3>2. QED
      BY <1>9, <2>1, <3>1 DEF CompleteBackup, MaintenanceTyped
  <2>2. CASE /\ directory' = [directory EXCEPT ![backingUp.at] = "none"]
             /\ Ends("failed") \/ Ends("lost")
             /\ Happens("failure")
    <3>1. directory' \in [Slots -> Disk]
      BY <1>6, <2>2 DEF Disk
    <3>2. trouble' \in [Troubles -> 0 .. MaxTrouble]
      BY <2>2, HappensTyped DEF MaintenanceTyped, Troubles
    <3>3. QED
      BY <1>9, <2>2, <3>1, <3>2, EndsTyped DEF CompleteBackup, MaintenanceTyped
  <2>3. QED
    BY <1>9, <2>1, <2>2 DEF CompleteBackup
<1>10. CASE PruneBackups
  <2>1. PICK gone \in SUBSET (Whole \ Selected(backingUp.at)) :
            /\ directory' = [s \in Slots |-> IF s \in gone THEN "none" ELSE directory[s]]
            /\ \/ gone = Whole \ Selected(backingUp.at) /\ Ends("succeeded") /\ UNCHANGED trouble
               \/ (Ends("failed") \/ Ends("lost")) /\ Happens("failure")
    BY <1>10 DEF PruneBackups
  <2>2. directory' \in [Slots -> Disk]
    BY <2>1 DEF MaintenanceTyped, Disk
  <2>3. trouble' \in [Troubles -> 0 .. MaxTrouble]
    BY <2>1, HappensTyped DEF MaintenanceTyped, Troubles
  <2>4. QED
    BY <1>10, <2>1, <2>2, <2>3, EndsTyped DEF PruneBackups, MaintenanceTyped
<1>11. CASE CheckHealth
  <2>1. retaining' \in Retainings /\ backingUp' \in BackingUps
    BY <1>0, <1>11, <1>b DEF CheckHealth
  <2>2. health' \in Checks
    <3> DEFINE failed == LatestOutcomeFailed \/ UnresolvedRetention
    <3>1. Stale \in BOOLEAN /\ failed \in BOOLEAN
      BY DEF Stale
    <3>2. health' = health \/ health' = [at |-> slot, stale |-> Stale, failed |-> failed]
      BY <1>11 DEF CheckHealth
    <3> HIDE DEF failed
    <3>3. [at |-> slot, stale |-> Stale, failed |-> failed] \in Checks
      BY <1>0, <3>1 DEF Checks
    <3>4. QED
      BY <3>2, <3>3 DEF MaintenanceTyped
  <2>3. cache' \in Caches /\ server' \in {"up", "stopping"}
    BY <1>11, FilesTyped DEF CheckHealth
  <2>4. trouble' \in [Troubles -> 0 .. MaxTrouble]
    BY <1>11, HappensTyped DEF CheckHealth, MaintenanceTyped, Troubles
  <2>5. QED
    BY <1>11, <2>1, <2>2, <2>3, <2>4 DEF CheckHealth, MaintenanceTyped
<1>12. CASE Start
  <2>1. NoCache \in Caches
    BY DEF NoCache, Caches
  <2>2. QED
    BY <1>12, <2>1 DEF Start, MaintenanceTyped
<1>13. CASE StartNext
  BY <1>13 DEF StartNext, MaintenanceTyped
<1>22. CASE Stopped
  <2>1. retaining' \in Retainings
    BY <1>0, <1>22 DEF Stopped, Retainings
  <2>2. QED
    BY <1>22, <2>1 DEF Stopped, MaintenanceTyped
<1>14. CASE Shutdown
  <2>1. trouble' \in [Troubles -> 0 .. MaxTrouble]
    BY <1>14, HappensTyped DEF Shutdown, MaintenanceTyped, Troubles
  <2>2. QED
    BY <1>0, <1>14, <1>b, <2>1 DEF Shutdown, MaintenanceTyped
<1>15. CASE ServerCrash
  <2>1. trouble' \in [Troubles -> 0 .. MaxTrouble]
    BY <1>15, HappensTyped DEF ServerCrash, MaintenanceTyped, Troubles
  <2>2. QED
    BY <1>0, <1>15, <1>b, <2>1 DEF ServerCrash, MaintenanceTyped
<1>16. CASE SlotPasses
  <2>1. /\ slot' = slot + 1 /\ slot < MaxSlot
        /\ 0 \notin {retaining.timer, backingUp.timer}
        /\ retaining' = [retaining EXCEPT !.timer =
                             IF retaining.timer = NoSlot THEN NoSlot ELSE retaining.timer - 1]
        /\ backingUp' = [backingUp EXCEPT !.timer =
                             IF backingUp.timer = NoSlot THEN NoSlot ELSE backingUp.timer - 1]
    BY <1>16 DEF SlotPasses
  <2>2. slot' \in Slots
    BY <1>0, <2>1, MaintenanceNumbers DEF Slots
  <2>3. ASSUME NEW t \in Timers, t # 0 PROVE (IF t = NoSlot THEN NoSlot ELSE t - 1) \in Timers
    BY <2>3, MaintenanceNumbers DEF Timers
  <2>4. retaining.timer \in Timers /\ backingUp.timer \in Timers
    BY <1>0 DEF Retainings, BackingUps
  <2>5. retaining' \in Retainings /\ backingUp' \in BackingUps
    BY <1>b, <2>1, <2>3, <2>4
  <2>6. QED
    BY <1>16, <2>2, <2>5 DEF SlotPasses, MaintenanceTyped
<1>17. CASE ClockStepsBack
  <2>1. slot' \in Slots
    BY <1>0, <1>17, MaintenanceNumbers DEF ClockStepsBack, Slots
  <2>2. trouble' \in [Troubles -> 0 .. MaxTrouble]
    BY <1>17, HappensTyped DEF ClockStepsBack, MaintenanceTyped, Troubles
  <2>3. QED
    BY <1>17, <2>1, <2>2 DEF ClockStepsBack, MaintenanceTyped
<1>18. CASE Damage
  <2>1. PICK s \in Whole, left \in {"none", "damaged"} : directory' = [directory EXCEPT ![s] = left]
    BY <1>18 DEF Damage
  <2>2. directory' \in [Slots -> Disk]
    BY <2>1 DEF MaintenanceTyped, Disk
  <2>3. trouble' \in [Troubles -> 0 .. MaxTrouble]
    BY <1>18, HappensTyped DEF Damage, MaintenanceTyped, Troubles
  <2>4. QED
    BY <1>18, <2>2, <2>3 DEF Damage, MaintenanceTyped
<1>19. CASE UNCHANGED maintenanceVars
  BY <1>19 DEF maintenanceVars, MaintenanceTyped
<1>20. QED
  BY <1>1, <1>2, <1>3, <1>4, <1>5, <1>8, <1>9, <1>10, <1>11, <1>12, <1>13, <1>14, <1>15, <1>16, <1>17,
     <1>18, <1>19, <1>21, <1>22 DEF MaintenanceNext, Retains, BacksUp

(* The coordinators, the backups on disk and what the two databases say of *)
(* them keep to their domains, for any length of the day and the history.  *)
THEOREM MaintenanceTypes == MaintenanceSpec => []MaintenanceTypeOK
<1>1. MaintenanceTyped => MaintenanceTypeOK
  BY DEF MaintenanceTyped, MaintenanceTypeOK, Retainings, BackingUps, Endings, Caches, Checks, Disk, Results
<1>2. QED
  BY <1>1, MaintenanceTypedInit, MaintenanceTypedNext, PTL DEF MaintenanceSpec

-----------------------------------------------------------------------------
\* The next slot is the next hour of the day, or the first of the next.
LEMMA NextHour ==
  ASSUME NEW s \in Nat
  PROVE  \/ /\ (s % PerDay) + 1 < PerDay
            /\ (s + 1) % PerDay = (s % PerDay) + 1 /\ Day(s + 1) = Day(s)
         \/ /\ (s % PerDay) + 1 = PerDay
            /\ (s + 1) % PerDay = 0 /\ Day(s + 1) = Day(s) + 1
<1> DEFINE q == Day(s)
           r == s % PerDay
           p == Day(s + 1)
           t == (s + 1) % PerDay
<1>1. /\ q \in Nat /\ r \in 0 .. PerDay - 1 /\ s = (PerDay * q) + r
      /\ p \in Nat /\ t \in 0 .. PerDay - 1 /\ s + 1 = (PerDay * p) + t
      /\ PerDay \in Nat \ {0}
  <2>1. s + 1 \in Nat
    OBVIOUS
  <2>2. q \in Nat /\ r \in 0 .. PerDay - 1 /\ s = (PerDay * q) + r
    BY DayOf
  <2>3. p \in Nat /\ t \in 0 .. PerDay - 1 /\ s + 1 = (PerDay * p) + t
    BY <2>1, DayOf
  <2>4. QED
    BY <2>2, <2>3, MaintenanceNumbers
<1> HIDE DEF q, r, p, t
<1>2. ASSUME NEW m \in Nat, NEW n \in Nat, m < n PROVE (PerDay * m) + PerDay <= PerDay * n
  <2>1. n - (m + 1) \in Nat /\ n = m + 1 + (n - (m + 1))
    BY <1>2
  <2>2. PICK k \in Nat : n = m + 1 + k
    BY <2>1
  <2>3. PerDay * n = (PerDay * m) + PerDay + (PerDay * k) /\ PerDay * k >= 0
    BY <1>1, <2>2
  <2>4. QED
    BY <1>1, <2>3
<1>3. PerDay * q \in Nat /\ PerDay * p \in Nat
  BY <1>1
<1>4. CASE r + 1 < PerDay
  <2>1. ~(p < q) /\ ~(q < p)
    BY <1>1, <1>2, <1>3, <1>4
  <2>2. p = q
    BY <1>1, <2>1
  <2>3. t = r + 1
    BY <1>1, <1>3, <2>2
  <2>4. QED
    BY <1>4, <2>2, <2>3 DEF q, r, p, t
<1>5. CASE r + 1 = PerDay
  <2>1. PerDay * (q + 1) = (PerDay * q) + PerDay
    BY <1>1
  <2>2. s + 1 = PerDay * (q + 1)
    BY <1>1, <1>3, <1>5, <2>1
  <2>3. ~(p < q + 1) /\ ~(q + 1 < p)
    BY <1>1, <1>2, <1>3, <2>1, <2>2
  <2>4. p = q + 1
    BY <1>1, <2>3
  <2>5. t = 0
    BY <1>1, <1>3, <2>2, <2>4
  <2>6. QED
    BY <1>5, <2>4, <2>5 DEF q, r, p, t
<1>6. QED
  BY <1>1, <1>4, <1>5 DEF r

\* When the timer of the retention fires, unless the clock is set back.
Timed(timer, s, day) ==
    \/ s % PerDay < DailySlot /\ timer = DailySlot - (s % PerDay)
    \/ s % PerDay >= DailySlot /\ Day(s) = day /\ timer = DailySlot + PerDay - (s % PerDay)
    \/ s % PerDay = DailySlot /\ timer = 0

\* A day is claimed once, before it is run and after all days before it, and
\* the timer that is set points at the hour of the next one.
RetainsDaily ==
    /\ \A d \in Days : runs[d] <= 1 /\ (d > claimed => runs[d] = 0)
    /\ retaining.step = "claimed" => runs[Day(slot)] = 0
    /\ retaining.step \in {"claimed", "running"} => Day(slot) = claimed
    /\ trouble["clock"] = 0 /\ retaining.timer # NoSlot => Timed(retaining.timer, slot, claimed)
    /\ server \in {"backup", "health", "up"} /\ retaining.step = "idle" => retaining.timer # NoSlot

\* A timer that is set points at the next hour not yet claimed.
LEMMA UntilDailyTimed ==
  ASSUME MaintenanceTyped
  PROVE  /\ UntilDaily # NoSlot
         /\ (Hour >= DailySlot => Day(slot) = claimed) => Timed(UntilDaily, slot, claimed)
<1>1. /\ Hour \in Nat /\ DailySlot \in Nat /\ PerDay \in Nat /\ UntilDaily \in 1 .. PerDay
  BY UntilDailyTyped, MaintenanceNumbers DEF MaintenanceTyped
<1>2. UntilDaily # NoSlot
  BY <1>1, MaintenanceNumbers
<1>3. UntilDaily = IF Hour < DailySlot THEN DailySlot - Hour ELSE DailySlot + PerDay - Hour
  BY <1>1 DEF UntilDaily
<1>4. QED
  BY <1>1, <1>2, <1>3 DEF Timed, Hour

\* A timer that is set for an hour still is, a slot before it.
LEMMA NextTimed ==
  ASSUME NEW s \in Nat, NEW timer \in Nat \ {0}, NEW day, Timed(timer, s, day)
  PROVE  Timed(timer - 1, s + 1, day)
<1>1. /\ s % PerDay \in 0 .. PerDay - 1 /\ (s + 1) % PerDay \in 0 .. PerDay - 1
      /\ DailySlot \in 0 .. PerDay - 1 /\ PerDay \in Nat \ {0}
  <2>1. s + 1 \in Nat
    OBVIOUS
  <2>2. s % PerDay \in 0 .. PerDay - 1
    BY DayOf
  <2>3. (s + 1) % PerDay \in 0 .. PerDay - 1
    BY <2>1, DayOf
  <2>4. QED
    BY <2>2, <2>3, MaintenanceNumbers
<1> DEFINE h == s % PerDay
           g == (s + 1) % PerDay
<1>2. \/ h + 1 < PerDay /\ g = h + 1 /\ Day(s + 1) = Day(s)
      \/ h + 1 = PerDay /\ g = 0
  BY NextHour
<1>3. \/ h < DailySlot /\ timer = DailySlot - h
      \/ h >= DailySlot /\ Day(s) = day /\ timer = DailySlot + PerDay - h
  BY <1>1 DEF Timed
<1>4. /\ h \in 0 .. PerDay - 1 /\ g \in 0 .. PerDay - 1
      /\ DailySlot \in 0 .. PerDay - 1 /\ PerDay \in Nat \ {0}
  BY <1>1
<1> HIDE DEF h, g
<1>5. \/ g < DailySlot /\ timer - 1 = DailySlot - g
      \/ g >= DailySlot /\ Day(s + 1) = day /\ timer - 1 = DailySlot + PerDay - g
      \/ g = DailySlot /\ timer - 1 = 0
  <2>1. CASE h + 1 < PerDay /\ g = h + 1 /\ Day(s + 1) = Day(s)
    BY <1>3, <1>4, <2>1
  <2>2. CASE h + 1 = PerDay /\ g = 0
    BY <1>3, <1>4, <2>2
  <2>3. QED
    BY <1>2, <2>1, <2>2
<1>6. QED
  BY <1>5 DEF Timed, g

\* Every step keeps the retention daily.
LEMMA RetainsDailyNext ==
  MaintenanceTyped /\ RetainsDaily /\ [MaintenanceNext]_maintenanceVars => RetainsDaily'
<1> SUFFICES ASSUME MaintenanceTyped, RetainsDaily, [MaintenanceNext]_maintenanceVars
             PROVE  RetainsDaily'
  OBVIOUS
<1>0. /\ slot \in Slots /\ slot \in Nat /\ Day(slot) \in Days /\ retaining \in Retainings
      /\ runs \in [Days -> Nat] /\ trouble \in [Troubles -> 0 .. MaxTrouble]
      /\ UntilDaily # NoSlot /\ claimed \in Int /\ \A d \in Days : d \in Int
  BY DayTyped, UntilDailyTimed, MaintenanceNumbers DEF MaintenanceTyped, Slots, Days, NoDay
<1>b. ASSUME UNCHANGED <<slot, claimed, runs, retaining>>, trouble'["clock"] = trouble["clock"],
             \/ server' \notin {"backup", "health", "up"}
             \/ server \in {"backup", "health", "up"}
             \/ retaining.timer # NoSlot
      PROVE  RetainsDaily'
  BY <1>b DEF RetainsDaily
<1>c. ASSUME NEW kind \in Troubles \ {"clock"}, Happens(kind) PROVE trouble'["clock"] = trouble["clock"]
  BY <1>0, <1>c DEF Happens, Troubles
<1>1. CASE BeginRetention
  <2>1. /\ retaining.step = "idle" /\ UNCHANGED <<slot, server, runs, trouble>>
    BY <1>1 DEF BeginRetention, DailyCycle
  <2>2. CASE Due /\ Day(slot) # claimed
    <3>1. claimed' = Day(slot) /\ retaining' = [timer |-> NoSlot, step |-> "claimed"]
      BY <1>1, <2>2 DEF BeginRetention
    <3>2. Day(slot) > claimed
      BY <1>0, <1>1, <2>2 DEF BeginRetention, ClaimThrows
    <3>3. \A d \in Days : runs[d] <= 1 /\ (d >= Day(slot) => runs[d] = 0)
      BY <1>0, <3>2 DEF RetainsDaily
    <3>4. QED
      BY <1>0, <2>1, <3>1, <3>3 DEF RetainsDaily
  <2>3. CASE ~(Due /\ Day(slot) # claimed)
    <3>1. UNCHANGED claimed /\ retaining' = [retaining EXCEPT !.timer = UntilDaily]
      BY <1>1, <2>3 DEF BeginRetention
    <3>2. retaining'.timer = UntilDaily /\ retaining'.step = "idle"
      BY <1>0, <2>1, <3>1 DEF Retainings
    <3>3. Timed(UntilDaily, slot, claimed)
      BY <2>3, UntilDailyTimed DEF Due
    <3>4. Timed(UntilDaily, slot', claimed')
      BY <2>1, <3>1, <3>3 
    <3>5. Timed(retaining'.timer, slot', claimed')
      BY <2>1, <3>1, <3>2, <3>3 
    <3>6. QED
      BY <1>0, <2>1, <3>1, <3>2, <3>5 DEF RetainsDaily
  <2>4. QED
    BY <2>2, <2>3
<1>21. CASE RetentionFails
  <2>1. /\ UNCHANGED <<slot, claimed, runs>>
        /\ retaining' = [timer |-> NoSlot, step |-> "failed"]
    BY <1>21 DEF RetentionFails
  <2>2. QED
    BY <2>1 DEF RetainsDaily
<1>2. ASSUME RunRetention \/ EndRetention, retaining' = RetentionDone,
             trouble'["clock"] = trouble["clock"],
             \A d \in Days : runs'[d] <= 1 /\ (d > claimed => runs'[d] = 0)
      PROVE  RetainsDaily'
  <2>0. retaining'.step = "idle"
        /\ retaining'.timer = IF server = "stopping" THEN NoSlot ELSE UntilDaily
    BY <1>2 DEF RetentionDone
  <2>1. UNCHANGED <<slot, server, claimed>> /\ Day(slot) = claimed
    BY <1>2 DEF RunRetention, EndRetention, RetainsDaily
  <2>2. Timed(UntilDaily, slot, claimed)
    BY <2>1, UntilDailyTimed
  <2>3. retaining'.timer # NoSlot => Timed(retaining'.timer, slot', claimed')
    BY <2>0, <2>1, <2>2
  <2>4. QED
    BY <1>0, <1>2, <2>0, <2>1, <2>3 DEF RetainsDaily
<1>3. CASE RunRetention
  <2>1. /\ retaining.step = "claimed" /\ UNCHANGED <<slot, server, claimed>>
        /\ runs' = [runs EXCEPT ![Day(slot)] = @ + 1]
    BY <1>3 DEF RunRetention
  <2>2. runs[Day(slot)] = 0 /\ Day(slot) = claimed
    BY <2>1 DEF RetainsDaily
  <2>3. ASSUME NEW d \in Days PROVE runs'[d] <= 1 /\ (d > claimed => runs'[d] = 0)
    BY <1>0, <2>1, <2>2 DEF RetainsDaily
  <2>4. trouble'["clock"] = trouble["clock"]
    BY <1>3, <1>c DEF RunRetention, Troubles
  <2>5. CASE retaining' = RetentionDone
    BY <1>2, <1>3, <2>3, <2>4, <2>5
  <2>6. CASE retaining' = [retaining EXCEPT !.step = "running"]
    <3>1. retaining'.step = "running" /\ retaining'.timer = retaining.timer
      BY <1>0, <2>6 DEF Retainings
    <3>2. retaining'.timer # NoSlot /\ trouble'["clock"] = 0 => Timed(retaining'.timer, slot', claimed')
      BY <2>1, <2>4, <3>1 DEF RetainsDaily
    <3>3. QED
      BY <2>1, <2>2, <2>3, <3>1, <3>2 DEF RetainsDaily
  <2>7. QED
    BY <1>3, <2>5, <2>6 DEF RunRetention
<1>4. CASE EndRetention
  <2>1. retaining' = RetentionDone /\ UNCHANGED <<claimed, runs>>
    BY <1>4 DEF EndRetention
  <2>2. trouble'["clock"] = trouble["clock"]
    BY <1>4, <1>c DEF EndRetention, Troubles
  <2>3. QED
    BY <1>2, <1>4, <2>1, <2>2 DEF RetainsDaily
<1>5. CASE StartBackups
  <2>1. UNCHANGED <<slot, claimed, runs>> /\ server = "backup"
    BY <1>5 DEF StartBackups
  <2>2. trouble'["clock"] = trouble["clock"]
    BY <1>5, <1>c DEF StartBackups, Troubles
  <2>3. CASE retaining' = [retaining EXCEPT !.timer = NoSlot] /\ server' = "stopping"
    <3>1. retaining'.timer = NoSlot /\ retaining'.step = retaining.step
      BY <1>0, <2>3 DEF Retainings
    <3>2. QED
      BY <2>1, <2>3, <3>1 DEF RetainsDaily
  <2>4. CASE UNCHANGED <<server, retaining>>
    BY <1>b, <2>1, <2>2, <2>4
  <2>5. QED
    BY <1>5, <2>3, <2>4 DEF StartBackups
<1>6. CASE BackupTimer
  BY <1>6, <1>b DEF BackupTimer
<1>7. CASE MakeDirectory \/ CompleteBackup \/ PruneBackups
  <2>1. trouble'["clock"] = trouble["clock"]
    BY <1>7, <1>c DEF MakeDirectory, CompleteBackup, PruneBackups, Troubles
  <2>2. QED
    BY <1>7, <1>b, <2>1 DEF MakeDirectory, CompleteBackup, PruneBackups
<1>8. CASE CheckHealth
  <2>1. UNCHANGED <<slot, claimed, runs>> /\ server \in {"health", "up"}
    BY <1>8 DEF CheckHealth
  <2>2. trouble'["clock"] = trouble["clock"]
    BY <1>8, <1>c DEF CheckHealth, Troubles
  <2>3. CASE retaining' = [retaining EXCEPT !.timer = NoSlot] /\ server' = "stopping"
    <3>1. retaining'.timer = NoSlot /\ retaining'.step = retaining.step
      BY <1>0, <2>3 DEF Retainings
    <3>2. QED
      BY <2>1, <2>3, <3>1 DEF RetainsDaily
  <2>4. CASE UNCHANGED retaining
    BY <1>b, <2>1, <2>2, <2>4
  <2>5. QED
    BY <1>8, <2>3, <2>4 DEF CheckHealth
<1>9. CASE Start
  BY <1>9, <1>b DEF Start
<1>22. CASE Stopped
  <2>1. /\ UNCHANGED <<slot, claimed, runs, trouble>> /\ server' = "down"
        /\ retaining' = [retaining EXCEPT !.step = "idle"]
    BY <1>22 DEF Stopped
  <2>2. retaining'.timer = retaining.timer /\ retaining'.step = "idle"
    BY <1>0, <2>1 DEF Retainings
  <2>3. QED
    BY <2>1, <2>2 DEF RetainsDaily
<1>10. CASE StartNext
  <2>1. UNCHANGED <<slot, claimed, runs, retaining, trouble>>
        /\ ((server = "retention" /\ retaining.timer # NoSlot) \/ server = "backup")
    BY <1>10 DEF StartNext, Started
  <2>2. QED
    BY <1>b, <2>1
<1>11. CASE Shutdown
  <2>1. /\ UNCHANGED <<slot, claimed, runs>> /\ server' = "stopping"
        /\ retaining' = [retaining EXCEPT !.timer = NoSlot]
    BY <1>11 DEF Shutdown
  <2>2. retaining'.timer = NoSlot /\ retaining'.step = retaining.step
    BY <1>0, <2>1 DEF Retainings
  <2>3. QED
    BY <2>1, <2>2 DEF RetainsDaily
<1>12. CASE ServerCrash
  <2>1. /\ UNCHANGED <<slot, claimed, runs>> /\ server' = "down"
        /\ retaining' = [timer |-> NoSlot, step |-> "idle"]
    BY <1>12 DEF ServerCrash
  <2>2. QED
    BY <2>1 DEF RetainsDaily
<1>13. CASE SlotPasses
  <2>1. /\ slot' = slot + 1 /\ slot < MaxSlot /\ retaining.step \in {"idle", "failed"}
        /\ retaining.timer # 0 /\ UNCHANGED <<server, claimed, runs, trouble>>
        /\ retaining' = [retaining EXCEPT !.timer =
                             IF retaining.timer = NoSlot THEN NoSlot ELSE retaining.timer - 1]
    BY <1>13 DEF SlotPasses, Idle
  <2>2. /\ retaining'.step = retaining.step /\ retaining.timer \in Timers
        /\ retaining'.timer = IF retaining.timer = NoSlot THEN NoSlot ELSE retaining.timer - 1
    BY <1>0, <2>1 DEF Retainings
  <2>3. retaining'.timer # NoSlot <=> retaining.timer # NoSlot
    BY <2>1, <2>2, MaintenanceNumbers DEF Timers
  <2>4. ASSUME trouble["clock"] = 0, retaining.timer # NoSlot
        PROVE  Timed(retaining'.timer, slot', claimed')
    <3>1. Timed(retaining.timer, slot, claimed) /\ retaining'.timer = retaining.timer - 1
      BY <2>2, <2>4 DEF RetainsDaily
    <3>2. slot \in Nat /\ slot' = slot + 1 /\ claimed' = claimed /\ retaining.timer \in Nat
          /\ retaining.timer # 0
      BY <1>0, <2>1, <2>2, MaintenanceNumbers DEF Timers
    <3>3. QED
      BY <3>1, <3>2, NextTimed
  <2>5. QED
    BY <2>1, <2>2, <2>3, <2>4 DEF RetainsDaily
<1>14. CASE ClockStepsBack
  <2>1. /\ retaining.step \in {"idle", "failed"} /\ UNCHANGED <<server, claimed, runs, retaining>>
        /\ Happens("clock")
    BY <1>14 DEF ClockStepsBack, Idle
  <2>2. trouble'["clock"] # 0
    <3>1. trouble["clock"] \in Nat /\ trouble'["clock"] = trouble["clock"] + 1
      BY <1>0, <2>1 DEF Happens, Troubles
    <3>2. QED
      BY <3>1
  <2>3. QED
    BY <2>1, <2>2 DEF RetainsDaily
<1>15. CASE Damage
  <2>1. trouble'["clock"] = trouble["clock"]
    BY <1>15, <1>c DEF Damage, Troubles
  <2>2. QED
    BY <1>15, <1>b, <2>1 DEF Damage
<1>16. CASE UNCHANGED maintenanceVars
  BY <1>16, <1>b DEF maintenanceVars
<1>17. QED
  BY <1>1, <1>21, <1>3, <1>4, <1>5, <1>6, <1>7, <1>8, <1>9, <1>22, <1>10, <1>11, <1>12, <1>13, <1>14,
     <1>15, <1>16 DEF MaintenanceNext, Retains, BacksUp

-----------------------------------------------------------------------------
\* A run that began and has not ended is of the last claimed day, one that
\* succeeded ended on its day, and one that failed no earlier.
RunsWritten ==
    \A d \in Days :
        /\ retentions[d].status # "none" => d <= claimed
        /\ retentions[d].status = "running" => d = claimed
        /\ retentions[d].status = "succeeded" => Day(retentions[d].at) = d
        /\ retentions[d].status = "failed" => Day(retentions[d].at) >= d

\* The recovery ends the runs of earlier days.
LEMMA RecoveryWritten ==
  ASSUME MaintenanceTyped, RunsWritten, NEW c \in {claimed, Day(slot)}, c >= claimed
  PROVE  \A d \in Days :
           /\ RunsRecovered[d].status # "none" => d <= c
           /\ RunsRecovered[d].status = "running" => d = c
           /\ RunsRecovered[d].status = "succeeded" => Day(RunsRecovered[d].at) = d
           /\ RunsRecovered[d].status = "failed" => Day(RunsRecovered[d].at) >= d
<1>1. claimed \in Int /\ Day(slot) \in Int /\ (\A d \in Days : d \in Int)
  BY DayTyped DEF MaintenanceTyped, Days, NoDay
<1>2. SUFFICES ASSUME NEW d \in Days
               PROVE  /\ RunsRecovered[d].status # "none" => d <= c
                      /\ RunsRecovered[d].status = "running" => d = c
                      /\ RunsRecovered[d].status = "succeeded" => Day(RunsRecovered[d].at) = d
                      /\ RunsRecovered[d].status = "failed" => Day(RunsRecovered[d].at) >= d
  OBVIOUS
<1>3. /\ retentions[d].status # "none" => d <= claimed
      /\ retentions[d].status = "running" => d = claimed
      /\ retentions[d].status = "succeeded" => Day(retentions[d].at) = d
      /\ retentions[d].status = "failed" => Day(retentions[d].at) >= d
  BY DEF RunsWritten
<1>4. CASE retentions[d].status = "running" /\ d < Day(slot)
  <2>1. RunsRecovered[d] = [status |-> "failed", at |-> slot]
    BY <1>4 DEF RunsRecovered
  <2>2. d <= c
    BY <1>1, <1>3, <1>4
  <2>3. QED
    BY <1>1, <1>4, <2>1, <2>2
<1>5. CASE ~(retentions[d].status = "running" /\ d < Day(slot))
  <2>1. RunsRecovered[d] = retentions[d]
    BY <1>5 DEF RunsRecovered
  <2>2. d <= claimed => d <= c
    BY <1>1
  <2>3. retentions[d].status = "running" => d = c
    BY <1>1, <1>3, <1>5
  <2>4. QED
    BY <1>3, <2>1, <2>2, <2>3
<1>6. QED
  BY <1>4, <1>5

\* Every step keeps what the runs have written.
LEMMA RunsWrittenNext ==
  MaintenanceTyped /\ RetainsDaily /\ RunsWritten /\ [MaintenanceNext]_maintenanceVars => RunsWritten'
<1> SUFFICES ASSUME MaintenanceTyped, RetainsDaily, RunsWritten, [MaintenanceNext]_maintenanceVars
             PROVE  RunsWritten'
  OBVIOUS
<1>1. /\ claimed \in Int /\ Day(slot) \in Int /\ Day(slot) \in Days /\ slot \in Slots
      /\ \A d \in Days : d \in Int
      /\ retentions \in [Days -> Endings]
  BY DayTyped DEF MaintenanceTyped, Days, NoDay
<1>2. ASSUME NEW status \in {"running", "succeeded", "failed"}, Day(slot) = claimed, claimed' = claimed,
             retentions' = [retentions EXCEPT ![Day(slot)] = [status |-> status, at |-> slot]]
      PROVE  RunsWritten'
  <2>1. ASSUME NEW d \in Days
        PROVE  retentions'[d] = IF d = Day(slot) THEN [status |-> status, at |-> slot] ELSE retentions[d]
    BY <1>1, <1>2
  <2>2. QED
    BY <1>1, <1>2, <2>1 DEF RunsWritten
<1>3. CASE BeginRetention
  <2>1. claimed' \in {claimed, Day(slot)} /\ claimed' >= claimed /\ retentions' = RunsRecovered
    BY <1>1, <1>3 DEF BeginRetention, ClaimThrows
  <2>2. QED
    BY <2>1, RecoveryWritten DEF RunsWritten
<1>4. CASE RetentionFails
  <2>1. claimed' = claimed /\ retentions' \in {retentions, RunsRecovered}
    BY <1>4 DEF RetentionFails
  <2>2. claimed >= claimed
    BY <1>1
  <2>3. QED
    BY <2>1, <2>2, RecoveryWritten DEF RunsWritten
<1>5. CASE RunRetention \/ EndRetention
  <2>1. Day(slot) = claimed /\ claimed' = claimed
    BY <1>5 DEF RunRetention, EndRetention, RetainsDaily
  <2>2. \/ retentions' = retentions
        \/ \E status \in {"running", "succeeded", "failed"} :
             retentions' = [retentions EXCEPT ![Day(slot)] = [status |-> status, at |-> slot]]
    BY <1>5 DEF RunRetention, EndRetention
  <2>3. QED
    BY <1>2, <2>1, <2>2 DEF RunsWritten
<1>6. CASE UNCHANGED <<claimed, retentions>>
  BY <1>6 DEF RunsWritten
<1>7. QED
  BY <1>3, <1>4, <1>5, <1>6 DEF MaintenanceNext, Retains, BacksUp, maintenanceVars, StartBackups, BackupTimer,
     MakeDirectory, CompleteBackup, PruneBackups, CheckHealth, Start, StartNext, Shutdown, Stopped,
     ServerCrash, SlotPasses, ClockStepsBack, Damage

\* Without an unresolved failure nothing is left undone: the success that
\* resolves it is of the day its end was written on, or of a later one.
LEMMA ResolvedIsDone ==
  ASSUME MaintenanceTyped, RunsWritten, ~UnresolvedRetention
  PROVE  NothingLeftUndone
<1>1. claimed \in Int /\ (\A d \in Days : d \in Int) /\ retentions \in [Days -> Endings]
  BY DEF MaintenanceTyped, Days, NoDay
<1>2. SUFFICES ASSUME NEW d \in Days, d < claimed, retentions[d].status # "none"
               PROVE  \E e \in Days : e >= d /\ retentions[e].status = "succeeded"
  BY DEF NothingLeftUndone
<1>3. retentions[d].status \in {"running", "succeeded", "failed"}
  BY <1>1, <1>2 DEF Endings
<1>4. CASE retentions[d].status = "succeeded"
  BY <1>1, <1>4
<1>5. CASE retentions[d].status = "failed"
  <2>1. PICK e \in Days : /\ retentions[e].status = "succeeded"
                          /\ ~(retentions[d].at > retentions[e].at)
    BY <1>5 DEF UnresolvedRetention
  <2>2. retentions[d].at \in Slots /\ retentions[e].at \in Slots
    BY <1>1, <2>1 DEF Endings
  <2>3. retentions[d].at <= retentions[e].at
    BY <2>1, <2>2 DEF Slots
  <2>4. Day(retentions[d].at) <= Day(retentions[e].at)
    BY <2>2, <2>3, DayTyped
  <2>5. /\ Day(retentions[e].at) = e /\ Day(retentions[d].at) >= d
        /\ Day(retentions[d].at) \in Days
    BY <1>5, <2>1, <2>2, DayTyped DEF RunsWritten
  <2>6. e >= d
    BY <1>1, <2>4, <2>5
  <2>7. QED
    BY <2>1, <2>6
<1>6. CASE retentions[d].status = "running"
  BY <1>1, <1>2, <1>6 DEF RunsWritten
<1>7. QED
  BY <1>3, <1>4, <1>5, <1>6

(* A check that raises no alert has found, at its time, a backup that is   *)
(* whole and fresh on the disk: what the cache of verifications says holds *)
(* of the files it is asked about.  And it has found no run of an earlier  *)
(* day left failed or without an end: the claim of a day comes after the   *)
(* recovery of the days before it, and a success ends on its day.          *)
THEOREM QuietChecks == MaintenanceSpec => QuietMeansBackedUp
<1> DEFINE Quiet == /\ health'.stale \/ \E s \in Whole' : slot' >= s /\ slot' - s <= Freshness
                    /\ health'.failed \/ NothingLeftUndone'
<1>1. ASSUME MaintenanceTyped, RunsWritten, [MaintenanceNext]_maintenanceVars, health' # health
      PROVE  Quiet
  <2>1. CheckHealth /\ ~Future /\ health' = [at |-> slot, stale |-> Stale,
                                              failed |-> LatestOutcomeFailed \/ UnresolvedRetention]
    BY <1>1 DEF MaintenanceNext, Retains, BacksUp, maintenanceVars, BeginRetention, RetentionFails,
       RunRetention, EndRetention, StartBackups, BackupTimer, MakeDirectory, CompleteBackup, PruneBackups,
       CheckHealth, Start, StartNext, Shutdown, Stopped, ServerCrash, SlotPasses, ClockStepsBack, Damage
  <2>2. health'.stale = Stale /\ UNCHANGED <<slot, directory, claimed, retentions>>
    BY <2>1 DEF CheckHealth
  <2>3. ASSUME ~Stale PROVE \E s \in Whole' : slot' >= s /\ slot' - s <= Freshness
    <3>1. Reference # NoSlot /\ Verified /\ Reference <= slot /\ slot - Reference <= Freshness
      <4>1. ~Missing /\ ~(Reference > slot) /\ ~(slot - Reference > Freshness)
        BY <2>1, <2>3 DEF Stale, Future
      <4>2. Reference # NoSlot /\ Verified
        BY <4>1 DEF Missing
      <4>3. Reference \in Nat /\ slot \in Nat
        BY <1>1, FilesTyped, MaintenanceNumbers DEF MaintenanceTyped, Slots
      <4>4. QED
        BY <4>1, <4>2, <4>3, MaintenanceNumbers
    <3>2. Files = "whole"
      <4>1. CASE cache = [of |-> Reference, files |-> Files]
        BY <3>1, <4>1 DEF Verified
      <4>2. CASE cache # [of |-> Reference, files |-> Files]
        BY <3>1, <4>2 DEF Verified
      <4>3. QED
        BY <4>1, <4>2
    <3>3. Reference \in Slots /\ directory[Reference] = "whole"
      BY <1>1, <3>1, <3>2, FilesTyped DEF MaintenanceTyped
    <3>4. Reference \in Whole'
      BY <2>2, <3>3 DEF Whole
    <3>5. slot' >= Reference /\ slot' - Reference <= Freshness
      BY <1>1, <2>2, <3>1, <3>3, MaintenanceNumbers DEF Slots, MaintenanceTyped
    <3>6. QED
      BY <3>4, <3>5
  <2>4. health'.failed \/ NothingLeftUndone'
    <3>1. CASE UnresolvedRetention
      BY <2>1, <3>1
    <3>2. CASE ~UnresolvedRetention
      <4>1. NothingLeftUndone
        BY <1>1, <3>2, ResolvedIsDone
      <4>2. QED
        BY <2>2, <4>1 DEF NothingLeftUndone
    <3>3. QED
      BY <3>1, <3>2
  <2>5. QED
    BY <2>2, <2>3, <2>4
<1>2. MaintenanceTyped /\ RunsWritten /\ [MaintenanceNext]_maintenanceVars =>
        [health' # health => Quiet]_maintenanceVars
  BY <1>1
<1>3. MaintenanceInit => RetainsDaily /\ RunsWritten
  BY DEF MaintenanceInit, RetainsDaily, RunsWritten
<1>4. QED
  BY <1>2, <1>3, MaintenanceTypedInit, MaintenanceTypedNext, RetainsDailyNext, RunsWrittenNext, PTL
     DEF MaintenanceSpec, QuietMeansBackedUp

-----------------------------------------------------------------------------
\* The timer of the backups fires while the last one on record is recent.
Recent(timer, s, rows) ==
    \E t \in Slots : rows[t] # "none" /\ t + Freshness + PerDay >= s + timer

BacksUpDaily ==
    /\ backingUp.step # "idle" => backingUp.at = slot
    /\ \A s \in succeeded : outcomes[s] # "none"
    /\ backingUp.timer # NoSlot => Recent(backingUp.timer, slot, outcomes)
    /\ server \in {"health", "up"} /\ backingUp.step = "idle" => backingUp.timer # NoSlot

\* A run that ends leaves a row of its slot, and a timer of a day at most.
LEMMA EndsRecently ==
  ASSUME MaintenanceTyped, BacksUpDaily, backingUp.step # "idle",
         NEW outcome \in {"succeeded", "failed", "lost"}, Ends(outcome),
         UNCHANGED <<slot, server>>
  PROVE  BacksUpDaily'
<1>1. /\ slot \in Slots /\ slot \in Nat /\ UntilDaily \in 1 .. PerDay /\ UntilDaily # NoSlot
      /\ outcomes \in [Slots -> Results] /\ succeeded \subseteq Slots
      /\ Freshness \in Nat /\ PerDay \in Nat
  BY UntilDailyTyped, UntilDailyTimed, MaintenanceNumbers DEF MaintenanceTyped, Slots
<1>2. /\ outcomes' = [outcomes EXCEPT ![slot] =
                           IF outcome = "lost" /\ outcomes[slot] # "none" THEN outcomes[slot] ELSE outcome]
      /\ succeeded' \subseteq succeeded \cup {slot}
      /\ backingUp' = [timer |-> IF server = "stopping" THEN NoSlot ELSE UntilDaily, step |-> "idle", at |-> 0]
  BY DEF BacksUpDaily, Ends
<1>3. outcomes'[slot] # "none" /\ \A s \in Slots : outcomes[s] # "none" => outcomes'[s] # "none"
  BY <1>1, <1>2
<1>4. \A s \in succeeded' : outcomes'[s] # "none"
  BY <1>1, <1>2, <1>3 DEF BacksUpDaily
<1>5. Recent(UntilDaily, slot, outcomes')
  BY <1>1, <1>3 DEF Recent
<1>6. backingUp'.step = "idle" /\ backingUp'.timer = IF server = "stopping" THEN NoSlot ELSE UntilDaily
  BY <1>2
<1>7. QED
  BY <1>1, <1>4, <1>5, <1>6 DEF BacksUpDaily

\* Every step keeps the backups daily.
LEMMA BacksUpDailyNext ==
  MaintenanceTyped /\ BacksUpDaily /\ [MaintenanceNext]_maintenanceVars => BacksUpDaily'
<1> SUFFICES ASSUME MaintenanceTyped, BacksUpDaily, [MaintenanceNext]_maintenanceVars
             PROVE  BacksUpDaily'
  OBVIOUS
<1>0. /\ slot \in Slots /\ slot \in Nat /\ backingUp \in BackingUps
      /\ UntilDaily \in 1 .. PerDay /\ UntilDaily # NoSlot
      /\ Freshness \in Nat /\ PerDay \in Nat \ {0} /\ NoSlot = MaxSlot + PerDay
      /\ MaxSlot \in Nat /\ succeeded \subseteq Slots
  BY UntilDailyTyped, UntilDailyTimed, MaintenanceNumbers DEF MaintenanceTyped, Slots
<1>a. ASSUME UNCHANGED <<slot, outcomes, succeeded, backingUp>>,
             server' \notin {"health", "up"} \/ server \in {"health", "up"} \/ backingUp.timer # NoSlot
      PROVE  BacksUpDaily'
  BY <1>a DEF BacksUpDaily
<1>b. ASSUME UNCHANGED <<slot, outcomes, succeeded>>, backingUp'.timer = NoSlot,
             backingUp'.step # "idle" => backingUp'.at = slot,
             server' \notin {"health", "up"} \/ backingUp'.step # "idle"
      PROVE  BacksUpDaily'
  BY <1>b DEF BacksUpDaily
<1>1. CASE Retains
  <2>1. UNCHANGED <<slot, outcomes, succeeded, backingUp>> /\ (server' = server \/ server' = "stopping")
    BY <1>1 DEF Retains, BeginRetention, RetentionFails, RunRetention, EndRetention
  <2>2. QED
    BY <1>a, <2>1
<1>2. CASE StartBackups
  <2>1. UNCHANGED <<slot, outcomes, succeeded>> /\ server = "backup"
        /\ backingUp.step = "idle" /\ backingUp.timer = NoSlot
    BY <1>2 DEF StartBackups
  <2>2. CASE server' = "stopping" /\ UNCHANGED backingUp
    BY <1>a, <2>1, <2>2
  <2>3. CASE backingUp' = [timer |-> NoSlot, step |-> "begun", at |-> slot]
    BY <1>b, <2>1, <2>3
  <2>4. CASE ~Stale /\ backingUp' = [backingUp EXCEPT !.timer = UntilDaily]
    <3>2. backingUp'.timer = UntilDaily /\ backingUp'.step = "idle"
      BY <1>0, <2>1, <2>4 DEF BackingUps
    <3>3. Reference # NoSlot /\ slot - Reference <= Freshness
      <4>1. ~Missing /\ ~(slot - Reference > Freshness)
        BY <2>4 DEF Stale
      <4>2. Reference # NoSlot
        BY <4>1 DEF Missing
      <4>3. Reference \in Nat
        BY <4>2, FilesTyped DEF Slots
      <4>4. QED
        BY <1>0, <4>1, <4>2, <4>3
    <3>4. Reference \in succeeded /\ Reference \in Slots /\ Reference \in Nat
      BY <3>3, FilesTyped DEF Slots
    <3>5. outcomes[Reference] # "none"
      BY <3>4 DEF BacksUpDaily
    <3>6. Reference + Freshness + PerDay >= slot + UntilDaily
      BY <1>0, <3>3, <3>4
    <3>7. Recent(UntilDaily, slot, outcomes)
      BY <3>4, <3>5, <3>6 DEF Recent
    <3>8. QED
      BY <1>0, <2>1, <3>2, <3>7 DEF BacksUpDaily
  <2>5. QED
    BY <1>2, <2>2, <2>3, <2>4 DEF StartBackups
<1>3. CASE BackupTimer
  <2>1. UNCHANGED <<slot, outcomes, succeeded>>
        /\ backingUp' = [timer |-> NoSlot, step |-> "begun", at |-> slot]
    BY <1>3 DEF BackupTimer
  <2>2. QED
    BY <1>b, <2>1
<1>4. CASE MakeDirectory
  <2>1. UNCHANGED <<slot, server>> /\ backingUp.step = "begun"
    BY <1>4 DEF MakeDirectory
  <2>2. CASE directory[backingUp.at] = "none"
    <3>1. backingUp' = [backingUp EXCEPT !.step = "copying"] /\ UNCHANGED <<outcomes, succeeded>>
      BY <1>4, <2>2 DEF MakeDirectory
    <3>2. /\ backingUp'.step = "copying" /\ backingUp'.timer = backingUp.timer
          /\ backingUp'.at = backingUp.at
      BY <1>0, <3>1 DEF BackingUps
    <3>3. QED
      BY <2>1, <3>1, <3>2 DEF BacksUpDaily
  <2>3. CASE directory[backingUp.at] # "none"
    BY <1>4, <2>1, <2>3, EndsRecently DEF MakeDirectory
  <2>4. QED
    BY <2>2, <2>3
<1>5. CASE CompleteBackup
  <2>1. UNCHANGED <<slot, server>> /\ backingUp.step = "copying"
    BY <1>5 DEF CompleteBackup
  <2>2. CASE Ends("failed") \/ Ends("lost")
    BY <2>1, <2>2, EndsRecently
  <2>3. CASE backingUp' = [backingUp EXCEPT !.step = "pruning"] /\ UNCHANGED <<outcomes, succeeded>>
    <3>1. /\ backingUp'.step = "pruning" /\ backingUp'.timer = backingUp.timer
          /\ backingUp'.at = backingUp.at
      BY <1>0, <2>3 DEF BackingUps
    <3>2. QED
      BY <2>1, <2>3, <3>1 DEF BacksUpDaily
  <2>4. QED
    BY <1>5, <2>2, <2>3 DEF CompleteBackup
<1>6. CASE PruneBackups
  <2>1. UNCHANGED <<slot, server>> /\ backingUp.step = "pruning"
        /\ (Ends("succeeded") \/ Ends("failed") \/ Ends("lost"))
    BY <1>6 DEF PruneBackups
  <2>2. QED
    BY <2>1, EndsRecently
<1>7. CASE CheckHealth
  <2>1. UNCHANGED <<slot, outcomes, succeeded>> /\ server \in {"health", "up"}
    BY <1>7 DEF CheckHealth
  <2>2. CASE server' = "stopping" /\ backingUp' = [backingUp EXCEPT !.timer = NoSlot]
    <3>1. backingUp'.timer = NoSlot /\ backingUp'.step = backingUp.step /\ backingUp'.at = backingUp.at
      BY <1>0, <2>2 DEF BackingUps
    <3>2. QED
      BY <1>b, <2>1, <2>2, <3>1 DEF BacksUpDaily
  <2>3. CASE UNCHANGED backingUp
    BY <1>a, <2>1, <2>3
  <2>4. QED
    BY <1>7, <2>2, <2>3 DEF CheckHealth
<1>8. CASE Start \/ Stopped
  BY <1>8, <1>a DEF Start, Stopped
<1>9. CASE StartNext
  <2>1. UNCHANGED <<slot, outcomes, succeeded, backingUp>>
        /\ (server' = "backup" \/ backingUp.timer # NoSlot)
    BY <1>9 DEF StartNext, Started
  <2>2. QED
    BY <1>a, <2>1
<1>10. CASE Shutdown
  <2>1. UNCHANGED <<slot, outcomes, succeeded>> /\ server' = "stopping"
        /\ backingUp' = [backingUp EXCEPT !.timer = NoSlot]
    BY <1>10 DEF Shutdown
  <2>2. backingUp'.timer = NoSlot /\ backingUp'.step = backingUp.step /\ backingUp'.at = backingUp.at
    BY <1>0, <2>1 DEF BackingUps
  <2>3. QED
    BY <1>b, <2>1, <2>2 DEF BacksUpDaily
<1>11. CASE ServerCrash
  <2>1. UNCHANGED <<slot, outcomes, succeeded>> /\ server' = "down"
        /\ backingUp' = [timer |-> NoSlot, step |-> "idle", at |-> 0]
    BY <1>11 DEF ServerCrash
  <2>2. QED
    BY <1>b, <2>1
<1>12. CASE SlotPasses \/ ClockStepsBack
  <2>1. /\ backingUp.step = "idle" /\ UNCHANGED <<server, outcomes, succeeded>>
        /\ \/ /\ slot' = slot + 1 /\ backingUp.timer # 0
              /\ backingUp' = [backingUp EXCEPT !.timer =
                                  IF backingUp.timer = NoSlot THEN NoSlot ELSE backingUp.timer - 1]
           \/ slot' \in Nat /\ slot' < slot /\ backingUp' = backingUp
    BY <1>12, MaintenanceNumbers DEF SlotPasses, ClockStepsBack, Idle, Slots
  <2>2. backingUp'.step = "idle" /\ backingUp.timer \in Timers
        /\ \/ /\ slot' = slot + 1 /\ backingUp.timer # 0
              /\ backingUp'.timer = IF backingUp.timer = NoSlot THEN NoSlot ELSE backingUp.timer - 1
           \/ slot' \in Nat /\ slot' < slot /\ backingUp'.timer = backingUp.timer
    BY <1>0, <2>1 DEF BackingUps
  <2>3. (backingUp'.timer # NoSlot <=> backingUp.timer # NoSlot)
        /\ (backingUp.timer # NoSlot => slot' + backingUp'.timer <= slot + backingUp.timer
                                        /\ slot' + backingUp'.timer \in Nat)
        /\ slot + backingUp.timer \in Nat
    BY <1>0, <2>2 DEF Timers
  <2>4. ASSUME backingUp'.timer # NoSlot PROVE Recent(backingUp'.timer, slot', outcomes')
    <3>1. PICK t \in Slots : outcomes[t] # "none" /\ t + Freshness + PerDay >= slot + backingUp.timer
      BY <2>3, <2>4 DEF BacksUpDaily, Recent
    <3>2. t + Freshness + PerDay \in Nat
      BY <1>0, <3>1 DEF Slots
    <3>3. t + Freshness + PerDay >= slot' + backingUp'.timer
      BY <2>3, <2>4, <3>1, <3>2
    <3>4. QED
      BY <2>1, <3>1, <3>3 DEF Recent
  <2>5. QED
    BY <2>1, <2>2, <2>3, <2>4 DEF BacksUpDaily
<1>13. CASE Damage
  BY <1>13, <1>a DEF Damage
<1>14. CASE UNCHANGED maintenanceVars
  BY <1>14, <1>a DEF maintenanceVars
<1>15. QED
  BY <1>1, <1>2, <1>3, <1>4, <1>5, <1>6, <1>7, <1>8, <1>9, <1>10, <1>11, <1>12, <1>13, <1>14
     DEF MaintenanceNext, BacksUp

(* No day is skipped and none is done twice: the two timers of a           *)
(* controller that runs and was never set back lead to the hour of the     *)
(* next day, by way of every start, failure and crash, but for the error   *)
(* of a recovery or a claim, which ends the retention until a restart.     *)
THEOREM DailyMaintenance == MaintenanceSpec => []NoDayIsSkipped
<1>1. MaintenanceInit => RetainsDaily /\ BacksUpDaily
  <2>1. MaintenanceInit => RetainsDaily
    BY DEF MaintenanceInit, RetainsDaily
  <2>2. MaintenanceInit => BacksUpDaily
    BY DEF MaintenanceInit, BacksUpDaily
  <2>3. QED
    BY <2>1, <2>2
<1>2. ASSUME MaintenanceTyped, RetainsDaily, BacksUpDaily PROVE NoDayIsSkipped
  <2>1. \A d \in Days : runs[d] <= 1
    BY <1>2 DEF RetainsDaily
  <2>2. ASSUME server = "up", Idle, 0 \notin {retaining.timer, backingUp.timer}, trouble["clock"] = 0,
               Hour >= DailySlot
        PROVE  claimed = Day(slot) \/ retaining.step = "failed"
    <3>1. Timed(retaining.timer, slot, claimed) \/ retaining.step = "failed"
      BY <1>2, <2>2 DEF RetainsDaily, Idle
    <3>2. Hour \in Nat /\ DailySlot \in Nat
      BY <1>2, UntilDailyTyped, MaintenanceNumbers DEF MaintenanceTyped
    <3>3. QED
      BY <2>2, <3>1, <3>2 DEF Timed, Hour
  <2>3. ASSUME server = "up", Idle, 0 \notin {retaining.timer, backingUp.timer}
        PROVE  \E s \in Slots : outcomes[s] # "none" /\ s + Freshness + PerDay >= slot
    <3>1. Recent(backingUp.timer, slot, outcomes) /\ backingUp.timer # NoSlot
      BY <1>2, <2>3 DEF BacksUpDaily, Idle
    <3>2. backingUp.timer \in Nat /\ slot \in Nat
      BY <1>2, MaintenanceNumbers DEF MaintenanceTyped, BackingUps, Timers, Slots
    <3>3. PICK s \in Slots : outcomes[s] # "none" /\ s + Freshness + PerDay >= slot + backingUp.timer
      BY <3>1 DEF Recent
    <3>4. s + Freshness + PerDay \in Nat
      BY <3>3, MaintenanceNumbers DEF Slots
    <3>5. s + Freshness + PerDay >= slot
      BY <3>2, <3>3, <3>4
    <3>6. QED
      BY <3>3, <3>5
  <2>4. QED
    BY <2>1, <2>2, <2>3 DEF NoDayIsSkipped
<1>3. QED
  BY <1>1, <1>2, MaintenanceTypedInit, MaintenanceTypedNext, RetainsDailyNext, BacksUpDailyNext,
     PTL DEF MaintenanceSpec
-----------------------------------------------------------------------------
Within(s, age, times) == \A t \in times : t < s + age
KeepsDay(s, disk) == \E b \in disk : b >= s /\ Day(b) = Day(s)
KeepsWeek(s, disk) == \E b \in disk : b >= s /\ Week(b) = Week(s)

\* What the next pruning relies on: a success that is recent for all that
\* is on disk or on record has a backup of its day, or of its week.
Remembers ==
    /\ backingUp.step = "copying" => directory[backingUp.at] = "partial"
    /\ backingUp.step = "pruning" => directory[backingUp.at] = "whole"
    /\ trouble["damage"] = 0 => \A s \in succeeded :
          /\ Within(s, DailyDays * PerDay, succeeded \cup Whole) => KeepsDay(s, Whole)
          /\ Within(s, WeeklyDays * PerDay, succeeded \cup Whole) => KeepsWeek(s, Whole)

\* The newest of a day or a week is selected, and so is all that is new.
LEMMA SelectedKeeps ==
  ASSUME MaintenanceTyped, NEW run \in Whole
  PROVE  /\ run \in Selected(run)
         /\ \A b \in Whole : b > run => b \in Selected(run)
         /\ \A b \in Whole : run < b + (DailyDays * PerDay) => KeepsDay(b, Selected(run))
         /\ \A b \in Whole : run < b + (WeeklyDays * PerDay) => KeepsWeek(b, Selected(run))
<1> DEFINE D == DailyDays * PerDay
           W == WeeklyDays * PerDay
           daily == {s \in Whole : s <= run /\ run - s < D}
           weekly == {s \in Whole : s <= run /\ run - s < W} \ daily
           ofDay(s) == {t \in daily : Day(t) = Day(s)}
           ofWeek(s) == {t \in weekly : Week(t) = Week(s)}
<1>1. /\ Whole \subseteq Slots /\ Slots = 0 .. MaxSlot /\ MaxSlot \in Nat /\ run \in Nat
      /\ D \in Nat /\ W \in Nat /\ D > 0
  <2>1. DailyDays * PerDay \in Nat /\ DailyDays * PerDay > 0 /\ WeeklyDays * PerDay \in Nat
    <3>1. /\ DailyDays \in Nat \ {0} /\ PerDay \in Nat \ {0} /\ WeeklyDays \in Nat \ {0}
      BY MaintenanceNumbers
    <3>2. \A i, j \in Nat \ {0} : i * j \in Nat /\ i * j > 0
      OBVIOUS
    <3>3. QED
      BY <3>1, <3>2
  <2>2. QED
    BY <2>1, MaintenanceNumbers DEF Whole, Slots
<1>2. Selected(run) = {s \in Whole : s > run}
                        \cup {s \in daily : \A t \in ofDay(s) : t <= s}
                        \cup {s \in weekly : \A t \in ofWeek(s) : t <= s}
  BY DEF Selected
<1> HIDE DEF D, W
<1>3. ASSUME NEW b \in daily
      PROVE  \E m \in daily : m \in Selected(run) /\ m >= b /\ Day(m) = Day(b)
  <2>1. ofDay(b) \in SUBSET (0 .. MaxSlot) /\ b \in ofDay(b)
    BY <1>1
  <2>2. PICK m \in ofDay(b) : \A t \in ofDay(b) : t <= m
    BY <1>1, <2>1, GreatestOf
  <2>3. m \in daily /\ Day(m) = Day(b) /\ b <= m
    BY <2>1, <2>2
  <2>4. \A t \in ofDay(m) : t <= m
    BY <2>2, <2>3
  <2>5. m \in Selected(run)
    BY <1>2, <2>3, <2>4
  <2>6. b \in Nat /\ m \in Nat
    BY <1>1, <2>3
  <2>7. QED
    BY <2>3, <2>5, <2>6
<1>4. ASSUME NEW b \in weekly
      PROVE  \E m \in weekly : m \in Selected(run) /\ m >= b /\ Week(m) = Week(b)
  <2>1. ofWeek(b) \in SUBSET (0 .. MaxSlot) /\ b \in ofWeek(b)
    BY <1>1
  <2>2. PICK m \in ofWeek(b) : \A t \in ofWeek(b) : t <= m
    BY <1>1, <2>1, GreatestOf
  <2>3. m \in weekly /\ Week(m) = Week(b) /\ b <= m
    BY <2>1, <2>2
  <2>4. \A t \in ofWeek(m) : t <= m
    BY <2>2, <2>3
  <2>5. m \in Selected(run)
    BY <1>2, <2>3, <2>4
  <2>6. b \in Nat /\ m \in Nat
    BY <1>1, <2>3
  <2>7. QED
    BY <2>3, <2>5, <2>6
<1>5. \A b \in Whole : b > run => b \in Selected(run)
  BY <1>2
<1>6. run \in Selected(run)
  <2>1. run \in daily
    BY <1>1
  <2>2. \A t \in ofDay(run) : t <= run
    OBVIOUS
  <2>3. QED
    BY <1>2, <2>1, <2>2
<1>7. ASSUME NEW b \in Whole, run < b + D PROVE KeepsDay(b, Selected(run))
  <2>1. b \in Nat
    BY <1>1
  <2>2. CASE b > run
    <3>1. b \in Selected(run) /\ b >= b
      BY <1>5, <2>1, <2>2
    <3>2. QED
      BY <3>1 DEF KeepsDay
  <2>3. CASE b <= run
    <3>1. b \in daily
      BY <1>1, <1>7, <2>1, <2>3
    <3>2. QED
      BY <1>3, <3>1 DEF KeepsDay
  <2>4. QED
    BY <1>1, <2>1, <2>2, <2>3
<1>8. ASSUME NEW b \in Whole, run < b + W PROVE KeepsWeek(b, Selected(run))
  <2>1. b \in Nat
    BY <1>1
  <2>2. CASE b > run
    <3>1. b \in Selected(run) /\ b >= b
      BY <1>5, <2>1, <2>2
    <3>2. QED
      BY <3>1 DEF KeepsWeek
  <2>3. CASE b <= run /\ b \in daily
    <3>1. PICK m \in daily : m \in Selected(run) /\ m >= b /\ Day(m) = Day(b)
      BY <1>3, <2>3
    <3>2. Week(m) = Week(b)
      BY <3>1 DEF Week
    <3>3. QED
      BY <3>1, <3>2 DEF KeepsWeek
  <2>4. CASE b <= run /\ b \notin daily
    <3>1. b \in weekly
      BY <1>1, <1>8, <2>1, <2>4
    <3>2. QED
      BY <1>4, <3>1 DEF KeepsWeek
  <2>5. QED
    BY <1>1, <2>1, <2>2, <2>3, <2>4
<1>9. QED
  BY <1>5, <1>6, <1>7, <1>8 DEF D, W

\* Pruning, whether it comes to its end or not, keeps what it has to.
LEMMA PruneRemembers ==
  ASSUME MaintenanceTyped, Remembers, PruneBackups
  PROVE  Remembers'
<1> DEFINE run == backingUp.at
           D == DailyDays * PerDay
           W == WeeklyDays * PerDay
           old == succeeded \cup Whole
           new == succeeded' \cup Whole'
<1>1. /\ backingUp.step = "pruning" /\ run \in Slots /\ run \in Whole
      /\ Whole \subseteq Slots /\ succeeded \subseteq Slots /\ Slots \subseteq Nat
      /\ D \in Nat /\ W \in Nat
  <2>1. backingUp.step = "pruning" /\ run \in Slots
    BY DEF PruneBackups, MaintenanceTyped, BackingUps
  <2>2. DailyDays * PerDay \in Nat /\ WeeklyDays * PerDay \in Nat
    BY MaintenanceNumbers
  <2>3. QED
    BY <2>1, <2>2, MaintenanceNumbers DEF Remembers, Whole, MaintenanceTyped, Slots
<1>2. PICK gone \in SUBSET (Whole \ Selected(run)) :
          /\ directory' = [s \in Slots |-> IF s \in gone THEN "none" ELSE directory[s]]
          /\ \/ Ends("succeeded") /\ UNCHANGED trouble
             \/ (Ends("failed") \/ Ends("lost")) /\ Happens("failure")
  BY DEF PruneBackups
<1>3. /\ Whole' = Whole \ gone /\ Selected(run) \subseteq Whole' /\ run \in Whole'
      /\ \A t \in Whole \ Whole' : t <= run
  <2>1. Whole' = Whole \ gone
    <3>1. Whole' = {s \in Slots : directory'[s] = "whole"}
      BY DEF Whole
    <3>2. \A s \in Slots : directory'[s] = "whole" <=> directory[s] = "whole" /\ s \notin gone
      BY <1>2
    <3>3. QED
      BY <3>1, <3>2 DEF Whole
  <2>2. Selected(run) \subseteq Whole
    BY DEF Selected
  <2>3. run \in Selected(run) /\ \A b \in Whole : b > run => b \in Selected(run)
    BY <1>1, SelectedKeeps
  <2>4. \A t \in Whole : t \in Nat /\ run \in Nat
    BY <1>1
  <2>5. \A t \in gone : t \in Whole /\ t \notin Selected(run)
    BY <1>2
  <2>6. \A t \in Whole \ Whole' : t \in gone
    BY <2>1
  <2>7. \A t \in gone : t <= run
    BY <2>3, <2>4, <2>5
  <2>8. QED
    BY <1>2, <2>1, <2>2, <2>3, <2>6, <2>7
<1>4. /\ succeeded' \subseteq succeeded \cup {run} /\ succeeded \subseteq succeeded'
      /\ backingUp'.step = "idle"
  BY <1>2 DEF Ends
<1>5. trouble'["damage"] = trouble["damage"]
  <2>1. CASE UNCHANGED trouble
    BY <2>1
  <2>2. CASE Happens("failure")
    BY <2>2 DEF Happens, MaintenanceTyped, Troubles
  <2>3. QED
    BY <1>2, <2>1, <2>2
<1>c. run \in new /\ run \in Nat /\ (\A t \in old \ new : t <= run) /\ \A t \in old : t \in Nat
  BY <1>1, <1>3, <1>4
<1> HIDE DEF D, W, run, old, new
<1>6. ASSUME NEW s \in succeeded, NEW age \in Nat, Within(s, age, new)
      PROVE  run < s + age /\ Within(s, age, old)
  <2>1. \A t \in new : t < s + age
    BY <1>6 DEF Within
  <2>2. run < s + age
    BY <1>c, <2>1
  <2>3. s \in Nat /\ run \in Nat /\ s + age \in Nat
    BY <1>1, <1>6
  <2>4. ASSUME NEW t \in old PROVE t < s + age
    <3>1. t \in Nat
      BY <1>c
    <3>2. CASE t \in new
      BY <2>1, <3>2
    <3>3. CASE t \notin new
      <4>1. t <= run
        BY <1>c, <3>3
      <4>2. QED
        BY <2>2, <2>3, <3>1, <4>1
    <3>4. QED
      BY <3>2, <3>3
  <2>5. QED
    BY <2>2, <2>4 DEF Within
<1>7. KeepsDay(run, Whole') /\ KeepsWeek(run, Whole')
  <2>1. run >= run
    BY <1>c
  <2>2. run \in Whole'
    BY <1>3
  <2>3. QED
    BY <2>1, <2>2 DEF KeepsDay, KeepsWeek
<1>8. ASSUME trouble["damage"] = 0, NEW s \in succeeded, Within(s, D, new) PROVE KeepsDay(s, Whole')
  <2>1. run < s + D /\ Within(s, D, old)
    BY <1>1, <1>6, <1>8
  <2>2. PICK b \in Whole : b >= s /\ Day(b) = Day(s)
    BY <1>8, <2>1 DEF Remembers, KeepsDay, D, old
  <2>3. s \in Nat /\ b \in Nat /\ run \in Nat
    BY <1>1
  <2>4. run < b + D
    BY <1>1, <2>1, <2>2, <2>3
  <2>5. KeepsDay(b, Selected(run))
    BY <1>1, <2>4, SelectedKeeps DEF D
  <2>6. PICK c \in Selected(run) : c >= b /\ Day(c) = Day(b)
    BY <2>5 DEF KeepsDay
  <2>7. c \in Whole' /\ c \in Nat
    BY <1>1, <1>3
  <2>8. c >= s /\ Day(c) = Day(s)
    BY <2>2, <2>3, <2>6, <2>7
  <2>9. QED
    BY <2>7, <2>8 DEF KeepsDay
<1>9. ASSUME trouble["damage"] = 0, NEW s \in succeeded, Within(s, W, new) PROVE KeepsWeek(s, Whole')
  <2>1. run < s + W /\ Within(s, W, old)
    BY <1>1, <1>6, <1>9
  <2>2. PICK b \in Whole : b >= s /\ Week(b) = Week(s)
    BY <1>9, <2>1 DEF Remembers, KeepsWeek, W, old
  <2>3. s \in Nat /\ b \in Nat /\ run \in Nat
    BY <1>1
  <2>4. run < b + W
    BY <1>1, <2>1, <2>2, <2>3
  <2>5. KeepsWeek(b, Selected(run))
    BY <1>1, <2>4, SelectedKeeps DEF W
  <2>6. PICK c \in Selected(run) : c >= b /\ Week(c) = Week(b)
    BY <2>5 DEF KeepsWeek
  <2>7. c \in Whole' /\ c \in Nat
    BY <1>1, <1>3
  <2>8. c >= s /\ Week(c) = Week(s)
    BY <2>2, <2>3, <2>6, <2>7
  <2>9. QED
    BY <2>7, <2>8 DEF KeepsWeek
<1>10. ASSUME trouble'["damage"] = 0, NEW s \in succeeded'
       PROVE  /\ Within(s, D, new) => KeepsDay(s, Whole')
              /\ Within(s, W, new) => KeepsWeek(s, Whole')
  <2>1. CASE s = run
    BY <1>7, <2>1
  <2>2. CASE s \in succeeded
    BY <1>5, <1>8, <1>9, <1>10, <2>2
  <2>3. QED
    BY <1>4, <2>1, <2>2
<1>11. QED
  BY <1>4, <1>10 DEF Remembers, D, W, new

\* A step that removes no backup and records no success forgets nothing.
LEMMA StillRemembers ==
  ASSUME Remembers, Whole \subseteq Whole', UNCHANGED succeeded,
         trouble'["damage"] = 0 => trouble["damage"] = 0
  PROVE  trouble'["damage"] = 0 => \A s \in succeeded' :
          /\ Within(s, DailyDays * PerDay, succeeded' \cup Whole') => KeepsDay(s, Whole')
          /\ Within(s, WeeklyDays * PerDay, succeeded' \cup Whole') => KeepsWeek(s, Whole')
<1>1. \A s, age : Within(s, age, succeeded' \cup Whole') => Within(s, age, succeeded \cup Whole)
  BY DEF Within
<1>2. \A s : KeepsDay(s, Whole) => KeepsDay(s, Whole')
  BY DEF KeepsDay
<1>3. \A s : KeepsWeek(s, Whole) => KeepsWeek(s, Whole')
  BY DEF KeepsWeek
<1> DEFINE D == DailyDays * PerDay
           W == WeeklyDays * PerDay
<1>4. trouble["damage"] = 0 => \A s \in succeeded :
          /\ Within(s, D, succeeded \cup Whole) => KeepsDay(s, Whole)
          /\ Within(s, W, succeeded \cup Whole) => KeepsWeek(s, Whole)
  BY DEF Remembers
<1> HIDE DEF D, W
<1>5. trouble'["damage"] = 0 => \A s \in succeeded' :
          /\ Within(s, D, succeeded' \cup Whole') => KeepsDay(s, Whole')
          /\ Within(s, W, succeeded' \cup Whole') => KeepsWeek(s, Whole')
  BY <1>1, <1>2, <1>3, <1>4
<1>6. QED
  BY <1>5 DEF D, W

\* Every step, and every deletion of a pruning, keeps the history.
LEMMA RemembersNext ==
  MaintenanceTyped /\ Remembers /\ [MaintenanceNext]_maintenanceVars => Remembers'
<1> SUFFICES ASSUME MaintenanceTyped, Remembers, [MaintenanceNext]_maintenanceVars
             PROVE  Remembers'
  OBVIOUS
<1>0. backingUp \in BackingUps /\ directory \in [Slots -> Disk] /\ backingUp.at \in Slots
  BY DEF MaintenanceTyped, BackingUps
<1>a. ASSUME NEW kind \in Troubles, Happens(kind) PROVE trouble'["damage"] = 0 => trouble["damage"] = 0
  BY <1>a, MaintenanceNumbers DEF Happens, Troubles, MaintenanceTyped
<1>b. ASSUME UNCHANGED <<directory, succeeded>>, trouble'["damage"] = 0 => trouble["damage"] = 0,
             \/ backingUp'.step \notin {"copying", "pruning"}
             \/ backingUp'.step = backingUp.step /\ backingUp'.at = backingUp.at
      PROVE  Remembers'
  <2>1. Whole' = Whole
    BY <1>b DEF Whole
  <2>2. /\ backingUp'.step = "copying" => directory'[backingUp'.at] = "partial"
        /\ backingUp'.step = "pruning" => directory'[backingUp'.at] = "whole"
    BY <1>b DEF Remembers
  <2>3. QED
    BY <1>b, <2>1, <2>2, StillRemembers DEF Remembers
<1>1. CASE Retains
  <2>1. UNCHANGED <<directory, succeeded, backingUp>>
    BY <1>1 DEF Retains, BeginRetention, RetentionFails, RunRetention, EndRetention
  <2>2. trouble'["damage"] = 0 => trouble["damage"] = 0
    BY <1>1, <1>a DEF Retains, BeginRetention, RetentionFails, RunRetention, EndRetention, Troubles
  <2>3. QED
    BY <1>b, <2>1, <2>2
<1>2. CASE StartBackups
  <2>0. trouble'["damage"] = 0 => trouble["damage"] = 0
    BY <1>2, <1>a DEF StartBackups, Troubles
  <2>1. UNCHANGED <<directory, succeeded>> /\ backingUp.step = "idle"
    BY <1>2 DEF StartBackups
  <2>2. backingUp'.step \notin {"copying", "pruning"}
    <3>1. \/ backingUp' = backingUp
          \/ backingUp' = [timer |-> NoSlot, step |-> "begun", at |-> slot]
          \/ backingUp' = [backingUp EXCEPT !.timer = UntilDaily]
      BY <1>2 DEF StartBackups
    <3>2. QED
      BY <1>0, <2>1, <3>1 DEF BackingUps
  <2>3. QED
    BY <1>b, <2>0, <2>1, <2>2
<1>3. CASE BackupTimer
  BY <1>3, <1>b DEF BackupTimer
<1>4. CASE MakeDirectory
  <2>0. trouble'["damage"] = 0 => trouble["damage"] = 0
    BY <1>4, <1>a DEF MakeDirectory, Troubles
  <2>1. backingUp.step = "begun"
    BY <1>4 DEF MakeDirectory
  <2>2. CASE directory[backingUp.at] = "none"
    <3>1. /\ directory' = [directory EXCEPT ![backingUp.at] = "partial"]
          /\ backingUp' = [backingUp EXCEPT !.step = "copying"] /\ UNCHANGED succeeded
      BY <1>4, <2>2 DEF MakeDirectory
    <3>2. backingUp'.step = "copying" /\ backingUp'.at = backingUp.at
      BY <1>0, <3>1 DEF BackingUps
    <3>3. directory'[backingUp'.at] = "partial"
      BY <1>0, <3>1, <3>2
    <3>4. \A s \in Slots : directory'[s] = "whole" <=> directory[s] = "whole"
      BY <1>0, <2>2, <3>1
    <3>5. Whole' = Whole
      BY <3>4 DEF Whole
    <3>6. QED
      BY <2>0, <3>1, <3>2, <3>3, <3>5, StillRemembers DEF Remembers
  <2>3. CASE directory[backingUp.at] # "none"
    <3>1. (Ends("failed") \/ Ends("lost")) /\ UNCHANGED directory
      BY <1>4, <2>3 DEF MakeDirectory
    <3>2. backingUp'.step = "idle" /\ UNCHANGED succeeded
      BY <3>1 DEF Ends
    <3>3. QED
      BY <1>b, <2>0, <3>1, <3>2
  <2>4. QED
    BY <2>2, <2>3
<1>5. CASE CompleteBackup
  <2>1. backingUp.step = "copying" /\ directory[backingUp.at] = "partial"
    BY <1>5 DEF CompleteBackup, Remembers
  <2>2. CASE /\ directory' = [directory EXCEPT ![backingUp.at] = "whole"]
             /\ backingUp' = [backingUp EXCEPT !.step = "pruning"] /\ UNCHANGED <<succeeded, trouble>>
    <3>1. backingUp'.step = "pruning" /\ backingUp'.at = backingUp.at
      BY <1>0, <2>2 DEF BackingUps
    <3>2. directory'[backingUp'.at] = "whole"
      BY <1>0, <2>2, <3>1
    <3>3. \A s \in Slots : directory[s] = "whole" => directory'[s] = "whole"
      BY <1>0, <2>2
    <3>4. Whole \subseteq Whole'
      BY <3>3 DEF Whole
    <3>5. QED
      BY <2>2, <3>1, <3>2, <3>4, StillRemembers DEF Remembers
  <2>3. CASE /\ directory' = [directory EXCEPT ![backingUp.at] = "none"]
             /\ Ends("failed") \/ Ends("lost")
             /\ Happens("failure")
    <3>1. backingUp'.step = "idle" /\ UNCHANGED succeeded
      BY <2>3 DEF Ends
    <3>2. \A s \in Slots : directory[s] = "whole" => directory'[s] = "whole"
      BY <1>0, <2>1, <2>3
    <3>3. Whole \subseteq Whole'
      BY <3>2 DEF Whole
    <3>4. trouble'["damage"] = 0 => trouble["damage"] = 0
      BY <1>a, <2>3 DEF Troubles
    <3>5. QED
      BY <3>1, <3>3, <3>4, StillRemembers DEF Remembers
  <2>4. QED
    BY <1>5, <2>2, <2>3 DEF CompleteBackup
<1>6. CASE PruneBackups
  BY <1>6, PruneRemembers
<1>7. CASE CheckHealth
  <2>0. trouble'["damage"] = 0 => trouble["damage"] = 0
    BY <1>7, <1>a DEF CheckHealth, Troubles
  <2>1. UNCHANGED <<directory, succeeded>>
        /\ (backingUp' = backingUp \/ backingUp' = [backingUp EXCEPT !.timer = NoSlot])
    BY <1>7 DEF CheckHealth
  <2>2. backingUp'.step = backingUp.step /\ backingUp'.at = backingUp.at
    BY <1>0, <2>1 DEF BackingUps
  <2>3. QED
    BY <1>b, <2>0, <2>1, <2>2
<1>8. CASE Start \/ StartNext \/ Stopped
  BY <1>8, <1>b DEF Start, StartNext, Stopped
<1>9. CASE Shutdown
  <2>1. UNCHANGED <<directory, succeeded>> /\ backingUp' = [backingUp EXCEPT !.timer = NoSlot]
        /\ Happens("shutdown")
    BY <1>9 DEF Shutdown
  <2>2. backingUp'.step = backingUp.step /\ backingUp'.at = backingUp.at
    BY <1>0, <2>1 DEF BackingUps
  <2>3. trouble'["damage"] = 0 => trouble["damage"] = 0
    BY <1>a, <2>1 DEF Troubles
  <2>4. QED
    BY <1>b, <2>1, <2>2, <2>3
<1>10. CASE ServerCrash
  <2>1. UNCHANGED <<directory, succeeded>> /\ backingUp'.step = "idle" /\ Happens("crash")
    BY <1>10 DEF ServerCrash
  <2>2. trouble'["damage"] = 0 => trouble["damage"] = 0
    BY <1>a, <2>1 DEF Troubles
  <2>3. QED
    BY <1>b, <2>1, <2>2
<1>11. CASE SlotPasses
  <2>1. UNCHANGED <<directory, succeeded, trouble>>
        /\ backingUp' = [backingUp EXCEPT !.timer =
                            IF backingUp.timer = NoSlot THEN NoSlot ELSE backingUp.timer - 1]
    BY <1>11 DEF SlotPasses
  <2>2. backingUp'.step = backingUp.step /\ backingUp'.at = backingUp.at
    BY <1>0, <2>1 DEF BackingUps
  <2>3. QED
    BY <1>b, <2>1, <2>2
<1>12. CASE ClockStepsBack
  <2>1. UNCHANGED <<directory, succeeded, backingUp>> /\ Happens("clock")
    BY <1>12 DEF ClockStepsBack
  <2>2. trouble'["damage"] = 0 => trouble["damage"] = 0
    BY <1>a, <2>1 DEF Troubles
  <2>3. QED
    BY <1>b, <2>1, <2>2
<1>13. CASE Damage
  <2>1. backingUp.step = "idle" /\ UNCHANGED backingUp /\ Happens("damage")
    BY <1>13 DEF Damage
  <2>2. trouble'["damage"] # 0
    <3>1. trouble["damage"] \in Nat /\ trouble'["damage"] = trouble["damage"] + 1
      BY <2>1, MaintenanceNumbers DEF Happens, Troubles, MaintenanceTyped
    <3>2. QED
      BY <3>1
  <2>3. QED
    BY <2>1, <2>2 DEF Remembers
<1>14. CASE UNCHANGED maintenanceVars
  BY <1>14, <1>b DEF maintenanceVars
<1>15. QED
  BY <1>1, <1>2, <1>3, <1>4, <1>5, <1>6, <1>7, <1>8, <1>9, <1>10, <1>11, <1>12, <1>13, <1>14
     DEF MaintenanceNext, BacksUp

(* Pruning day by day keeps what it promises to keep, however often it     *)
(* stops half way, the controller crashes or the clock is set back, for    *)
(* any number of days and weeks: as long as nobody touches the backups.    *)
THEOREM HistorySurvives == MaintenanceSpec => []HistoryKept
<1>1. MaintenanceInit => Remembers
  BY DEF MaintenanceInit, Remembers
<1>2. ASSUME MaintenanceTyped, Remembers PROVE HistoryKept
  <2> DEFINE times == {slot} \cup succeeded \cup Whole
             horizon == Max(times)
             kept == {s \in Slots : directory[s] \in {"whole", "damaged"}}
  <2>1. times \in SUBSET (0 .. MaxSlot) /\ times # {} /\ MaxSlot \in Nat
    BY <1>2, MaintenanceNumbers DEF MaintenanceTyped, Slots, Whole
  <2>2. horizon \in times /\ \A t \in times : t <= horizon
    BY <2>1, GreatestOf
  <2>3. Whole \subseteq kept
    BY DEF Whole
  <2> HIDE DEF horizon
  <2>4. ASSUME NEW s \in succeeded, NEW age \in Nat, horizon - s < age
        PROVE  Within(s, age, succeeded \cup Whole)
    <3>1. s \in Nat /\ horizon \in Nat
      BY <2>1, <2>2
    <3>2. horizon < s + age
      BY <2>4, <3>1
    <3>3. ASSUME NEW t \in succeeded \cup Whole PROVE t < s + age
      <4>1. t \in Nat /\ t <= horizon
        BY <2>1, <2>2
      <4>2. QED
        BY <2>4, <3>1, <3>2, <4>1
    <3>4. QED
      BY <3>3 DEF Within
  <2>5. DailyDays * PerDay \in Nat /\ WeeklyDays * PerDay \in Nat
    BY MaintenanceNumbers
  <2>6. ASSUME trouble["damage"] = 0, NEW s \in succeeded
        PROVE  /\ horizon - s < DailyDays * PerDay => \E b \in kept : b >= s /\ Day(b) = Day(s)
               /\ horizon - s < WeeklyDays * PerDay => \E b \in kept : b >= s /\ Week(b) = Week(s)
    <3>1. /\ horizon - s < DailyDays * PerDay => Within(s, DailyDays * PerDay, succeeded \cup Whole)
          /\ horizon - s < WeeklyDays * PerDay => Within(s, WeeklyDays * PerDay, succeeded \cup Whole)
      BY <2>4, <2>5
    <3>2. /\ horizon - s < DailyDays * PerDay => KeepsDay(s, Whole)
          /\ horizon - s < WeeklyDays * PerDay => KeepsWeek(s, Whole)
      BY <1>2, <2>6, <3>1 DEF Remembers
    <3>3. QED
      BY <2>3, <3>2 DEF KeepsDay, KeepsWeek
  <2>7. QED
    BY <2>6 DEF HistoryKept, horizon
<1>3. QED
  BY <1>1, <1>2, MaintenanceTypedInit, MaintenanceTypedNext, RemembersNext, PTL DEF MaintenanceSpec
=============================================================================
