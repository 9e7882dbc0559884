--------------------------- MODULE ScheduleStore ---------------------------
(***************************************************************************)
(* How a device keeps its schedule through a power loss                    *)
(* (storeSchedule, loadSchedule and mountSpiffsWithRecovery in             *)
(* firmware/esp32/ESP32Code/ESP32Code.ino).  A replacement is written to   *)
(* schedule.next, the schedule in force is moved to schedule.previous, and *)
(* the replacement takes its name; power may fail between any two calls of *)
(* the file system, and each of them may fail.  Every rename and removal   *)
(* is taken to be atomic; what is written is not.                          *)
(***************************************************************************)
EXTENDS Integers

CONSTANTS
    StoredSchedules,    \* the schedules the controller sends
    MaxStores,          \* bound on the schedules it sends
    MaxFileFaults,          \* bound on failed calls of the file system
    MaxCuts             \* bound on power losses

Absent == "absent"
Torn == "torn"      \* a file whose writing was interrupted

ASSUME StoreAssumption ==
    /\ {MaxStores, MaxFileFaults, MaxCuts} \subseteq Nat
    /\ StoredSchedules \cap {Absent, Torn} = {}

VARIABLES
    file,       \* what schedule.json, schedule.next and schedule.previous hold
    step,       \* the next call of storeSchedule, or "idle"
    incoming,   \* the schedule being stored
    inForce,    \* currentSchedule: what the device follows
    mounted,    \* spiffsAvailable
    repairs,    \* fsRepairFails
    stranded,   \* whether the schedule in force could not be moved back to
                \* its place: "no", "yes", or "retried" by a later attempt
    stores, fileFaults, cuts

storeVars == <<file, step, incoming, inForce, mounted, repairs, stranded,
               stores, fileFaults, cuts>>

Files == {"current", "next", "previous"}
StoreSteps == {"idle", "clear", "write", "make room", "set aside", "publish", "tidy"}

StoreTypeOK ==
    /\ file \in [Files -> StoredSchedules \cup {Absent, Torn}]
    /\ step \in StoreSteps
    /\ incoming \in StoredSchedules \cup {Absent}
    /\ inForce \in StoredSchedules \cup {Absent}
    /\ mounted \in BOOLEAN /\ stranded \in {"no", "yes", "retried"} /\ repairs \in 0..2

----------------------------------------------------------------------------
(* Storing a schedule.                                                     *)

\* A call of the file system succeeds, or one of the bounded faults occurs.
Works == fileFaults' = fileFaults
Breaks == fileFaults < MaxFileFaults /\ fileFaults' = fileFaults + 1

\* handleScheduleCommand rolls back when storeSchedule returns FALSE, after it
\* has tried to remove what it wrote.
GiveUp(files) ==
    /\ file' \in {files, [files EXCEPT !["next"] = Absent]}
    /\ step' = "idle" /\ incoming' = Absent

BeginStore ==
    \E s \in StoredSchedules :
      /\ step = "idle" /\ mounted /\ stores < MaxStores
      /\ stores' = stores + 1 /\ incoming' = s /\ step' = "clear"
      /\ stranded' = IF stranded = "yes" THEN "retried" ELSE stranded
      /\ UNCHANGED <<file, inForce, mounted, repairs, fileFaults, cuts>>

\* The staging file of an earlier attempt is removed.
ClearNext ==
    /\ step = "clear"
    /\ \/ /\ Works /\ step' = "write" /\ UNCHANGED incoming
          /\ file' = [file EXCEPT !["next"] = Absent]
       \/ /\ Breaks /\ file["next"] # Absent
          /\ step' = "idle" /\ incoming' = Absent /\ UNCHANGED file
    /\ UNCHANGED <<inForce, mounted, repairs, stranded, stores, cuts>>

\* It is opened, written and closed: it may not open, or hold too little.
WriteNext ==
    /\ step = "write"
    /\ \/ /\ Works /\ UNCHANGED incoming
          /\ step' = IF file["current"] = Absent THEN "publish" ELSE "make room"
          /\ file' = [file EXCEPT !["next"] = incoming]
       \/ Breaks /\ GiveUp([file EXCEPT !["next"] = Torn])
    /\ UNCHANGED <<inForce, mounted, repairs, stranded, stores, cuts>>

MakeRoom ==
    /\ step = "make room"
    /\ \/ /\ Works /\ step' = "set aside" /\ UNCHANGED incoming
          /\ file' = [file EXCEPT !["previous"] = Absent]
       \/ /\ Breaks /\ file["previous"] # Absent /\ GiveUp(file)
    /\ UNCHANGED <<inForce, mounted, repairs, stranded, stores, cuts>>

SetAside ==
    /\ step = "set aside"
    /\ \/ /\ Works /\ step' = "publish" /\ UNCHANGED incoming
          /\ file' = [file EXCEPT !["previous"] = file["current"], !["current"] = Absent]
       \/ Breaks /\ GiveUp(file)
    /\ UNCHANGED <<inForce, mounted, repairs, stranded, stores, cuts>>

\* hadCurrent: this attempt set a schedule aside; a stranded one was set aside
\* by an earlier attempt.
HadCurrent == file["previous"] # Absent /\ stranded = "no"

\* When the new name cannot be taken the schedule in force is moved back; if
\* that fails too, schedule.next stays as the mark that schedule.previous is
\* the one to load.
PublishNext ==
    /\ step = "publish"
    /\ \/ /\ Works /\ step' = "tidy" /\ UNCHANGED incoming
          /\ file' = [file EXCEPT !["current"] = incoming, !["next"] = Absent]
          /\ stranded' = "no"
       \/ /\ Breaks /\ UNCHANGED stranded
          /\ IF HadCurrent
             THEN GiveUp([file EXCEPT !["current"] = file["previous"],
                                      !["previous"] = Absent])
             ELSE GiveUp(file)
       \/ /\ HadCurrent /\ fileFaults + 2 <= MaxFileFaults /\ fileFaults' = fileFaults + 2
          /\ stranded' = "yes" /\ step' = "idle" /\ incoming' = Absent
          /\ UNCHANGED file
    /\ UNCHANGED <<inForce, mounted, repairs, stores, cuts>>

\* The schedule is acknowledged, whether or not the old file can be removed.
Tidy ==
    /\ step = "tidy"
    /\ \/ Works /\ file' = [file EXCEPT !["previous"] = Absent]
       \/ Breaks /\ file["previous"] # Absent /\ UNCHANGED file
    /\ inForce' = incoming /\ step' = "idle" /\ incoming' = Absent
    /\ UNCHANGED <<mounted, repairs, stranded, stores, cuts>>

----------------------------------------------------------------------------
(* Starting up.                                                            *)

MutantReadFrom(files) ==
    IF files["current"] # Absent THEN "current"
    ELSE IF files["next"] # Absent THEN "next" ELSE "none"

\* The file loadSchedule reads.
ReadFrom(files) ==
    IF files["current"] # Absent THEN "current"
    ELSE IF files["next"] # Absent THEN "previous" ELSE "none"

\* What it loads: a file that was not written to its end is refused.
Loaded(files) ==
    LET name == ReadFrom(files)
    IN IF name = "none" \/ files[name] \in {Absent, Torn} THEN Absent ELSE files[name]

\* Power fails, in the middle of a write too.
Interrupted ==
    IF step = "write" THEN {file, [file EXCEPT !["next"] = Torn]} ELSE {file}

\* The file system mounts; a schedule set aside is moved back, if it can be.
BootMounted ==
    /\ cuts < MaxCuts /\ cuts' = cuts + 1
    /\ \E files \in Interrupted :
         /\ inForce' = Loaded(files)
         /\ \/ /\ Works
               /\ file' = IF ReadFrom(files) = "previous" /\ files["previous"] # Absent
                          THEN [files EXCEPT !["current"] = files["previous"],
                                             !["previous"] = Absent]
                          ELSE files
               /\ stranded' = IF file'["current"] = Absent THEN stranded ELSE "no"
            \/ /\ Breaks /\ ReadFrom(files) = "previous" /\ files["previous"] # Absent
               /\ file' = files /\ stranded' = "yes"
    /\ mounted' = TRUE /\ repairs' = 0 /\ step' = "idle" /\ incoming' = Absent
    /\ UNCHANGED stores

\* It does not: it is formatted, at most twice in a row.
BootDamaged ==
    /\ cuts < MaxCuts /\ cuts' = cuts + 1 /\ Breaks
    /\ step' = "idle" /\ incoming' = Absent /\ inForce' = Absent
    /\ \/ /\ repairs < 2 /\ mounted' = TRUE /\ repairs' = 0
          /\ file' = [f \in Files |-> Absent] /\ stranded' = "no"
       \/ /\ repairs < 2 /\ mounted' = FALSE /\ repairs' = repairs + 1
          /\ file' = [f \in Files |-> Absent] /\ stranded' = "no"
       \/ /\ repairs = 2 /\ mounted' = FALSE /\ UNCHANGED <<repairs, file, stranded>>
    /\ UNCHANGED stores

----------------------------------------------------------------------------
StoreInit ==
    /\ file = [f \in Files |-> Absent] /\ step = "idle" /\ incoming = Absent
    /\ inForce = Absent /\ mounted = TRUE /\ repairs = 0 /\ stranded = "no"
    /\ stores = 0 /\ fileFaults = 0 /\ cuts = 0

StoreNext ==
    \/ BeginStore \/ ClearNext \/ WriteNext \/ MakeRoom \/ SetAside
    \/ PublishNext \/ Tidy \/ BootMounted \/ BootDamaged

StoreSpec == StoreInit /\ [][StoreNext]_storeVars

\* Whenever power fails, what the device will load is the schedule it follows
\* or, while another one is being stored, that one: nothing that failed to be
\* stored comes back, nothing half written is read, and the lights are never
\* left without a schedule.  A schedule that could not be moved back to its
\* place is excepted, from the next attempt to store one on: it may be gone at
\* the next start, and be back at a later one.
ScheduleSurvives ==
    mounted => \A files \in Interrupted :
        \/ Loaded(files) \in {inForce, incoming}
        \/ stranded = "retried" /\ Absent \in {Loaded(files), inForce}
=============================================================================
