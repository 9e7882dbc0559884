---------------------------- MODULE DeviceProofs ----------------------------
(***************************************************************************)
(* What holds of what a device keeps through a power loss (its schedule,   *)
(* its clock) for any number of schedules, failed writes and power losses  *)
(* and for any intervals; and of what it shows of that schedule when the   *)
(* controller is gone, for any points, any throttle and any gain.          *)
(***************************************************************************)
EXTENDS ScheduleStore, DeviceClock, ScheduleFallback, SequenceTheorems,
        WellFoundedInduction, TLAPS

-----------------------------------------------------------------------------
(* The stored schedule.                                                    *)

Placed == StoredSchedules \cup {Absent}

StoreTyped ==
    /\ file \in [Files -> Placed \cup {Torn}] /\ step \in StoreSteps
    /\ incoming \in Placed /\ inForce \in Placed
    /\ mounted \in BOOLEAN /\ stranded \in {"no", "yes", "retried"} /\ repairs \in 0 .. 2

\* What is on the disk, whatever the device makes of it: only the staging file
\* is ever torn, and a schedule is set aside for the length of a publication.
DiskKept ==
    /\ file["current"] \in Placed /\ file["previous"] \in Placed
    /\ step # "idle" => incoming \in StoredSchedules
    /\ step = "idle" => incoming = Absent
    /\ step \in {"make room", "set aside"} => file["current"] # Absent
    /\ step \in {"make room", "set aside", "publish"} => file["next"] = incoming
    /\ step = "publish" => file["current"] = Absent
    /\ step = "tidy" => file["current"] = incoming
    /\ stranded # "no" => file["current"] = Absent
    /\ file["current"] = Absent /\ stranded = "no" /\ step # "publish" => file["previous"] = Absent
    /\ ~mounted => step = "idle" /\ stranded = "no" /\ \A f \in Files : file[f] = Absent
    /\ repairs # 0 => ~mounted

\* Where the schedule that the device follows is.
Followed ==
    mounted =>
        /\ file["current"] # Absent /\ step # "tidy" => inForce = file["current"]
        /\ file["current"] = Absent /\ stranded = "no" => inForce = file["previous"]
        /\ stranded = "yes" => file["next"] # Absent /\ step = "idle" /\ inForce = file["previous"]
        /\ stranded = "retried" => inForce \in {file["previous"], Absent}

StoreKept == StoreTyped /\ DiskKept /\ Followed

\* A schedule is neither the absence of one nor a torn file.
LEMMA Apart == Absent # Torn /\ Absent \notin StoredSchedules /\ Torn \notin StoredSchedules
               /\ Absent \in Placed /\ Torn \notin Placed /\ StoredSchedules \subseteq Placed
  BY StoreAssumption DEF Absent, Torn, Placed

\* A step that changes the staging file only, and ends the attempt or not.
LEMMA NextFileChanges ==
  ASSUME StoreKept, mounted, stranded # "yes",
         NEW held \in Placed \cup {Torn}, file' = [file EXCEPT !["next"] = held],
         UNCHANGED <<inForce, mounted, repairs, stranded>>,
         step # "tidy", step' # "tidy",
         step' \in StoreSteps, incoming' \in Placed,
         step' # "idle" => incoming' \in StoredSchedules,
         step' = "idle" => incoming' = Absent,
         step' \in {"make room", "set aside"} => file["current"] # Absent,
         step' \in {"make room", "set aside", "publish"} => held = incoming',
         step' = "publish" => file["current"] = Absent,
         step = "publish" /\ step' # "publish" /\ stranded = "no" => file["previous"] = Absent
  PROVE  StoreKept'
<1>1. /\ file' \in [Files -> Placed \cup {Torn}] /\ file'["current"] = file["current"]
      /\ file'["previous"] = file["previous"] /\ file'["next"] = held
  BY DEF StoreKept, StoreTyped, Files
<1>2. StoreTyped'
  BY <1>1 DEF StoreKept, StoreTyped
<1>3. DiskKept'
  BY <1>1, Apart DEF StoreKept, StoreTyped, DiskKept
<1>4. Followed'
  BY <1>1 DEF StoreKept, DiskKept, Followed
<1>5. QED
  BY <1>2, <1>3, <1>4 DEF StoreKept

\* handleScheduleCommand's rollback, with what was written left or removed.
LEMMA GivenUp ==
  ASSUME StoreKept, mounted, stranded # "yes", step # "tidy",
         NEW held \in Placed \cup {Torn},
         GiveUp([file EXCEPT !["next"] = held]),
         UNCHANGED <<inForce, mounted, repairs, stranded>>,
         step = "publish" /\ stranded = "no" => file["previous"] = Absent
  PROVE  StoreKept'
<1>1. step' = "idle" /\ incoming' = Absent
  BY DEF GiveUp
<1>2. file \in [Files -> Placed \cup {Torn}] /\ "next" \in Files
  BY DEF StoreKept, StoreTyped, Files
<1>3. \E kept \in {held, Absent} : file' = [file EXCEPT !["next"] = kept]
  <2>1. [[file EXCEPT !["next"] = held] EXCEPT !["next"] = Absent] = [file EXCEPT !["next"] = Absent]
    BY <1>2
  <2>2. \/ file' = [file EXCEPT !["next"] = held]
        \/ file' = [[file EXCEPT !["next"] = held] EXCEPT !["next"] = Absent]
    BY DEF GiveUp
  <2>3. QED
    BY <2>1, <2>2
<1>4. PICK kept \in {held, Absent} : file' = [file EXCEPT !["next"] = kept]
  BY <1>3
<1>5. kept \in Placed \cup {Torn}
  BY <1>4, Apart
<1>6. "idle" \in StoreSteps /\ Absent \in Placed
  BY Apart DEF StoreSteps
<1>7. QED
  BY <1>1, <1>4, <1>5, <1>6, NextFileChanges

\* Writing a file with what it holds changes nothing.
LEMMA StaysPut ==
  ASSUME StoreKept
  PROVE  /\ file = [file EXCEPT !["next"] = file["next"]]
         /\ file["next"] \in Placed \cup {Torn}
  BY DEF StoreKept, StoreTyped, Files

\* The files of a fresh device are in order.
LEMMA StoreKeptInit == StoreInit => StoreKept
<1> SUFFICES ASSUME StoreInit PROVE StoreKept
  OBVIOUS
<1>1. StoreTyped
  BY Apart DEF StoreInit, StoreTyped, StoreSteps
<1>2. DiskKept /\ Followed
  BY Apart DEF StoreInit, DiskKept, Followed, Files
<1>3. QED
  BY <1>1, <1>2 DEF StoreKept

\* Every call of the file system, and every boot, keeps them so.
LEMMA StoreKeptNext == StoreKept /\ [StoreNext]_storeVars => StoreKept'
<1> SUFFICES ASSUME StoreKept, [StoreNext]_storeVars PROVE StoreKept'
  OBVIOUS
<1>0. /\ file \in [Files -> Placed \cup {Torn}] /\ file["next"] \in Placed \cup {Torn}
      /\ file["current"] \in Placed /\ file["previous"] \in Placed /\ inForce \in Placed
      /\ "next" \in Files /\ "current" \in Files /\ "previous" \in Files
      /\ \A f \in Files : f \in {"current", "next", "previous"}
  BY DEF StoreKept, StoreTyped, DiskKept, Files
<1>a. step # "idle" => mounted /\ stranded # "yes" /\ incoming \in StoredSchedules
  BY DEF StoreKept, DiskKept, Followed
<1>1. CASE BeginStore
  <2>1. /\ step = "idle" /\ mounted /\ step' = "clear" /\ incoming' \in StoredSchedules
        /\ UNCHANGED <<file, inForce, mounted, repairs>>
        /\ stranded' = IF stranded = "yes" THEN "retried" ELSE stranded
    BY <1>1 DEF BeginStore
  <2>2. StoreTyped'
    BY <2>1, Apart DEF StoreKept, StoreTyped, StoreSteps
  <2>3. DiskKept'
    BY <2>1 DEF StoreKept, DiskKept, StoreTyped
  <2>4. Followed'
    BY <2>1 DEF StoreKept, Followed, StoreTyped
  <2>5. QED
    BY <2>2, <2>3, <2>4 DEF StoreKept
<1>2. CASE ClearNext
  <2>1. step = "clear" /\ UNCHANGED <<inForce, mounted, repairs, stranded>>
    BY <1>2 DEF ClearNext
  <2>2. CASE step' = "write" /\ UNCHANGED incoming /\ file' = [file EXCEPT !["next"] = Absent]
    BY <1>a, <2>1, <2>2, NextFileChanges, Apart DEF StoreSteps
  <2>3. CASE step' = "idle" /\ incoming' = Absent /\ UNCHANGED file
    BY <1>a, <2>1, <2>3, StaysPut, NextFileChanges, Apart DEF StoreSteps
  <2>4. QED
    BY <1>2, <2>2, <2>3 DEF ClearNext
<1>3. CASE WriteNext
  <2>1. step = "write" /\ UNCHANGED <<inForce, mounted, repairs, stranded>>
    BY <1>3 DEF WriteNext
  <2>2. CASE /\ UNCHANGED incoming /\ file' = [file EXCEPT !["next"] = incoming]
             /\ step' = IF file["current"] = Absent THEN "publish" ELSE "make room"
    BY <1>a, <2>1, <2>2, NextFileChanges, Apart DEF StoreSteps
  <2>3. CASE GiveUp([file EXCEPT !["next"] = Torn])
    BY <1>a, <2>1, <2>3, GivenUp
  <2>4. QED
    BY <1>3, <2>2, <2>3 DEF WriteNext
<1>4. CASE MakeRoom
  <2>1. step = "make room" /\ UNCHANGED <<inForce, mounted, repairs, stranded>>
    BY <1>4 DEF MakeRoom
  <2>2. CASE step' = "set aside" /\ UNCHANGED incoming /\ file' = [file EXCEPT !["previous"] = Absent]
    <3>1. /\ file' \in [Files -> Placed \cup {Torn}] /\ file'["current"] = file["current"]
          /\ file'["previous"] = Absent /\ file'["next"] = file["next"]
      BY <1>0, <2>2, Apart
    <3>2. StoreTyped'
      BY <2>1, <2>2, <3>1 DEF StoreKept, StoreTyped, StoreSteps
    <3>3. DiskKept'
      BY <1>a, <2>1, <2>2, <3>1, Apart DEF StoreKept, DiskKept
    <3>4. Followed'
      BY <1>a, <2>1, <2>2, <3>1 DEF StoreKept, DiskKept, Followed
    <3>5. QED
      BY <3>2, <3>3, <3>4 DEF StoreKept
  <2>3. CASE GiveUp(file)
    BY <1>a, <2>1, <2>3, StaysPut, GivenUp
  <2>4. QED
    BY <1>4, <2>2, <2>3 DEF MakeRoom
<1>5. CASE SetAside
  <2>1. step = "set aside" /\ UNCHANGED <<inForce, mounted, repairs, stranded>>
    BY <1>5 DEF SetAside
  <2>2. CASE /\ step' = "publish" /\ UNCHANGED incoming
             /\ file' = [file EXCEPT !["previous"] = file["current"], !["current"] = Absent]
    <3>1. /\ file' \in [Files -> Placed \cup {Torn}] /\ file'["current"] = Absent
          /\ file'["previous"] = file["current"] /\ file'["next"] = file["next"]
      BY <1>0, <2>2, Apart
    <3>2. /\ file["current"] # Absent /\ stranded = "no" /\ inForce = file["current"] /\ mounted
      BY <1>a, <2>1 DEF StoreKept, StoreTyped, DiskKept, Followed
    <3>3. StoreTyped'
      BY <2>1, <2>2, <3>1 DEF StoreKept, StoreTyped, StoreSteps
    <3>4. DiskKept'
      BY <1>0, <1>a, <2>1, <2>2, <3>1, <3>2, Apart DEF StoreKept, DiskKept
    <3>5. Followed'
      BY <2>1, <2>2, <3>1, <3>2 DEF Followed
    <3>6. QED
      BY <3>3, <3>4, <3>5 DEF StoreKept
  <2>3. CASE GiveUp(file)
    BY <1>a, <2>1, <2>3, StaysPut, GivenUp
  <2>4. QED
    BY <1>5, <2>2, <2>3 DEF SetAside
<1>6. CASE PublishNext
  <2>1. /\ step = "publish" /\ UNCHANGED <<inForce, mounted, repairs>> /\ mounted
        /\ incoming \in StoredSchedules /\ stranded # "yes" /\ file["current"] = Absent
        /\ file["next"] = incoming
    BY <1>6, <1>a DEF PublishNext, StoreKept, DiskKept
  <2>2. CASE /\ step' = "tidy" /\ UNCHANGED incoming /\ stranded' = "no"
             /\ file' = [file EXCEPT !["current"] = incoming, !["next"] = Absent]
    <3>1. /\ file' \in [Files -> Placed \cup {Torn}] /\ file'["current"] = incoming
          /\ file'["previous"] = file["previous"] /\ file'["next"] = Absent
      BY <1>0, <2>1, <2>2, Apart
    <3>2. StoreTyped'
      BY <2>1, <2>2, <3>1 DEF StoreKept, StoreTyped, StoreSteps
    <3>3. DiskKept'
      BY <1>0, <2>1, <2>2, <3>1, Apart DEF StoreKept, DiskKept
    <3>4. Followed'
      BY <2>1, <2>2, <3>1, Apart DEF Followed
    <3>5. QED
      BY <3>2, <3>3, <3>4 DEF StoreKept
  <2>3. CASE /\ UNCHANGED stranded /\ HadCurrent
             /\ GiveUp([file EXCEPT !["current"] = file["previous"], !["previous"] = Absent])
    <3> DEFINE back == [file EXCEPT !["current"] = file["previous"], !["previous"] = Absent]
    <3>1. /\ back \in [Files -> Placed \cup {Torn}] /\ back["current"] = file["previous"]
          /\ back["previous"] = Absent
      BY <1>0, Apart
    <3>2. step' = "idle" /\ incoming' = Absent /\ file' \in {back, [back EXCEPT !["next"] = Absent]}
      BY <2>3 DEF GiveUp
    <3> HIDE DEF back
    <3>3. /\ file' \in [Files -> Placed \cup {Torn}] /\ file'["current"] = file["previous"]
          /\ file'["previous"] = Absent
      BY <1>0, <3>1, <3>2, Apart
    <3>4. /\ file["previous"] # Absent /\ stranded = "no" /\ inForce = file["previous"]
      BY <2>1, <2>3 DEF HadCurrent, StoreKept, Followed
    <3>5. StoreTyped'
      BY <2>1, <2>3, <3>2, <3>3, Apart DEF StoreKept, StoreTyped, StoreSteps
    <3>6. DiskKept'
      BY <1>0, <2>1, <2>3, <3>2, <3>3, <3>4, Apart DEF StoreKept, DiskKept
    <3>7. Followed'
      BY <2>1, <2>3, <3>2, <3>3, <3>4 DEF Followed
    <3>8. QED
      BY <3>5, <3>6, <3>7 DEF StoreKept
  <2>4. CASE UNCHANGED stranded /\ ~HadCurrent /\ GiveUp(file)
    BY <2>1, <2>4, StaysPut, GivenUp DEF HadCurrent
  <2>5. CASE HadCurrent /\ stranded' = "yes" /\ step' = "idle" /\ incoming' = Absent /\ UNCHANGED file
    <3>1. /\ stranded = "no" /\ inForce = file["previous"]
      BY <2>1, <2>5 DEF HadCurrent, StoreKept, Followed
    <3>2. StoreTyped'
      BY <2>1, <2>5, Apart DEF StoreKept, StoreTyped, StoreSteps
    <3>3. DiskKept'
      BY <1>0, <2>1, <2>5 DEF StoreKept, DiskKept
    <3>4. Followed'
      BY <2>1, <2>5, <3>1, Apart DEF Followed
    <3>5. QED
      BY <3>2, <3>3, <3>4 DEF StoreKept
  <2>6. QED
    BY <1>6, <2>2, <2>3, <2>4, <2>5 DEF PublishNext
<1>7. CASE Tidy
  <2>1. /\ step = "tidy" /\ UNCHANGED <<mounted, repairs, stranded>> /\ mounted
        /\ inForce' = incoming /\ step' = "idle" /\ incoming' = Absent
        /\ incoming \in StoredSchedules /\ file["current"] = incoming /\ stranded = "no"
    BY <1>7, <1>a, Apart DEF Tidy, StoreKept, StoreTyped, DiskKept
  <2>2. /\ file' \in [Files -> Placed \cup {Torn}] /\ file'["current"] = file["current"]
        /\ file'["previous"] \in Placed
    <3>1. file' = [file EXCEPT !["previous"] = Absent] \/ file' = file
      BY <1>7 DEF Tidy
    <3>2. QED
      BY <1>0, <3>1, Apart
  <2>3. StoreTyped'
    BY <2>1, <2>2, Apart DEF StoreKept, StoreTyped, StoreSteps
  <2>4. DiskKept'
    BY <1>0, <2>1, <2>2, Apart DEF StoreKept, DiskKept
  <2>5. Followed'
    BY <2>1, <2>2, Apart DEF Followed
  <2>6. QED
    BY <2>3, <2>4, <2>5 DEF StoreKept
<1>8. CASE BootMounted
  <2>1. PICK files \in Interrupted :
          /\ inForce' = Loaded(files)
          /\ \/ /\ file' = IF ReadFrom(files) = "previous" /\ files["previous"] # Absent
                          THEN [files EXCEPT !["current"] = files["previous"], !["previous"] = Absent]
                          ELSE files
                /\ stranded' = IF file'["current"] = Absent THEN stranded ELSE "no"
             \/ /\ ReadFrom(files) = "previous" /\ files["previous"] # Absent
                /\ file' = files /\ stranded' = "yes"
    BY <1>8 DEF BootMounted
  <2>2. /\ mounted' = TRUE /\ repairs' = 0 /\ step' = "idle" /\ incoming' = Absent
    BY <1>8 DEF BootMounted
  <2>3. /\ files \in [Files -> Placed \cup {Torn}] /\ files["current"] = file["current"]
        /\ files["previous"] = file["previous"]
        /\ files["next"] = file["next"] \/ step = "write"
    BY <1>0, <2>1 DEF Interrupted
  <2>4. /\ files["current"] \in Placed /\ files["previous"] \in Placed
        /\ stranded # "no" => files["current"] = Absent
        /\ files["current"] = Absent /\ files["next"] = Absent /\ stranded = "no" => files["previous"] = Absent
        /\ stranded = "yes" /\ mounted => files["next"] # Absent
        /\ stranded \in {"no", "yes", "retried"}
        /\ ~mounted => stranded = "no"
    BY <1>0, <2>3, Apart DEF StoreKept, StoreTyped, DiskKept, Followed
  <2>5. CASE files["current"] # Absent
    <3>1. ReadFrom(files) = "current"
      BY <2>5 DEF ReadFrom
    <3>2. Loaded(files) = files["current"]
      BY <2>4, <2>5, <3>1, Apart DEF Loaded
    <3>3. file' = files /\ stranded' = "no" /\ inForce' = files["current"]
      BY <2>1, <2>5, <3>1, <3>2
    <3>4. StoreTyped'
      BY <2>2, <2>3, <2>4, <3>3, Apart DEF StoreTyped, StoreSteps
    <3>5. DiskKept' /\ Followed'
      BY <2>2, <2>3, <2>4, <2>5, <3>3 DEF DiskKept, Followed
    <3>6. QED
      BY <3>4, <3>5 DEF StoreKept
  <2>6. CASE files["current"] = Absent /\ files["next"] = Absent
    <3>1. ReadFrom(files) = "none"
      BY <2>6 DEF ReadFrom
    <3>2. file' = files /\ stranded' = stranded /\ inForce' = Absent
      BY <2>1, <2>6, <3>1 DEF Loaded
    <3>3. StoreTyped'
      BY <2>2, <2>3, <2>4, <3>2, Apart DEF StoreTyped, StoreSteps
    <3>4. DiskKept' /\ Followed'
      BY <2>2, <2>3, <2>4, <2>6, <3>2 DEF DiskKept, Followed
    <3>5. QED
      BY <3>3, <3>4 DEF StoreKept
  <2>7. CASE files["current"] = Absent /\ files["next"] # Absent
    <3>1. ReadFrom(files) = "previous"
      BY <2>7 DEF ReadFrom
    <3>2. Loaded(files) = files["previous"]
      BY <2>4, <3>1, Apart DEF Loaded
    <3>3. CASE files["previous"] = Absent
      <4>1. file' = files /\ stranded' = stranded /\ inForce' = Absent
        BY <2>1, <2>7, <3>1, <3>2, <3>3
      <4>2. StoreTyped'
        BY <2>2, <2>3, <2>4, <4>1, Apart DEF StoreTyped, StoreSteps
      <4>3. DiskKept' /\ Followed'
        BY <2>2, <2>3, <2>4, <2>7, <3>3, <4>1, Apart DEF DiskKept, Followed
      <4>4. QED
        BY <4>2, <4>3 DEF StoreKept
    <3>4. CASE files["previous"] # Absent /\ file' = files /\ stranded' = "yes"
      <4>1. inForce' = files["previous"]
        BY <2>1, <3>2
      <4>2. StoreTyped'
        BY <2>2, <2>3, <2>4, <3>4, <4>1, Apart DEF StoreTyped, StoreSteps
      <4>3. DiskKept' /\ Followed'
        BY <2>2, <2>3, <2>4, <2>7, <3>4, <4>1 DEF DiskKept, Followed
      <4>4. QED
        BY <4>2, <4>3 DEF StoreKept
    <3>5. CASE /\ files["previous"] # Absent
               /\ file' = [files EXCEPT !["current"] = files["previous"], !["previous"] = Absent]
               /\ stranded' = IF file'["current"] = Absent THEN stranded ELSE "no"
      <4>1. /\ file' \in [Files -> Placed \cup {Torn}] /\ file'["current"] = files["previous"]
            /\ file'["previous"] = Absent
        BY <1>0, <2>3, <3>5, Apart
      <4>2. stranded' = "no" /\ inForce' = files["previous"]
        BY <2>1, <3>2, <3>5, <4>1
      <4>3. StoreTyped'
        BY <2>2, <2>4, <4>1, <4>2, Apart DEF StoreTyped, StoreSteps
      <4>4. DiskKept' /\ Followed'
        BY <2>2, <2>4, <3>5, <4>1, <4>2, Apart DEF DiskKept, Followed
      <4>5. QED
        BY <4>3, <4>4 DEF StoreKept
    <3>6. QED
      BY <2>1, <3>1, <3>3, <3>4, <3>5
  <2>8. QED
    BY <2>5, <2>6, <2>7
<1>9. CASE BootDamaged
  <2>1. step' = "idle" /\ incoming' = Absent /\ inForce' = Absent
    BY <1>9 DEF BootDamaged
  <2>2. \/ /\ file' = [f \in Files |-> Absent] /\ stranded' = "no"
           /\ \/ mounted' = TRUE /\ repairs' = 0
              \/ mounted' = FALSE /\ repairs < 2 /\ repairs' = repairs + 1
        \/ repairs = 2 /\ mounted' = FALSE /\ UNCHANGED <<repairs, file, stranded>>
    BY <1>9 DEF BootDamaged
  <2>3. /\ stranded' = "no" /\ \A f \in Files : file'[f] = Absent
        /\ file' \in [Files -> Placed \cup {Torn}]
    <3>1. CASE repairs = 2 /\ UNCHANGED <<file, stranded>>
      <4>1. repairs # 0
        BY <3>1
      <4>2. ~mounted
        BY <4>1 DEF StoreKept, DiskKept
      <4>3. stranded = "no" /\ \A f \in Files : file[f] = Absent
        BY <4>2 DEF StoreKept, DiskKept
      <4>4. QED
        BY <1>0, <3>1, <4>3
    <3>2. CASE file' = [f \in Files |-> Absent] /\ stranded' = "no"
      BY <3>2, Apart
    <3>3. QED
      BY <2>2, <3>1, <3>2
  <2>4. mounted' \in BOOLEAN /\ repairs' \in 0 .. 2 /\ (repairs' # 0 => ~mounted')
    <3>1. \/ mounted' = TRUE /\ repairs' = 0
          \/ mounted' = FALSE
      BY <2>2
    <3>2. repairs \in 0 .. 2
      BY DEF StoreKept, StoreTyped
    <3>3. repairs' \in 0 .. 2
      BY <2>2, <3>2
    <3>4. QED
      BY <3>1, <3>3
  <2>5. StoreTyped'
    BY <2>1, <2>3, <2>4, Apart DEF StoreTyped, StoreSteps
  <2>6. DiskKept' /\ Followed'
    <3>1. file'["current"] = Absent /\ file'["previous"] = Absent /\ file'["next"] = Absent
      BY <1>0, <2>3
    <3>2. DiskKept'
      BY <2>1, <2>3, <2>4, <3>1, Apart DEF DiskKept
    <3>3. Followed'
      BY <2>1, <2>3, <3>1 DEF Followed
    <3>4. QED
      BY <3>2, <3>3
  <2>7. QED
    BY <2>5, <2>6 DEF StoreKept
<1>10. CASE UNCHANGED storeVars
  <2>1. UNCHANGED <<file, step, incoming, inForce, mounted, repairs, stranded>>
    BY <1>10 DEF storeVars
  <2>2. QED
    BY <2>1 DEF StoreKept, StoreTyped, DiskKept, Followed
<1>11. QED
  BY <1>1, <1>2, <1>3, <1>4, <1>5, <1>6, <1>7, <1>8, <1>9, <1>10 DEF StoreNext

(* The files of the device and what it makes of them keep to their domains. *)
THEOREM StoreTypes == StoreSpec => []StoreTypeOK
<1>1. StoreKept => StoreTypeOK
  BY DEF StoreKept, StoreTyped, StoreTypeOK, Placed
<1>2. QED
  BY <1>1, StoreKeptInit, StoreKeptNext, PTL DEF StoreSpec

(* Whenever power fails, the device will load the schedule that it follows *)
(* or the one it is being given, for any number of schedules, of failed    *)
(* calls of its file system and of power losses: a torn or a refused one   *)
(* never.  Excepted is a store tried again with the schedule set aside.   *)
THEOREM ScheduleIsKept == StoreSpec => []ScheduleSurvives
<1>1. ASSUME StoreKept, mounted, NEW files \in Interrupted
      PROVE  \/ Loaded(files) \in {inForce, incoming}
             \/ stranded = "retried" /\ Absent \in {Loaded(files), inForce}
  <2>1. /\ files["current"] = file["current"] /\ files["previous"] = file["previous"]
        /\ files["next"] = file["next"] \/ step = "write"
        /\ file["current"] \in Placed /\ file["previous"] \in Placed
    BY <1>1 DEF Interrupted, StoreKept, StoreTyped, DiskKept, Files
  <2>2. CASE file["current"] # Absent
    <3>1. Loaded(files) = file["current"]
      BY <2>1, <2>2, Apart DEF Loaded, ReadFrom
    <3>2. file["current"] = inForce \/ file["current"] = incoming
      BY <1>1, <2>2 DEF StoreKept, DiskKept, Followed
    <3>3. QED
      BY <3>1, <3>2
  <2>3. CASE file["current"] = Absent
    <3>1. Loaded(files) \in {file["previous"], Absent}
          /\ (files["next"] # Absent => Loaded(files) = file["previous"])
      BY <2>1, <2>3, Apart DEF Loaded, ReadFrom
    <3>2. CASE stranded = "no" /\ step # "publish"
      <4>1. file["previous"] = Absent /\ inForce = Absent
        BY <1>1, <2>3, <3>2 DEF StoreKept, DiskKept, Followed
      <4>2. QED
        BY <3>1, <4>1
    <3>3. CASE stranded = "no" /\ step = "publish"
      <4>1. inForce = file["previous"] /\ file["next"] # Absent
        BY <1>1, <2>3, <3>3, Apart DEF StoreKept, DiskKept, Followed
      <4>2. QED
        BY <2>1, <3>1, <3>3, <4>1
    <3>4. CASE stranded = "yes"
      <4>1. inForce = file["previous"] /\ file["next"] # Absent /\ step = "idle"
        BY <1>1, <3>4 DEF StoreKept, Followed
      <4>2. QED
        BY <2>1, <3>1, <4>1
    <3>5. CASE stranded = "retried"
      <4>1. inForce \in {file["previous"], Absent}
        BY <1>1, <3>5 DEF StoreKept, Followed
      <4>2. QED
        BY <3>1, <3>5, <4>1
    <3>6. QED
      BY <1>1, <3>2, <3>3, <3>4, <3>5 DEF StoreKept, StoreTyped
  <2>4. QED
    BY <2>2, <2>3
<1>2. StoreKept => ScheduleSurvives
  BY <1>1 DEF ScheduleSurvives
<1>3. QED
  BY <1>2, StoreKeptInit, StoreKeptNext, PTL DEF StoreSpec
-----------------------------------------------------------------------------
(* The clock and its checkpoint.                                           *)

Checkpoints == [pending : BOOLEAN, immediate : BOOLEAN, fresh : BOOLEAN, failed : BOOLEAN,
                attemptAt : 0 .. MaxTicks, successAt : 0 .. MaxTicks]
Askings == [asking : BOOLEAN, arrived : BOOLEAN, askedAt : 0 .. MaxTicks \cup {NotYet},
            doneAt : 0 .. MaxTicks \cup {NotYet}]

ClockTyped ==
    /\ up \in 0 .. MaxTicks /\ known \in BOOLEAN /\ commits \in Nat
    /\ checkpoint \in Checkpoints /\ ntp \in Askings

\* The hours that the commits account for: one more once the clock was set.
Spent(c, n) == n * Hour <= c.attemptAt + (IF c.immediate \/ c.fresh THEN Hour ELSE 0)

\* The checkpoint and its commits at a time: an attempt that is not repeated
\* was a success, and only a failed one leaves a set clock to be written.
Paced(c, n, time) ==
    /\ c.attemptAt <= time
    /\ ~c.failed => c.successAt = c.attemptAt
    /\ c.successAt <= c.attemptAt
    /\ c.immediate => c.failed
    /\ Spent(c, n)

\* The constants as the steps below need them.
LEMMA ClockNumbers ==
  Hour \in Nat \ {0} /\ MaxTicks \in Nat \ {0}
  BY ClockAssumption

\* Time that passes pays for commits and takes none back.
LEMMA PacedLater ==
  ASSUME NEW c \in Checkpoints, NEW n \in Nat, NEW s \in Nat, NEW t \in Nat, s <= t, Paced(c, n, s)
  PROVE  Paced(c, n, t)
<1>1. c.attemptAt \in Nat
  BY DEF Checkpoints
<1>2. c.attemptAt <= t
  BY <1>1 DEF Paced
<1>3. QED
  BY <1>2 DEF Paced

\* A checkpoint as it is serviced: due or not, one that works or not.  The
\* allowance covers the attempt that a set clock does not wait for.
LEMMA Attempted ==
  ASSUME NEW c \in Checkpoints, NEW n \in Nat, up \in 0 .. MaxTicks,
         NEW works \in BOOLEAN,
         (n + 1) * Hour <= up + (IF c.immediate \/ c.fresh THEN Hour ELSE 0)
  PROVE  /\ CheckpointWritten(c, works) \in Checkpoints
         /\ c.successAt <= up => Paced(CheckpointWritten(c, works), n + 1, up)
<1> DEFINE w == CheckpointWritten(c, works)
<1>0. up \in Nat /\ c.successAt \in Nat /\ c.attemptAt \in Nat /\ n + 1 \in Nat
  BY ClockNumbers DEF Checkpoints
<1>1. CASE works
  <2>1. w = [c EXCEPT !.pending = FALSE, !.immediate = FALSE, !.failed = FALSE,
                      !.fresh = c.fresh \/ c.immediate, !.attemptAt = up, !.successAt = up]
    BY <1>1 DEF CheckpointWritten
  <2>2. (c.fresh \/ c.immediate) \in BOOLEAN
    OBVIOUS
  <2>3. /\ w \in Checkpoints /\ w.attemptAt = up /\ w.successAt = up /\ w.immediate = FALSE
        /\ w.failed = FALSE /\ w.fresh = (c.fresh \/ c.immediate)
    BY <2>1, <2>2 DEF Checkpoints
  <2> HIDE DEF w
  <2>4. (w.immediate \/ w.fresh) = (c.immediate \/ c.fresh)
    BY <2>3
  <2>5. Spent(w, n + 1)
    BY <2>3, <2>4 DEF Spent
  <2>6. up <= up
    BY <1>0
  <2>7. Paced(w, n + 1, up)
    BY <2>3, <2>5, <2>6 DEF Paced
  <2>8. QED
    BY <2>3, <2>7 DEF w
<1>2. CASE ~works
  <2>1. w = [c EXCEPT !.failed = TRUE, !.attemptAt = up]
    BY <1>2 DEF CheckpointWritten
  <2>2. /\ w \in Checkpoints /\ w.attemptAt = up /\ w.successAt = c.successAt
        /\ w.failed = TRUE /\ w.immediate = c.immediate /\ w.fresh = c.fresh
    BY <2>1 DEF Checkpoints
  <2> HIDE DEF w
  <2>3. Spent(w, n + 1)
    BY <2>2 DEF Spent
  <2>4. up <= up
    BY <1>0
  <2>5. c.successAt <= up => Paced(w, n + 1, up)
    BY <2>2, <2>3, <2>4 DEF Paced
  <2>6. QED
    BY <2>2, <2>5 DEF w
<1>3. QED
  BY <1>1, <1>2

\* HourPassed only makes a checkpoint pending.
LEMMA HourPassedTyped ==
  ASSUME NEW c \in Checkpoints
  PROVE  /\ HourPassed(c) \in Checkpoints
         /\ HourPassed(c).attemptAt = c.attemptAt /\ HourPassed(c).successAt = c.successAt
         /\ HourPassed(c).immediate = c.immediate /\ HourPassed(c).fresh = c.fresh
         /\ HourPassed(c).failed = c.failed
<1>1. CASE HourPassed(c) = c
  BY <1>1
<1>2. CASE HourPassed(c) = [c EXCEPT !.pending = TRUE]
  BY <1>2 DEF Checkpoints
<1>3. QED
  BY <1>1, <1>2 DEF HourPassed

\* A checkpoint that is due an hour after the last attempt is paid for.
LEMMA Serviced ==
  ASSUME ClockTyped, Paced(checkpoint, commits, up), ServiceCheckpoint(checkpoint)
  PROVE  checkpoint' \in Checkpoints /\ commits' \in Nat /\ Paced(checkpoint', commits', up)
<1> DEFINE c == checkpoint
           next == HourPassed(c)
<1>0. /\ c \in Checkpoints /\ commits \in Nat /\ up \in 0 .. MaxTicks /\ up \in Nat
      /\ c.attemptAt \in Nat /\ c.successAt \in Nat /\ Hour \in Nat /\ commits * Hour \in Nat
  BY ClockNumbers DEF ClockTyped, Checkpoints
<1>1. /\ next \in Checkpoints /\ next.attemptAt = c.attemptAt /\ next.successAt = c.successAt
      /\ next.immediate = c.immediate /\ next.fresh = c.fresh /\ next.failed = c.failed
  BY <1>0, HourPassedTyped
<1>2. CASE CheckpointDue(next)
  <2>1. PICK works \in BOOLEAN : checkpoint' = CheckpointWritten(next, works) /\ commits' = commits + 1
    BY <1>2 DEF ServiceCheckpoint
  <2>2. up - c.attemptAt >= Hour /\ c.attemptAt <= up /\ c.successAt <= c.attemptAt
    <3>1. CASE c.failed
      BY <1>1, <1>2, <3>1 DEF CheckpointDue, Paced
    <3>2. CASE ~c.failed
      <4>1. ~c.immediate /\ c.successAt = c.attemptAt
        BY <3>2 DEF Paced
      <4>2. up - c.successAt >= Hour
        BY <1>1, <1>2, <3>2, <4>1 DEF CheckpointDue
      <4>3. QED
        BY <4>1, <4>2 DEF Paced
    <3>3. QED
      BY <3>1, <3>2
  <2>3. commits * Hour <= c.attemptAt + (IF c.immediate \/ c.fresh THEN Hour ELSE 0)
    BY DEF Paced, Spent
  <2>4. (commits + 1) * Hour = commits * Hour + Hour
    BY <1>0
  <2> DEFINE extra == IF c.immediate \/ c.fresh THEN Hour ELSE 0
  <2>5. extra \in Nat
    BY <1>0
  <2> HIDE DEF extra
  <2>6. commits * Hour <= c.attemptAt + extra
    BY <2>3 DEF extra
  <2>7. (commits + 1) * Hour <= up + extra
    BY <1>0, <2>2, <2>4, <2>5, <2>6
  <2>8. (commits + 1) * Hour <= up + (IF next.immediate \/ next.fresh THEN Hour ELSE 0)
    BY <1>1, <2>7 DEF extra
  <2>9. next.successAt <= up
    BY <1>0, <1>1, <2>2
  <2> HIDE DEF next, c
  <2>10. QED
    BY <1>0, <1>1, <2>1, <2>8, <2>9, Attempted
<1>3. CASE ~CheckpointDue(next)
  <2>1. checkpoint' = next /\ commits' = commits
    BY <1>3 DEF ServiceCheckpoint
  <2>2. Spent(next, commits)
    BY <1>1 DEF Paced, Spent
  <2>3. Paced(next, commits, up)
    BY <1>1, <2>2 DEF Paced
  <2>4. QED
    BY <1>0, <1>1, <2>1, <2>3
<1>4. QED
  BY <1>2, <1>3

\* The first clock that is set since the device started is written at once,
\* which the allowance pays for; any other waits for its hour.
LEMMA ServicedWhenSet ==
  ASSUME ClockTyped, Paced(checkpoint, commits, up),
         ServiceCheckpoint(CheckpointQueued(checkpoint))
  PROVE  checkpoint' \in Checkpoints /\ commits' \in Nat /\ Paced(checkpoint', commits', up)
<1> DEFINE c == checkpoint
           q == CheckpointQueued(c)
           next == HourPassed(q)
<1>0. /\ c \in Checkpoints /\ commits \in Nat /\ up \in 0 .. MaxTicks /\ up \in Nat
      /\ c.attemptAt \in Nat /\ c.successAt \in Nat /\ Hour \in Nat /\ commits * Hour \in Nat
      /\ c.successAt <= c.attemptAt /\ c.attemptAt <= up /\ c.successAt <= up
  BY ClockNumbers DEF ClockTyped, Checkpoints, Paced
<1>1. q \in Checkpoints /\ q.attemptAt = c.attemptAt /\ q.successAt = c.successAt
      /\ (q.immediate \/ q.fresh)
  <2>1. CASE q = [c EXCEPT !.pending = TRUE] /\ (c.fresh \/ c.immediate)
    BY <1>0, <2>1 DEF Checkpoints
  <2>2. CASE q = [c EXCEPT !.pending = TRUE, !.immediate = TRUE, !.failed = FALSE]
    BY <1>0, <2>2 DEF Checkpoints
  <2>3. QED
    BY <2>1, <2>2 DEF CheckpointQueued
<1>2. /\ next \in Checkpoints /\ next.attemptAt = c.attemptAt /\ next.successAt = c.successAt
      /\ next.immediate = q.immediate /\ next.fresh = q.fresh /\ next.failed = q.failed
  BY <1>1, HourPassedTyped
<1>3. CASE c.fresh \/ c.immediate
  <2>1. q = [c EXCEPT !.pending = TRUE]
    BY <1>3 DEF CheckpointQueued
  <2>2. q.failed = c.failed /\ q.immediate = c.immediate /\ q.fresh = c.fresh
    BY <1>0, <2>1 DEF Checkpoints
  <2>3. CASE CheckpointDue(next)
    <3>1. PICK works \in BOOLEAN : checkpoint' = CheckpointWritten(next, works) /\ commits' = commits + 1
      BY <2>3 DEF ServiceCheckpoint
    <3>2. up - c.attemptAt >= Hour
      <4>1. CASE c.failed
        BY <1>2, <2>2, <2>3, <4>1 DEF CheckpointDue
      <4>2. CASE ~c.failed
        <5>1. ~c.immediate /\ c.successAt = c.attemptAt
          BY <4>2 DEF Paced
        <5>2. up - c.successAt >= Hour
          BY <1>2, <2>2, <2>3, <4>2, <5>1 DEF CheckpointDue
        <5>3. QED
          BY <5>1, <5>2
      <4>3. QED
        BY <4>1, <4>2
    <3>3. commits * Hour <= c.attemptAt + Hour
      BY <1>3 DEF Paced, Spent
    <3>4. (commits + 1) * Hour = commits * Hour + Hour
      BY <1>0
    <3>5. (commits + 1) * Hour <= up + Hour
      BY <1>0, <3>2, <3>3, <3>4
    <3>6. (commits + 1) * Hour <= up + (IF next.immediate \/ next.fresh THEN Hour ELSE 0)
      BY <1>1, <1>2, <3>5
    <3> HIDE DEF next, c, q
    <3>7. QED
      BY <1>0, <1>2, <3>1, <3>6, Attempted
  <2>4. CASE ~CheckpointDue(next)
    <3>1. checkpoint' = next /\ commits' = commits
      BY <2>4 DEF ServiceCheckpoint
    <3>2. Spent(next, commits)
      BY <1>2, <2>2 DEF Paced, Spent
    <3>3. Paced(next, commits, up)
      BY <1>2, <2>2, <3>2 DEF Paced
    <3>4. QED
      BY <1>0, <1>2, <3>1, <3>3
  <2>5. QED
    BY <2>3, <2>4
<1>4. CASE ~(c.fresh \/ c.immediate)
  <2>1. q = [c EXCEPT !.pending = TRUE, !.immediate = TRUE, !.failed = FALSE]
    BY <1>4 DEF CheckpointQueued
  <2>2. q.pending = TRUE /\ q.immediate = TRUE /\ q.failed = FALSE /\ q.fresh = c.fresh
    BY <1>0, <2>1 DEF Checkpoints
  <2>3. next.pending = TRUE
    <3>1. next = q \/ next = [q EXCEPT !.pending = TRUE]
      BY DEF HourPassed
    <3>2. QED
      BY <1>1, <2>2, <3>1 DEF Checkpoints
  <2>4. CheckpointDue(next)
    BY <1>2, <1>4, <2>2, <2>3 DEF CheckpointDue
  <2>5. PICK works \in BOOLEAN : checkpoint' = CheckpointWritten(next, works) /\ commits' = commits + 1
    BY <2>4 DEF ServiceCheckpoint
  <2>6. commits * Hour <= c.attemptAt + 0
    BY <1>4 DEF Paced, Spent
  <2>7. (commits + 1) * Hour = commits * Hour + Hour
    BY <1>0
  <2>8. (commits + 1) * Hour <= up + Hour
    BY <1>0, <2>6, <2>7
  <2>9. (commits + 1) * Hour <= up + (IF next.immediate \/ next.fresh THEN Hour ELSE 0)
    BY <1>1, <1>2, <2>8
  <2> HIDE DEF next, c, q
  <2>10. QED
    BY <1>0, <1>2, <2>5, <2>9, Attempted
<1>5. QED
  BY <1>3, <1>4

ClockKept == ClockTyped /\ Paced(checkpoint, commits, up)

\* A boot has written nothing yet.
LEMMA ClockKeptInit == ClockInit => ClockKept
<1> SUFFICES ASSUME ClockInit PROVE ClockKept
  OBVIOUS
<1>1. ClockTyped
  BY ClockNumbers DEF ClockInit, ClockTyped, Checkpoints, Askings
<1>2. Paced(checkpoint, commits, up)
  <2>1. 0 * Hour = 0
    BY ClockNumbers
  <2>2. checkpoint.attemptAt = 0 /\ checkpoint.successAt = 0 /\ ~checkpoint.immediate
        /\ ~checkpoint.fresh /\ ~checkpoint.failed /\ commits = 0 /\ up = 0
    BY DEF ClockInit
  <2>3. QED
    BY <2>1, <2>2 DEF Paced, Spent
<1>3. QED
  BY <1>1, <1>2 DEF ClockKept

\* Every step of the clock keeps the pace.
LEMMA ClockKeptNext == ClockKept /\ [ClockNext]_clockVars => ClockKept'
<1> SUFFICES ASSUME ClockKept, [ClockNext]_clockVars PROVE ClockKept'
  OBVIOUS
<1>0. ClockTyped /\ Paced(checkpoint, commits, up) /\ ntp \in Askings /\ up \in 0 .. MaxTicks
      /\ checkpoint \in Checkpoints /\ commits \in Nat /\ up \in Nat
  BY ClockNumbers DEF ClockKept, ClockTyped
<1>1. CASE TakeSync
  <2>1. ServiceCheckpoint(CheckpointQueued(checkpoint)) /\ UNCHANGED <<up, ntp>> /\ known' = TRUE
    BY <1>1 DEF TakeSync
  <2>2. checkpoint' \in Checkpoints /\ commits' \in Nat /\ Paced(checkpoint', commits', up)
    BY <1>0, <2>1, ServicedWhenSet
  <2>3. QED
    BY <1>0, <2>1, <2>2 DEF ClockKept, ClockTyped
<1>2. CASE TakeNtpTime
  <2>1. CASE /\ known' = TRUE /\ ServiceCheckpoint(CheckpointQueued(checkpoint)) /\ UNCHANGED up
             /\ ntp' = [ntp EXCEPT !.arrived = FALSE, !.asking = FALSE, !.doneAt = up]
    <3>1. checkpoint' \in Checkpoints /\ commits' \in Nat /\ Paced(checkpoint', commits', up)
      BY <1>0, <2>1, ServicedWhenSet
    <3>2. ntp' \in Askings
      BY <1>0, <2>1 DEF Askings
    <3>3. QED
      BY <1>0, <2>1, <3>1, <3>2 DEF ClockKept, ClockTyped
  <2>2. CASE /\ ntp' = [ntp EXCEPT !.arrived = FALSE]
             /\ UNCHANGED <<up, known, checkpoint, commits>>
    <3>1. ntp' \in Askings
      BY <1>0, <2>2 DEF Askings
    <3>2. QED
      BY <1>0, <2>2, <3>1 DEF ClockKept, ClockTyped
  <2>3. QED
    BY <1>2, <2>1, <2>2 DEF TakeNtpTime
<1>3. CASE NtpAnswers \/ NtpTimesOut \/ BeginNtpSync
  <2>1. UNCHANGED <<up, known, checkpoint, commits>>
    BY <1>3 DEF NtpAnswers, NtpTimesOut, BeginNtpSync
  <2>2. ntp' \in Askings
    BY <1>0, <1>3 DEF NtpAnswers, NtpTimesOut, BeginNtpSync, Askings
  <2>3. QED
    BY <1>0, <2>1, <2>2 DEF ClockKept, ClockTyped
<1>4. CASE ClockTick
  <2>1. up' = up + 1 /\ up < MaxTicks /\ UNCHANGED <<known, ntp>>
    BY <1>4 DEF ClockTick
  <2>2. up' \in 0 .. MaxTicks /\ up <= up' /\ up' \in Nat
    BY <1>0, <2>1, ClockNumbers
  <2>3. CASE ~known
    <3>1. UNCHANGED <<checkpoint, commits>>
      BY <1>4, <2>3 DEF ClockTick
    <3>2. Paced(checkpoint, commits, up')
      BY <1>0, <2>2, PacedLater
    <3>3. QED
      BY <1>0, <2>1, <2>2, <3>1, <3>2 DEF ClockKept, ClockTyped
  <2>4. CASE known
    <3>1. ServiceCheckpoint(checkpoint)
      BY <1>4, <2>4 DEF ClockTick
    <3>2. checkpoint' \in Checkpoints /\ commits' \in Nat /\ Paced(checkpoint', commits', up)
      BY <1>0, <3>1, Serviced
    <3>3. Paced(checkpoint', commits', up')
      BY <1>0, <2>2, <3>2, PacedLater
    <3>4. QED
      BY <1>0, <2>1, <2>2, <3>2, <3>3 DEF ClockKept, ClockTyped
  <2>5. QED
    BY <1>0, <2>3, <2>4
<1>5. CASE UNCHANGED clockVars
  BY <1>5 DEF clockVars, ClockKept, ClockTyped
<1>6. QED
  BY <1>1, <1>2, <1>3, <1>4, <1>5 DEF ClockNext

(* The checkpoint and the time server's flags keep to their domains. *)
THEOREM ClockTypes == ClockSpec => []ClockTypeOK
<1>1. ClockKept => ClockTypeOK
  BY DEF ClockKept, ClockTyped, ClockTypeOK, Checkpoints, Askings
<1>2. QED
  BY <1>1, ClockKeptInit, ClockKeptNext, PTL DEF ClockSpec

(* The EEPROM wears no faster than an attempt an hour and one more, for    *)
(* any intervals, however often the clock is set and a write fails.        *)
THEOREM WearIsKept == ClockSpec => []WearIsBounded
<1>1. ASSUME ClockKept PROVE WearIsBounded
  <2> DEFINE h == up \div Hour
             r == up % Hour
  <2>1. up \in Nat /\ Hour \in Nat \ {0} /\ commits \in Nat
    BY <1>1, ClockNumbers DEF ClockKept, ClockTyped
  <2>2. h \in Nat /\ r \in 0 .. Hour - 1 /\ up = (Hour * h) + r
    BY <2>1
  <2>3. commits * Hour <= up + Hour
    <3>1. checkpoint.attemptAt \in Nat /\ checkpoint.attemptAt <= up /\ commits * Hour \in Nat
      BY <1>1, <2>1 DEF ClockKept, ClockTyped, Checkpoints, Paced
    <3>2. commits * Hour <= checkpoint.attemptAt + Hour \/ commits * Hour <= checkpoint.attemptAt + 0
      BY <1>1 DEF ClockKept, Paced, Spent
    <3>3. QED
      BY <2>1, <3>1, <3>2
  <2> HIDE DEF h, r
  <2>4. ASSUME commits > h + 1 PROVE FALSE
    <3>1. commits - (h + 2) \in Nat /\ commits = h + 2 + (commits - (h + 2))
      BY <2>1, <2>2, <2>4
    <3>2. PICK k \in Nat : commits = h + 2 + k
      BY <3>1
    <3>3. commits * Hour = (Hour * h) + Hour + Hour + (k * Hour) /\ k * Hour \in Nat /\ Hour * h \in Nat
      BY <2>1, <2>2, <3>2
    <3>4. QED
      BY <2>1, <2>2, <2>3, <3>3
  <2>5. commits <= h + 1
    BY <2>1, <2>2, <2>4
  <2>6. QED
    BY <2>5 DEF WearIsBounded, h
<1>2. QED
  BY <1>1, ClockKeptInit, ClockKeptNext, PTL DEF ClockSpec

-----------------------------------------------------------------------------
(* Products.  They have a name, so that each proof uses the laws it needs.  *)

Times(a, b) == a * b

\* Products are numbers, and multiplication commutes and is associative.
LEMMA TimesIsInt ==
  ASSUME NEW a \in Int, NEW b \in Int
  PROVE  Times(a, b) \in Int /\ Times(a, b) = Times(b, a)
  BY DEF Times

\* Sums and differences are multiplied term by term.
LEMMA TimesOfSum ==
  ASSUME NEW a \in Int, NEW b \in Int, NEW d \in Int
  PROVE  /\ Times(a + b, d) = Times(a, d) + Times(b, d)
         /\ Times(a - b, d) = Times(a, d) - Times(b, d)
  BY DEF Times

\* A product of three factors.
LEMMA TimesOfTimes ==
  ASSUME NEW a \in Int, NEW b \in Int, NEW d \in Int
  PROVE  Times(Times(a, b), d) = Times(a, Times(b, d))
  BY DEF Times

\* It is what the code multiplies from left to right.
LEMMA ThreeFactors ==
  ASSUME NEW a \in Int, NEW b \in Int, NEW d \in Int
  PROVE  a * b * d = Times(a, Times(b, d))
  BY DEF Times

\* Multiples by the numbers of the code.
LEMMA TimesNumber ==
  ASSUME NEW a \in Int
  PROVE  /\ Times(0, a) = 0 /\ Times(1, a) = a /\ Times(100, a) = 100 * a
         /\ Times(255, a) = 255 * a /\ Times(-510, a) = (-510) * a
         /\ Times(5000, a) = 5000 * a /\ Times(10000, a) = 10000 * a
         /\ Times(1000000, a) = 1000000 * a
  BY DEF Times

\* One more, and one less.
LEMMA TimesOfNext ==
  ASSUME NEW a \in Int, NEW d \in Int
  PROVE  Times(a + 1, d) = Times(a, d) + d /\ Times(a - 1, d) = Times(a, d) - d
  BY DEF Times

\* Multiplication by a number that is not negative keeps the order.
LEMMA TimesKeepsOrder ==
  ASSUME NEW a \in Int, NEW b \in Int, NEW d \in Int, d >= 0, a <= b
  PROVE  Times(a, d) <= Times(b, d)
  BY DEF Times

\* Division by a positive number does.
LEMMA TimesCancels ==
  ASSUME NEW a \in Int, NEW b \in Int, NEW d \in Int, d > 0, Times(a, d) < Times(b, d)
  PROVE  a < b
<1>1. ~(b <= a)
  <2>1. b <= a => Times(b, d) <= Times(a, d)
    BY TimesKeepsOrder
  <2>2. Times(a, d) \in Int /\ Times(b, d) \in Int
    BY TimesIsInt
  <2>3. QED
    BY <2>1, <2>2
<1>2. QED
  BY <1>1

\* The percentages of the code.
Percents == 0..100

\* What a percentage is.
LEMMA PercentIs ==
  ASSUME NEW p
  PROVE  p \in Percents <=> p \in Int /\ 0 <= p /\ p <= 100
  BY DEF Percents

\* The product of two percentages.
LEMMA PercentOf ==
  ASSUME NEW p \in Percents, NEW q \in Percents
  PROVE  Times(p, q) \in Int /\ 0 <= Times(p, q) /\ Times(p, q) <= 10000
<1>1. p \in Int /\ q \in Int /\ 0 <= p /\ p <= 100 /\ 0 <= q /\ q <= 100
  BY PercentIs
<1>2. Times(0, q) <= Times(p, q) /\ Times(p, q) <= Times(100, q)
  BY <1>1, TimesKeepsOrder
<1>3. Times(p, q) \in Int /\ Times(0, q) = 0 /\ Times(100, q) = 100 * q
  BY <1>1, TimesIsInt, TimesNumber
<1>4. QED
  BY <1>1, <1>2, <1>3

-----------------------------------------------------------------------------
(* Rounding.                                                               *)

\* A quotient and its remainder.
LEMMA Division ==
  ASSUME NEW n \in Int, NEW d \in Int, d > 0
  PROVE  /\ n \div d \in Int /\ n % d \in Int
         /\ n = Times(d, n \div d) + (n % d)
         /\ 0 <= n % d /\ n % d < d
  BY DEF Times

\* roundHalfEven is off by a half at most.
LEMMA RoundingIsClose ==
  ASSUME NEW n \in Int, NEW d \in Int, d > 0
  PROVE  /\ RoundHalfEven(n, d) \in Int
         /\ 2 * n - d <= 2 * Times(d, RoundHalfEven(n, d))
         /\ 2 * Times(d, RoundHalfEven(n, d)) <= 2 * n + d
<1> DEFINE low == n \div d
           rest == n % d
           rounded == RoundHalfEven(n, d)
<1>1. low \in Int /\ rest \in Int /\ n = Times(d, low) + rest /\ 0 <= rest /\ rest < d
  BY Division
<1>2. /\ rounded \in {low, low + 1}
      /\ rounded = low => 2 * rest <= d
      /\ rounded = low + 1 => 2 * rest >= d
  BY <1>1 DEF RoundHalfEven
<1> HIDE DEF low, rest, rounded
<1>3. Times(d, low + 1) = Times(d, low) + d /\ Times(d, low) \in Int
  <2>1. Times(low + 1, d) = Times(low, d) + d
    BY <1>1, TimesOfNext
  <2>2. /\ Times(low + 1, d) = Times(d, low + 1) /\ Times(low, d) = Times(d, low)
        /\ Times(d, low) \in Int
    BY <1>1, TimesIsInt
  <2>3. QED
    BY <2>1, <2>2
<1>4. rounded \in Int /\ 2 * n - d <= 2 * Times(d, rounded) /\ 2 * Times(d, rounded) <= 2 * n + d
  <2>1. CASE rounded = low
    BY <1>1, <1>2, <1>3, <2>1
  <2>2. CASE rounded = low + 1
    BY <1>1, <1>2, <1>3, <2>2
  <2>3. QED
    BY <1>2, <2>1, <2>2
<1>5. QED
  BY <1>4 DEF rounded

-----------------------------------------------------------------------------
(* The schedule and its copy.                                              *)

\* What is chosen before the compilation, and what it leaves: a copy of a valid
\* schedule, or nothing.
Laid ==
    /\ points \in Seq(Point) /\ Len(points) <= MaxPoints
    /\ scale \in [throttle : Throttles, gain : Gains]
    /\ minute \in 0..LastMinute

Copied ==
    LET segs == Segments(points) IN
    \/ fallback.status \in {"none", "refused"} /\ fallback.links = <<>>
    \/ /\ fallback.status = "compiled" /\ ValidGraph(segs)
       /\ fallback.links = [i \in DOMAIN segs |-> Link(segs[i])]

FallbackKept == Laid /\ Copied

\* The segments of a schedule that is valid, and the minutes they join.
LEMMA SegmentsOf ==
  ASSUME Laid, ValidGraph(Segments(points))
  PROVE  \E n \in Nat \ {0} :
            /\ DOMAIN Segments(points) = 1..n /\ Len(Segments(points)) = n
            /\ \A i \in 1..n : Segments(points)[i] \in [source : Point, target : Point]
<1> DEFINE segs == Segments(points)
           n == Len(points) - 1
<1>1. points \in Seq(Point) /\ Len(points) \in Nat /\ DOMAIN points = 1..Len(points)
  BY DEF Laid
<1>2. n \in Int /\ segs = [i \in 1..n |-> [source |-> points[i], target |-> points[i + 1]]]
  BY <1>1 DEF Segments
<1>3. n # 0 /\ n # -1
  <2>1. n = 0 \/ n = -1 => 1..n = {}
    BY <1>1
  <2>2. n = 0 \/ n = -1 => segs = <<>>
    BY <1>2, <2>1
  <2>3. segs # <<>>
    BY DEF ValidGraph
  <2>4. QED
    BY <2>2, <2>3
<1>4. n \in Nat \ {0}
  BY <1>1, <1>3
<1>5. \A i \in 1..n : segs[i] \in [source : Point, target : Point]
  <2> SUFFICES ASSUME NEW i \in 1..n PROVE segs[i] \in [source : Point, target : Point]
    OBVIOUS
  <2>1. i \in 1..Len(points) /\ i + 1 \in 1..Len(points)
    BY <1>1
  <2>2. points[i] \in Point /\ points[i + 1] \in Point
    BY <1>1, <2>1, ElementOfSeq
  <2>3. segs[i] = [source |-> points[i], target |-> points[i + 1]]
    BY <1>2
  <2>4. QED
    BY <2>2, <2>3
<1>6. DOMAIN segs = 1..n
  BY <1>2
<1> HIDE DEF segs
<1>7. segs \in Seq([source : Point, target : Point])
  <2>1. segs = [i \in 1..n |-> segs[i]]
    BY <1>2, <1>6
  <2>2. QED
    BY <1>4, <1>5, <2>1, IsASeq
<1>8. Len(segs) = n
  BY <1>4, <1>6, <1>7
<1>9. QED
  BY <1>4, <1>5, <1>6, <1>8 DEF segs

\* The fields of a segment.
LEMMA SegmentFields ==
  ASSUME NEW seg \in [source : Point, target : Point]
  PROVE  /\ seg.source.minute \in 0..LastMinute /\ seg.target.minute \in 0..LastMinute
         /\ seg.source.percent \in Percents /\ seg.target.percent \in Percents
  BY FallbackAssumption DEF Point, Percents

\* The throttle and the gain.
LEMMA ScaleFields ==
  ASSUME Laid
  PROVE  scale.throttle \in Percents /\ scale.gain \in Percents
<1>1. scale \in [throttle : Throttles, gain : Gains]
  BY DEF Laid
<1>2. scale.throttle \in Throttles /\ scale.gain \in Gains
  BY <1>1
<1>3. QED
  BY <1>2, FallbackAssumption DEF Percents

\* What a percentage is multiplied by, in ten-thousandths.
Whole == Times(scale.throttle, scale.gain)

\* It is one at most.
LEMMA WholeIsPart ==
  ASSUME Laid
  PROVE  Whole \in Int /\ 0 <= Whole /\ Whole <= 10000
<1>1. PICK q \in Percents : q = scale.throttle
  BY ScaleFields
<1>2. PICK r \in Percents : r = scale.gain
  BY ScaleFields
<1>3. Times(q, r) \in Int /\ 0 <= Times(q, r) /\ Times(q, r) <= 10000
  BY PercentOf
<1>4. QED
  BY <1>1, <1>2, <1>3 DEF Whole

\* A scaled percentage is one, and is off by a half at most.
LEMMA ScaledIsClose ==
  ASSUME Laid, NEW percent \in Percents
  PROVE  /\ Scaled(percent) \in Percents
         /\ Times(percent, Whole) - 5000 <= 10000 * Scaled(percent)
         /\ 10000 * Scaled(percent) <= Times(percent, Whole) + 5000
<1>1. PICK q \in Int : q = scale.throttle
  BY ScaleFields, PercentIs
<1>2. PICK r \in Int : r = scale.gain
  BY ScaleFields, PercentIs
<1>3. percent \in Int /\ 0 <= percent /\ percent <= 100
  BY PercentIs
<1>4. PICK exact \in Int : exact = Times(percent, Whole)
  BY <1>3, WholeIsPart, TimesIsInt
<1>5. percent * scale.throttle * scale.gain = exact
  <2>1. percent * q * r = Times(percent, Times(q, r))
    BY <1>3, ThreeFactors
  <2>2. QED
    BY <1>1, <1>2, <1>4, <2>1 DEF Whole
<1>6. PICK scaled : scaled = Scaled(percent)
  OBVIOUS
<1>7. scaled = RoundHalfEven(exact, 10000)
  BY <1>5, <1>6 DEF Scaled
<1>8. /\ scaled \in Int
      /\ 2 * exact - 10000 <= 2 * Times(10000, scaled)
      /\ 2 * Times(10000, scaled) <= 2 * exact + 10000
  BY <1>7, RoundingIsClose
<1>9. Times(10000, scaled) = 10000 * scaled
  BY <1>8, TimesNumber
<1>10. 0 <= exact /\ exact <= 1000000
  <2>1. PICK whole \in Int : whole = Whole /\ 0 <= whole /\ whole <= 10000
    BY WholeIsPart
  <2>2. Times(0, whole) <= Times(percent, whole) /\ Times(percent, whole) <= Times(100, whole)
    BY <1>3, <2>1, TimesKeepsOrder
  <2>3. Times(0, whole) = 0 /\ Times(100, whole) = 100 * whole
    BY TimesNumber
  <2>4. QED
    BY <1>4, <2>1, <2>2, <2>3
<1>11. /\ 0 <= scaled /\ scaled <= 100
       /\ exact - 5000 <= 10000 * scaled /\ 10000 * scaled <= exact + 5000
  BY <1>8, <1>9, <1>10
<1>12. scaled \in Percents
  BY <1>8, <1>11, PercentIs
<1>13. QED
  BY <1>4, <1>6, <1>11, <1>12

-----------------------------------------------------------------------------
(* Minutes.                                                                *)

Covers(segs, i, m) == segs[i].source.minute <= m /\ m <= segs[i].target.minute

\* A valid schedule covers every minute: the first segment that ends at the minute
\* or later begins there or earlier.
LEMMA SomeSegmentCovers ==
  ASSUME NEW n \in Nat \ {0}, NEW segs, DOMAIN segs = 1..n, Len(segs) = n,
         \A i \in 1..n : segs[i] \in [source : Point, target : Point],
         ValidGraph(segs), NEW m \in 0..LastMinute
  PROVE  \E i \in 1..n : Covers(segs, i, m) /\ \A j \in 1..(i - 1) : ~Covers(segs, j, m)
<1>1. \A i \in 1..n : segs[i].source.minute \in Int /\ segs[i].target.minute \in Int
  BY SegmentFields, FallbackAssumption
<1>2. LastMinute \in Nat /\ m \in Int /\ 0 <= m /\ m <= LastMinute
  BY FallbackAssumption
<1> DEFINE T == {i \in 1..n : m <= segs[i].target.minute}
           Less == {p \in Nat \X Nat : p[1] < p[2]}
<1>3. T # {}
  <2>1. n \in 1..n /\ segs[n].target.minute = LastMinute
    BY DEF ValidGraph
  <2>2. QED
    BY <1>2, <2>1
<1>4. PICK i \in T : \A j \in T : <<j, i>> \notin Less
  <2>1. Less = OpToRel(<, Nat)
    BY DEF OpToRel
  <2>2. IsWellFoundedOn(Less, Nat)
    BY <2>1, NatLessThanWellFounded
  <2>3. T \in SUBSET Nat
    OBVIOUS
  <2> HIDE DEF T, Less
  <2>4. QED
    BY <1>3, <2>2, <2>3, WFMin
<1>5. i \in 1..n /\ m <= segs[i].target.minute
  OBVIOUS
<1>6. \A j \in 1..(i - 1) : j \in 1..n /\ segs[j].target.minute < m
  <2> SUFFICES ASSUME NEW j \in 1..(i - 1) PROVE j \in 1..n /\ segs[j].target.minute < m
    OBVIOUS
  <2>1. j \in 1..n /\ j \in Nat /\ i \in Nat /\ j < i
    BY <1>5
  <2>2. <<j, i>> \in Less
    BY <2>1
  <2>3. j \notin T
    BY <1>4, <2>2
  <2>4. QED
    BY <1>1, <1>2, <2>1, <2>3
<1>7. segs[i].source.minute <= m
  <2>1. CASE i = 1
    BY <1>2, <2>1 DEF ValidGraph
  <2>2. CASE i # 1
    <3>1. i \in 2..n /\ i - 1 \in 1..(i - 1)
      BY <1>5, <2>2
    <3>2. segs[i - 1].target = segs[i].source
      BY <3>1 DEF ValidGraph
    <3>3. segs[i - 1].target.minute < m /\ i - 1 \in 1..n
      BY <1>6, <3>1
    <3>4. QED
      BY <1>1, <1>2, <1>5, <3>2, <3>3
  <2>3. QED
    BY <2>1, <2>2
<1>8. \A j \in 1..(i - 1) : ~Covers(segs, j, m)
  BY <1>1, <1>2, <1>6 DEF Covers
<1>9. QED
  BY <1>5, <1>7, <1>8 DEF Covers

\* The copy is cut at the same minutes, so that both readings take the same segment.
LEMMA SameSegment ==
  ASSUME NEW n \in Nat \ {0}, NEW segs, NEW links,
         DOMAIN segs = 1..n, DOMAIN links = 1..n, NEW m,
         \A i \in 1..n : Covers(links, i, m) <=> Covers(segs, i, m),
         \E i \in 1..n : Covers(segs, i, m) /\ \A j \in 1..(i - 1) : ~Covers(segs, j, m)
  PROVE  /\ Covering(segs, m) \in 1..n /\ Covers(segs, Covering(segs, m), m)
         /\ Covering(links, m) = Covering(segs, m)
<1> DEFINE a == Covering(segs, m)
           b == Covering(links, m)
<1>1. /\ a \in 1..n /\ Covers(segs, a, m)
      /\ \A j \in 1..(a - 1) : ~Covers(segs, j, m)
  BY DEF Covering, Covers
<1>2. /\ b \in 1..n /\ Covers(links, b, m)
      /\ \A j \in 1..(b - 1) : ~Covers(links, j, m)
  <2>1. \E i \in 1..n : Covers(links, i, m) /\ \A j \in 1..(i - 1) : ~Covers(links, j, m)
    <3>1. PICK i \in 1..n : Covers(segs, i, m) /\ \A j \in 1..(i - 1) : ~Covers(segs, j, m)
      OBVIOUS
    <3>2. \A j \in 1..(i - 1) : j \in 1..n
      OBVIOUS
    <3>3. QED
      BY <3>1, <3>2
  <2>2. QED
    BY <2>1 DEF Covering, Covers
<1> HIDE DEF a, b
<1>3. Covers(segs, b, m) /\ Covers(links, a, m)
  BY <1>1, <1>2
<1>4. ~(b < a) /\ ~(a < b)
  <2>1. b < a => b \in 1..(a - 1)
    BY <1>1, <1>2
  <2>2. a < b => a \in 1..(b - 1)
    BY <1>1, <1>2
  <2>3. QED
    BY <1>1, <1>2, <1>3, <2>1, <2>2
<1>5. a = b
  BY <1>1, <1>2, <1>4
<1>6. QED
  BY <1>1, <1>5 DEF a, b

-----------------------------------------------------------------------------
(* The two readings of a minute.                                           *)

\* What interpolateSegment divides by the length of the segment.
Interpolated(p, q, v, w) == p * (v + w) + w * (q - p)

\* It is a weighted sum of the two ends.
LEMMA Weighted ==
  ASSUME NEW p \in Int, NEW q \in Int, NEW w \in Int, NEW v \in Int
  PROVE  Interpolated(p, q, v, w) = Times(p, v) + Times(q, w)
<1> DEFINE m == p * (v + w)
           n == w * (q - p)
<1>1. m = Times(p, v) + Times(p, w)
  BY DEF Times
<1>2. n = Times(q, w) - Times(p, w)
  BY DEF Times
<1>3. Times(p, v) \in Int /\ Times(p, w) \in Int /\ Times(q, w) \in Int
  BY TimesIsInt
<1> HIDE DEF m, n
<1>4. m + n = Times(p, v) + Times(q, w)
  BY <1>1, <1>2, <1>3
<1>5. QED
  BY <1>4 DEF m, n, Interpolated

\* What is close at one end is close when it is weighted.
LEMMA CloseAtEnd ==
  ASSUME NEW x \in Int, NEW a \in Int, NEW v \in Int, 0 <= v,
         x - 5000 <= 10000 * a, 10000 * a <= x + 5000
  PROVE  /\ Times(x, v) \in Int /\ Times(a, v) \in Int
         /\ Times(x, v) - 5000 * v <= 10000 * Times(a, v)
         /\ 10000 * Times(a, v) <= Times(x, v) + 5000 * v
<1>1. PICK k \in Int : k = 10000 * a
  OBVIOUS
<1>2. Times(x - 5000, v) <= Times(k, v) /\ Times(k, v) <= Times(x + 5000, v)
  BY <1>1, TimesKeepsOrder
<1>3. Times(x - 5000, v) = Times(x, v) - Times(5000, v)
      /\ Times(x + 5000, v) = Times(x, v) + Times(5000, v)
  BY TimesOfSum
<1>4. Times(k, v) = 10000 * Times(a, v)
  <2>1. k = Times(10000, a)
    BY <1>1, TimesNumber
  <2>2. Times(k, v) = Times(10000, Times(a, v))
    BY <2>1, TimesOfTimes
  <2>3. QED
    BY <2>2, TimesIsInt, TimesNumber
<1>5. Times(5000, v) = 5000 * v /\ Times(x, v) \in Int /\ Times(a, v) \in Int
  BY TimesNumber, TimesIsInt
<1>6. QED
  BY <1>2, <1>3, <1>4, <1>5

\* XW is what the host interpolates, throttled, Y what the device does; DH is what
\* the host sends and DL what the device shows, times the length of the segment.
Near(XW, Y, DH, DL, dur) ==
    /\ XW - 5000 * dur <= 10000 * Y /\ 10000 * Y <= XW + 5000 * dur
    /\ 255 * XW - 500000 * dur <= DH * 1000000
    /\ DH * 1000000 <= 255 * XW + 500000 * dur
    /\ Y - dur <= DL /\ DL <= Y

\* What the host sends and what the device shows are as close as FallbackIsClose says.
Close(sent, shown) ==
    -2 * 255 < shown * 255 - sent * 100 /\ shown * 255 - sent * 100 < 255

\* Values that are close, rounded.
LEMMA RoundedAreClose ==
  ASSUME NEW XW \in Int, NEW Y \in Int, NEW dur \in Int, dur > 0,
         NEW high \in Int, NEW low \in Int,
         Near(XW, Y, Times(dur, high), Times(dur, low), dur)
  PROVE  Close(high, low)
<1>1. PICK DH \in Int : DH = Times(dur, high) /\ DH = Times(high, dur)
  BY TimesIsInt
<1>2. PICK DL \in Int : DL = Times(dur, low) /\ DL = Times(low, dur)
  BY TimesIsInt
<1>3. PICK lows \in Int : lows = 255 * low /\ lows = Times(255, low)
  BY TimesNumber
<1>4. PICK highs \in Int : highs = 100 * high /\ highs = Times(100, high)
  BY TimesNumber
<1>5. Times(lows, dur) = 255 * DL /\ Times(highs, dur) = 100 * DH
  <2>1. /\ Times(Times(255, low), dur) = Times(255, Times(low, dur))
        /\ Times(Times(100, high), dur) = Times(100, Times(high, dur))
    BY TimesOfTimes
  <2>2. Times(255, DL) = 255 * DL /\ Times(100, DH) = 100 * DH
    BY TimesNumber
  <2>3. QED
    BY <1>1, <1>2, <1>3, <1>4, <2>1, <2>2
<1>6. PICK apart \in Int : apart = lows - highs
  OBVIOUS
<1>7. Times(apart, dur) = 255 * DL - 100 * DH
  <2>1. Times(lows - highs, dur) = Times(lows, dur) - Times(highs, dur)
    BY TimesOfSum
  <2>2. QED
    BY <1>5, <1>6, <2>1
<1>8. Near(XW, Y, DH, DL, dur)
  BY <1>1, <1>2
<1>9. Times(apart, dur) < 255 * dur /\ (-510) * dur < Times(apart, dur)
  BY <1>7, <1>8 DEF Near
<1>10. Times(apart, dur) < Times(255, dur) /\ Times(-510, dur) < Times(apart, dur)
  BY <1>9, TimesNumber
<1>11. apart < 255 /\ -510 < apart
  BY <1>10, TimesCancels
<1>12. QED
  BY <1>3, <1>4, <1>6, <1>11 DEF Close

\* What the device keeps of a segment.
LEMMA LinkFields ==
  ASSUME NEW seg \in [source : Point, target : Point]
  PROVE  /\ Link(seg).source.minute = seg.source.minute
         /\ Link(seg).target.minute = seg.target.minute
         /\ Link(seg).source.percent = Scaled(seg.source.percent)
         /\ Link(seg).target.percent = Scaled(seg.target.percent)
<1>1. seg.source \in Point /\ seg.target \in Point
  OBVIOUS
<1>2. ASSUME NEW pt \in Point, NEW percent
      PROVE  [pt EXCEPT !.percent = percent].minute = pt.minute
             /\ [pt EXCEPT !.percent = percent].percent = percent
  BY DEF Point
<1>3. /\ Link(seg).source = [seg.source EXCEPT !.percent = Scaled(seg.source.percent)]
      /\ Link(seg).target = [seg.target EXCEPT !.percent = Scaled(seg.target.percent)]
  BY DEF Link
<1>4. QED
  BY <1>1, <1>2, <1>3

\* What the host sends of an interpolated value, and the whole percentages that the
\* device may show of one.
SentOf(at) == RoundHalfEven(at.n * 255 * scale.throttle * scale.gain, at.d * 1000000)

ShownOf(at) ==
    IF at.n % at.d = 0 /\ at.n \div at.d > 0 THEN {at.n \div at.d - 1, at.n \div at.d}
    ELSE {at.n \div at.d}

\* What the host sends of a segment.
LEMMA HostIsClose ==
  ASSUME Laid, NEW at, NEW X \in Int, at.n = X, NEW dur \in Int, at.d = dur, dur > 0,
         NEW high, high = SentOf(at)
  PROVE  /\ high \in Int
         /\ 255 * Times(X, Whole) - 500000 * dur <= Times(dur, high) * 1000000
         /\ Times(dur, high) * 1000000 <= 255 * Times(X, Whole) + 500000 * dur
<1>1. PICK q \in Int : q = scale.throttle
  BY ScaleFields, PercentIs
<1>2. PICK r \in Int : r = scale.gain
  BY ScaleFields, PercentIs
<1>3. PICK exact \in Int : exact = Times(X, Whole)
  BY WholeIsPart, TimesIsInt
<1>4. PICK sent \in Int : sent = 255 * exact
  OBVIOUS
<1>5. X * 255 * scale.throttle * scale.gain = sent
  <2>1. PICK k \in Int : k = X * 255 /\ k = Times(255, X)
    BY TimesNumber
  <2>2. k * q * r = Times(k, Times(q, r))
    BY ThreeFactors
  <2>3. Times(q, r) \in Int /\ Times(q, r) = Whole
    BY <1>1, <1>2, TimesIsInt DEF Whole
  <2>4. Times(k, Whole) = 255 * exact
    <3>1. PICK whole \in Int : whole = Whole
      BY WholeIsPart
    <3>2. Times(Times(255, X), whole) = Times(255, Times(X, whole))
      BY TimesOfTimes
    <3>3. Times(255, exact) = 255 * exact
      BY TimesNumber
    <3>4. QED
      BY <1>3, <2>1, <3>1, <3>2, <3>3
  <2>5. X * 255 * scale.throttle * scale.gain = k * q * r
    BY <1>1, <1>2, <2>1
  <2>6. QED
    BY <1>4, <2>2, <2>3, <2>4, <2>5
<1>6. PICK d \in Int : d = dur * 1000000 /\ d > 0 /\ d = Times(1000000, dur)
  BY TimesNumber
<1>7. high = RoundHalfEven(sent, d)
  BY <1>5, <1>6 DEF SentOf
<1>8. high \in Int /\ 2 * sent - d <= 2 * Times(d, high) /\ 2 * Times(d, high) <= 2 * sent + d
  BY <1>6, <1>7, RoundingIsClose
<1>9. PICK z \in Int : z = Times(dur, high)
  BY <1>8, TimesIsInt
<1>10. Times(d, high) = 1000000 * z
  BY <1>6, <1>8, <1>9, TimesOfTimes, TimesNumber
<1>11. 255 * exact - 500000 * dur <= z * 1000000 /\ z * 1000000 <= 255 * exact + 500000 * dur
  BY <1>4, <1>6, <1>8, <1>10
<1>12. QED
  BY <1>3, <1>8, <1>9, <1>11

\* What the device shows of a segment, in whole percentages.
LEMMA WholePercents ==
  ASSUME NEW at, NEW Y \in Int, at.n = Y, NEW dur \in Int, at.d = dur, dur > 0,
         NEW low \in ShownOf(at)
  PROVE  low \in Int /\ Y - dur <= Times(dur, low) /\ Times(dur, low) <= Y
<1> DEFINE whole == Y \div dur
           rest == Y % dur
<1>1. /\ whole \in Int /\ rest \in Int
      /\ Y = Times(dur, whole) + rest /\ 0 <= rest /\ rest < dur
  BY Division
<1>2. low = whole \/ (low = whole - 1 /\ rest = 0)
  BY DEF ShownOf
<1> HIDE DEF whole, rest
<1>3. PICK z \in Int : z = Times(dur, whole)
  BY <1>1, TimesIsInt
<1>4. Times(dur, whole - 1) = z - dur
  <2>1. Times(whole - 1, dur) = Times(whole, dur) - dur
    BY <1>1, TimesOfNext
  <2>2. /\ Times(whole - 1, dur) = Times(dur, whole - 1)
        /\ Times(whole, dur) = Times(dur, whole)
    BY <1>1, TimesIsInt
  <2>3. QED
    BY <1>3, <2>1, <2>2
<1>5. CASE low = whole
  BY <1>1, <1>3, <1>5
<1>6. CASE low = whole - 1 /\ rest = 0
  BY <1>1, <1>3, <1>4, <1>6
<1>7. QED
  BY <1>2, <1>5, <1>6

\* The two interpolations between the same minutes, of the percentages and of their
\* scaled copies.
LEMMA InterpolationsAreClose ==
  ASSUME Laid, NEW p \in Percents, NEW q \in Percents,
         NEW v \in Int, NEW w \in Int, 0 <= v, 0 <= w,
         NEW x, x = Interpolated(p, q, v, w),
         NEW y, y = Interpolated(Scaled(p), Scaled(q), v, w)
  PROVE  /\ x \in Int /\ y \in Int
         /\ Times(x, Whole) - 5000 * (v + w) <= 10000 * y
         /\ 10000 * y <= Times(x, Whole) + 5000 * (v + w)
<1>1. PICK a \in Int : a = Scaled(p)
  BY ScaledIsClose, PercentIs
<1>2. PICK b \in Int : b = Scaled(q)
  BY ScaledIsClose, PercentIs
<1>3. PICK whole \in Int : whole = Whole
  BY WholeIsPart
<1>4. p \in Int /\ q \in Int
  BY PercentIs
<1>5. PICK pw \in Int : pw = Times(p, whole)
  BY <1>4, TimesIsInt
<1>6. PICK qw \in Int : qw = Times(q, whole)
  BY <1>4, TimesIsInt
<1>7. /\ pw - 5000 <= 10000 * a /\ 10000 * a <= pw + 5000
      /\ qw - 5000 <= 10000 * b /\ 10000 * b <= qw + 5000
  BY <1>1, <1>2, <1>3, <1>5, <1>6, ScaledIsClose
<1>8. x = Times(p, v) + Times(q, w) /\ y = Times(a, v) + Times(b, w)
  BY <1>1, <1>2, <1>4, Weighted
<1>9. /\ Times(p, v) \in Int /\ Times(q, w) \in Int
      /\ Times(a, v) \in Int /\ Times(b, w) \in Int
  BY <1>4, TimesIsInt
<1>10. Times(x, whole) = Times(pw, v) + Times(qw, w)
  <2>1. Times(x, whole) = Times(Times(p, v), whole) + Times(Times(q, w), whole)
    <3>1. PICK m \in Int : m = Times(p, v)
      BY <1>9
    <3>2. PICK n \in Int : n = Times(q, w)
      BY <1>9
    <3>3. Times(m + n, whole) = Times(m, whole) + Times(n, whole)
      BY TimesOfSum
    <3>4. QED
      BY <1>8, <3>1, <3>2, <3>3
  <2>2. Times(Times(p, v), whole) = Times(pw, v)
    BY <1>4, <1>5, TimesIsInt, TimesOfTimes
  <2>3. Times(Times(q, w), whole) = Times(qw, w)
    BY <1>4, <1>6, TimesIsInt, TimesOfTimes
  <2>4. QED
    BY <2>1, <2>2, <2>3
<1>11. /\ Times(pw, v) \in Int
       /\ Times(pw, v) - 5000 * v <= 10000 * Times(a, v)
       /\ 10000 * Times(a, v) <= Times(pw, v) + 5000 * v
  BY <1>7, CloseAtEnd
<1>12. /\ Times(qw, w) \in Int
       /\ Times(qw, w) - 5000 * w <= 10000 * Times(b, w)
       /\ 10000 * Times(b, w) <= Times(qw, w) + 5000 * w
  BY <1>7, CloseAtEnd
<1>13. x \in Int /\ y \in Int
  BY <1>8, <1>9
<1>14. /\ Times(x, whole) - 5000 * (v + w) <= 10000 * y
       /\ 10000 * y <= Times(x, whole) + 5000 * (v + w)
  BY <1>8, <1>9, <1>10, <1>11, <1>12
<1>15. QED
  BY <1>3, <1>13, <1>14

\* Both readings of a minute of one segment.
LEMMA ReadingsAreClose ==
  ASSUME Laid, NEW seg \in [source : Point, target : Point],
         seg.source.minute <= minute, minute <= seg.target.minute,
         seg.source.minute < seg.target.minute,
         NEW X, X = Between(seg, minute), NEW Y, Y = Between(Link(seg), minute),
         NEW high, high = SentOf(X), NEW low \in ShownOf(Y)
  PROVE  Close(high, low)
<1>1. /\ seg.source.percent \in Percents /\ seg.target.percent \in Percents
      /\ seg.source.minute \in Int /\ seg.target.minute \in Int
  <2>1. /\ seg.source.minute \in 0..LastMinute /\ seg.target.minute \in 0..LastMinute
        /\ seg.source.percent \in Percents /\ seg.target.percent \in Percents
    BY SegmentFields
  <2>2. QED
    BY <2>1, FallbackAssumption
<1>2. PICK p \in Percents : p = seg.source.percent
  BY <1>1
<1>3. PICK q \in Percents : q = seg.target.percent
  BY <1>1
<1>4. minute \in Int
  BY FallbackAssumption DEF Laid
<1>5. PICK w \in Int : w = minute - seg.source.minute /\ 0 <= w
  BY <1>1, <1>4
<1>6. PICK v \in Int : v = seg.target.minute - minute /\ 0 <= v
  BY <1>1, <1>4
<1>7. PICK dur \in Int : dur = v + w /\ dur > 0 /\ dur = seg.target.minute - seg.source.minute
  BY <1>1, <1>4, <1>5, <1>6
<1>8. X.d = dur /\ X.n = Interpolated(p, q, v, w)
  BY <1>2, <1>3, <1>5, <1>7 DEF Between, Interpolated
<1>9. Y.d = dur /\ Y.n = Interpolated(Scaled(p), Scaled(q), v, w)
  BY <1>2, <1>3, <1>5, <1>7, LinkFields DEF Between, Interpolated
<1>10. PICK x \in Int, y \in Int :
          /\ x = X.n /\ y = Y.n
          /\ Times(x, Whole) - 5000 * dur <= 10000 * y
          /\ 10000 * y <= Times(x, Whole) + 5000 * dur
  <2>1. /\ X.n \in Int /\ Y.n \in Int
        /\ Times(X.n, Whole) - 5000 * (v + w) <= 10000 * Y.n
        /\ 10000 * Y.n <= Times(X.n, Whole) + 5000 * (v + w)
    BY <1>5, <1>6, <1>8, <1>9, InterpolationsAreClose
  <2>2. QED
    BY <1>7, <2>1
<1>11. /\ high \in Int
       /\ 255 * Times(x, Whole) - 500000 * dur <= Times(dur, high) * 1000000
       /\ Times(dur, high) * 1000000 <= 255 * Times(x, Whole) + 500000 * dur
  BY <1>7, <1>8, <1>10, HostIsClose
<1>12. low \in Int /\ y - dur <= Times(dur, low) /\ Times(dur, low) <= y
  BY <1>7, <1>9, <1>10, WholePercents
<1>13. PICK XW \in Int : XW = Times(x, Whole)
  BY WholeIsPart, TimesIsInt
<1>14. PICK sent \in Int : sent = high
  BY <1>11
<1>15. PICK shown \in Int : shown = low
  BY <1>12
<1>16. Near(XW, y, Times(dur, sent), Times(dur, shown), dur)
  BY <1>10, <1>11, <1>12, <1>13, <1>14, <1>15 DEF Near
<1>17. Close(sent, shown)
  BY <1>7, <1>16, RoundedAreClose
<1>18. QED
  BY <1>14, <1>15, <1>17

\* The copy of a segment for every segment.
LEMMA Copies ==
  ASSUME FallbackKept, fallback.status = "compiled",
         NEW n \in Nat \ {0}, DOMAIN Segments(points) = 1..n
  PROVE  /\ DOMAIN fallback.links = 1..n
         /\ \A i \in 1..n : fallback.links[i] = Link(Segments(points)[i])
  BY DEF FallbackKept, Copied

\* FallbackIsClose follows from the invariant.
LEMMA CloseWhenCompiled ==
  ASSUME FallbackKept
  PROVE  FallbackIsClose
<1> SUFFICES ASSUME fallback.status = "compiled"
             PROVE  /\ \E i \in DOMAIN fallback.links :
                         /\ fallback.links[i].source.minute <= minute
                         /\ minute <= fallback.links[i].target.minute
                    /\ \A percent \in DevicePercents(fallback.links, minute) :
                         Close(HostPwm(Segments(points), minute), percent)
  BY DEF FallbackIsClose, Close
<1>1. Laid /\ ValidGraph(Segments(points))
  BY DEF FallbackKept, Copied
<1>2. PICK n \in Nat \ {0} :
         /\ DOMAIN Segments(points) = 1..n /\ Len(Segments(points)) = n
         /\ \A i \in 1..n : Segments(points)[i] \in [source : Point, target : Point]
  BY <1>1, SegmentsOf
<1>3. PICK segs, links : segs = Segments(points) /\ links = fallback.links
  OBVIOUS
<1>4. /\ DOMAIN segs = 1..n /\ Len(segs) = n /\ DOMAIN links = 1..n
      /\ \A i \in 1..n : segs[i] \in [source : Point, target : Point] /\ links[i] = Link(segs[i])
      /\ ValidGraph(segs)
  BY <1>1, <1>2, <1>3, Copies
<1>5. \A i \in 1..n : Covers(links, i, minute) <=> Covers(segs, i, minute)
  BY <1>4, LinkFields DEF Covers
<1>6. minute \in 0..LastMinute
  BY <1>1 DEF Laid
<1>7. \E i \in 1..n : Covers(segs, i, minute) /\ \A j \in 1..(i - 1) : ~Covers(segs, j, minute)
  BY <1>4, <1>6, SomeSegmentCovers
<1>8. PICK i \in 1..n : /\ i = Covering(segs, minute) /\ i = Covering(links, minute)
                        /\ Covers(segs, i, minute)
  BY <1>4, <1>5, <1>7, SameSegment
<1>9. \E k \in DOMAIN links : links[k].source.minute <= minute /\ minute <= links[k].target.minute
  BY <1>4, <1>5, <1>8 DEF Covers
<1>10. ASSUME NEW low \in DevicePercents(links, minute)
       PROVE  Close(HostPwm(segs, minute), low)
  <2>1. /\ segs[i] \in [source : Point, target : Point]
        /\ segs[i].source.minute <= minute /\ minute <= segs[i].target.minute
        /\ segs[i].source.minute < segs[i].target.minute
    BY <1>4, <1>8 DEF Covers, ValidGraph
  <2>2. PICK X, Y : X = Between(segs[i], minute) /\ Y = Between(Link(segs[i]), minute)
    OBVIOUS
  <2>3. PICK high : high = HostPwm(segs, minute)
    OBVIOUS
  <2>4. high = SentOf(X)
    <3>1. HostPwm(segs, minute) = SentOf(Between(segs[Covering(segs, minute)], minute))
      BY DEF HostPwm, SentOf
    <3>2. QED
      BY <1>8, <2>2, <2>3, <3>1
  <2>5. low \in ShownOf(Y)
    BY <1>4, <1>8, <2>2 DEF DevicePercents, ShownOf
  <2>6. Close(high, low)
    BY <1>1, <2>1, <2>2, <2>4, <2>5, ReadingsAreClose
  <2>7. QED
    BY <2>3, <2>6
<1>11. QED
  BY <1>3, <1>9, <1>10

\* The invariant holds at the start, and every step keeps it.
LEMMA KeptAtStart == FallbackInit => FallbackKept
<1> SUFFICES ASSUME FallbackInit PROVE FallbackKept
  OBVIOUS
<1>1. PICK n \in 0..MaxPoints : points \in [1..n -> Point]
  BY DEF FallbackInit
<1>2. n \in Nat /\ n <= MaxPoints
  BY FallbackAssumption
<1>3. points \in Seq(Point) /\ Len(points) = n
  <2>1. points \in Seq(Point)
    BY <1>1, <1>2, SeqDef
  <2>2. DOMAIN points = 1..n /\ DOMAIN points = 1..Len(points) /\ Len(points) \in Nat
    BY <1>1, <2>1
  <2>3. QED
    BY <1>2, <2>1, <2>2
<1>4. Laid
  BY <1>2, <1>3, FallbackAssumption DEF Laid, FallbackInit
<1>5. Copied
  BY DEF Copied, FallbackInit
<1>6. QED
  BY <1>4, <1>5 DEF FallbackKept

\* A compilation leaves a copy of a valid schedule, or nothing.
LEMMA KeptByCompile ==
  ASSUME FallbackKept, Compile
  PROVE  FallbackKept'
<1>1. points' = points /\ scale' = scale /\ minute' = minute
  BY DEF Compile
<1>2. Laid'
  BY <1>1 DEF FallbackKept, Laid
<1>3. Segments(points)' = Segments(points)
  BY <1>1 DEF Segments
<1>4. PICK segs : segs = Segments(points)
  OBVIOUS
<1>5. \A i \in DOMAIN segs : Link(segs[i])' = Link(segs[i])
  BY <1>1 DEF Link, Scaled
<1>6. CASE ValidGraph(segs)
  <2>1. fallback' = [status |-> "compiled", links |-> [i \in DOMAIN segs |-> Link(segs[i])]]
    BY <1>4, <1>6 DEF Compile
  <2>2. /\ fallback'.status = "compiled"
        /\ fallback'.links = [i \in DOMAIN segs |-> Link(segs[i])]
    BY <2>1
  <2>3. ValidGraph(segs)'
    BY <1>6 DEF ValidGraph
  <2>4. Copied'
    BY <1>1, <1>3, <1>4, <1>6, <2>2 DEF Copied, ValidGraph, Link, Scaled
  <2>5. QED
    BY <1>2, <2>4 DEF FallbackKept
<1>7. CASE ~ValidGraph(segs)
  <2>1. fallback' = [status |-> "refused", links |-> <<>>]
    BY <1>4, <1>7 DEF Compile
  <2>2. Copied'
    BY <2>1 DEF Copied
  <2>3. QED
    BY <1>2, <2>2 DEF FallbackKept
<1>8. QED
  BY <1>6, <1>7

\* Midnight passes within the day.
LEMMA KeptByMinutes ==
  ASSUME FallbackKept, MinutePasses \/ UNCHANGED fallbackVars
  PROVE  FallbackKept'
<1>1. /\ points' = points /\ scale' = scale /\ fallback' = fallback
      /\ minute' \in 0..LastMinute
  <2>1. CASE MinutePasses
    <3>1. minute \in 0..LastMinute /\ LastMinute \in Nat
      BY FallbackAssumption DEF FallbackKept, Laid
    <3>2. PICK k \in Int, d \in Int : k = minute + 1 /\ d = LastMinute + 1 /\ d > 0
      BY <3>1
    <3>3. k % d \in Int /\ 0 <= k % d /\ k % d < d
      BY <3>2, Division
    <3>4. minute' = k % d
      BY <2>1, <3>2 DEF MinutePasses
    <3>5. minute' \in 0..LastMinute
      BY <3>1, <3>2, <3>3, <3>4
    <3>6. QED
      BY <2>1, <3>5 DEF MinutePasses
  <2>2. CASE UNCHANGED fallbackVars
    BY <2>2 DEF fallbackVars, FallbackKept, Laid
  <2>3. QED
    BY <2>1, <2>2
<1>2. Laid'
  BY <1>1 DEF FallbackKept, Laid
<1>3. Copied'
  BY <1>1 DEF FallbackKept, Copied, Segments, Link, Scaled
<1>4. QED
  BY <1>2, <1>3 DEF FallbackKept

\* The inductive invariant of the compiled schedule.
THEOREM FallbackInvariant == FallbackSpec => []FallbackKept
<1>1. FallbackKept /\ [FallbackNext]_fallbackVars => FallbackKept'
  BY KeptByCompile, KeptByMinutes DEF FallbackNext
<1>2. QED
  BY KeptAtStart, <1>1, PTL DEF FallbackSpec

\* What the device keeps of a schedule is one.
LEMMA LinkIsTyped ==
  ASSUME Laid, NEW seg \in [source : Point, target : Point]
  PROVE  Link(seg) \in [source : [minute : 0..LastMinute, percent : Percents],
                        target : [minute : 0..LastMinute, percent : Percents]]
<1>1. ASSUME NEW pt \in Point
      PROVE  [pt EXCEPT !.percent = Scaled(pt.percent)]
                \in [minute : 0..LastMinute, percent : Percents]
  <2>1. pt.percent \in Percents
    BY FallbackAssumption DEF Point, Percents
  <2>2. Scaled(pt.percent) \in Percents
    BY <2>1, ScaledIsClose
  <2>3. QED
    BY <2>2 DEF Point
<1>2. seg.source \in Point /\ seg.target \in Point
  OBVIOUS
<1>3. Link(seg) = [source |-> [seg.source EXCEPT !.percent = Scaled(seg.source.percent)],
                   target |-> [seg.target EXCEPT !.percent = Scaled(seg.target.percent)]]
  BY DEF Link
<1>4. QED
  BY <1>1, <1>2, <1>3

\* The points, the compiled links with their percentages and the minute have their types.
THEOREM FallbackTypes == FallbackSpec => []FallbackTypeOK
<1>1. FallbackKept => FallbackTypeOK
  <2> SUFFICES ASSUME FallbackKept PROVE FallbackTypeOK
    OBVIOUS
  <2>1. Laid /\ Copied
    BY DEF FallbackKept
  <2>2. \A i \in DOMAIN points : points[i] \in Point
    BY <2>1, ElementOfSeq, LenProperties DEF Laid
  <2>3. fallback.status \in {"none", "refused", "compiled"}
    BY <2>1 DEF Copied
  <2>4. \A i \in DOMAIN fallback.links :
           fallback.links[i] \in [source : [minute : 0..LastMinute, percent : Percents],
                                  target : [minute : 0..LastMinute, percent : Percents]]
    <3>1. CASE fallback.links = <<>>
      BY <3>1
    <3>2. CASE fallback.status = "compiled"
      <4>1. ValidGraph(Segments(points))
        BY <2>1, <3>2 DEF Copied
      <4>2. PICK n \in Nat \ {0} :
               /\ DOMAIN Segments(points) = 1..n
               /\ \A i \in 1..n : Segments(points)[i] \in [source : Point, target : Point]
        BY <2>1, <4>1, SegmentsOf
      <4>3. /\ DOMAIN fallback.links = 1..n
            /\ \A i \in 1..n : fallback.links[i] = Link(Segments(points)[i])
        BY <3>2, <4>2, Copies
      <4>4. QED
        BY <2>1, <4>2, <4>3, LinkIsTyped
    <3>3. QED
      BY <2>1, <3>1, <3>2 DEF Copied
  <2>5. QED
    BY <2>1, <2>2, <2>3, <2>4 DEF FallbackTypeOK, Laid, Percents
<1>2. QED
  BY FallbackInvariant, <1>1, PTL

\* FallbackIsClose: a compiled schedule covers every minute of the day, and what the
\* device shows of it is within two points below and one above what the host sent.
THEOREM FallbackStaysClose == FallbackSpec => []FallbackIsClose
<1>1. FallbackKept => FallbackIsClose
  BY CloseWhenCompiled
<1>2. QED
  BY FallbackInvariant, <1>1, PTL

=============================================================================
