----------------------------- MODULE MCDelivery -----------------------------
(***************************************************************************)
(* Model checking what the controller keeps sending to its devices without *)
(* being asked (a wireless update, a compiled schedule, the outputs and    *)
(* the time), and what a device does on its own with what it was sent (its *)
(* outputs, its clock, its diagnostic, and the schedule it stores and      *)
(* falls back to).  The machines share no variable, so one run takes them  *)
(* side by side: in a behaviour one of them moves, and its states add to   *)
(* those of the others instead of multiplying with them.                   *)
(***************************************************************************)
EXTENDS FirmwareUpdates, ScheduleDelivery, OutputRefresh, TimeSync,
        LocalOutputs, ScheduleStore, DeviceClock, DeviceDiagnostics,
        ScheduleFallback

VARIABLE part       \* the machine that moves

vars == <<part, firmwareVars, scheduleVars, refreshVars, timeVars,
          localVars, storeVars, clockVars, diagnosticVars, fallbackVars>>

\* A machine that does not move stays at one of its initial states.
Init ==
    /\ FirmwareInit /\ ScheduleInit /\ RefreshInit /\ TimeInit
    /\ LocalInit /\ StoreInit /\ ClockInit /\ DiagnosticsInit
    /\ FallbackInit
    /\ part \in {"firmware", "schedule", "refresh", "time",
                 "outputs", "store", "clock", "diagnostics",
                 "fallback"}
    /\ part = "firmware" \/ (esp.version = "usb" /\ row = NoRequest)
    /\ wanted.hash = CHOOSE s \in Schedules : TRUE
    /\ runs = wanted.hash <=> part # "schedule"
    /\ part = "clock" \/ known = FALSE
    /\ \/ part = "fallback"
       \/ /\ points = <<>>
          /\ scale = CHOOSE s \in [throttle : Throttles, gain : Gains] : TRUE

Next ==
    /\ UNCHANGED part
    /\ \/ part = "firmware" /\ FirmwareNext
       \/ part # "firmware" /\ UNCHANGED firmwareVars
    /\ \/ part = "schedule" /\ ScheduleNext
       \/ part # "schedule" /\ UNCHANGED scheduleVars
    /\ \/ part = "refresh" /\ RefreshNext
       \/ part # "refresh" /\ UNCHANGED refreshVars
    /\ \/ part = "time" /\ TimeNext
       \/ part # "time" /\ UNCHANGED timeVars
    /\ \/ part = "outputs" /\ LocalNext
       \/ part # "outputs" /\ UNCHANGED localVars
    /\ \/ part = "store" /\ StoreNext
       \/ part # "store" /\ UNCHANGED storeVars
    /\ \/ part = "clock" /\ ClockNext
       \/ part # "clock" /\ UNCHANGED clockVars
    /\ \/ part = "diagnostics" /\ DiagnosticsNext
       \/ part # "diagnostics" /\ UNCHANGED diagnosticVars
    /\ \/ part = "fallback" /\ FallbackNext
       \/ part # "fallback" /\ UNCHANGED fallbackVars

\* The fairness of the machines' specifications.
Spec ==
    /\ Init /\ [][Next]_vars
    /\ WF_firmwareVars(part = "firmware" /\ TaskStep)
    /\ WF_firmwareVars(part = "firmware" /\ SignalDeviceAnnouncement)
    /\ WF_firmwareVars(part = "firmware" /\ HandleOta)
    /\ WF_firmwareVars(part = "firmware" /\ BeginDownload)
    /\ WF_firmwareVars(part = "firmware" /\ (DownloadFails \/ InstallImage))
    /\ WF_firmwareVars(part = "firmware" /\ (Connect \/ ProbationTimesOut))
    /\ WF_firmwareVars(part = "firmware" /\ OutputsGoOff)
    /\ WF_firmwareVars(part = "firmware" /\ (Exit \/ StartService))
    /\ WF_scheduleVars(part = "schedule" /\ Reconcile)
    /\ WF_scheduleVars(part = "schedule" /\ RequestScheduleReconciliation)
    /\ WF_scheduleVars(part = "schedule" /\ TransportReady)
    /\ WF_scheduleVars(part = "schedule" /\ HandleTransportReady)
    /\ WF_scheduleVars(part = "schedule" /\ HandleAnnouncement)
    /\ WF_scheduleVars(part = "schedule" /\ AnnounceInQuiet)
    /\ WF_refreshVars(part = "refresh" /\ TickStep)
    /\ WF_refreshVars(part = "refresh" /\ Closing)
    /\ WF_refreshVars(part = "refresh" /\ Pass)
    /\ \A d \in Devices : WF_refreshVars(part = "refresh" /\ (Send(d) \/ Answer(d)))
    /\ WF_localVars(part = "outputs" /\ Loop)
    /\ WF_diagnosticVars(part = "diagnostics" /\ ConnectAndAnnounce)
    /\ WF_diagnosticVars(part = "diagnostics" /\ AnnounceQueued)
=============================================================================
