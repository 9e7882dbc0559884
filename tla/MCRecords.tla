----------------------------- MODULE MCRecords ------------------------------
(***************************************************************************)
(* Model checking what the controller keeps on record: the row of a device *)
(* in the registry, the alert and the notifications of a rule, the two     *)
(* databases with their archives and backups, and the daily maintenance.   *)
(* As in MCDelivery the machines share no variable, and one of them moves. *)
(***************************************************************************)
EXTENDS DeviceRegistry, AlertLifecycle, StorageRecovery, Maintenance

VARIABLE part       \* the machine that moves

vars == <<part, registryVars, alertVars, storageVars, maintenanceVars>>

Init ==
    /\ RegistryInit /\ AlertInit /\ StorageInit /\ MaintenanceInit
    /\ part \in {"registry", "alerts", "storage", "maintenance"}
    /\ part = "registry" \/ esp.supported

Next ==
    /\ UNCHANGED part
    /\ \/ part = "registry" /\ RegistryNext
       \/ part # "registry" /\ UNCHANGED registryVars
    /\ \/ part = "alerts" /\ AlertNext
       \/ part # "alerts" /\ UNCHANGED alertVars
    /\ \/ part = "storage" /\ StorageNext
       \/ part # "storage" /\ UNCHANGED storageVars
    /\ \/ part = "maintenance" /\ MaintenanceNext
       \/ part # "maintenance" /\ UNCHANGED maintenanceVars

\* The fairness of RegistrySpec and AlertSpec.
Spec ==
    /\ Init /\ [][Next]_vars
    /\ WF_registryVars(part = "registry" /\ ClockTick)
    /\ WF_registryVars(part = "registry" /\ Announces)
    /\ WF_registryVars(part = "registry" /\ ApplyAnnouncement)
    /\ WF_registryVars(part = "registry" /\ ApplyResult)
    /\ WF_alertVars(part = "alerts" /\ BeginPass)
    /\ WF_alertVars(part = "alerts" /\ Evaluation)
    /\ WF_alertVars(part = "alerts" /\ Tick)
    /\ WF_alertVars(part = "alerts" /\ Notification)
=============================================================================
