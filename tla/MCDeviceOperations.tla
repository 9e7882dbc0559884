------------------------ MODULE MCDeviceOperations ------------------------
(***************************************************************************)
(* Small instances of DeviceOperations.  Ops is a set of strings so that   *)
(* what each identifier is issued for can be written down here.            *)
(***************************************************************************)
EXTENDS DeviceOperations

CONSTANT d1

R(d, kind, overwrite, internal) ==
    [device |-> d, kind |-> kind, overwrite |-> overwrite,
     internal |-> internal]

\* One device: a routine refresh and a manual PWM write compete.
PwmOps == {"refresh", "manual"}
PwmRequests ==
    [op \in PwmOps |->
        IF op = "refresh" THEN R(d1, "set_pwm", TRUE, TRUE)
        ELSE R(d1, "set_pwm", TRUE, FALSE)]

\* One device: an edit, which takes no turn, and a schedule, which does.
EditOps == {"edit", "schedule"}
EditRequests ==
    [op \in EditOps |->
        IF op = "edit" THEN R(d1, "edit_configuration", FALSE, FALSE)
        ELSE R(d1, "schedule", FALSE, FALSE)]

\* The kinds start-up recovery does not look for.
OtaOps == {"ota", "release"}
OtaRequests ==
    [op \in OtaOps |->
        IF op = "ota" THEN R(d1, "firmware_update", FALSE, FALSE)
        ELSE R(d1, "release_startup_hold", FALSE, FALSE)]
=============================================================================
