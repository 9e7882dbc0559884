\* What must eventually happen to an edit and a schedule, under FairSpec: one crash, no clock step (a
\* clock set back really does strand a row).
SPECIFICATION FairSpec
CONSTANTS
    d1 = d1
    Devices = {d1}
    Ops <- EditOps
    Request <- EditRequests
    OperationTimeout = 1
    ResponseCooldown = 1
    OverwriteLease = 1
    RetainFor = 1
    MaxTime = 3
    MaxCrashes = 1
    MaxClockSteps = 0
PROPERTIES
    EveryOperationSettles
CHECK_DEADLOCK FALSE
