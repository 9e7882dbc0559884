\* The two kinds start-up recovery does not look for, one crash.
SPECIFICATION Spec
CONSTANTS
    d1 = d1
    Devices = {d1}
    Ops <- OtaOps
    Request <- OtaRequests
    OperationTimeout = 1
    ResponseCooldown = 1
    OverwriteLease = 1
    RetainFor = 1
    MaxTime = 2
    MaxCrashes = 1
    MaxClockSteps = 0
INVARIANT
    EveryInterruptedOperationIsRecovered
CHECK_DEADLOCK FALSE
