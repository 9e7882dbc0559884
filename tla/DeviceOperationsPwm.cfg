\* A routine refresh and a manual write of the same device, one crash, and a
\* wall clock that is set back once.
SPECIFICATION Spec
CONSTANTS
    d1 = d1
    Devices = {d1}
    Ops <- PwmOps
    Request <- PwmRequests
    OperationTimeout = 1
    ResponseCooldown = 1
    OverwriteLease = 1
    RetainFor = 1
    MaxTime = 2
    MaxCrashes = 1
    MaxClockSteps = 1
INVARIANTS
    NoPhantomEffect
    ReservationMatchesAttempt
    LeaseOutlivesReconciliation
PROPERTIES
    OnlyTheOwnerReconciles
    ImplementsLifecycle
CHECK_DEADLOCK FALSE
