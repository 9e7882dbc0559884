SPECIFICATION Spec
CONSTANTS
    PersistInterval = 1
    StaleAfter = 2
    OfflineAfter = 3
    MaxTime = 3
    MaxEvents = 2
    MaxCalls = 2
    Delay = 1
    MaxPasses = 1
    MaxTransitions = 3
    MaxEdits = 1
    MaxClock = 2
    MaxFaults = 1
    Retained = 1
    MaxRevisions = 2
    MaxBackups = 1
    MaxFailures = 1
    PerDay = 3
    DailySlot = 1
    Freshness = 4
    DailyDays = 1
    WeeklyDays = 2
    WeekDays = 2
    MaxSlot = 9
    MaxTrouble = 1
CHECK_DEADLOCK FALSE
INVARIANTS
    QuarantineHoldsWithoutEdits
    OnceAndInOrder
    NoChangeForgotten
    HistoryKept
    NoDayIsSkipped
PROPERTIES
    SilentDeviceReturns
    Settles
    QuietMeansBackedUp
