SPECIFICATION Spec
CONSTANTS
    MaxRequests = 2
    MaxFaults = 1
    MaxTasks = 1
    Modes = {"when_off"}
    Schedules = {"a", "b"}
    MaxChanges = 1
    MaxLosses = 2
    MaxQueued = 2
    Devices = {"d1"}
    Outputs = 2
    Interval = 1
    Cooldown = 2
    MaxVersions = 2
    MaxFailures = 1
    Clocks = {"c1", "c2"}
    DayLength = 2
    DailyOffset = 1
    MaxTime = 3
    MaxSteps = 1
    MaxRestarts = 1
    Pins = {"p1"}
    Full = 2
    Lease = 3
    Retry = 1
    HoldTime = 2
    FadeTime = 2
    MaxSets = 2
    MaxSchedules = 2
    MaxBreaks = 2
    MaxBoots = 1
    StoredSchedules = {"s1", "s2"}
    MaxStores = 4
    MaxFileFaults = 3
    MaxCuts = 2
    Hour = 3
    AnswerTime = 1
    NtpRetry = 2
    Resync = 5
    MaxTicks = 7
    MaxEvents = 2
    MaxDrops = 2
    MaxReboots = 2
    LastMinute = 4
    Percentages = {0, 33, 100}
    Throttles = {50, 100}
    Gains = {70, 100}
    MaxPoints = 3
CHECK_DEADLOCK FALSE
INVARIANTS
    OneCommandPerRequest
    DeliveredWasTaken
    OneDailySyncPerDay
    ScheduleSurvives
    WearIsBounded
    FallbackIsClose
PROPERTIES
    NewestWins
    UpdateSettles
    DeviceConverges
    LocalControlReturns
    DiagnosticHeard
