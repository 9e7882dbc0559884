\* Two commits, queues of one frame and any three disturbances; two callbacks, two
\* connections and one mishap.
SPECIFICATION ControllerSpec
CONSTANTS
    MaxQueuedFrames = 1
    MaxReplay = 1
    Retained = 1
    HighWater = 2
    MaxRevision = 2
    Disturbances = {"mirror", "drop", "crash", "restore", "fetch", "silence", "user"}
    MaxDisturbances = 3
    MaxTasks = 2
    MaxGeneration = 5
    MaxMishaps = 1
INVARIANTS
    FreshHasEveryBroadcast
    ReadyIsReconciled
    ClosedIsQuiet
PROPERTIES
    ShownNeverGoesBack
    PagesCatchUp
    ShutdownEnds
\* The instance stops: the commits are bounded, and a page that reports an error
\* waits for somebody to retry.
CHECK_DEADLOCK FALSE
