\* Two commits, and one restored backup.
SPECIFICATION FairSpec
CONSTANTS
    MaxQueuedFrames = 1
    MaxReplay = 1
    Retained = 1
    HighWater = 2
    MaxRevision = 2
    Disturbances = {"crash", "restore"}
    MaxDisturbances = 2
PROPERTIES
    RollbackAccepted
\* The instance stops: the commits are bounded, and a page that reports an error
\* waits for somebody to retry.
CHECK_DEADLOCK FALSE
