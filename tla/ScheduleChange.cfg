\* One change of the configuration around a start, and no loss.
SPECIFICATION ScheduleSafety
CONSTANTS
    Schedules = {"a", "b"}
    MaxChanges = 1
    MaxLosses = 0
    MaxQueued = 2
CHECK_DEADLOCK FALSE
INVARIANTS
    NoChangeLost
