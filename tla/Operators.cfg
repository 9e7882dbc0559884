SPECIFICATION Spec
CONSTANTS
    MaxRevision = 3
    Areas = {a1, a2}
    Channels = {c1, c2}
    Profiles = {r1}
    Devices = {d1}
    Hardware = {h1, h2}
    Pages = {p1}
    Capacity = 1
    EditedChannels = {c1, c2}
    Contents = {1, 2}
    MaxSaves = 1
    MaxOverrides = 2
    Duration = 1
    Lease = 1
    MaxEdits = 1
    MaxFaults = 1
CHECK_DEADLOCK FALSE
INVARIANTS
    NothingDangles
    OverlapNeedsRepoint
    NoOrphanedChild
PROPERTIES
    NoLossBeyondToken
    DraftsSurvive
    OverrideEnds
