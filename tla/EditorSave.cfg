\* One channel, two saves of the page, and somebody else's save between them.
SPECIFICATION EditorSafety
CONSTANTS
    MaxRevision = 3
    EditedChannels = {c1}
    Contents = {1, 2, 3}
    MaxSaves = 2
CHECK_DEADLOCK FALSE
PROPERTIES
    NoSilentOverwrite
