\* Two pages' worth of commits between opening a dialog and saving it.
SPECIFICATION DialogSafety
CONSTANTS
    MaxRevision = 3
    Areas = {a1, a2}
    Channels = {c1, c2}
    Profiles = {r1}
    Devices = {d1}
    Hardware = {h1, h2}
    Pages = {p1}
    Capacity = 1
CHECK_DEADLOCK FALSE
PROPERTIES
    DialogRemovesWhatItShowed
