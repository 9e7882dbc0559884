\* Two devices that compete for one lane or share two, two connections.
SPECIFICATION FairSpec
CONSTANTS
    d1 = d1
    d2 = d2
    d3 = d3
    Devices = {d1, d2, d3}
    Ops <- Calls
    Command <- Commands
    MaxLanes = 2
    MaxGeneration = 5
INVARIANTS
    NoWorkIsForgotten
PROPERTIES
    KeepsContract
    EveryCommandSettles
CHECK_DEADLOCK FALSE
