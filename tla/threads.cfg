SPECIFICATION ThreadsSpec
CONSTANTS
    Sizes <- MCSizes
    Cores <- MCCores
    threshold_ = 3
    W = 64
    Rounds = 3
    MaxArgs = 2
    Procs = {p1, p2, p3}
    MaxStarts = 4
    MaxObjects = 2
CHECK_DEADLOCK FALSE
INVARIANTS WorkersInBounds Tiling EnoughWork CountersAddUp ThreadsMeet PermitsAddUp
PROPERTIES MainEnds
