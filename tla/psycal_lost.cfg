SPECIFICATION Spec
CONSTANTS
    a = a
    b = b
    Ids <- MCIds
    Times <- MCTimes
    MaxClock = 2
    MaxCrashes = 1
SYMMETRY Perms
CHECK_DEADLOCK FALSE
INVARIANTS NeverLost
