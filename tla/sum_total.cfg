SPECIFICATION SumSpec
CONSTANTS
    Sizes <- MCSizes
    Cores <- MCCores
    threshold_ = 3
    W = 64
CHECK_DEADLOCK FALSE
INVARIANTS SumRight
