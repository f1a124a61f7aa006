SPECIFICATION Spec
CONSTANTS
    Base = 3
    Stamps <- MCStamps
    Texts <- MCTexts
    kMaxUDPSize = 17
    MaxEvents = 2
CHECK_DEADLOCK FALSE
INVARIANTS ArrivesAsSent WholeRecordsRead
