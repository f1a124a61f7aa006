SPECIFICATION FairSpec
CONSTANTS
    a = a
    b = b
    Ids <- MCIds
    Times <- MCTimes
    MaxClock = 2
    MaxCrashes = 2
CHECK_DEADLOCK FALSE
INVARIANTS TypeOK QuietMeansSaved HistoryOnce KeptUnlessTorn NotBeforeDue
PROPERTIES OnlyCrashLoses LedgerSpec EventuallyArchived
