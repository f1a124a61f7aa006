SPECIFICATION TvmSpec
CONSTANTS
    Sources <- MCSources
    GoodLines <- MCGoodLines
INVARIANTS StoresTold
