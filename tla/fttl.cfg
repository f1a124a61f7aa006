SPECIFICATION FairSpec
CONSTANTS
    Base = 2
    message_len = 16
    Packed <- MCPacked
    Unpacked <- MCUnpacked
    Blank <- MCBlank
    Paths <- MCPaths
    Stamps <- MCStamps
    NoPath <- MCNoPath
    None = None
    MaxClock = 2
    MaxSends = 2
    MaxCreates = 1
    MaxErrors = 1
    MaxCrashes = 1
INVARIANTS FilesAsAsked
PROPERTIES NoEarlyRemoval SweepLeavesNoneDue NoneDropped EventuallyTried
