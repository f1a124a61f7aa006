SPECIFICATION InterpretersSpec
CONSTANTS
    Codes <- MCCodes
    mMaxCells = 2
    Cell = 3
    W = 16
    p0 = p0
    p1 = p1
    p2 = p2
    Pids <- MCPids
    Shell = p0
    Lines <- MCLines
    MaxLines = 3
    Cap0 = 2
    Programs <- MCPrograms
    Sources <- MCSources
    GoodLines <- MCGoodLines
INVARIANTS StaysOnTheCode OneInForeground EachLineOnce VariablesApart EncodesAsWritten
PROPERTIES JumpsToPartner EveryLineHandled ProgramsAssemble
