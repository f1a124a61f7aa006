SPECIFICATION TextsSpec
CONSTANTS
    Dates = {"3h33"}
    Words = {"6666"}
    Arguments <- MCArguments
    Commands <- MCCommands
    Statements <- MCStatements
    MaxStatements = 2
    MaxText = 5
    MaxSource = 6
    Texts <- MCLevelTexts
    MaxTexts = 2
    UuidTexts <- MCUuidTexts
    Numerals <- MCNumerals
    Lengths <- MCLengths
CHECK_DEADLOCK FALSE
INVARIANTS OptionsAsGiven CreatesAndSelects TokensAsWritten LevelOfItsText
    UuidRoundTrip DigestOfMessage SumOfAddends
