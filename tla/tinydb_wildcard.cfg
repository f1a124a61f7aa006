SPECIFICATION DbSpec
CONSTANTS
    Statements <- MCStatements
    MaxStatements = 2
CHECK_DEADLOCK FALSE
INVARIANTS WildcardSelectsTable
