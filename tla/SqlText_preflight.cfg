CONSTANTS
    Pieces <- MCNames
    Arguments <- MCArguments
    MaxPieces = 5
    Tables <- MCTables
SPECIFICATION TextSpec
CHECK_DEADLOCK FALSE
INVARIANTS PreflightIsSingleStatement
