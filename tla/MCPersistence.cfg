SPECIFICATION FairSpec
CONSTANTS
    Names <- TwoNames
    WordBits = 2
    TableInputs <- SmallTables
    ForeignFiles <- Foreign
INVARIANTS
PROPERTIES
    LoadsOnlySavedTables
    SuccessfulLoadIsComplete
    CompleteFileLoads
    OperationsFinish
