SPECIFICATION Spec
CONSTANTS
    Names <- TwoNames
    WordBits = 2
    TableInputs <- SmallTables
    ForeignFiles <- Foreign
PROPERTIES
    SaveReportsFailure
