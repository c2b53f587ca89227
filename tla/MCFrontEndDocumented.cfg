SPECIFICATION Spec
CONSTANTS
    MaxInt = 7
    MaxExponent = 2
    MaxOpen = 3
    OperandLevel = 5
    Files <- MCFiles
    Library <- MCLibrary
INVARIANTS
    StatementsRunAsWritten
