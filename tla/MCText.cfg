SPECIFICATION TextSpec
CONSTANTS
    MaxInt = 7
    MaxExponent = 2
    MaxOpen = 3
    OperandLevel = 9
    Files <- MCFiles
    Library <- MCLibrary
    Grids <- SmallGrids
    Styles <- SmallStyles
    HasHeader = {TRUE, FALSE}
    InferRows = 0
    TextChars <- Alphabet
    Letters <- TwoLetters
    MaxText = 4
    MaxPattern = 4
INVARIANTS
    GapsAreComments
    StatementsRunAsWritten
    NothingIgnored
    AnswersMeanTheirExpressions
    ReadsWhatWasWritten
    NoUninitializedCell
    InferenceIsTightest
    IInv
    VerdictIsLike
PROPERTIES
    ShellEnds
    SearchAdvances
    Terminates
