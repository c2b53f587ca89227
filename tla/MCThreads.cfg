SPECIFICATION ThreadsSpec
SYMMETRY Symmetry
CONSTRAINT Bounds
CONSTANTS
    Callers = {p, q}
    Dbs = {d}
    Results = {r, s}
    Rows <- MCRows
    CsvRows <- MCCsvRows
    Width = 3
    MaxRows = 2
    NULL = NULL
    Threads = {x, y}
    Names = {a}
    RowIds = {1, 2, 3}
    TableWidth = 2
    Discipline = "readers"
INVARIANTS
    IInv
    ReadsTheAnswer
    GettersKeepContract
    LentErrorsStay
    SharedInv
    AcknowledgedRowsKept
    SelectReadsSnapshot
