SPECIFICATION Spec
SYMMETRY CallSymmetry
CONSTRAINT Bounds
CONSTANTS
    Callers = {p, q}
    Dbs = {d}
    Results = {r, s}
    Rows <- MCRows
    CsvRows <- MCCsvRows
    Width = 3
    MaxRows = 2
    NULL = NULL
PROPERTY
    LentTextsStay
