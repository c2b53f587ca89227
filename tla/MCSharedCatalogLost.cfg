SPECIFICATION SharedSpec
SYMMETRY CatalogSymmetry
CONSTRAINT RowsOnly
CONSTANTS
    Threads = {p, q}
    Names = {a}
    RowIds = {1, 2, 3}
    TableWidth = 2
    Discipline = "none"
INVARIANTS
    AcknowledgedRowsKept
