SPECIFICATION FairSpec
CONSTANTS
    Names = {a}
    SchemaInputs <- MixedSchemas
    InsertInputs <- MixedInserts
    UpdateInputs <- MixedUpdates
    DeleteInputs <- MixedDeletes
    ColumnLists <- MixedLists
    CsvInputs <- Csv
    MaxRows = 3
INVARIANTS
    IInv
    NeverReadsPastBuffer
    NoCellBeyondRowCount
PROPERTIES
    UpdateIsPointwise
    DeleteIsFilter
    FailedRewriteChangesNothing
    RewriteRepairs
    StatementsFinish
