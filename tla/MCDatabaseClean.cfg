SPECIFICATION Spec
CONSTANTS
    Names = {a, b}
    SchemaInputs <- CleanSchemas
    InsertInputs <- CleanInserts
    UpdateInputs <- CleanUpdates
    DeleteInputs <- CleanDeletes
    ColumnLists <- CleanLists
    CsvInputs <- CleanCsv
    MaxRows = 2
INVARIANTS
    AllSameLength
    QueriesReturn
PROPERTIES
    ImplementsRowStore
