------------------------------ MODULE Database ------------------------------
(***************************************************************************)
(* The catalog of tables and the statements a Connection runs against it   *)
(* (src/api/connection.cpp, src/catalog/catalog.h).  A Connection runs one *)
(* statement at a time.  CREATE, DROP and CSV import are single steps;     *)
(* INSERT, UPDATE and DELETE walk the rows in a loop, one step each, and   *)
(* may throw in the middle of it.  SQL text is abstracted: a statement is  *)
(* the syntax tree the parser hands to the handler, with its expressions   *)
(* reduced to constants, column references and expressions that throw.     *)
(***************************************************************************)
EXTENDS Statements

CONSTANTS Names,          \* table names
          SchemaInputs,   \* schemas a CREATE TABLE may declare
          InsertInputs,   \* INSERT ... VALUES statements
          UpdateInputs,   \* UPDATE statements
          DeleteInputs,   \* DELETE statements
          ColumnLists,    \* column lists of INSERT ... SELECT (empty: all columns)
          CsvInputs,      \* CSV files, as the schema and rows inferred from them
          MaxRows         \* bound on the rows of a table

VARIABLES catalog,  \* Catalog::tables_: the table of each name, or NoTable
          op,       \* the statement kind being run, "idle" between statements,
                    \* "crashed" when the process has died in one
          target,   \* the table the running statement writes
          stmt,     \* the running statement
          pos,      \* rows its loop has finished
          acc,      \* rows collected for the rebuilt table (UPDATE, DELETE)
          affected, \* rows the running statement has inserted, updated or deleted
          result    \* QueryResult of the last statement

vars == <<catalog, op, target, stmt, pos, acc, affected, result>>

ASSUME InputsAssumption ==
    /\ SchemaInputs \subseteq Schemas
    /\ InsertInputs \subseteq Statements
    /\ UpdateInputs \subseteq Statements
    /\ DeleteInputs \subseteq Statements
    /\ ColumnLists \subseteq Seq(Nat)
    /\ \A f \in CsvInputs :
        /\ f.schema \in Schemas
        /\ f.rows \in Seq([1..Len(f.schema) -> Values])
        /\ \A i \in 1..Len(f.rows) :
              AcceptsRow(f.schema, f.rows[i])

(* Up to 64 rows the validity bitmap of a column is at most one word: a    *)
(* read outside it is a read through the null pointer of an empty vector,  *)
(* never of some other allocation.                                         *)
ASSUME MaxRowsAssumption == MaxRows \in 0..64

NoTable == << >>
Exists(t) == catalog[t] # NoTable

Ok(n) == [affected |-> n, ok |-> TRUE]
Error == [affected |-> 0, ok |-> FALSE]

-----------------------------------------------------------------------------
Init ==
    /\ catalog = [t \in Names |-> NoTable]
    /\ op = "idle"
    /\ target \in Names
    /\ stmt = DeleteStmt(NoWhere)
    /\ pos = 0
    /\ acc = << >>
    /\ affected = 0
    /\ result = Ok(0)

(* The statement ends with result r.                                       *)
Finish(r) ==
    /\ op' = "idle"
    /\ stmt' = DeleteStmt(NoWhere)
    /\ pos' = 0
    /\ acc' = << >>
    /\ affected' = 0
    /\ result' = r
    /\ UNCHANGED target

Begin(kind, t, s) ==
    /\ op' = kind
    /\ target' = t
    /\ stmt' = s
    /\ pos' = 0
    /\ acc' = << >>
    /\ affected' = 0
    /\ UNCHANGED <<catalog, result>>

Reject == Finish(Error) /\ UNCHANGED catalog

(* The process dies in the statement; all its tables were in memory.       *)
Crash ==
    /\ catalog' = [t \in Names |-> NoTable]
    /\ op' = "crashed"
    /\ stmt' = DeleteStmt(NoWhere)
    /\ pos' = 0
    /\ acc' = << >>
    /\ affected' = 0
    /\ UNCHANGED <<target, result>>

(* A new process opens a new Connection.                                   *)
Restart ==
    /\ op = "crashed"
    /\ Finish(Ok(0))
    /\ UNCHANGED catalog

(* runCreate registers an empty table, whether or not the name is taken.   *)
CreateTable(t, schema) ==
    /\ op = "idle"
    /\ catalog' = [catalog EXCEPT ![t] = NewTable(schema)]
    /\ Finish(Ok(0))

DropTable(t, ifExists) ==
    /\ op = "idle"
    /\ catalog' = [catalog EXCEPT ![t] = NoTable]
    /\ Finish(IF Exists(t) \/ ifExists THEN Ok(0) ELSE Error)

(* Connection::importCsv refuses a name that is taken.                     *)
ImportCsv(t, file) ==
    /\ op = "idle"
    /\ IF Exists(t)
       THEN Reject
       ELSE /\ Len(file.rows) <= MaxRows
            /\ catalog' = [catalog EXCEPT ![t] = RebuiltTable(file.schema, file.rows)]
            /\ Finish(Ok(Len(file.rows)))

(* readCsv throws (no such file).                                          *)
ImportCsvFails(t) == op = "idle" /\ t \in Names /\ Reject

(* SELECT * FROM t.                                                        *)
Select(t) ==
    /\ op = "idle"
    /\ IF Exists(t) THEN ~ ScanCrashes(catalog[t]) /\ Finish(Ok(0)) ELSE Finish(Error)
    /\ UNCHANGED catalog

(* The scan of a SELECT, alone or feeding an INSERT, leaves a bitmap.      *)
SelectCrashes(t) == op = "idle" /\ Exists(t) /\ ScanCrashes(catalog[t]) /\ Crash

-----------------------------------------------------------------------------
(* runInsert                                                               *)

BeginInsert(t, s) ==
    /\ op = "idle"
    /\ IF ~ Exists(t) \/ UnknownColumn(s.cols, Len(catalog[t]))
       THEN Reject
       ELSE /\ RowCount(catalog[t]) + Len(s.rows) <= MaxRows
            /\ Begin("insert", t, s)

(* INSERT ... SELECT * FROM source: the source is read to its end before   *)
(* the first row is inserted.                                              *)
BeginInsertSelect(t, source, cols) ==
    /\ op = "idle"
    /\ IF \/ ~ Exists(t)
          \/ UnknownColumn(cols, Len(catalog[t]))
          \/ ~ Exists(source)
          \/ /\ ~ ScanCrashes(catalog[source])
             /\ Len(catalog[source]) # (IF cols = << >> THEN Len(catalog[t]) ELSE Len(cols))
       THEN Reject
       ELSE /\ ~ ScanCrashes(catalog[source])
            /\ RowCount(catalog[t]) + RowCount(catalog[source]) <= MaxRows
            /\ Begin("insert", t, InsertStmt(cols, RowsOf(catalog[source])))

OperandsRaise(width, cols, operands) ==
    \/ Len(operands) # (IF cols = << >> THEN width ELSE Len(cols))
    \/ \E i \in 1..Len(operands) : operands[i] = Raises

(* One turn of the loop.  The row's values are all evaluated before the    *)
(* table is touched; insertRow itself may still throw half way.            *)
InsertStep ==
    /\ op = "insert"
    /\ pos < Len(stmt.rows)
    /\ LET tbl == catalog[target]
           operands == stmt.rows[pos + 1]
           row == RowToInsert(Len(tbl), stmt.cols, operands)
       IN IF OperandsRaise(Len(tbl), stmt.cols, operands)
          THEN Reject
          ELSE /\ catalog' = [catalog EXCEPT ![target] = InsertRow(tbl, row)]
               /\ IF AcceptsRow(SchemaOf(tbl), row)
                  THEN /\ pos' = pos + 1
                       /\ affected' = affected + 1
                       /\ UNCHANGED <<op, target, stmt, acc, result>>
                  ELSE Finish(Error)

InsertDone ==
    /\ op = "insert"
    /\ pos = Len(stmt.rows)
    /\ Finish(Ok(affected))
    /\ UNCHANGED catalog

-----------------------------------------------------------------------------
(* runUpdate and runDelete: collect the rows, then register a new table    *)

BeginUpdate(t, s) ==
    /\ op = "idle"
    /\ IF ~ Exists(t) \/ UnknownColumn(SetColumns(s.sets), Len(catalog[t]))
       THEN Reject
       ELSE Begin("update", t, s)

UpdateStep ==
    /\ op = "update"
    /\ pos < RowCount(catalog[target])
    /\ ~ RowCrashes(catalog[target], pos + 1)
    /\ LET row == GetRow(catalog[target], pos + 1)
           match == Matches(stmt.where, row)
       IN IF \/ PredicateRaises(stmt.where, row)
             \/ match /\ \E i \in 1..Len(stmt.sets) : ExprRaises(stmt.sets[i].expr, row)
          THEN Reject
          ELSE /\ acc' = Append(acc, IF match THEN UpdatedRow(stmt.sets, row) ELSE row)
               /\ pos' = pos + 1
               /\ affected' = IF match THEN affected + 1 ELSE affected
               /\ UNCHANGED <<catalog, op, target, stmt, result>>

BeginDelete(t, s) ==
    /\ op = "idle"
    /\ IF Exists(t) THEN Begin("delete", t, s) ELSE Reject

DeleteLoop(Collect(_, _)) ==
    /\ op = "delete"
    /\ pos < RowCount(catalog[target])
    /\ ~ RowCrashes(catalog[target], pos + 1)
    /\ LET row == GetRow(catalog[target], pos + 1)
       IN IF PredicateRaises(stmt.where, row)
          THEN Reject
          ELSE Collect(row, Matches(stmt.where, row))

(* Mutant of DeleteStep: the deleted rows are not counted.                 *)
DeleteStepUncounted == DeleteLoop(LAMBDA row, match :
    /\ acc' = IF match THEN acc ELSE Append(acc, row)
    /\ pos' = pos + 1
    /\ UNCHANGED <<catalog, op, target, stmt, affected, result>>)

(* Mutant of DeleteStep: the rows that match are kept.                     *)
DeleteStepInverted == DeleteLoop(LAMBDA row, match :
    /\ acc' = IF match THEN Append(acc, row) ELSE acc
    /\ pos' = pos + 1
    /\ affected' = IF match THEN affected ELSE affected + 1
    /\ UNCHANGED <<catalog, op, target, stmt, result>>)

(* Mutant of DeleteStep: the loop does not get past a row that matches.    *)
DeleteStepStuck == DeleteLoop(LAMBDA row, match :
    /\ acc' = IF match THEN acc ELSE Append(acc, row)
    /\ pos' = IF match THEN pos ELSE pos + 1
    /\ UNCHANGED <<catalog, op, target, stmt, affected, result>>)

DeleteStep ==
    /\ op = "delete"
    /\ pos < RowCount(catalog[target])
    /\ ~ RowCrashes(catalog[target], pos + 1)
    /\ LET row == GetRow(catalog[target], pos + 1)
           match == Matches(stmt.where, row)
       IN IF PredicateRaises(stmt.where, row)
          THEN Reject
          ELSE /\ acc' = IF match THEN acc ELSE Append(acc, row)
               /\ pos' = pos + 1
               /\ affected' = IF match THEN affected + 1 ELSE affected
               /\ UNCHANGED <<catalog, op, target, stmt, result>>

(* getRow leaves a bitmap.                                                 *)
RewriteCrashes ==
    /\ op \in {"update", "delete"}
    /\ pos < RowCount(catalog[target])
    /\ RowCrashes(catalog[target], pos + 1)
    /\ Crash

RewriteLoopOver ==
    /\ op \in {"update", "delete"}
    /\ pos = RowCount(catalog[target])

(* Mutant of RewriteDone: the rows are inserted in the registered table,   *)
(* up to the first that is refused.                                        *)
RewriteDoneEarly ==
    /\ RewriteLoopOver
    /\ LET schema == SchemaOf(catalog[target])
           n == CHOOSE n \in 0..Len(acc) :
                   /\ \A i \in 1..n : AcceptsRow(schema, acc[i])
                   /\ n < Len(acc) => ~ AcceptsRow(schema, acc[n + 1])
       IN /\ catalog' = [catalog EXCEPT ![target] = RebuiltTable(schema, SubSeq(acc, 1, n))]
          /\ Finish(IF n = Len(acc) THEN Ok(affected) ELSE Error)

(* Mutant of RewriteDone: a statement that hit no row leaves the table.    *)
RewriteDoneLazy ==
    /\ RewriteLoopOver
    /\ IF \A i \in 1..Len(acc) : AcceptsRow(SchemaOf(catalog[target]), acc[i])
       THEN /\ catalog' = IF affected = 0 THEN catalog ELSE [catalog EXCEPT
                              ![target] = RebuiltTable(SchemaOf(catalog[target]), acc)]
            /\ Finish(Ok(affected))
       ELSE Reject

(* Mutant of RewriteDone: the last collected row is not inserted.          *)
RewriteDoneShort ==
    /\ RewriteLoopOver
    /\ catalog' = [catalog EXCEPT ![target] =
                      RebuiltTable(SchemaOf(catalog[target]), SubSeq(acc, 1, Len(acc) - 1))]
    /\ Finish(Ok(affected))

(* Both end by rebuilding the table from the collected rows.  A row the    *)
(* schema does not accept throws before registerTable is reached.          *)
RewriteDone ==
    /\ op \in {"update", "delete"}
    /\ pos = RowCount(catalog[target])
    /\ IF \A i \in 1..Len(acc) : AcceptsRow(SchemaOf(catalog[target]), acc[i])
       THEN /\ catalog' = [catalog EXCEPT
                              ![target] = RebuiltTable(SchemaOf(catalog[target]), acc)]
            /\ Finish(Ok(affected))
       ELSE Reject

-----------------------------------------------------------------------------
Next ==
    \/ \E t \in Names :
        \/ \E schema \in SchemaInputs : CreateTable(t, schema)
        \/ \E ifExists \in BOOLEAN : DropTable(t, ifExists)
        \/ \E file \in CsvInputs : ImportCsv(t, file)
        \/ ImportCsvFails(t)
        \/ Select(t)
        \/ SelectCrashes(t)
        \/ \E s \in InsertInputs : BeginInsert(t, s)
        \/ \E source \in Names, cols \in ColumnLists : BeginInsertSelect(t, source, cols)
        \/ \E s \in UpdateInputs : BeginUpdate(t, s)
        \/ \E s \in DeleteInputs : BeginDelete(t, s)
    \/ InsertStep
    \/ InsertDone
    \/ UpdateStep
    \/ DeleteStep
    \/ RewriteCrashes
    \/ RewriteDone
    \/ Restart

(* The thread that runs a statement does not stop inside it.               *)
Fairness == WF_vars(\/ InsertStep \/ InsertDone
                    \/ UpdateStep \/ DeleteStep \/ RewriteCrashes \/ RewriteDone)

Spec == Init /\ [][Next]_vars

FairSpec == Spec /\ Fairness

-----------------------------------------------------------------------------
(* Properties                                                              *)

(* Types of the state: tables are sequences of typed columns, the running  *)
(* statement has a table to work on and stays within its rows.             *)
TypeOK ==
    /\ catalog \in [Names -> Seq(Columns)]
    /\ op \in {"idle", "crashed", "insert", "update", "delete"}
    /\ target \in Names
    /\ stmt \in Statements
    /\ pos \in Nat
    /\ acc \in Seq(Seq(Values))
    /\ affected \in Nat
    /\ result \in [affected : Nat, ok : BOOLEAN]

(* Column::valueAt indexes the typed buffer with a row its validity bitmap *)
(* knows: in every table each column has as many cells as validity bits,   *)
(* whatever statement threw half way.                                      *)
NeverReadsPastBuffer == \A t \in Names : BuffersAgree(catalog[t])

(* Table::rowCount() is the length of the first column.  No column is ever *)
(* longer, so every stored cell is reachable through rowCount()/getRow(),  *)
(* also after an INSERT that threw in the middle of a row.                 *)
NoCellBeyondRowCount == \A t \in Names : Staircase(catalog[t])

(* table.h: a table is a collection of columns "all the same length".      *)
AllSameLength == \A t \in Names : Exists(t) => Rectangular(catalog[t])

(* Connection::query is to return a result for every statement: the        *)
(* process never dies in one.                                              *)
QueriesReturn == op # "crashed"

(* The running statement keeps to its table: the table exists, the loop is *)
(* within its rows, the collected rows have its width and account for the  *)
(* rows visited.                                                           *)
StatementInv ==
    /\ op \in {"insert", "update", "delete"} => Exists(target)
    /\ op = "insert" => /\ pos <= Len(stmt.rows)
                        /\ ~ UnknownColumn(stmt.cols, Len(catalog[target]))
    /\ op \in {"update", "delete"} =>
        /\ pos <= RowCount(catalog[target])
        /\ \A i \in 1..Len(acc) : Len(acc[i]) = Len(catalog[target])
        /\ Len(acc) = IF op = "update" THEN pos ELSE pos - affected

TypedBuffers == \A t \in Names : BuffersTyped(catalog[t])

TableInv == TypeOK /\ StatementInv /\ NeverReadsPastBuffer /\ NoCellBeyondRowCount /\ TypedBuffers

(* What UPDATE and DELETE have collected so far: every row visited, as it  *)
(* is to be, or the visited rows that do not match, in their order.        *)
Collected ==
    /\ op = "update" =>
        /\ stmt \in UpdateInputs
        /\ \A r \in 1..pos :
              LET row == GetRow(catalog[target], r)
              IN acc[r] = IF Matches(stmt.where, row) THEN UpdatedRow(stmt.sets, row) ELSE row
    /\ op = "delete" =>
        /\ stmt \in DeleteInputs
        /\ \E ix \in [1..Len(acc) -> 1..pos] :
              /\ Lists(ix, {r \in 1..pos : ~ Matches(stmt.where, GetRow(catalog[target], r))})
              /\ \A i \in 1..Len(acc) : acc[i] = GetRow(catalog[target], ix[i])

(* The inductive invariant of Spec.                                        *)
IInv == TableInv /\ Collected

RewriteEnds(kind) == op = kind /\ op' = "idle" /\ result'.ok

RowsUpdated ==
    LET old == RowsOf(catalog[target])
        new == RowsOf(catalog'[target])
        Assigns(i, c) == /\ stmt.sets[i].col = c
                         /\ \A j \in i + 1..Len(stmt.sets) : stmt.sets[j].col # c
    IN /\ Len(new) = Len(old)
       /\ SchemaOf(catalog'[target]) = SchemaOf(catalog[target])
       /\ \A r \in 1..Len(old), c \in 1..Len(catalog[target]) :
             IF Matches(stmt.where, old[r]) /\ \E i \in 1..Len(stmt.sets) : Assigns(i, c)
             THEN \E i \in 1..Len(stmt.sets) :
                     /\ Assigns(i, c)
                     /\ new[r][c] = ReadBack(catalog[target][c].type,
                                            Evaluate(stmt.sets[i].expr, old[r]))
             ELSE new[r][c] = old[r][c]

(* A successful UPDATE changes exactly the assigned columns of exactly the *)
(* matching rows, to what the expressions say of the row as it was before  *)
(* the UPDATE; all other cells read as before, in place, although the      *)
(* whole table has been rebuilt.                                           *)
UpdateIsPointwise == [][RewriteEnds("update") => RowsUpdated]_vars

RowsDeleted ==
    LET old == RowsOf(catalog[target])
        new == RowsOf(catalog'[target])
    IN /\ \E ix \in [1..Len(new) -> 1..Len(old)] :
            /\ Lists(ix, {r \in 1..Len(old) : ~ Matches(stmt.where, old[r])})
            /\ \A i \in 1..Len(new) : new[i] = old[ix[i]]
       /\ result'.affected = Len(old) - Len(new)

(* A successful DELETE leaves the rows that do not match, in their order,  *)
(* reading as before, and reports the number it removed.                   *)
DeleteIsFilter == [][RewriteEnds("delete") => RowsDeleted]_vars

(* UPDATE and DELETE are all or nothing: one that reports an error, in     *)
(* whichever row it threw, has changed no table.                           *)
FailedRewriteChangesNothing ==
    [][op' = "idle" /\ op \in {"update", "delete"} /\ ~ result'.ok
        => catalog' = catalog]_vars

(* A table a statement has rewritten is rectangular, whatever state a      *)
(* failed INSERT had left it in.                                           *)
RewriteRepairs ==
    [][RewriteEnds("update") \/ RewriteEnds("delete")
        => Rectangular(catalog'[target])]_vars

(* Inputs none of which a column refuses: every row of an INSERT either    *)
(* fails before the table is touched or converts in all its columns, and   *)
(* INSERT ... SELECT never carries a VARCHAR column into a numeric one.    *)
KnownSchemas == SchemaInputs \cup {f.schema : f \in CsvInputs}

Fits(schema, cols, operands) ==
    \/ OperandsRaise(Len(schema), cols, operands)
    \/ AcceptsRow(schema, RowToInsert(Len(schema), cols, operands))

Typical(schema) ==
    [c \in 1..Len(schema) |-> IF schema[c] = "VARCHAR" THEN StrV(0) ELSE IntV(0)]

CleanInputs ==
    \A schema \in KnownSchemas :
        /\ \A s \in InsertInputs :
              UnknownColumn(s.cols, Len(schema)) \/
              \A i \in 1..Len(s.rows) : Fits(schema, s.cols, s.rows[i])
        /\ \A source \in KnownSchemas, cols \in ColumnLists :
              UnknownColumn(cols, Len(schema)) \/
              Fits(schema, cols, Typical(source))

(* The clean inductive invariant: what is left of a running INSERT fits    *)
(* its table.                                                              *)
CleanInv ==
    /\ TableInv
    /\ QueriesReturn
    /\ AllSameLength
    /\ \A t \in Names : Exists(t) => SchemaOf(catalog[t]) \in KnownSchemas
    /\ op = "insert" =>
        \A i \in pos + 1..Len(stmt.rows) :
            Fits(SchemaOf(catalog[target]), stmt.cols, stmt.rows[i])

(* Every INSERT, UPDATE and DELETE ends, over whatever columns the failed  *)
(* statements before it have left, also INSERT ... SELECT from the table   *)
(* it inserts into, unless the process dies in it.                         *)
StatementsFinish == (op \notin {"idle", "crashed"}) ~> (op \in {"idle", "crashed"})

-----------------------------------------------------------------------------
(* As long as no value is refused by its column the catalog implements     *)
(* RowStore: the rows getRow() assembles from the columns behave like rows. *)
RowView(tbl) == IF tbl = NoTable THEN [schema |-> << >>, rows |-> << >>]
                                 ELSE [schema |-> SchemaOf(tbl), rows |-> RowsOf(tbl)]

Rows == INSTANCE RowStore WITH db <- [t \in Names |-> RowView(catalog[t])]

(* Every step of a Connection is a step of the row store, or changes no    *)
(* table: INSERT never disturbs a row it did not insert, UPDATE and DELETE *)
(* take effect at once, no statement touches two tables.                   *)
ImplementsRowStore == Rows!Spec
=============================================================================
