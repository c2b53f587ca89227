--------------------------- MODULE DatabaseProofs ---------------------------
(***************************************************************************)
(* Theorems about Database, for every set of names, schemas and            *)
(* statements.  TableInv is inductive: it strengthens the typing and the two   *)
(* table invariants with what the running statement knows of its table.    *)
(***************************************************************************)
EXTENDS Database, ColumnStoreProofs

(* Every table of the catalog, empty slots included, is well formed.       *)
WellFormed(tbl) ==
    tbl \in Seq(Columns) /\ BuffersAgree(tbl) /\ Staircase(tbl) /\ BuffersTyped(tbl)

LEMMA CatalogWellFormed ==
    ASSUME TableInv, NEW t \in Names
    PROVE  WellFormed(catalog[t])
  BY DEF TableInv, TypeOK, NeverReadsPastBuffer, NoCellBeyondRowCount, TypedBuffers, WellFormed

(* Replacing one table by a well formed one keeps the catalog well formed. *)
LEMMA ReplaceTable ==
    ASSUME TableInv, NEW t \in Names, NEW tbl, WellFormed(tbl),
           catalog' = [catalog EXCEPT ![t] = tbl]
    PROVE  /\ catalog' \in [Names -> Seq(Columns)]
           /\ NeverReadsPastBuffer'
           /\ NoCellBeyondRowCount'
           /\ TypedBuffers'
<1>1. catalog \in [Names -> Seq(Columns)]
  BY DEF TableInv, TypeOK
<1>2. \A u \in Names : WellFormed(catalog'[u])
  BY <1>1, CatalogWellFormed
<1> QED BY <1>1, <1>2
        DEF WellFormed, NeverReadsPastBuffer, NoCellBeyondRowCount, TypedBuffers

LEMMA NoTableWellFormed == WellFormed(NoTable)
<1>1. NoTable \in Seq(Columns) /\ Len(NoTable) = 0
  BY EmptySeq DEF NoTable
<1> QED BY <1>1 DEF WellFormed, BuffersAgree, Staircase, BuffersTyped

LEMMA IdleStatement == DeleteStmt(NoWhere) \in Statements
  BY EmptySeq DEF DeleteStmt, UpdateStmt, NoWhere, Statements, Predicates, Values

(* What a statement leaves behind when it ends.                            *)
LEMMA FinishTypes ==
    ASSUME TypeOK, NEW r \in [affected : Nat, ok : BOOLEAN], Finish(r)
    PROVE  /\ op' = "idle" /\ target' \in Names /\ stmt' \in Statements
           /\ pos' \in Nat /\ acc' \in Seq(Seq(Values)) /\ affected' \in Nat
           /\ result' \in [affected : Nat, ok : BOOLEAN]
           /\ StatementInv'
  BY IdleStatement, EmptySeq DEF TypeOK, Finish, StatementInv

LEMMA FinishInv ==
    ASSUME TableInv, NEW r \in [affected : Nat, ok : BOOLEAN], Finish(r),
           catalog' \in [Names -> Seq(Columns)],
           NeverReadsPastBuffer', NoCellBeyondRowCount', TypedBuffers'
    PROVE  TableInv'
<1>1. TypeOK
  BY DEF TableInv
<1> QED BY <1>1, FinishTypes DEF TableInv, TypeOK

LEMMA ResultTypes ==
    /\ Error \in [affected : Nat, ok : BOOLEAN]
    /\ \A n \in Nat : Ok(n) \in [affected : Nat, ok : BOOLEAN]
  BY DEF Error, Ok

LEMMA SameCatalog ==
    ASSUME TableInv, UNCHANGED catalog
    PROVE  /\ catalog' \in [Names -> Seq(Columns)]
           /\ NeverReadsPastBuffer' /\ NoCellBeyondRowCount' /\ TypedBuffers'
  BY DEF TableInv, TypeOK, NeverReadsPastBuffer, NoCellBeyondRowCount, TypedBuffers

LEMMA RejectInv ==
    ASSUME TableInv, Reject
    PROVE  TableInv'
  BY SameCatalog, FinishInv, ResultTypes DEF Reject

LEMMA CrashInv ==
    ASSUME TableInv, Crash
    PROVE  TableInv'
<1>1. catalog' \in [Names -> Seq(Columns)]
  BY EmptySeq DEF Crash, NoTable
<1>2. \A t \in Names : WellFormed(catalog'[t])
  BY NoTableWellFormed DEF Crash
<1>3. NeverReadsPastBuffer' /\ NoCellBeyondRowCount' /\ TypedBuffers'
  BY <1>2 DEF WellFormed, NeverReadsPastBuffer, NoCellBeyondRowCount, TypedBuffers
<1>4. TypeOK' /\ StatementInv'
  BY <1>1, IdleStatement, EmptySeq DEF Crash, TableInv, TypeOK, StatementInv
<1> QED BY <1>3, <1>4 DEF TableInv

-----------------------------------------------------------------------------
(* The initial states, with an empty catalog, satisfy the invariant.       *)
THEOREM InitInv == Init => TableInv
<1> SUFFICES ASSUME Init PROVE TableInv
  OBVIOUS
<1>1. TypeOK
  BY IdleStatement, EmptySeq DEF Init, TypeOK, NoTable, Ok
<1>2. \A t \in Names : WellFormed(catalog[t])
  BY NoTableWellFormed DEF Init
<1>3. StatementInv
  BY DEF Init, StatementInv
<1> QED BY <1>1, <1>2, <1>3
        DEF TableInv, WellFormed, NeverReadsPastBuffer, NoCellBeyondRowCount, TypedBuffers

-----------------------------------------------------------------------------
(* One lemma per action                                                    *)

LEMMA CreateTableInv ==
    ASSUME TableInv, NEW t \in Names, NEW schema \in SchemaInputs, CreateTable(t, schema)
    PROVE  TableInv'
<1>1. schema \in Seq(Types)
  BY InputsAssumption DEF Schemas
<1>2. WellFormed(NewTable(schema))
  BY <1>1, NewTableType, NewTableTyped DEF WellFormed
<1> QED BY <1>2, ReplaceTable, FinishInv, ResultTypes DEF CreateTable

LEMMA DropTableInv ==
    ASSUME TableInv, NEW t \in Names, NEW ifExists \in BOOLEAN, DropTable(t, ifExists)
    PROVE  TableInv'
<1>1. (IF Exists(t) \/ ifExists THEN Ok(0) ELSE Error) \in [affected : Nat, ok : BOOLEAN]
  BY ResultTypes
<1> QED BY <1>1, NoTableWellFormed, ReplaceTable, FinishInv DEF DropTable

LEMMA ImportCsvInv ==
    ASSUME TableInv, NEW t \in Names, NEW file \in CsvInputs, ImportCsv(t, file)
    PROVE  TableInv'
<1>1. CASE Exists(t)
  BY <1>1, RejectInv DEF ImportCsv
<1>2. CASE ~ Exists(t)
  <2>1. /\ file.schema \in Seq(Types) /\ file.schema # << >>
        /\ file.rows \in Seq([1..Len(file.schema) -> Values])
    BY InputsAssumption DEF Schemas
  <2>2. Len(file.rows) \in Nat
    BY <2>1, LenProperties
  <2>3. \A r \in 1..Len(file.rows) : file.rows[r] \in [1..Len(file.schema) -> Values]
    BY <2>1, ElementOfSeq
  <2>4. WellFormed(RebuiltTable(file.schema, file.rows))
    BY <2>1, <2>2, <2>3, RebuiltTableType, RebuiltTableTyped DEF WellFormed
  <2>5. /\ catalog' = [catalog EXCEPT ![t] = RebuiltTable(file.schema, file.rows)]
        /\ Finish(Ok(Len(file.rows)))
    BY <1>2 DEF ImportCsv
  <2> QED BY <2>2, <2>4, <2>5, ReplaceTable, FinishInv, ResultTypes
<1> QED BY <1>1, <1>2

(* A statement that begins on an existing table.                           *)
LEMMA BeginInv ==
    ASSUME TableInv, NEW kind \in {"insert", "update", "delete"}, NEW t \in Names,
           NEW s \in Statements, Exists(t), Begin(kind, t, s),
           kind = "insert" => ~ UnknownColumn(s.cols, Len(catalog[t]))
    PROVE  TableInv'
<1>1. UNCHANGED catalog
  BY DEF Begin
<1>2. /\ catalog' \in [Names -> Seq(Columns)]
      /\ NeverReadsPastBuffer' /\ NoCellBeyondRowCount' /\ TypedBuffers'
  BY <1>1, SameCatalog
<1>3. TypeOK'
  BY <1>2, EmptySeq DEF Begin, TableInv, TypeOK
<1>4. catalog[t] \in Seq(Columns) /\ catalog[t] # << >>
  BY DEF TableInv, TypeOK, Exists, NoTable
<1>5. RowCount(catalog[t]) \in Nat /\ Len(s.rows) \in Nat
  BY <1>4, RowCountType, LenProperties DEF Statements
<1>6. StatementInv'
  BY <1>1, <1>5, EmptySeq DEF Begin, StatementInv, Exists
<1> QED BY <1>2, <1>3, <1>6 DEF TableInv

LEMMA BeginInsertInv ==
    ASSUME TableInv, NEW t \in Names, NEW s \in InsertInputs, BeginInsert(t, s)
    PROVE  TableInv'
<1>1. CASE ~ Exists(t) \/ UnknownColumn(s.cols, Len(catalog[t]))
  BY <1>1, RejectInv DEF BeginInsert
<1>2. CASE Exists(t) /\ ~ UnknownColumn(s.cols, Len(catalog[t]))
  <2>1. s \in Statements
    BY InputsAssumption
  <2> QED BY <1>2, <2>1, BeginInv DEF BeginInsert
<1> QED BY <1>1, <1>2

LEMMA RowsOfStatement ==
    ASSUME TableInv, NEW source \in Names, Exists(source), NEW cols \in Seq(Nat)
    PROVE  InsertStmt(cols, RowsOf(catalog[source])) \in Statements
<1>1. catalog[source] # << >> /\ WellFormed(catalog[source])
  BY CatalogWellFormed DEF Exists, NoTable
<1>2. RowsOf(catalog[source]) \in Seq(Seq(Values))
  BY <1>1, RowsOfType DEF WellFormed
<1>3. Seq(Values) \subseteq Seq(Operands)
  BY SeqMonotonic DEF Operands
<1>4. RowsOf(catalog[source]) \in Seq(Seq(Operands))
  BY <1>2, <1>3, SeqMonotonic
<1>5. << >> \in Seq(Assignments) /\ NoWhere \in Predicates
  BY EmptySeq DEF NoWhere, Predicates, Values
<1> QED BY <1>4, <1>5 DEF InsertStmt, Statements

LEMMA BeginInsertSelectInv ==
    ASSUME TableInv, NEW t \in Names, NEW source \in Names, NEW cols \in ColumnLists,
           BeginInsertSelect(t, source, cols)
    PROVE  TableInv'
<1> DEFINE s == InsertStmt(cols, RowsOf(catalog[source]))
<1>1. CASE Reject
  BY <1>1, RejectInv
<1>2. CASE /\ Exists(t) /\ Exists(source)
           /\ ~ UnknownColumn(cols, Len(catalog[t]))
           /\ Begin("insert", t, s)
  <2>1. cols \in Seq(Nat)
    BY InputsAssumption
  <2>2. s \in Statements /\ s.cols = cols
    BY <1>2, <2>1, RowsOfStatement DEF InsertStmt
  <2> HIDE DEF s
  <2> QED BY <1>2, <2>2, BeginInv
<1> QED BY <1>1, <1>2 DEF BeginInsertSelect

LEMMA SelectInv ==
    ASSUME TableInv, NEW t \in Names, Select(t)
    PROVE  TableInv'
<1>1. UNCHANGED catalog /\ (Finish(Ok(0)) \/ Finish(Error))
  BY DEF Select
<1> QED BY <1>1, SameCatalog, FinishInv, ResultTypes

LEMMA BeginUpdateInv ==
    ASSUME TableInv, NEW t \in Names, NEW s \in UpdateInputs, BeginUpdate(t, s)
    PROVE  TableInv'
<1>1. s \in Statements
  BY InputsAssumption
<1> QED BY <1>1, RejectInv, BeginInv DEF BeginUpdate

LEMMA BeginDeleteInv ==
    ASSUME TableInv, NEW t \in Names, NEW s \in DeleteInputs, BeginDelete(t, s)
    PROVE  TableInv'
<1>1. s \in Statements
  BY InputsAssumption
<1> QED BY <1>1, RejectInv, BeginInv DEF BeginDelete

(* The row an INSERT builds has a value for every column, once its         *)
(* operands are known to match the column list and not to throw.           *)
LEMMA RowToInsertType ==
    ASSUME NEW width \in Nat, NEW cols \in Seq(Nat), NEW operands \in Seq(Operands),
           ~ OperandsRaise(width, cols, operands)
    PROVE  RowToInsert(width, cols, operands) \in [1..width -> Values]
<1>1. \A i \in 1..Len(operands) : operands[i] \in Values
  BY ElementOfSeq DEF OperandsRaise, Operands
<1>2. Len(operands) = IF cols = << >> THEN width ELSE Len(cols)
  BY DEF OperandsRaise
<1>3. Null \in Values
  BY DEF Values
<1>4. ASSUME NEW c \in 1..width
      PROVE  RowToInsert(width, cols, operands)[c] \in Values
  <2>1. CASE cols = << >>
    BY <1>1, <1>2, <2>1 DEF RowToInsert
  <2>2. CASE cols # << >> /\ \E i \in 1..Len(cols) : IsLastFor(cols, c, i)
    <3> DEFINE k == CHOOSE i \in 1..Len(cols) : IsLastFor(cols, c, i)
    <3>1. k \in 1..Len(cols)
      BY <2>2
    <3>2. RowToInsert(width, cols, operands)[c] = operands[k]
      BY <2>2 DEF RowToInsert
    <3> QED BY <1>1, <1>2, <2>2, <3>1, <3>2
  <2>3. CASE cols # << >> /\ ~ \E i \in 1..Len(cols) : IsLastFor(cols, c, i)
    BY <1>3, <2>3 DEF RowToInsert
  <2> QED BY <2>1, <2>2, <2>3
<1> QED BY <1>4 DEF RowToInsert

(* The table the running statement works on.                               *)
LEMMA TargetTable ==
    ASSUME TableInv, op \in {"insert", "update", "delete"}
    PROVE  /\ target \in Names
           /\ WellFormed(catalog[target])
           /\ catalog[target] # << >>
           /\ RowCount(catalog[target]) \in Nat
           /\ Len(catalog[target]) \in Nat \ {0}
<1>1. target \in Names /\ catalog[target] # << >>
  BY DEF TableInv, TypeOK, StatementInv, Exists, NoTable
<1>2. WellFormed(catalog[target])
  BY <1>1, CatalogWellFormed
<1> QED BY <1>1, <1>2, RowCountType DEF WellFormed

LEMMA InsertStepInv ==
    ASSUME TableInv, InsertStep
    PROVE  TableInv'
<1> DEFINE tbl == catalog[target]
           operands == stmt.rows[pos + 1]
           row == RowToInsert(Len(tbl), stmt.cols, operands)
<1>1. op = "insert" /\ pos < Len(stmt.rows)
  BY DEF InsertStep
<1>2. /\ target \in Names /\ WellFormed(tbl) /\ tbl # << >> /\ Len(tbl) \in Nat
  BY <1>1, TargetTable
<1>3. /\ stmt \in Statements /\ pos \in Nat /\ affected \in Nat
      /\ stmt.rows \in Seq(Seq(Operands)) /\ stmt.cols \in Seq(Nat)
  BY DEF TableInv, TypeOK, Statements
<1>4. operands \in Seq(Operands)
  <2>1. pos + 1 \in 1..Len(stmt.rows)
    BY <1>1, <1>3, LenProperties
  <2> QED BY <1>3, <2>1, ElementOfSeq
<1>5. CASE OperandsRaise(Len(tbl), stmt.cols, operands)
  BY <1>5, RejectInv DEF InsertStep
<1>6. CASE ~ OperandsRaise(Len(tbl), stmt.cols, operands)
  <2>1. row \in [1..Len(tbl) -> Values]
    BY <1>2, <1>3, <1>4, <1>6, RowToInsertType
  <2> DEFINE new == InsertRow(tbl, row)
  <2>2. WellFormed(new) /\ Len(new) = Len(tbl)
    BY <1>2, <2>1, InsertRowType, InsertRowTyped DEF WellFormed
  <2>3. catalog' = [catalog EXCEPT ![target] = new]
    BY <1>6 DEF InsertStep
  <2>4. \/ pos' = pos + 1 /\ affected' = affected + 1 /\ UNCHANGED <<op, target, stmt, acc, result>>
        \/ Finish(Error)
    BY <1>6 DEF InsertStep
  <2> HIDE DEF new, row, operands, tbl
  <2>5. /\ catalog' \in [Names -> Seq(Columns)]
        /\ NeverReadsPastBuffer' /\ NoCellBeyondRowCount' /\ TypedBuffers'
    BY <1>2, <2>2, <2>3, ReplaceTable
  <2>6. CASE Finish(Error)
    BY <2>5, <2>6, FinishInv, ResultTypes
  <2>7. CASE pos' = pos + 1 /\ affected' = affected + 1 /\ UNCHANGED <<op, target, stmt, acc, result>>
    <3>1. TypeOK'
      BY <1>3, <2>5, <2>7 DEF TableInv, TypeOK
    <3>2. catalog'[target] = new
      BY <1>2, <2>3 DEF TableInv, TypeOK
    <3>3. Len(catalog'[target]) = Len(catalog[target]) /\ catalog'[target] # << >>
      BY <1>2, <2>2, <3>2, EmptySeq DEF tbl, WellFormed
    <3>4. pos' <= Len(stmt.rows)
      BY <1>1, <1>3, <2>7, LenProperties
    <3>5. StatementInv'
      BY <1>1, <2>7, <3>3, <3>4 DEF TableInv, StatementInv, Exists, NoTable
    <3> QED BY <2>5, <3>1, <3>5 DEF TableInv
  <2> QED BY <2>4, <2>6, <2>7
<1> QED BY <1>5, <1>6

LEMMA InsertDoneInv ==
    ASSUME TableInv, InsertDone
    PROVE  TableInv'
<1>1. affected \in Nat
  BY DEF TableInv, TypeOK
<1> QED BY <1>1, SameCatalog, FinishInv, ResultTypes DEF InsertDone

(* A step of the UPDATE or DELETE loop that visits one more row.           *)
LEMMA CollectInv ==
    ASSUME TableInv, op \in {"update", "delete"}, pos < RowCount(catalog[target]),
           NEW row \in Seq(Values), Len(row) = Len(catalog[target]),
           pos' = pos + 1, UNCHANGED <<catalog, op, target, stmt, result>>,
           \/ op = "update" /\ acc' = Append(acc, row) /\ affected' \in {affected, affected + 1}
           \/ op = "delete" /\ acc' = Append(acc, row) /\ affected' = affected
           \/ op = "delete" /\ acc' = acc /\ affected' = affected + 1
    PROVE  TableInv'
<1>1. /\ catalog' \in [Names -> Seq(Columns)]
      /\ NeverReadsPastBuffer' /\ NoCellBeyondRowCount' /\ TypedBuffers'
  BY SameCatalog
<1>2. acc \in Seq(Seq(Values)) /\ affected \in Nat /\ pos \in Nat
  BY DEF TableInv, TypeOK
<1>3. /\ Append(acc, row) \in Seq(Seq(Values))
      /\ Len(Append(acc, row)) = Len(acc) + 1
      /\ \A i \in 1..Len(acc) : Append(acc, row)[i] = acc[i]
      /\ Append(acc, row)[Len(acc) + 1] = row
  BY <1>2, AppendProperties
<1>4. Len(acc) \in Nat
  BY <1>2, LenProperties
<1>5. TypeOK'
  <2>1. affected' \in Nat /\ pos' \in Nat
    BY <1>2
  <2>2. acc' = acc \/ acc' = Append(acc, row)
    OBVIOUS
  <2>3. acc' \in Seq(Seq(Values))
    BY <1>2, <1>3, <2>2 
  <2> QED BY <1>1, <2>1, <2>3 DEF TableInv, TypeOK
<1>6. /\ \A i \in 1..Len(acc) : Len(acc[i]) = Len(catalog[target])
      /\ Len(acc) = IF op = "update" THEN pos ELSE pos - affected
      /\ Exists(target)
  BY DEF TableInv, StatementInv
<1>7. \A i \in 1..Len(acc') : Len(acc'[i]) = Len(catalog[target])
  <2>1. CASE acc' = acc
    BY <1>6, <2>1
  <2>2. CASE acc' = Append(acc, row)
    <3> TAKE i \in 1..Len(acc')
    <3>1. i \in 1..Len(acc) \/ i = Len(acc) + 1
      BY <1>3, <1>4, <2>2
    <3> QED BY <1>3, <1>6, <2>2, <3>1
  <2> QED BY <2>1, <2>2
<1>8. Len(acc') = IF op = "update" THEN pos' ELSE pos' - affected'
  BY <1>2, <1>3, <1>4, <1>6
<1>9. RowCount(catalog[target]) \in Nat
  BY TargetTable
<1>10. StatementInv'
  BY <1>2, <1>6, <1>7, <1>8, <1>9 DEF StatementInv, Exists
<1> QED BY <1>1, <1>5, <1>10 DEF TableInv

(* The rows of the table an UPDATE or DELETE walks.                        *)
LEMMA VisitedRow ==
    ASSUME TableInv, op \in {"insert", "update", "delete"}
    PROVE  /\ GetRow(catalog[target], pos + 1) \in Seq(Values)
           /\ GetRow(catalog[target], pos + 1) \in [1..Len(catalog[target]) -> Values]
           /\ Len(GetRow(catalog[target], pos + 1)) = Len(catalog[target])
<1>1. pos + 1 \in Nat
  BY DEF TableInv, TypeOK
<1> QED BY <1>1, TargetTable, GetRowType DEF WellFormed

LEMMA UpdatedRowType ==
    ASSUME NEW sets \in Seq(Assignments), NEW row \in Seq(Values),
           \A i \in 1..Len(sets) : ~ ExprRaises(sets[i].expr, row)
    PROVE  UpdatedRow(sets, row) \in Seq(Values) /\ Len(UpdatedRow(sets, row)) = Len(row)
<1>1. ASSUME NEW i \in 1..Len(sets)
      PROVE  Evaluate(sets[i].expr, row) \in Values
  <2>1. sets[i] \in Assignments
    BY ElementOfSeq
  <2>2. sets[i].expr.ref \in Nat /\ sets[i].expr.val \in Operands
    BY <2>1 DEF Assignments, Exprs
  <2>3. CASE sets[i].expr.ref = 0
    BY <2>2, <2>3 DEF ExprRaises, Evaluate, Operands
  <2>4. CASE sets[i].expr.ref # 0
    <3>1. sets[i].expr.ref \in 1..Len(row)
      BY <2>2, <2>4, LenProperties DEF ExprRaises
    <3> QED BY <2>4, <3>1, ElementOfSeq DEF Evaluate
  <2> QED BY <2>3, <2>4
<1>2. ASSUME NEW c \in 1..Len(row)
      PROVE  UpdatedRow(sets, row)[c] \in Values
  <2>1. row[c] \in Values
    BY ElementOfSeq
  <2>2. CASE \E i \in 1..Len(sets) : IsLastFor(SetColumns(sets), c, i)
    <3> DEFINE k == CHOOSE i \in 1..Len(sets) : IsLastFor(SetColumns(sets), c, i)
    <3>1. k \in 1..Len(sets)
      BY <2>2
    <3>2. UpdatedRow(sets, row)[c] = Evaluate(sets[k].expr, row)
      BY <2>2 DEF UpdatedRow
    <3> HIDE DEF k
    <3> QED BY <1>1, <3>1, <3>2
  <2>3. CASE ~ \E i \in 1..Len(sets) : IsLastFor(SetColumns(sets), c, i)
    BY <2>1, <2>3 DEF UpdatedRow
  <2> QED BY <2>2, <2>3
<1>3. UpdatedRow(sets, row) \in [1..Len(row) -> Values]
  BY <1>2 DEF UpdatedRow
<1> QED BY <1>3, LenProperties, FcnIsSeq

LEMMA UpdateStepInv ==
    ASSUME TableInv, UpdateStep
    PROVE  TableInv'
<1> DEFINE row == GetRow(catalog[target], pos + 1)
           match == Matches(stmt.where, row)
           raises == \/ PredicateRaises(stmt.where, row)
                     \/ match /\ \E i \in 1..Len(stmt.sets) : ExprRaises(stmt.sets[i].expr, row)
           new == IF match THEN UpdatedRow(stmt.sets, row) ELSE row
<1>1. op = "update" /\ pos < RowCount(catalog[target])
  BY DEF UpdateStep
<1>2. row \in Seq(Values) /\ Len(row) = Len(catalog[target])
  BY <1>1, VisitedRow
<1>3. CASE raises
  BY <1>3, RejectInv DEF UpdateStep
<1>4. CASE ~ raises
  <2>1. stmt.sets \in Seq(Assignments)
    BY DEF TableInv, TypeOK, Statements
  <2>2. new \in Seq(Values) /\ Len(new) = Len(catalog[target])
    BY <1>2, <1>4, <2>1, UpdatedRowType
  <2>3. /\ acc' = Append(acc, new) /\ pos' = pos + 1
        /\ affected' \in {affected, affected + 1}
        /\ UNCHANGED <<catalog, op, target, stmt, result>>
    BY <1>4 DEF UpdateStep
  <2> HIDE DEF new
  <2> QED BY <1>1, <2>2, <2>3, CollectInv
<1> QED BY <1>3, <1>4

LEMMA DeleteStepInv ==
    ASSUME TableInv, DeleteStep
    PROVE  TableInv'
<1> DEFINE row == GetRow(catalog[target], pos + 1)
           match == Matches(stmt.where, row)
<1>1. op = "delete" /\ pos < RowCount(catalog[target])
  BY DEF DeleteStep
<1>2. row \in Seq(Values) /\ Len(row) = Len(catalog[target])
  BY <1>1, VisitedRow
<1>3. CASE PredicateRaises(stmt.where, row)
  BY <1>3, RejectInv DEF DeleteStep
<1>4. CASE ~ PredicateRaises(stmt.where, row)
  <2>1. /\ pos' = pos + 1
        /\ UNCHANGED <<catalog, op, target, stmt, result>>
        /\ \/ acc' = Append(acc, row) /\ affected' = affected
           \/ acc' = acc /\ affected' = affected + 1
    BY <1>4 DEF DeleteStep
  <2> HIDE DEF row
  <2> QED BY <1>1, <1>2, <2>1, CollectInv
<1> QED BY <1>3, <1>4

(* The rebuilt table of an UPDATE or DELETE that ends.                     *)
LEMMA RebuiltTarget ==
    ASSUME TableInv, op \in {"update", "delete"}
    PROVE  LET new == RebuiltTable(SchemaOf(catalog[target]), acc)
           IN  /\ WellFormed(new) /\ Rectangular(new) /\ new # << >>
               /\ SchemaOf(new) = SchemaOf(catalog[target])
<1> DEFINE schema == SchemaOf(catalog[target])
<1>1. /\ schema \in Seq(Types) /\ Len(schema) = Len(catalog[target]) /\ schema # << >>
  BY TargetTable, SchemaOfType, EmptySeq DEF WellFormed
<1>2. acc \in Seq(Seq(Values)) /\ \A i \in 1..Len(acc) : Len(acc[i]) = Len(catalog[target])
  BY DEF TableInv, TypeOK, StatementInv
<1>3. Len(acc) \in Nat /\ \A r \in 1..Len(acc) : acc[r] \in Seq(Values)
  BY <1>2, LenProperties, ElementOfSeq
<1>4. \A r \in 1..Len(acc) : acc[r] \in [1..Len(schema) -> Values]
  BY <1>1, <1>2, <1>3, LenProperties
<1> HIDE DEF schema
<1>5. /\ WellFormed(RebuiltTable(schema, acc)) /\ Rectangular(RebuiltTable(schema, acc))
      /\ RebuiltTable(schema, acc) # << >> /\ SchemaOf(RebuiltTable(schema, acc)) = schema
  BY <1>1, <1>3, <1>4, RebuiltTableType, RebuiltTableTyped DEF WellFormed
<1> QED BY <1>5 DEF schema

LEMMA RewriteDoneInv ==
    ASSUME TableInv, RewriteDone
    PROVE  TableInv'
<1> DEFINE new == RebuiltTable(SchemaOf(catalog[target]), acc)
<1>1. op \in {"update", "delete"}
  BY DEF RewriteDone
<1>2. WellFormed(new) /\ target \in Names /\ affected \in Nat
  BY <1>1, RebuiltTarget DEF TableInv, TypeOK
<1>3. \/ catalog' = [catalog EXCEPT ![target] = new] /\ Finish(Ok(affected))
      \/ Reject
  BY DEF RewriteDone
<1> HIDE DEF new
<1>4. CASE Reject
  BY <1>4, RejectInv
<1>5. CASE catalog' = [catalog EXCEPT ![target] = new] /\ Finish(Ok(affected))
  BY <1>2, <1>5, ReplaceTable, FinishInv, ResultTypes
<1> QED BY <1>3, <1>4, <1>5

-----------------------------------------------------------------------------
LEMMA NextInv ==
    ASSUME TableInv, [Next]_vars
    PROVE  TableInv'
<1>1. CASE UNCHANGED vars
  BY <1>1 DEF vars, TableInv, TypeOK, StatementInv, NeverReadsPastBuffer,
              NoCellBeyondRowCount, TypedBuffers, Exists
<1>2. ASSUME NEW t \in Names, NEW schema \in SchemaInputs, CreateTable(t, schema)
      PROVE  TableInv'
  BY <1>2, CreateTableInv
<1>3. ASSUME NEW t \in Names, NEW ifExists \in BOOLEAN, DropTable(t, ifExists)
      PROVE  TableInv'
  BY <1>3, DropTableInv
<1>4. ASSUME NEW t \in Names, NEW file \in CsvInputs, ImportCsv(t, file)
      PROVE  TableInv'
  BY <1>4, ImportCsvInv
<1>5. ASSUME NEW t \in Names, ImportCsvFails(t)
      PROVE  TableInv'
  BY <1>5, RejectInv DEF ImportCsvFails
<1>6. ASSUME NEW t \in Names, NEW s \in InsertInputs, BeginInsert(t, s)
      PROVE  TableInv'
  BY <1>6, BeginInsertInv
<1>7. ASSUME NEW t \in Names, NEW source \in Names, NEW cols \in ColumnLists,
             BeginInsertSelect(t, source, cols)
      PROVE  TableInv'
  BY <1>7, BeginInsertSelectInv
<1>8. ASSUME NEW t \in Names, NEW s \in UpdateInputs, BeginUpdate(t, s)
      PROVE  TableInv'
  BY <1>8, BeginUpdateInv
<1>9. ASSUME NEW t \in Names, NEW s \in DeleteInputs, BeginDelete(t, s)
      PROVE  TableInv'
  BY <1>9, BeginDeleteInv
<1>10. ASSUME NEW t \in Names, Select(t) \/ SelectCrashes(t)
       PROVE  TableInv'
  BY <1>10, SelectInv, CrashInv DEF SelectCrashes
<1>11. CASE RewriteCrashes
  BY <1>11, CrashInv DEF RewriteCrashes
<1>12. CASE Restart
  BY <1>12, SameCatalog, FinishInv, ResultTypes DEF Restart
<1> QED
  BY <1>1, <1>2, <1>3, <1>4, <1>5, <1>6, <1>7, <1>8, <1>9, <1>10, <1>11, <1>12,
     InsertStepInv, InsertDoneInv, UpdateStepInv, DeleteStepInv, RewriteDoneInv DEF Next

(* The inductive invariant holds in every reachable state.                 *)
THEOREM TableInvariance == Spec => []TableInv
<1>1. TableInv /\ [Next]_vars => TableInv'
  BY NextInv
<1> QED BY <1>1, InitInv, PTL DEF Spec

(* Type correctness of the catalog and of the running statement.           *)
THEOREM TypeCorrect == Spec => []TypeOK
<1>1. TableInv => TypeOK
  BY DEF TableInv
<1> QED BY <1>1, TableInvariance, PTL

(* No reader of a column indexes past its typed buffer, whatever rows have *)
(* been refused half way.                                                  *)
THEOREM BufferSafety == Spec => []NeverReadsPastBuffer
<1>1. TableInv => NeverReadsPastBuffer
  BY DEF TableInv
<1> QED BY <1>1, TableInvariance, PTL

(* No column grows longer than the first, so rowCount() hides no cell.     *)
THEOREM StaircaseColumns == Spec => []NoCellBeyondRowCount
<1>1. TableInv => NoCellBeyondRowCount
  BY DEF TableInv
<1> QED BY <1>1, TableInvariance, PTL

-----------------------------------------------------------------------------
(* UPDATE and DELETE                                                       *)

LEMMA RewriteEnding ==
    ASSUME Next, op \in {"update", "delete"}, op' = "idle"
    PROVE  \/ Reject
           \/ RewriteDone
  BY DEF Next, CreateTable, DropTable, ImportCsv, ImportCsvFails, BeginInsert,
         BeginInsertSelect, BeginUpdate, BeginDelete, InsertStep, InsertDone,
         UpdateStep, DeleteStep, Select, SelectCrashes, RewriteCrashes, Restart, Crash

(* An UPDATE or DELETE that reports an error has changed no table.         *)
THEOREM RewriteAtomicity == Spec => FailedRewriteChangesNothing
<1>1. ASSUME [Next]_vars
      PROVE  [op' = "idle" /\ op \in {"update", "delete"} /\ ~ result'.ok
                => catalog' = catalog]_vars
  <2> SUFFICES ASSUME Next, op \in {"update", "delete"}, op' = "idle", ~ result'.ok
               PROVE  catalog' = catalog
    BY <1>1 DEF vars
  <2>1. CASE Reject
    BY <2>1 DEF Reject
  <2>2. CASE RewriteDone
    BY <2>2 DEF RewriteDone, Finish, Ok, Reject
  <2> QED BY <2>1, <2>2, RewriteEnding
<1> QED BY <1>1, PTL DEF Spec, FailedRewriteChangesNothing

(* A successful UPDATE or DELETE leaves a rectangular table, also where a  *)
(* failed INSERT had left a ragged one.                                    *)
THEOREM RewriteRepairsTable == Spec => RewriteRepairs
<1>1. ASSUME TableInv, [Next]_vars
      PROVE  [RewriteEnds("update") \/ RewriteEnds("delete")
                => Rectangular(catalog'[target])]_vars
  <2> SUFFICES ASSUME Next, op \in {"update", "delete"}, op' = "idle", result'.ok
               PROVE  Rectangular(catalog'[target])
    BY <1>1 DEF vars, RewriteEnds
  <2>1. CASE Reject
    BY <2>1 DEF Reject, Finish, Error
  <2>2. CASE RewriteDone
    <3> DEFINE new == RebuiltTable(SchemaOf(catalog[target]), acc)
    <3>1. Rectangular(new)
      BY <1>1, RebuiltTarget
    <3>2. catalog' = [catalog EXCEPT ![target] = new]
      BY <2>2 DEF RewriteDone, Reject, Finish, Error
    <3>3. catalog'[target] = new
      BY <1>1, <3>2 DEF TableInv, TypeOK
    <3> QED BY <3>1, <3>3
  <2> QED BY <2>1, <2>2, RewriteEnding
<1> QED BY <1>1, TableInvariance, PTL DEF Spec, RewriteRepairs

-----------------------------------------------------------------------------
(* Clean inputs                                                            *)

LEMMA CleanReplace ==
    ASSUME CleanInv, NEW t \in Names, NEW tbl,
           catalog' = [catalog EXCEPT ![t] = tbl],
           tbl # << >> => Rectangular(tbl) /\ SchemaOf(tbl) \in KnownSchemas
    PROVE  /\ AllSameLength'
           /\ \A u \in Names : Exists(u)' => SchemaOf(catalog'[u]) \in KnownSchemas
<1>1. catalog \in [Names -> Seq(Columns)]
  BY DEF CleanInv, TableInv, TypeOK
<1>2. ASSUME NEW u \in Names, catalog'[u] # << >>
      PROVE  Rectangular(catalog'[u]) /\ SchemaOf(catalog'[u]) \in KnownSchemas
  <2>1. CASE u = t
    BY <1>1, <1>2, <2>1
  <2>2. CASE u # t
    BY <1>1, <1>2, <2>2 DEF CleanInv, AllSameLength, Exists, NoTable
  <2> QED BY <2>1, <2>2
<1> QED BY <1>2 DEF AllSameLength, Exists, NoTable

LEMMA CleanIdle ==
    ASSUME CleanInv, TableInv', UNCHANGED catalog, op' \notin {"insert", "crashed"}
    PROVE  CleanInv'
  BY DEF CleanInv, AllSameLength, Exists, QueriesReturn

(* A table whose columns all have the same length is read inside its       *)
(* bitmaps.                                                                *)
LEMMA RectangularReads ==
    ASSUME NEW tbl \in Seq(Columns), Rectangular(tbl), NEW r \in 1..RowCount(tbl)
    PROVE  ~ RowCrashes(tbl, r)
<1> SUFFICES ASSUME NEW c \in 1..Len(tbl) PROVE ~ OutsideBitmap(tbl[c], r)
  BY DEF RowCrashes
<1>1. Size(tbl[c]) = RowCount(tbl)
  BY DEF Rectangular
<1>2. tbl[c] \in Columns
  BY ElementOfSeq
<1>3. Size(tbl[c]) \in Nat
  <2>1. tbl[c].valid \in Seq(BOOLEAN)
    BY <1>2 DEF Columns
  <2> QED BY <2>1, LenProperties DEF Size
<1> QED BY <1>1, <1>3 DEF OutsideBitmap

(* In a clean state no statement can leave a bitmap.                       *)
LEMMA CleanNoCrash ==
    ASSUME CleanInv
    PROVE  /\ \A t \in Names : ~ SelectCrashes(t)
           /\ ~ RewriteCrashes
<1>1. ASSUME NEW t \in Names, Exists(t)
      PROVE  \A r \in 1..RowCount(catalog[t]) : ~ RowCrashes(catalog[t], r)
  BY <1>1, RectangularReads DEF CleanInv, AllSameLength, TableInv, TypeOK
<1>2. ASSUME NEW t \in Names, SelectCrashes(t)
      PROVE  FALSE
  BY <1>1, <1>2 DEF SelectCrashes, ScanCrashes
<1>3. ASSUME RewriteCrashes
      PROVE  FALSE
  <2>1. /\ target \in Names /\ Exists(target) /\ pos \in Nat
        /\ RowCount(catalog[target]) \in Nat
    BY <1>3, TargetTable DEF RewriteCrashes, CleanInv, TableInv, TypeOK, Exists, NoTable
  <2> QED BY <1>1, <1>3, <2>1 DEF RewriteCrashes
<1> QED BY <1>2, <1>3

LEMMA CleanFinish ==
    ASSUME CleanInv, TableInv', NEW t \in Names, NEW tbl, op' \notin {"insert", "crashed"},
           catalog' = [catalog EXCEPT ![t] = tbl],
           tbl # << >> => Rectangular(tbl) /\ SchemaOf(tbl) \in KnownSchemas
    PROVE  CleanInv'
  BY CleanReplace DEF CleanInv, QueriesReturn

(* A row read from a table of schema source is accepted wherever the       *)
(* typical row of that schema is.                                          *)
LEMMA TypicalFits ==
    ASSUME NEW schema \in Seq(Types), NEW cols \in Seq(Nat), NEW source \in Seq(Types),
           NEW row \in Seq(Values), Len(row) = Len(source),
           \A c \in 1..Len(row) : row[c].kind = "String" => source[c] = "VARCHAR",
           Len(source) = IF cols = << >> THEN Len(schema) ELSE Len(cols),
           Fits(schema, cols, Typical(source))
    PROVE  Fits(schema, cols, row)
<1> DEFINE typ == Typical(source)
<1>1. Len(source) \in Nat /\ Len(schema) \in Nat
  BY LenProperties
<1> DEFINE Str(x) == x.kind = "String"
<1>2. Len(typ) = Len(source)
  BY <1>1 DEF Typical
<1>3. \A c \in 1..Len(source) : typ[c] # Raises
  BY DEF Typical, StrV, IntV, Raises
<1>7. \A c \in 1..Len(row) : Str(row[c]) => Str(typ[c])
  <2> SUFFICES ASSUME NEW c \in 1..Len(row), row[c].kind = "String"
               PROVE  typ[c].kind = "String"
    OBVIOUS
  <2>1. source[c] = "VARCHAR" /\ c \in 1..Len(source)
    OBVIOUS
  <2>2. typ[c] = StrV(0)
    BY <2>1 DEF Typical
  <2> QED BY <2>2 DEF StrV
<1> HIDE DEF typ, Str
<1>8. Len(row) = IF cols = << >> THEN Len(schema) ELSE Len(cols)
  OBVIOUS
<1>9. ~ OperandsRaise(Len(schema), cols, typ)
  <2>1. Len(typ) = IF cols = << >> THEN Len(schema) ELSE Len(cols)
    BY <1>2
  <2>2. ~ \E i \in 1..Len(typ) : typ[i] = Raises
    BY <1>2, <1>3
  <2> QED BY <2>1, <2>2 DEF OperandsRaise
<1>4. AcceptsRow(schema, RowToInsert(Len(schema), cols, typ))
  BY <1>9 DEF Fits, typ
<1>5. ASSUME NEW c \in 1..Len(schema)
      PROVE  Accepts(schema[c], RowToInsert(Len(schema), cols, row)[c])
  <2>1. Accepts(schema[c], RowToInsert(Len(schema), cols, typ)[c])
    BY <1>4 DEF AcceptsRow
  <2>2. CASE cols = << >>
    <3>1. /\ RowToInsert(Len(schema), cols, row)[c] = row[c]
          /\ RowToInsert(Len(schema), cols, typ)[c] = typ[c]
      BY <2>2 DEF RowToInsert
    <3>2. Str(row[c]) => Str(typ[c])
      BY <1>7, <1>8, <2>2
    <3> QED BY <2>1, <3>1, <3>2 DEF Accepts, Str
  <2>3. CASE cols # << >> /\ \E i \in 1..Len(cols) : IsLastFor(cols, c, i)
    <3> DEFINE k == CHOOSE i \in 1..Len(cols) : IsLastFor(cols, c, i)
    <3>1. k \in 1..Len(cols)
      BY <2>3
    <3>2. /\ RowToInsert(Len(schema), cols, row)[c] = row[k]
          /\ RowToInsert(Len(schema), cols, typ)[c] = typ[k]
      BY <2>3 DEF RowToInsert
    <3> HIDE DEF k
    <3>3. Str(row[k]) => Str(typ[k])
      BY <1>7, <1>8, <2>3, <3>1
    <3> QED BY <2>1, <3>2, <3>3 DEF Accepts, Str
  <2>4. CASE cols # << >> /\ ~ \E i \in 1..Len(cols) : IsLastFor(cols, c, i)
    <3>1. RowToInsert(Len(schema), cols, row)[c] = Null
      BY <2>4 DEF RowToInsert
    <3> QED BY <3>1 DEF Accepts, Null
  <2> QED BY <2>2, <2>3, <2>4
<1> QED BY <1>5 DEF Fits, AcceptsRow

LEMMA CleanBeginInsert ==
    ASSUME CleanInputs, CleanInv, TableInv', NEW t \in Names, NEW s \in InsertInputs,
           BeginInsert(t, s)
    PROVE  CleanInv'
<1>1. CASE ~ Exists(t) \/ UnknownColumn(s.cols, Len(catalog[t]))
  BY <1>1, CleanIdle DEF BeginInsert, Reject, Finish
<1>2. CASE Exists(t) /\ ~ UnknownColumn(s.cols, Len(catalog[t]))
  <2>1. Begin("insert", t, s)
    BY <1>2 DEF BeginInsert
  <2>2. catalog[t] \in Seq(Columns) /\ SchemaOf(catalog[t]) \in KnownSchemas
    BY <1>2 DEF CleanInv, TableInv, TypeOK
  <2>3. Len(SchemaOf(catalog[t])) = Len(catalog[t])
    BY <2>2, SchemaOfType
  <2>4. \A i \in 1..Len(s.rows) : Fits(SchemaOf(catalog[t]), s.cols, s.rows[i])
    BY <1>2, <2>2, <2>3 DEF CleanInputs
  <2>5. /\ catalog' = catalog /\ target' = t /\ stmt' = s /\ pos' = 0 /\ op' = "insert"
    BY <2>1 DEF Begin
  <2>6. AllSameLength' /\ \A u \in Names : Exists(u)' => SchemaOf(catalog'[u]) \in KnownSchemas
    BY <2>5 DEF CleanInv, AllSameLength, Exists
  <2>7. \A i \in pos' + 1..Len(stmt'.rows) : Fits(SchemaOf(catalog'[target']), stmt'.cols, stmt'.rows[i])
    BY <2>4, <2>5
  <2> QED BY <2>5, <2>6, <2>7 DEF CleanInv, QueriesReturn
<1> QED BY <1>1, <1>2

LEMMA CleanBeginInsertSelect ==
    ASSUME CleanInputs, CleanInv, TableInv', NEW t \in Names, NEW source \in Names,
           NEW cols \in ColumnLists, BeginInsertSelect(t, source, cols)
    PROVE  CleanInv'
<1> DEFINE src == catalog[source]
           s == InsertStmt(cols, RowsOf(src))
<1>1. CASE Reject
  BY <1>1, CleanIdle DEF Reject, Finish
<1>2. CASE /\ Exists(t) /\ Exists(source)
           /\ ~ UnknownColumn(cols, Len(catalog[t]))
           /\ Len(src) = (IF cols = << >> THEN Len(catalog[t]) ELSE Len(cols))
           /\ Begin("insert", t, s)
  <2>1. TableInv
    BY DEF CleanInv
  <2>2. WellFormed(catalog[t]) /\ WellFormed(src) /\ src # << >>
    BY <1>2, <2>1, CatalogWellFormed DEF Exists, NoTable
  <2>3. SchemaOf(catalog[t]) \in KnownSchemas /\ SchemaOf(src) \in KnownSchemas
    BY <1>2 DEF CleanInv
  <2>4. /\ SchemaOf(catalog[t]) \in Seq(Types) /\ Len(SchemaOf(catalog[t])) = Len(catalog[t])
        /\ SchemaOf(src) \in Seq(Types) /\ Len(SchemaOf(src)) = Len(src)
        /\ \A c \in 1..Len(src) : SchemaOf(src)[c] = src[c].type
    BY <2>2, SchemaOfType DEF WellFormed
  <2>5. Fits(SchemaOf(catalog[t]), cols, Typical(SchemaOf(src)))
    BY <1>2, <2>3, <2>4 DEF CleanInputs
  <2>6. cols \in Seq(Nat)
    BY InputsAssumption
  <2>7. ASSUME NEW r \in 1..RowCount(src)
        PROVE  Fits(SchemaOf(catalog[t]), cols, GetRow(src, r))
    <3>1. r \in Nat
      BY <2>2, RowCountType DEF WellFormed
    <3>2. GetRow(src, r) \in Seq(Values) /\ Len(GetRow(src, r)) = Len(src)
      BY <2>2, <3>1, GetRowType DEF WellFormed
    <3>3. ASSUME NEW c \in 1..Len(src), GetRow(src, r)[c].kind = "String"
          PROVE  SchemaOf(src)[c] = "VARCHAR"
      <4>1. ValueAt(src[c], r).kind = "String"
        BY <3>3 DEF GetRow
      <4>2. src[c].type = "VARCHAR"
        BY <2>2, <3>1, <4>1, StringsFromVarchar DEF WellFormed
      <4> QED BY <2>4, <4>2
    <3> HIDE DEF src
    <3> QED BY <1>2, <2>4, <2>5, <2>6, <3>2, <3>3, TypicalFits
  <2>8. Len(RowsOf(src)) = RowCount(src) /\ \A r \in 1..RowCount(src) : RowsOf(src)[r] = GetRow(src, r)
    BY <2>2, RowsOfType DEF WellFormed
  <2>9. /\ catalog' = catalog /\ target' = t /\ stmt'.cols = cols
        /\ stmt'.rows = RowsOf(src) /\ pos' = 0 /\ op' = "insert"
    BY <1>2 DEF Begin, InsertStmt
  <2>10. AllSameLength' /\ \A u \in Names : Exists(u)' => SchemaOf(catalog'[u]) \in KnownSchemas
    BY <2>9 DEF CleanInv, AllSameLength, Exists
  <2> HIDE DEF src, s
  <2>11. \A i \in pos' + 1..Len(stmt'.rows) : Fits(SchemaOf(catalog'[target']), stmt'.cols, stmt'.rows[i])
    BY <2>7, <2>8, <2>9
  <2> QED BY <2>9, <2>10, <2>11 DEF CleanInv, QueriesReturn
<1> QED BY <1>1, <1>2 DEF BeginInsertSelect

LEMMA CleanInsertStep ==
    ASSUME CleanInv, TableInv', InsertStep
    PROVE  CleanInv'
<1> DEFINE tbl == catalog[target]
           operands == stmt.rows[pos + 1]
           row == RowToInsert(Len(tbl), stmt.cols, operands)
           new == InsertRow(tbl, row)
<1>0. TableInv
  BY DEF CleanInv
<1>1. op = "insert" /\ pos < Len(stmt.rows)
  BY DEF InsertStep
<1>2. /\ target \in Names /\ WellFormed(tbl) /\ tbl # << >> /\ Len(tbl) \in Nat
  BY <1>0, <1>1, TargetTable
<1>3. /\ pos \in Nat /\ stmt.rows \in Seq(Seq(Operands)) /\ stmt.cols \in Seq(Nat)
      /\ Len(stmt.rows) \in Nat
  BY <1>0, LenProperties DEF TableInv, TypeOK, Statements
<1>4. pos + 1 \in 1..Len(stmt.rows) /\ pos + 1 \in pos + 1..Len(stmt.rows)
  BY <1>1, <1>3
<1>5. operands \in Seq(Operands)
  BY <1>3, <1>4, ElementOfSeq
<1>6. Len(SchemaOf(tbl)) = Len(tbl)
  BY <1>2, SchemaOfType DEF WellFormed
<1>7. Fits(SchemaOf(tbl), stmt.cols, operands)
  BY <1>1, <1>4 DEF CleanInv
<1>8. CASE OperandsRaise(Len(tbl), stmt.cols, operands)
  BY <1>8, CleanIdle DEF InsertStep, Reject, Finish
<1>9. CASE ~ OperandsRaise(Len(tbl), stmt.cols, operands)
  <2>1. row \in [1..Len(tbl) -> Values]
    BY <1>2, <1>3, <1>5, <1>9, RowToInsertType
  <2>2. AcceptsRow(SchemaOf(tbl), row)
    BY <1>6, <1>7, <1>9 DEF Fits
  <2>3. Rectangular(tbl) /\ SchemaOf(tbl) \in KnownSchemas
    BY <1>2 DEF CleanInv, AllSameLength, Exists, NoTable
  <2>4. Rectangular(new)
    BY <1>2, <2>1, <2>2, <2>3, InsertRowAccepted DEF WellFormed
  <2>5. SchemaOf(new) = SchemaOf(tbl)
    BY <1>2, <2>1, InsertRowType DEF WellFormed
  <2>6. /\ catalog' = [catalog EXCEPT ![target] = new]
        /\ pos' = pos + 1 /\ UNCHANGED <<op, target, stmt>>
    BY <1>9, <2>2 DEF InsertStep
  <2> HIDE DEF new, row, operands
  <2>7. AllSameLength' /\ \A u \in Names : Exists(u)' => SchemaOf(catalog'[u]) \in KnownSchemas
    BY <1>2, <2>3, <2>4, <2>5, <2>6, CleanReplace
  <2>8. catalog'[target] = new
    BY <1>0, <1>2, <2>6 DEF TableInv, TypeOK
  <2>9. \A i \in pos' + 1..Len(stmt.rows) : Fits(SchemaOf(tbl), stmt.cols, stmt.rows[i])
    <3>1. \A i \in pos + 1..Len(stmt.rows) : Fits(SchemaOf(tbl), stmt.cols, stmt.rows[i])
      BY <1>1 DEF CleanInv
    <3> QED BY <1>3, <2>6, <3>1
  <2> QED BY <2>5, <2>6, <2>7, <2>8, <2>9 DEF CleanInv, QueriesReturn
<1> QED BY <1>8, <1>9

LEMMA CleanRewriteDone ==
    ASSUME CleanInv, TableInv', RewriteDone
    PROVE  CleanInv'
<1> DEFINE new == RebuiltTable(SchemaOf(catalog[target]), acc)
<1>1. TableInv /\ op \in {"update", "delete"}
  BY DEF CleanInv, RewriteDone
<1>2. Rectangular(new) /\ SchemaOf(new) = SchemaOf(catalog[target]) /\ target \in Names
  BY <1>1, RebuiltTarget, TargetTable
<1>3. SchemaOf(catalog[target]) \in KnownSchemas
  BY <1>1, TargetTable DEF CleanInv, Exists, NoTable
<1>4. /\ op' = "idle"
      /\ \/ catalog' = [catalog EXCEPT ![target] = new]
         \/ UNCHANGED catalog
  BY DEF RewriteDone, Reject, Finish
<1> HIDE DEF new
<1> QED BY <1>2, <1>3, <1>4, CleanIdle, CleanFinish

LEMMA CleanNext ==
    ASSUME CleanInputs, CleanInv, [Next]_vars
    PROVE  CleanInv'
<1>0. TableInv'
  BY NextInv DEF CleanInv
<1>1. CASE UNCHANGED vars
  BY <1>0, <1>1 DEF vars, CleanInv, AllSameLength, Exists, QueriesReturn
<1>2. ASSUME NEW t \in Names, NEW schema \in SchemaInputs, CreateTable(t, schema)
      PROVE  CleanInv'
  <2>1. schema \in Seq(Types) /\ schema # << >>
    BY InputsAssumption DEF Schemas
  <2>2. /\ SchemaOf(NewTable(schema)) \in KnownSchemas
        /\ Len(NewTable(schema)) = Len(schema)
        /\ \A c \in 1..Len(schema) : Size(NewTable(schema)[c]) = 0
    BY <2>1, NewTableType DEF KnownSchemas
  <2>3. 1 \in 1..Len(schema)
    BY <2>1, EmptySeq
  <2>4. Rectangular(NewTable(schema))
    BY <2>2, <2>3 DEF Rectangular, RowCount
  <2> QED BY <1>0, <1>2, <2>2, <2>4, CleanFinish DEF CreateTable, Finish
<1>3. ASSUME NEW t \in Names, NEW ifExists \in BOOLEAN, DropTable(t, ifExists)
      PROVE  CleanInv'
  BY <1>0, <1>3, CleanFinish DEF DropTable, Finish, NoTable
<1>4. ASSUME NEW t \in Names, NEW file \in CsvInputs, ImportCsv(t, file)
      PROVE  CleanInv'
  <2> DEFINE new == RebuiltTable(file.schema, file.rows)
  <2>1. /\ file.schema \in Seq(Types) /\ file.schema # << >>
        /\ file.rows \in Seq([1..Len(file.schema) -> Values])
    BY InputsAssumption DEF Schemas
  <2>2. /\ Len(file.rows) \in Nat
        /\ \A r \in 1..Len(file.rows) : file.rows[r] \in [1..Len(file.schema) -> Values]
    BY <2>1, LenProperties, ElementOfSeq
  <2>3. Rectangular(new) /\ SchemaOf(new) \in KnownSchemas
    BY <2>1, <2>2, RebuiltTableType DEF KnownSchemas
  <2>4. op' = "idle" /\ (UNCHANGED catalog \/ catalog' = [catalog EXCEPT ![t] = new])
    BY <1>4 DEF ImportCsv, Reject, Finish
  <2> HIDE DEF new
  <2> QED BY <1>0, <2>3, <2>4, CleanIdle, CleanFinish
<1>5. ASSUME NEW t \in Names, ImportCsvFails(t)
      PROVE  CleanInv'
  BY <1>0, <1>5, CleanIdle DEF ImportCsvFails, Reject, Finish
<1>6. ASSUME NEW t \in Names, NEW s \in InsertInputs, BeginInsert(t, s)
      PROVE  CleanInv'
  BY <1>0, <1>6, CleanBeginInsert
<1>7. ASSUME NEW t \in Names, NEW source \in Names, NEW cols \in ColumnLists,
             BeginInsertSelect(t, source, cols)
      PROVE  CleanInv'
  BY <1>0, <1>7, CleanBeginInsertSelect
<1>8. ASSUME NEW t \in Names, NEW s \in UpdateInputs, BeginUpdate(t, s)
      PROVE  CleanInv'
  BY <1>0, <1>8, CleanIdle DEF BeginUpdate, Begin, Reject, Finish
<1>9. ASSUME NEW t \in Names, NEW s \in DeleteInputs, BeginDelete(t, s)
      PROVE  CleanInv'
  BY <1>0, <1>9, CleanIdle DEF BeginDelete, Begin, Reject, Finish
<1>10. CASE InsertStep
  BY <1>0, <1>10, CleanInsertStep
<1>11. CASE InsertDone
  BY <1>0, <1>11, CleanIdle DEF InsertDone, Finish
<1>12. CASE UpdateStep
  BY <1>0, <1>12, CleanIdle DEF UpdateStep, Reject, Finish
<1>13. CASE DeleteStep
  BY <1>0, <1>13, CleanIdle DEF DeleteStep, Reject, Finish
<1>14. CASE RewriteDone
  BY <1>0, <1>14, CleanRewriteDone
<1>15. ASSUME NEW t \in Names, Select(t)
       PROVE  CleanInv'
  BY <1>0, <1>15, CleanIdle DEF Select, Finish
<1>16. ~ Restart
  BY DEF Restart, CleanInv, QueriesReturn
<1> QED
  BY <1>1, <1>2, <1>3, <1>4, <1>5, <1>6, <1>7, <1>8, <1>9, <1>10, <1>11, <1>12, <1>13,
     <1>14, <1>15, <1>16, CleanNoCrash DEF Next

LEMMA CleanInvariance == ASSUME CleanInputs PROVE Spec => []CleanInv
<1>1. Init => CleanInv
  BY InitInv DEF CleanInv, AllSameLength, Exists, Init, NoTable, QueriesReturn
<1>2. CleanInv /\ [Next]_vars => CleanInv'
  BY CleanNext
<1> QED BY <1>1, <1>2, PTL DEF Spec

(* As long as no statement carries a value its column refuses, all columns *)
(* of every table have the same length in every state, the states between  *)
(* the rows of an INSERT included.                                         *)
THEOREM CleanTablesRectangular == ASSUME CleanInputs PROVE Spec => []AllSameLength
<1>1. CleanInv => AllSameLength
  BY DEF CleanInv
<1> QED BY <1>1, CleanInvariance, PTL

(* Under the same condition no statement ever reads outside a validity     *)
(* bitmap: Connection::query comes back from every one of them.            *)
THEOREM CleanQueriesReturn == ASSUME CleanInputs PROVE Spec => []QueriesReturn
<1>1. CleanInv => QueriesReturn
  BY DEF CleanInv
<1> QED BY <1>1, CleanInvariance, PTL

-----------------------------------------------------------------------------
(***************************************************************************)
(* What UPDATE, DELETE and INSERT do to the rows of a table: the theorems  *)
(* about the collected rows, and that the catalog implements RowStore.     *)
(***************************************************************************)

(* Storing and reading                                                     *)

(* A stored cell is read back as it is, an INT8 narrowed.                  *)
LEMMA ReadBackCell ==
    ASSUME NEW type \in Types, NEW v \in Values
    PROVE  ReadBack(type, v) = IF v = Null THEN Null
                               ELSE IF KindOf(type) = "Int64"
                                    THEN MakeIntValue(type, Convert(type, v))
                                    ELSE Convert(type, v)
<1> DEFINE col == AppendValue(NewColumn(type), v)
<1>1. col = [type |-> type, data |-> <<CellData(type, v)>>, valid |-> <<v # Null>>]
  BY DEF AppendValue, NewColumn
<1>2. Size(col) = 1 /\ col.valid[1] = (v # Null) /\ col.data[1] = CellData(type, v) /\ col.type = type
  BY <1>1 DEF Size
<1> HIDE DEF col
<1>3. ReadBack(type, v) = ValueAt(col, 1)
  BY DEF ReadBack, col
<1>4. CASE v = Null
  <2>1. ~ col.valid[1]
    BY <1>2, <1>4
  <2> QED BY <1>3, <1>4, <2>1 DEF ValueAt
<1>5. CASE v # Null
  <2>1. col.valid[1] /\ 1 \in 1..Size(col)
    <3>1. col.valid = <<TRUE>>
      BY <1>1, <1>5
    <3>2. <<TRUE>>[1] = TRUE
      OBVIOUS
    <3>3. 1 \in 1..Len(<<TRUE>>)
      OBVIOUS
    <3>4. col.valid[1]
      BY <3>1, <3>2, Zenon
    <3> QED BY <3>1, <3>3, <3>4 DEF Size
  <2>2. col.data[1] = Convert(type, v) /\ col.type = type
    BY <1>2, <1>5 DEF CellData
  <2> QED BY <1>3, <1>5, <2>1, <2>2 DEF ValueAt
<1> QED BY <1>4, <1>5

LEMMA NarrowTwice ==
    ASSUME NEW i \in Int
    PROVE  Narrow(i) \in Int /\ Narrow(Narrow(i)) = Narrow(i)
<1>1. (i + 128) % 256 \in 0..255
  OBVIOUS
<1>2. \A k \in 0..255 : k % 256 = k
  OBVIOUS
<1> QED BY <1>1, <1>2 DEF Narrow

(* A value read from a column is read back unchanged when stored again.    *)
LEMMA ReadValueReadsBack ==
    ASSUME NEW col \in Columns, Len(col.data) = Len(col.valid),
           \A i \in 1..Len(col.data) : Storable(col.type, col.data[i]),
           NEW i \in Nat
    PROVE  ReadBack(col.type, ValueAt(col, i)) = ValueAt(col, i)
<1> DEFINE v == ValueAt(col, i)
<1>1. col.type \in Types /\ v \in Values
  BY ValueAtType DEF Columns
<1>2. ReadBack(col.type, v) = IF v = Null THEN Null
                              ELSE IF KindOf(col.type) = "Int64"
                                   THEN MakeIntValue(col.type, Convert(col.type, v))
                                   ELSE Convert(col.type, v)
  BY <1>1, ReadBackCell
<1>3. CASE v = Null
  BY <1>2, <1>3
<1>4. CASE v # Null
  <2>1. i \in 1..Len(col.data) /\ col.valid[i]
    BY <1>4 DEF ValueAt, Size
  <2>2. PICK d : d = col.data[i]
    OBVIOUS
  <2>3. d \in Scalars /\ Storable(col.type, d)
    BY <2>1, <2>2, ElementOfSeq DEF Columns
  <2>4. d = [kind |-> d.kind, src |-> d.src, num |-> d.num] /\ d.num \in Int
    BY <2>3 DEF Scalars
  <2>5. v = IF KindOf(col.type) = "Int64" THEN MakeIntValue(col.type, d) ELSE d
    BY <2>1, <2>2 DEF ValueAt, Size
  <2> HIDE DEF v
  <2>6. CASE KindOf(col.type) = "Int64"
    <3>1. d = IntV(d.num)
      BY <2>3, <2>4, <2>6 DEF Storable, IntV
    <3>2. ASSUME NEW n \in Int
          PROVE  Convert(col.type, IntV(n)) = IntV(n)
      BY <2>6 DEF Convert, IntV
    <3>3. CASE col.type = "INT8"
      <4>1. v = IntV(Narrow(d.num))
        BY <2>5, <2>6, <3>3 DEF MakeIntValue
      <4>2. Convert(col.type, v) = v
        BY <2>4, <3>2, <4>1, NarrowTwice
      <4>3. MakeIntValue(col.type, v) = v
        BY <2>4, <3>3, <4>1, NarrowTwice DEF MakeIntValue, IntV
      <4> QED BY <1>2, <1>4, <2>6, <4>2, <4>3 DEF v
    <3>4. CASE col.type # "INT8"
      <4>1. v = IntV(d.num)
        BY <2>5, <2>6, <3>1, <3>4 DEF MakeIntValue
      <4>2. Convert(col.type, v) = v
        BY <2>4, <3>2, <4>1
      <4> QED BY <1>2, <1>4, <2>6, <3>4, <4>2 DEF v, MakeIntValue
    <3> QED BY <3>3, <3>4
  <2>7. CASE KindOf(col.type) # "Int64"
    <3>1. v = d
      BY <2>5, <2>7
    <3>2. Convert(col.type, d) = d
      <4>1. KindOf(col.type) = "Double" \/ KindOf(col.type) = "String"
        BY <2>7 DEF KindOf
      <4> QED BY <2>3, <2>4, <4>1 DEF Convert, DblV, Storable
    <3> QED BY <1>2, <1>4, <2>7, <3>1, <3>2 DEF v
  <2> QED BY <2>6, <2>7
<1> QED BY <1>3, <1>4

(* How a cell reads, from its validity bit and its buffer.                 *)
LEMMA ReadCell ==
    ASSUME NEW col, NEW i, NEW type \in Types, NEW v \in Values,
           i \in 1..Size(col), col.type = type, col.valid[i] = (v # Null),
           col.data[i] = CellData(type, v)
    PROVE  ValueAt(col, i) = ReadBack(type, v)
<1>1. ReadBack(type, v) = IF v = Null THEN Null
                          ELSE IF KindOf(type) = "Int64"
                               THEN MakeIntValue(type, Convert(type, v))
                               ELSE Convert(type, v)
  BY ReadBackCell
<1>2. CASE v = Null
  <2>1. ~ col.valid[i]
    BY <1>2, Zenon
  <2> QED BY <1>1, <1>2, <2>1 DEF ValueAt
<1>3. CASE v # Null
  <2>1. col.valid[i]
    BY <1>3, Zenon
  <2> QED BY <1>1, <1>3, <2>1 DEF ValueAt, CellData
<1> QED BY <1>2, <1>3

(* A rebuilt table reads as its rows do once stored.                       *)
LEMMA RebuiltReads ==
    ASSUME NEW schema \in Seq(Types), schema # << >>, NEW rows,
           Len(rows) \in Nat,
           \A r \in 1..Len(rows) : rows[r] \in [1..Len(schema) -> Values],
           NEW r \in 1..Len(rows), NEW c \in 1..Len(schema)
    PROVE  ValueAt(RebuiltTable(schema, rows)[c], r) = ReadBack(schema[c], rows[r][c])
<1> DEFINE D == [k \in 1..Len(rows) |-> CellData(schema[c], rows[k][c])]
           V == [k \in 1..Len(rows) |-> rows[k][c] # Null]
           col == RebuiltTable(schema, rows)[c]
<1>1. col = [type |-> schema[c], data |-> D, valid |-> V]
  BY DEF RebuiltTable
<1>2. D[r] = CellData(schema[c], rows[r][c]) /\ V[r] = (rows[r][c] # Null)
  OBVIOUS
<1>3. V \in [1..Len(rows) -> BOOLEAN]
  OBVIOUS
<1> HIDE DEF D, V, col
<1>4. Len(V) = Len(rows)
  BY <1>3, FcnIsSeq
<1>5. schema[c] \in Types /\ rows[r][c] \in Values
  BY ElementOfSeq
<1>6. col.type = schema[c] /\ col.data = D /\ col.valid = V
  BY <1>1
<1>7. r \in 1..Size(col)
  BY <1>4, <1>6 DEF Size
<1>8. ValueAt(col, r) = ReadBack(schema[c], rows[r][c])
  BY <1>2, <1>5, <1>6, <1>7, ReadCell
<1> QED BY <1>8 DEF col

(* A row read from a table reads the same when it is stored again.         *)
LEMMA RowReadsBack ==
    ASSUME NEW tbl, WellFormed(tbl), NEW r \in Nat, NEW c \in 1..Len(tbl)
    PROVE  ReadBack(tbl[c].type, GetRow(tbl, r)[c]) = GetRow(tbl, r)[c]
<1>1. tbl[c] \in Columns
  BY ElementOfSeq DEF WellFormed
<1>2. GetRow(tbl, r)[c] = ValueAt(tbl[c], r)
  BY DEF GetRow
<1>3. Len(tbl[c].data) = Len(tbl[c].valid)
      /\ \A i \in 1..Len(tbl[c].data) : Storable(tbl[c].type, tbl[c].data[i])
  BY DEF WellFormed, BuffersAgree, BuffersTyped
<1> QED BY <1>1, <1>2, <1>3, ReadValueReadsBack

(* An accepted row is read back behind the rows that were there.           *)
LEMMA InsertedReads ==
    ASSUME NEW tbl, WellFormed(tbl), tbl # << >>, Rectangular(tbl),
           NEW row \in [1..Len(tbl) -> Values], AcceptsRow(SchemaOf(tbl), row),
           NEW c \in 1..Len(tbl)
    PROVE  /\ \A r \in 1..RowCount(tbl) :
                 ValueAt(InsertRow(tbl, row)[c], r) = ValueAt(tbl[c], r)
           /\ ValueAt(InsertRow(tbl, row)[c], RowCount(tbl) + 1) = ReadBack(tbl[c].type, row[c])
<1> DEFINE new == CellData(tbl[c].type, row[c])
           col == AppendValue(tbl[c], row[c])
<1>1. tbl[c] \in Columns /\ row[c] \in Values
  BY ElementOfSeq DEF WellFormed
<1>2. /\ tbl[c].type \in Types /\ tbl[c].data \in Seq(Scalars) /\ tbl[c].valid \in Seq(BOOLEAN)
      /\ new \in Scalars
  BY <1>1, ConvertType DEF Columns
<1>3. InsertRow(tbl, row)[c] = col
  <2>1. tbl \in Seq(Columns) /\ Len(tbl) \in Nat
    BY LenProperties DEF WellFormed
  <2>2. \A d \in 1..Len(tbl) : Accepts(tbl[d].type, row[d])
    BY <2>1, SchemaOfType DEF AcceptsRow
  <2>3. \A d \in 1..c : Accepts(tbl[d].type, row[d])
    BY <2>1, <2>2
  <2> QED BY <2>3 DEF InsertRow
<1>4. /\ Len(tbl[c].valid) = RowCount(tbl) /\ Len(tbl[c].data) = RowCount(tbl)
      /\ RowCount(tbl) \in Nat
  BY RowCountType DEF WellFormed, BuffersAgree, Rectangular, Size
<1>5. /\ col.type = tbl[c].type
      /\ col.data = Append(tbl[c].data, new)
      /\ col.valid = Append(tbl[c].valid, row[c] # Null)
  BY DEF AppendValue
<1> HIDE DEF new, col
<1>6. /\ Len(col.data) = RowCount(tbl) + 1
      /\ col.data[RowCount(tbl) + 1] = new
      /\ \A r \in 1..RowCount(tbl) : col.data[r] = tbl[c].data[r]
  BY <1>2, <1>4, <1>5, AppendProperties
<1>7. /\ Len(col.valid) = RowCount(tbl) + 1
      /\ col.valid[RowCount(tbl) + 1] = (row[c] # Null)
      /\ \A r \in 1..RowCount(tbl) : col.valid[r] = tbl[c].valid[r]
  <2>1. (row[c] # Null) \in BOOLEAN
    OBVIOUS
  <2> QED BY <1>2, <1>4, <1>5, <2>1, AppendProperties
<1>8. ASSUME NEW r \in 1..RowCount(tbl)
      PROVE  ValueAt(col, r) = ValueAt(tbl[c], r)
  <2>1. r \in 1..Size(col) /\ r \in 1..Size(tbl[c])
    BY <1>4, <1>7 DEF Size
  <2>2. col.data[r] = tbl[c].data[r] /\ col.type = tbl[c].type
    BY <1>5, <1>6
  <2>3. col.valid[r] <=> tbl[c].valid[r]
    BY <1>7, Zenon
  <2> QED BY <2>1, <2>2, <2>3 DEF ValueAt
<1>9. ValueAt(col, RowCount(tbl) + 1) = ReadBack(tbl[c].type, row[c])
  <2>1. RowCount(tbl) + 1 \in 1..Size(col)
    BY <1>4, <1>7 DEF Size
  <2>2. col.valid[RowCount(tbl) + 1] = (row[c] # Null)
    BY <1>7
  <2>3. col.data[RowCount(tbl) + 1] = CellData(tbl[c].type, row[c])
    BY <1>6 DEF new
  <2> QED BY <1>1, <1>2, <1>5, <2>1, <2>2, <2>3, ReadCell
<1> QED BY <1>3, <1>8, <1>9

-----------------------------------------------------------------------------
(* The collected rows                                                      *)

(* ix lists the members of keep that are at most n; n + 1 comes next.      *)
LEMMA ListsNext ==
    ASSUME NEW n \in Nat, NEW k \in Nat, NEW ix \in [1..k -> 1..n],
           NEW keep \in SUBSET (1..n + 1), Lists(ix, {r \in keep : r <= n})
    PROVE  /\ n + 1 \notin keep => Lists(ix, keep)
           /\ n + 1 \in keep => Lists([i \in 1..k + 1 |-> IF i = k + 1 THEN n + 1 ELSE ix[i]], keep)
<1> DEFINE jx == [i \in 1..k + 1 |-> IF i = k + 1 THEN n + 1 ELSE ix[i]]
<1>1. Len(ix) = k /\ Len(jx) = k + 1
  BY FcnIsSeq
<1>2. /\ \A i \in 1..k : ix[i] \in keep /\ ix[i] <= n
      /\ \A r \in keep : r <= n => \E i \in 1..k : ix[i] = r
      /\ \A i \in 1..k, j \in 1..k : i < j => ix[i] < ix[j]
  BY <1>1 DEF Lists
<1>3. ASSUME n + 1 \notin keep PROVE Lists(ix, keep)
  <2>1. \A r \in keep : r <= n
    BY <1>3
  <2> QED BY <1>1, <1>2, <2>1 DEF Lists
<1>4. ASSUME n + 1 \in keep PROVE Lists(jx, keep)
  <2>1. /\ jx[k + 1] = n + 1
        /\ \A i \in 1..k : jx[i] = ix[i]
        /\ \A i \in 1..k + 1 : i \in 1..k \/ i = k + 1
    OBVIOUS
  <2> HIDE DEF jx
  <2>2. \A i \in 1..k + 1 : jx[i] \in keep
    BY <1>2, <1>4, <2>1
  <2>3. \A r \in keep : \E i \in 1..k + 1 : jx[i] = r
    <3> TAKE r \in keep
    <3>1. CASE r = n + 1
      BY <2>1, <3>1
    <3>2. CASE r # n + 1
      <4>1. PICK i \in 1..k : ix[i] = r
        BY <1>2, <3>2
      <4> QED BY <2>1, <4>1
    <3> QED BY <3>1, <3>2
  <2>4. ASSUME NEW i \in 1..k + 1, NEW j \in 1..k + 1, i < j
        PROVE  jx[i] < jx[j]
    <3>1. i \in 1..k
      BY <2>4
    <3>2. CASE j = k + 1
      BY <1>2, <2>1, <3>1, <3>2
    <3>3. CASE j \in 1..k
      BY <1>2, <2>1, <2>4, <3>1, <3>3
    <3> QED BY <2>1, <3>2, <3>3
  <2> QED BY <1>1, <2>2, <2>3, <2>4 DEF Lists
<1> QED BY <1>3, <1>4

LEMMA UpdateCollects ==
    ASSUME IInv, UpdateStep, op' = "update"
    PROVE  Collected'
<1> DEFINE row == GetRow(catalog[target], pos + 1)
           match == Matches(stmt.where, row)
           new == IF match THEN UpdatedRow(stmt.sets, row) ELSE row
<1>1. /\ op = "update" /\ acc' = Append(acc, new) /\ pos' = pos + 1
      /\ catalog' = catalog /\ target' = target /\ stmt' = stmt
  BY DEF UpdateStep, Reject, Finish
<1>2. pos \in Nat /\ acc \in Seq(Seq(Values)) /\ Len(acc) = pos
  BY <1>1 DEF IInv, TableInv, TypeOK, StatementInv
<1>3. /\ \A r \in 1..pos : acc'[r] = acc[r]
      /\ acc'[pos + 1] = new
  BY <1>1, <1>2, AppendProperties
<1>4. stmt \in UpdateInputs
  BY <1>1 DEF IInv, Collected
<1>5. ASSUME NEW r \in 1..pos
      PROVE  acc[r] = IF Matches(stmt.where, GetRow(catalog[target], r))
                      THEN UpdatedRow(stmt.sets, GetRow(catalog[target], r))
                      ELSE GetRow(catalog[target], r)
  BY <1>1 DEF IInv, Collected
<1>6. ASSUME NEW r \in 1..pos + 1
      PROVE  acc'[r] = IF Matches(stmt.where, GetRow(catalog[target], r))
                       THEN UpdatedRow(stmt.sets, GetRow(catalog[target], r))
                       ELSE GetRow(catalog[target], r)
  <2>1. r \in 1..pos \/ r = pos + 1
    BY <1>2
  <2>2. CASE r \in 1..pos
    BY <1>3, <1>5, <2>2
  <2>3. CASE r = pos + 1
    BY <1>3, <2>3
  <2> QED BY <2>1, <2>2, <2>3
<1> HIDE DEF new
<1> QED BY <1>1, <1>4, <1>6 DEF Collected

LEMMA DeleteCollects ==
    ASSUME IInv, DeleteStep, op' = "delete"
    PROVE  Collected'
<1> DEFINE row == GetRow(catalog[target], pos + 1)
           match == Matches(stmt.where, row)
           Row(r) == GetRow(catalog[target], r)
           keep == {r \in 1..pos + 1 : ~ Matches(stmt.where, Row(r))}
<1>1. /\ op = "delete" /\ acc' = (IF match THEN acc ELSE Append(acc, row)) /\ pos' = pos + 1
      /\ catalog' = catalog /\ target' = target /\ stmt' = stmt
  BY DEF DeleteStep, Reject, Finish
<1>2. pos \in Nat /\ acc \in Seq(Seq(Values)) /\ Len(acc) \in Nat
  BY LenProperties DEF IInv, TableInv, TypeOK
<1>3. stmt \in DeleteInputs
  BY <1>1 DEF IInv, Collected
<1>4. PICK ix \in [1..Len(acc) -> 1..pos] :
          /\ Lists(ix, {r \in 1..pos : ~ Matches(stmt.where, Row(r))})
          /\ \A i \in 1..Len(acc) : acc[i] = Row(ix[i])
  BY <1>1 DEF IInv, Collected
<1>5. {r \in 1..pos : ~ Matches(stmt.where, Row(r))} = {r \in keep : r <= pos}
  BY <1>2
<1>6. keep \in SUBSET (1..pos + 1)
  OBVIOUS
<1>7. pos + 1 \in keep <=> ~ match
  BY <1>2
<1> DEFINE jx == [i \in 1..Len(acc) + 1 |-> IF i = Len(acc) + 1 THEN pos + 1 ELSE ix[i]]
<1>8. /\ match => Lists(ix, keep)
      /\ ~ match => Lists(jx, keep)
  <2>1. Lists(ix, {r \in keep : r <= pos})
    BY <1>4, <1>5
  <2> HIDE DEF keep, match
  <2> QED BY <1>2, <1>6, <1>7, <2>1, ListsNext
<1> SUFFICES \E kx \in [1..Len(acc') -> 1..pos + 1] :
                /\ Lists(kx, keep)
                /\ \A i \in 1..Len(acc') : acc'[i] = Row(kx[i])
  BY <1>1, <1>3 DEF Collected
<1>9. CASE match
  <2>1. ix \in [1..Len(acc') -> 1..pos + 1] /\ acc' = acc
    BY <1>1, <1>2, <1>9
  <2> HIDE DEF keep, match
  <2> QED BY <1>4, <1>8, <1>9, <2>1
<1>10. CASE ~ match
  <2>1. acc' = Append(acc, row)
    BY <1>1, <1>10
  <2>2. row \in Seq(Values)
    BY <1>1, VisitedRow DEF IInv
  <2>3. /\ Len(acc') = Len(acc) + 1
        /\ acc'[Len(acc) + 1] = row
        /\ \A i \in 1..Len(acc) : acc'[i] = acc[i]
    <3> HIDE DEF row
    <3> QED BY <1>2, <2>1, <2>2, AppendProperties
  <2>4. jx \in [1..Len(acc) + 1 -> 1..pos + 1]
    BY <1>2
  <2>5. /\ jx[Len(acc) + 1] = pos + 1
        /\ \A i \in 1..Len(acc) : jx[i] = ix[i]
    BY <1>2
  <2> HIDE DEF jx, keep
  <2>6. \A i \in 1..Len(acc) + 1 : acc'[i] = Row(jx[i])
    <3> TAKE i \in 1..Len(acc) + 1
    <3>1. CASE i = Len(acc) + 1
      BY <2>3, <2>5, <3>1
    <3>2. CASE i # Len(acc) + 1
      <4>1. i \in 1..Len(acc)
        BY <1>2, <3>2
      <4> QED BY <1>4, <2>3, <2>5, <4>1
    <3> QED BY <3>1, <3>2
  <2> HIDE DEF Row, match
  <2> QED BY <1>8, <1>10, <2>3, <2>4, <2>6
<1> QED BY <1>9, <1>10

(* A loop that starts has visited no row.                                  *)
LEMMA BeginCollects ==
    ASSUME NEW t, NEW s,
           \/ Begin("update", t, s) /\ s \in UpdateInputs
           \/ Begin("delete", t, s) /\ s \in DeleteInputs
    PROVE  Collected'
<1>1. pos' = 0 /\ acc' = << >> /\ stmt' = s
  BY DEF Begin
<1>2. << >> \in [1..0 -> 1..0] /\ Len(<< >>) = 0
  OBVIOUS
<1>3. Lists(<< >>, {r \in 1..0 : ~ Matches(s.where, GetRow(catalog'[target'], r))})
  BY <1>2 DEF Lists
<1>4. CASE Begin("update", t, s) /\ s \in UpdateInputs
  BY <1>1, <1>4 DEF Begin, Collected
<1>5. CASE Begin("delete", t, s) /\ s \in DeleteInputs
  <2>1. op' = "delete" /\ stmt' \in DeleteInputs
    BY <1>1, <1>5 DEF Begin
  <2> DEFINE keep == {r \in 1..pos' : ~ Matches(stmt'.where, GetRow(catalog'[target'], r))}
  <2>2. Lists(<< >>, keep)
    BY <1>1, <1>3
  <2> HIDE DEF keep
  <2>3. \E ix \in [1..Len(acc') -> 1..pos'] :
          /\ Lists(ix, keep)
          /\ \A i \in 1..Len(acc') : acc'[i] = GetRow(catalog'[target'], ix[i])
    <3>1. << >> \in [1..Len(acc') -> 1..pos'] /\ 1..Len(acc') = {}
      BY <1>1, <1>2
    <3> QED BY <2>2, <3>1
  <2> QED BY <2>1, <2>3 DEF Collected, keep
<1> QED BY <1>4, <1>5

LEMMA CollectedStep ==
    ASSUME IInv, [Next]_vars
    PROVE  Collected'
<1>1. CASE op' \notin {"update", "delete"}
  BY <1>1 DEF Collected
<1>2. CASE op' \in {"update", "delete"}
  <2>1. CASE UNCHANGED vars
    BY <2>1 DEF vars, IInv, Collected
  <2>2. CASE Next
    <3>1. \/ UpdateStep /\ op' = "update"
          \/ DeleteStep /\ op' = "delete"
          \/ \E t \in Names, s \in UpdateInputs : BeginUpdate(t, s) /\ op' = "update"
          \/ \E t \in Names, s \in DeleteInputs : BeginDelete(t, s) /\ op' = "delete"
      <4>1. ASSUME NEW t \in Names
            PROVE  /\ \A schema \in SchemaInputs : CreateTable(t, schema) => op' = "idle"
                   /\ \A ifExists \in BOOLEAN : DropTable(t, ifExists) => op' = "idle"
                   /\ \A file \in CsvInputs : ImportCsv(t, file) => op' = "idle"
                   /\ ImportCsvFails(t) => op' = "idle"
        BY DEF CreateTable, DropTable, ImportCsv, ImportCsvFails, Reject, Finish
      <4>2. ASSUME NEW t \in Names
            PROVE  /\ Select(t) => op' = "idle"
                   /\ SelectCrashes(t) => op' = "crashed"
                   /\ \A s \in InsertInputs : BeginInsert(t, s) => op' \in {"idle", "insert"}
                   /\ \A source \in Names, cols \in ColumnLists :
                        BeginInsertSelect(t, source, cols) => op' \in {"idle", "insert"}
        BY DEF Select, SelectCrashes, BeginInsert, BeginInsertSelect, Crash, Reject, Finish, Begin
      <4>3. /\ InsertStep \/ InsertDone => op' \in {"idle", "insert"}
            /\ RewriteDone \/ Restart => op' = "idle"
            /\ RewriteCrashes => op' = "crashed"
        BY DEF InsertStep, InsertDone, RewriteDone, Restart, RewriteCrashes, Crash, Reject, Finish
      <4>4. /\ UpdateStep => op' \in {"idle", "update"}
            /\ DeleteStep => op' \in {"idle", "delete"}
            /\ \A t \in Names, s \in UpdateInputs : BeginUpdate(t, s) => op' \in {"idle", "update"}
            /\ \A t \in Names, s \in DeleteInputs : BeginDelete(t, s) => op' \in {"idle", "delete"}
        BY DEF UpdateStep, DeleteStep, BeginUpdate, BeginDelete, Reject, Finish, Begin
      <4> QED BY <1>2, <2>2, <4>1, <4>2, <4>3, <4>4 DEF Next
    <3>2. ASSUME NEW t \in Names, NEW s \in UpdateInputs, BeginUpdate(t, s), op' = "update"
          PROVE  Collected'
      <4>1. Begin("update", t, s)
        BY <3>2 DEF BeginUpdate, Reject, Finish
      <4> QED BY <4>1, BeginCollects
    <3>3. ASSUME NEW t \in Names, NEW s \in DeleteInputs, BeginDelete(t, s), op' = "delete"
          PROVE  Collected'
      <4>1. Begin("delete", t, s)
        BY <3>3 DEF BeginDelete, Reject, Finish
      <4> QED BY <4>1, BeginCollects
    <3> QED BY <3>1, <3>2, <3>3, UpdateCollects, DeleteCollects
  <2> QED BY <2>1, <2>2
<1> QED BY <1>1, <1>2

(* The inductive invariant holds in every reachable state: types, the      *)
(* bookkeeping of the running statement, well-formed columns, and what an  *)
(* UPDATE or DELETE has collected of the rows it has visited.              *)
THEOREM Invariance == Spec => []IInv
<1>1. Init => IInv
  BY InitInv DEF Init, IInv, Collected
<1>2. IInv /\ [Next]_vars => IInv'
  BY NextInv, CollectedStep DEF IInv
<1> QED BY <1>1, <1>2, PTL DEF Spec

-----------------------------------------------------------------------------
(* What a statement that has rewritten its table leaves behind             *)

LEMMA RewriteEnd ==
    ASSUME IInv, Next, op \in {"update", "delete"}, op' = "idle", result'.ok
    PROVE  /\ RewriteDone
           /\ catalog' = [catalog EXCEPT ![target] = RebuiltTable(SchemaOf(catalog[target]), acc)]
           /\ catalog'[target] = RebuiltTable(SchemaOf(catalog[target]), acc)
           /\ result' = Ok(affected)
           /\ pos = RowCount(catalog[target])
<1>1. ~ Reject
  BY DEF Reject, Finish, Error
<1>2. RewriteDone
  BY <1>1, RewriteEnding
<1>3. /\ catalog' = [catalog EXCEPT ![target] = RebuiltTable(SchemaOf(catalog[target]), acc)]
      /\ result' = Ok(affected)
      /\ pos = RowCount(catalog[target])
  BY <1>1, <1>2 DEF RewriteDone, Finish
<1> QED BY <1>2, <1>3 DEF IInv, TableInv, TypeOK

(* The rows collected from the table, as they read in the rebuilt one.     *)
LEMMA RewrittenRows ==
    ASSUME IInv, op \in {"update", "delete"}
    PROVE  LET tbl == catalog[target]
               new == RebuiltTable(SchemaOf(tbl), acc)
           IN  /\ Len(RowsOf(new)) = Len(acc) /\ RowCount(new) = Len(acc)
               /\ RowsOf(new) = [r \in 1..Len(acc) |-> GetRow(new, r)]
               /\ \A r \in 1..Len(acc) :
                    /\ RowsOf(new)[r] \in [1..Len(tbl) -> Values]
                    /\ \A c \in 1..Len(tbl) : RowsOf(new)[r][c] = ReadBack(tbl[c].type, acc[r][c])
<1> DEFINE tbl == catalog[target]
           schema == SchemaOf(tbl)
           new == RebuiltTable(schema, acc)
<1>1. /\ schema \in Seq(Types) /\ Len(schema) = Len(tbl) /\ schema # << >>
      /\ \A c \in 1..Len(tbl) : schema[c] = tbl[c].type
  BY TargetTable, SchemaOfType, EmptySeq DEF WellFormed, IInv
<1>2. acc \in Seq(Seq(Values)) /\ \A i \in 1..Len(acc) : Len(acc[i]) = Len(tbl)
  BY DEF IInv, TableInv, TypeOK, StatementInv
<1>3. Len(acc) \in Nat /\ \A r \in 1..Len(acc) : acc[r] \in Seq(Values)
  BY <1>2, LenProperties, ElementOfSeq
<1>4. \A r \in 1..Len(acc) : acc[r] \in [1..Len(schema) -> Values]
  BY <1>1, <1>2, <1>3, LenProperties
<1> HIDE DEF schema, tbl
<1>5. /\ new \in Seq(Columns) /\ new # << >> /\ BuffersAgree(new)
      /\ RowCount(new) = Len(acc) /\ Len(new) = Len(schema)
  BY <1>1, <1>3, <1>4, RebuiltTableType
<1>6. \A r \in 1..Len(acc), c \in 1..Len(schema) :
        ValueAt(new[c], r) = ReadBack(schema[c], acc[r][c])
  BY <1>1, <1>3, <1>4, RebuiltReads
<1> HIDE DEF new
<1>7. /\ Len(RowsOf(new)) = Len(acc)
      /\ \A r \in 1..Len(acc) : RowsOf(new)[r] = GetRow(new, r)
  BY <1>5, RowsOfType
<1>8. RowsOf(new) = [r \in 1..Len(acc) |-> GetRow(new, r)]
  BY <1>5 DEF RowsOf
<1>9. ASSUME NEW r \in 1..Len(acc)
      PROVE  /\ GetRow(new, r) \in [1..Len(tbl) -> Values]
             /\ \A c \in 1..Len(tbl) : GetRow(new, r)[c] = ReadBack(tbl[c].type, acc[r][c])
  <2>1. r \in Nat
    BY <1>3
  <2>2. GetRow(new, r) \in [1..Len(tbl) -> Values]
    BY <1>1, <1>5, <2>1, GetRowType
  <2>3. \A c \in 1..Len(tbl) : GetRow(new, r)[c] = ValueAt(new[c], r)
    BY <1>1, <1>5 DEF GetRow
  <2> QED BY <1>1, <1>6, <2>2, <2>3
<1> QED BY <1>5, <1>7, <1>8, <1>9 DEF new, schema, tbl

(* The assignment that decides column c of an updated row.                 *)
LEMMA UpdatedCell ==
    ASSUME NEW sets \in Seq(Assignments), NEW row, NEW c \in 1..Len(row)
    PROVE  LET Assigns(i) == /\ sets[i].col = c
                             /\ \A j \in i + 1..Len(sets) : sets[j].col # c
           IN  IF \E i \in 1..Len(sets) : Assigns(i)
               THEN \E i \in 1..Len(sets) :
                      Assigns(i) /\ UpdatedRow(sets, row)[c] = Evaluate(sets[i].expr, row)
               ELSE UpdatedRow(sets, row)[c] = row[c]
<1> DEFINE Assigns(i) == /\ sets[i].col = c
                         /\ \A j \in i + 1..Len(sets) : sets[j].col # c
           Last(i) == IsLastFor(SetColumns(sets), c, i)
<1>1. Len(sets) \in Nat
  BY LenProperties
<1>2. ASSUME NEW i \in 1..Len(sets) PROVE Last(i) <=> Assigns(i)
  <2>1. Len(SetColumns(sets)) = Len(sets)
    BY <1>1 DEF SetColumns
  <2>2. \A j \in 1..Len(sets) : SetColumns(sets)[j] = sets[j].col
    BY DEF SetColumns
  <2>3. i + 1..Len(sets) \subseteq 1..Len(sets)
    BY <1>1
  <2> QED BY <2>1, <2>2, <2>3 DEF IsLastFor
<1>3. UpdatedRow(sets, row)[c] =
        IF \E i \in 1..Len(sets) : Last(i)
        THEN Evaluate(sets[CHOOSE i \in 1..Len(sets) : Last(i)].expr, row)
        ELSE row[c]
  BY DEF UpdatedRow
<1> HIDE DEF Last
<1>4. CASE \E i \in 1..Len(sets) : Last(i)
  <2> DEFINE k == CHOOSE i \in 1..Len(sets) : Last(i)
  <2>1. k \in 1..Len(sets) /\ Last(k)
    BY <1>4
  <2>2. UpdatedRow(sets, row)[c] = Evaluate(sets[k].expr, row)
    BY <1>3, <1>4
  <2> HIDE DEF k
  <2>3. Assigns(k)
    BY <1>2, <2>1
  <2> HIDE DEF Assigns
  <2>4. \E i \in 1..Len(sets) : Assigns(i) /\ UpdatedRow(sets, row)[c] = Evaluate(sets[i].expr, row)
    BY <2>1, <2>2, <2>3
  <2> QED BY <2>4 DEF Assigns
<1>5. CASE ~ \E i \in 1..Len(sets) : Last(i)
  <2>1. ~ \E i \in 1..Len(sets) : Assigns(i)
    BY <1>2, <1>5
  <2>2. UpdatedRow(sets, row)[c] = row[c]
    BY <1>3, <1>5
  <2> QED BY <2>1, <2>2
<1> QED BY <1>4, <1>5

LEMMA UpdateEnd ==
    ASSUME IInv, Next, RewriteEnds("update")
    PROVE  RowsUpdated
<1> DEFINE tbl == catalog[target]
           old == RowsOf(tbl)
           new == RowsOf(catalog'[target])
           Assigns(i, c) == /\ stmt.sets[i].col = c
                            /\ \A j \in i + 1..Len(stmt.sets) : stmt.sets[j].col # c
<1>1. op = "update" /\ op' = "idle" /\ result'.ok
  BY DEF RewriteEnds
<1>2. /\ catalog'[target] = RebuiltTable(SchemaOf(tbl), acc)
      /\ pos = RowCount(tbl)
  BY <1>1, RewriteEnd
<1>3. WellFormed(tbl) /\ tbl # << >> /\ RowCount(tbl) \in Nat
  BY <1>1, TargetTable, RowCountType DEF IInv, WellFormed
<1>4. /\ Len(old) = RowCount(tbl)
      /\ \A r \in 1..RowCount(tbl) : old[r] = GetRow(tbl, r)
  BY <1>3, RowsOfType DEF WellFormed
<1>5. Len(acc) = pos /\ stmt.sets \in Seq(Assignments)
  BY <1>1 DEF IInv, TableInv, TypeOK, StatementInv, Statements
<1>6. /\ Len(new) = Len(acc)
      /\ \A r \in 1..Len(acc), c \in 1..Len(tbl) : new[r][c] = ReadBack(tbl[c].type, acc[r][c])
  BY <1>1, <1>2, RewrittenRows
<1>7. SchemaOf(catalog'[target]) = SchemaOf(tbl)
  BY <1>1, <1>2, RebuiltTarget DEF IInv
<1>8. ASSUME NEW r \in 1..pos
      PROVE  acc[r] = IF Matches(stmt.where, GetRow(tbl, r))
                      THEN UpdatedRow(stmt.sets, GetRow(tbl, r)) ELSE GetRow(tbl, r)
  BY <1>1 DEF IInv, Collected
<1>9. ASSUME NEW r \in 1..pos, NEW c \in 1..Len(tbl)
      PROVE  IF Matches(stmt.where, old[r]) /\ \E i \in 1..Len(stmt.sets) : Assigns(i, c)
             THEN \E i \in 1..Len(stmt.sets) :
                    /\ Assigns(i, c)
                    /\ new[r][c] = ReadBack(tbl[c].type, Evaluate(stmt.sets[i].expr, old[r]))
             ELSE new[r][c] = old[r][c]
  <2> DEFINE row == GetRow(tbl, r)
  <2>1. old[r] = row /\ new[r][c] = ReadBack(tbl[c].type, acc[r][c]) /\ r \in Nat
    BY <1>2, <1>3, <1>4, <1>5, <1>6
  <2>2. Len(row) = Len(tbl)
    BY <1>3, <2>1, GetRowType DEF WellFormed
  <2>3. ReadBack(tbl[c].type, row[c]) = row[c]
    BY <1>3, <2>1, RowReadsBack
  <2>4. PICK sets \in Seq(Assignments) : sets = stmt.sets
    BY <1>5
  <2> HIDE DEF row, old, new, tbl
  <2>5. CASE ~ Matches(stmt.where, row)
    <3>1. acc[r] = row
      BY <1>8, <2>5 DEF row
    <3> QED BY <2>1, <2>3, <2>5, <3>1
  <2>6. CASE Matches(stmt.where, row)
    <3>1. acc[r] = UpdatedRow(sets, row)
      BY <1>8, <2>4, <2>6 DEF row
    <3> DEFINE A(i) == /\ sets[i].col = c
                       /\ \A j \in i + 1..Len(sets) : sets[j].col # c
    <3>2. IF \E i \in 1..Len(sets) : A(i)
          THEN \E i \in 1..Len(sets) :
                 A(i) /\ UpdatedRow(sets, row)[c] = Evaluate(sets[i].expr, row)
          ELSE UpdatedRow(sets, row)[c] = row[c]
      <4>1. c \in 1..Len(row)
        BY <2>2
      <4> HIDE DEF Assigns
      <4> QED BY ONLY <2>4, <4>1, UpdatedCell
    <3>3. \A i : A(i) <=> Assigns(i, c)
      BY <2>4
    <3> HIDE DEF A, Assigns
    <3>4. CASE \E i \in 1..Len(sets) : A(i)
      BY <2>1, <2>4, <2>6, <3>1, <3>2, <3>3, <3>4
    <3>5. CASE ~ \E i \in 1..Len(sets) : A(i)
      BY <2>1, <2>3, <2>4, <3>1, <3>2, <3>3, <3>5
    <3> QED BY <3>4, <3>5
  <2> QED BY <2>5, <2>6
<1>10. Len(new) = Len(old) /\ 1..Len(old) = 1..pos
  BY <1>2, <1>4, <1>5, <1>6
<1> HIDE DEF old, new, Assigns
<1>11. \A r \in 1..Len(old), c \in 1..Len(tbl) :
         IF Matches(stmt.where, old[r]) /\ \E i \in 1..Len(stmt.sets) : Assigns(i, c)
         THEN \E i \in 1..Len(stmt.sets) :
                /\ Assigns(i, c)
                /\ new[r][c] = ReadBack(tbl[c].type, Evaluate(stmt.sets[i].expr, old[r]))
         ELSE new[r][c] = old[r][c]
  BY <1>9, <1>10
<1> QED BY <1>7, <1>10, <1>11 DEF RowsUpdated, old, new, Assigns

(* A successful UPDATE changes the assigned columns of the matching rows   *)
(* and no other cell, and every expression sees the row before the UPDATE: *)
(* for every schema, statement and number of rows.                         *)
THEOREM UpdateExact == Spec => UpdateIsPointwise
<1>1. ASSUME IInv, [Next]_vars
      PROVE  [RewriteEnds("update") => RowsUpdated]_vars
  BY <1>1, UpdateEnd
<1> QED BY <1>1, Invariance, PTL DEF Spec, UpdateIsPointwise

LEMMA DeleteEnd ==
    ASSUME IInv, Next, RewriteEnds("delete")
    PROVE  RowsDeleted
<1> DEFINE tbl == catalog[target]
           old == RowsOf(tbl)
           new == RowsOf(catalog'[target])
           keep == {r \in 1..RowCount(tbl) : ~ Matches(stmt.where, GetRow(tbl, r))}
<1>1. op = "delete" /\ op' = "idle" /\ result'.ok
  BY DEF RewriteEnds
<1>2. /\ catalog'[target] = RebuiltTable(SchemaOf(tbl), acc)
      /\ pos = RowCount(tbl) /\ result' = Ok(affected)
  BY <1>1, RewriteEnd
<1>3. WellFormed(tbl) /\ tbl # << >> /\ RowCount(tbl) \in Nat
  BY <1>1, TargetTable, RowCountType DEF IInv, WellFormed
<1>4. /\ Len(old) = RowCount(tbl)
      /\ \A r \in 1..RowCount(tbl) : old[r] = GetRow(tbl, r)
  BY <1>3, RowsOfType DEF WellFormed
<1>5. Len(acc) = pos - affected /\ affected \in Nat /\ acc \in Seq(Seq(Values))
  BY <1>1 DEF IInv, TableInv, TypeOK, StatementInv
<1>6. /\ Len(new) = Len(acc)
      /\ \A r \in 1..Len(acc) :
            /\ new[r] \in [1..Len(tbl) -> Values]
            /\ \A c \in 1..Len(tbl) : new[r][c] = ReadBack(tbl[c].type, acc[r][c])
  BY <1>1, <1>2, RewrittenRows
<1>7. PICK ix \in [1..Len(acc) -> 1..pos] :
        /\ Lists(ix, keep)
        /\ \A i \in 1..Len(acc) : acc[i] = GetRow(tbl, ix[i])
  BY <1>1, <1>2 DEF IInv, Collected
<1>8. ASSUME NEW i \in 1..Len(acc)
      PROVE  new[i] = old[ix[i]]
  <2>1. ix[i] \in 1..RowCount(tbl) /\ ix[i] \in Nat
    BY <1>2, <1>3
  <2>2. old[ix[i]] = GetRow(tbl, ix[i]) /\ acc[i] = GetRow(tbl, ix[i])
    BY <1>4, <1>7, <2>1
  <2>3. GetRow(tbl, ix[i]) \in [1..Len(tbl) -> Values]
    BY <1>3, <2>1, GetRowType DEF WellFormed
  <2>4. \A c \in 1..Len(tbl) : new[i][c] = GetRow(tbl, ix[i])[c]
    BY <1>3, <1>6, <2>1, <2>2, RowReadsBack
  <2>5. new[i] \in [1..Len(tbl) -> Values]
    BY <1>6
  <2> HIDE DEF old, new, tbl
  <2> QED BY <2>2, <2>3, <2>4, <2>5
<1>9. keep = {r \in 1..Len(old) : ~ Matches(stmt.where, old[r])}
  BY <1>4
<1>10. result'.affected = Len(old) - Len(new)
  BY <1>2, <1>3, <1>4, <1>5, <1>6 DEF Ok
<1> HIDE DEF old, new, keep
<1>11. ix \in [1..Len(new) -> 1..Len(old)]
  BY <1>2, <1>4, <1>6
<1>12. \E kx \in [1..Len(new) -> 1..Len(old)] :
         /\ Lists(kx, keep)
         /\ \A i \in 1..Len(new) : new[i] = old[kx[i]]
  BY <1>6, <1>7, <1>8, <1>11
<1> QED BY <1>9, <1>10, <1>12 DEF RowsDeleted, old, new

(* A successful DELETE leaves the rows that do not match, in their order   *)
(* and reading as before, and reports how many are gone: for every schema, *)
(* statement and number of rows.                                           *)
THEOREM DeleteExact == Spec => DeleteIsFilter
<1>1. ASSUME IInv, [Next]_vars
      PROVE  [RewriteEnds("delete") => RowsDeleted]_vars
  BY <1>1, DeleteEnd
<1> QED BY <1>1, Invariance, PTL DEF Spec, DeleteIsFilter

-----------------------------------------------------------------------------
(***************************************************************************)
(* The refinement.  On inputs that no column refuses, the catalog of       *)
(* columns implements the rows of RowStore: every step of a Connection is  *)
(* a step of RowStore, or leaves its tables alone.                         *)
(***************************************************************************)

(* The tables as RowStore sees them.                                       *)
View == [t \in Names |-> RowView(catalog[t])]

(* RowStore means by a value, a stored cell, a WHERE clause and a SET list *)
(* what Database means.                                                    *)
LEMMA SameValues == Rows!Null = Null /\ Rows!Values = Values
  BY DEF Rows!Values, Values, Rows!Null, Null, Rows!Scalars, Scalars, Rows!Kinds, Kinds

LEMMA SameReadBack == \A type, v : Rows!ReadBack(type, v) = ReadBack(type, v)
<1>1. \A type : Rows!KindOf(type) = KindOf(type)
  BY DEF Rows!KindOf, KindOf
<1>2. \A type, v : Rows!Convert(type, v) = Convert(type, v)
  BY <1>1 DEF Rows!Convert, Convert, Rows!IntV, IntV, Rows!DblV, DblV, Rows!Truncate, Truncate
<1>3. \A type, v : Rows!CellData(type, v) = CellData(type, v)
  BY <1>1, <1>2, SameValues DEF Rows!CellData, CellData, Rows!Placeholder, Placeholder
<1>4. \A type, v : Rows!AppendValue(Rows!NewColumn(type), v) = AppendValue(NewColumn(type), v)
  BY <1>3, SameValues DEF Rows!AppendValue, AppendValue, Rows!NewColumn, NewColumn
<1>5. \A col, i : Rows!ValueAt(col, i) = ValueAt(col, i)
  BY <1>1, SameValues DEF Rows!ValueAt, ValueAt, Rows!Size, Size, Rows!MakeIntValue,
                          MakeIntValue, Rows!Narrow, Narrow, Rows!IntV, IntV
<1> QED BY <1>4, <1>5 DEF Rows!ReadBack, ReadBack

LEMMA SameMatches == \A w, row : Rows!Matches(w, row) <=> Matches(w, row)
  BY SameValues DEF Rows!Matches, Matches, Rows!SameValue, SameValue, Rows!Halves, Halves

LEMMA SameUpdatedRow == \A sets, row : Rows!UpdatedRow(sets, row) = UpdatedRow(sets, row)
  BY DEF Rows!UpdatedRow, UpdatedRow, Rows!IsLastFor, IsLastFor, Rows!SetColumns, SetColumns,
         Rows!Evaluate, Evaluate

LEMMA SameLists == \A ix, keep : Rows!Lists(ix, keep) <=> Lists(ix, keep)
  BY DEF Rows!Lists, Lists

LEMMA ViewReplace ==
    ASSUME TypeOK, NEW t \in Names, NEW tbl, catalog' = [catalog EXCEPT ![t] = tbl]
    PROVE  View' = [View EXCEPT ![t] = RowView(tbl)]
  BY DEF View, TypeOK

LEMMA ViewSame == ASSUME UNCHANGED catalog PROVE View' = View
  BY DEF View

LEMMA CreateIsCreate ==
    ASSUME TypeOK, NEW t \in Names, NEW schema \in SchemaInputs, CreateTable(t, schema)
    PROVE  Rows!Next
<1>1. RowView(NewTable(schema)) = [schema |-> schema, rows |-> << >>]
  <2>1. schema \in Seq(Types) /\ schema # << >>
    BY InputsAssumption DEF Schemas
  <2>2. /\ NewTable(schema) \in Seq(Columns) /\ Len(NewTable(schema)) = Len(schema)
        /\ SchemaOf(NewTable(schema)) = schema
    BY <2>1, NewTableType
  <2>3. NewTable(schema) # << >> /\ 1 \in 1..Len(schema)
    BY <2>1, <2>2, EmptySeq, LenProperties
  <2>4. RowCount(NewTable(schema)) = 0
    BY <2>3 DEF RowCount, NewTable, NewColumn, Size
  <2>5. RowsOf(NewTable(schema)) = << >>
    BY <2>4 DEF RowsOf
  <2> QED BY <2>2, <2>3, <2>5 DEF RowView, NoTable
<1>2. View' = [View EXCEPT ![t] = [schema |-> schema, rows |-> << >>]]
  BY <1>1, ViewReplace DEF CreateTable
<1> QED BY <1>2 DEF Rows!Next, Rows!Create, View

LEMMA DropIsDrop ==
    ASSUME TypeOK, NEW t \in Names, NEW ifExists, DropTable(t, ifExists)
    PROVE  Rows!Next
<1>1. RowView(NoTable) = Rows!Absent
  BY DEF RowView, Rows!Absent
<1>2. View' = [View EXCEPT ![t] = Rows!Absent]
  BY <1>1, ViewReplace DEF DropTable
<1> QED BY <1>2 DEF Rows!Next, Rows!Drop, View

(* A table that exists is not absent: its schema has a column.             *)
LEMMA ViewOfTable ==
    ASSUME TypeOK, NEW t \in Names, Exists(t)
    PROVE  /\ View[t] = [schema |-> SchemaOf(catalog[t]), rows |-> RowsOf(catalog[t])]
           /\ View[t] # Rows!Absent
<1>1. catalog[t] \in Seq(Columns) /\ catalog[t] # << >>
  BY DEF TypeOK, Exists, NoTable
<1>2. View[t] = [schema |-> SchemaOf(catalog[t]), rows |-> RowsOf(catalog[t])]
  BY DEF View, RowView, Exists
<1>3. SchemaOf(catalog[t]) # << >>
  BY <1>1, SchemaOfType, EmptySeq
<1>4. View[t].schema # Rows!Absent.schema
  BY <1>2, <1>3 DEF Rows!Absent
<1> QED BY <1>2, <1>4

(* The rows of a table filled with rows it accepts.                        *)
LEMMA RebuiltView ==
    ASSUME NEW schema \in Seq(Types), schema # << >>, NEW rows,
           Len(rows) \in Nat,
           \A r \in 1..Len(rows) : rows[r] \in [1..Len(schema) -> Values]
    PROVE  RowView(RebuiltTable(schema, rows)) =
             [schema |-> schema,
              rows |-> [r \in 1..Len(rows) |-> Rows!ReadBackRow(schema, rows[r])]]
<1> DEFINE new == RebuiltTable(schema, rows)
<1>1. /\ new # << >> /\ Len(new) = Len(schema) /\ SchemaOf(new) = schema
      /\ RowCount(new) = Len(rows)
  BY RebuiltTableType
<1>2. \A r \in 1..Len(rows), c \in 1..Len(schema) :
        ValueAt(new[c], r) = ReadBack(schema[c], rows[r][c])
  BY RebuiltReads
<1> HIDE DEF new
<1>3. ASSUME NEW r \in 1..Len(rows)
      PROVE  GetRow(new, r) = Rows!ReadBackRow(schema, rows[r])
  <2>1. GetRow(new, r) = [c \in 1..Len(schema) |-> ReadBack(schema[c], rows[r][c])]
    BY <1>1, <1>2 DEF GetRow
  <2> QED BY <2>1, SameReadBack DEF Rows!ReadBackRow
<1>4. RowsOf(new) = [r \in 1..Len(rows) |-> Rows!ReadBackRow(schema, rows[r])]
  BY <1>1, <1>3 DEF RowsOf
<1> QED BY <1>1, <1>4 DEF RowView, NoTable, new

LEMMA ImportIsImport ==
    ASSUME TypeOK, NEW t \in Names, NEW file \in CsvInputs, ImportCsv(t, file)
    PROVE  Rows!Next \/ View' = View
<1>1. CASE Exists(t)
  BY <1>1, ViewSame DEF ImportCsv, Reject
<1>2. CASE ~ Exists(t)
  <2>1. catalog' = [catalog EXCEPT ![t] = RebuiltTable(file.schema, file.rows)]
    BY <1>2 DEF ImportCsv
  <2>2. /\ file.schema \in Seq(Types) /\ file.schema # << >>
        /\ file.rows \in Seq([1..Len(file.schema) -> Values])
    BY InputsAssumption DEF Schemas
  <2>3. /\ Len(file.rows) \in Nat
        /\ \A r \in 1..Len(file.rows) : file.rows[r] \in [1..Len(file.schema) -> Values]
    BY <2>2, LenProperties, ElementOfSeq
  <2>4. View[t] = Rows!Absent
    BY <1>2 DEF View, RowView, Exists, Rows!Absent
  <2>5. View' = [View EXCEPT ![t] =
                   [schema |-> file.schema,
                    rows |-> [r \in 1..Len(file.rows) |->
                                Rows!ReadBackRow(file.schema, file.rows[r])]]]
    BY <2>1, <2>2, <2>3, ViewReplace, RebuiltView
  <2>6. Rows!Import(t)
    BY <2>4, <2>5 DEF Rows!Import, View
  <2> QED BY <2>6 DEF Rows!Next
<1> QED BY <1>1, <1>2

(* A table with one more row.                                              *)
LEMMA InsertedRows ==
    ASSUME NEW tbl, WellFormed(tbl), tbl # << >>, Rectangular(tbl),
           NEW row \in [1..Len(tbl) -> Values], AcceptsRow(SchemaOf(tbl), row)
    PROVE  LET new == InsertRow(tbl, row)
               last == GetRow(new, RowCount(tbl) + 1)
           IN  /\ new # << >> /\ SchemaOf(new) = SchemaOf(tbl)
               /\ RowsOf(new) = Append(RowsOf(tbl), last)
               /\ last \in [1..Len(tbl) -> Values]
               /\ last = [c \in 1..Len(tbl) |-> ReadBack(SchemaOf(tbl)[c], last[c])]
<1> DEFINE new == InsertRow(tbl, row)
           n == RowCount(tbl)
           last == GetRow(new, n + 1)
<1>1. /\ new \in Seq(Columns) /\ Len(new) = Len(tbl) /\ SchemaOf(new) = SchemaOf(tbl)
      /\ WellFormed(new)
  BY InsertRowType, InsertRowTyped DEF WellFormed
<1>2. new # << >> /\ Len(tbl) \in Nat /\ n \in Nat /\ RowCount(new) = n + 1
  <2>1. RowCount(new) = n + 1
    BY InsertRowAccepted DEF WellFormed
  <2> HIDE DEF new
  <2> QED BY <1>1, <2>1, RowCountType, EmptySeq, LenProperties DEF WellFormed
<1>3. \A r \in 1..n, c \in 1..Len(tbl) : ValueAt(new[c], r) = ValueAt(tbl[c], r)
  BY InsertedReads
<1> HIDE DEF new
<1>4. \A r \in 1..n : GetRow(new, r) = GetRow(tbl, r)
  BY <1>1, <1>3 DEF GetRow
<1>5. /\ RowsOf(tbl) \in Seq(Seq(Values)) /\ Len(RowsOf(tbl)) = n
      /\ \A r \in 1..n : RowsOf(tbl)[r] = GetRow(tbl, r)
  BY RowsOfType DEF WellFormed
<1>6. /\ RowsOf(new) \in Seq(Seq(Values)) /\ Len(RowsOf(new)) = n + 1
      /\ \A r \in 1..n + 1 : RowsOf(new)[r] = GetRow(new, r)
  BY <1>1, <1>2, RowsOfType DEF WellFormed
<1>7. last \in [1..Len(tbl) -> Values] /\ last \in Seq(Values)
  BY <1>1, <1>2, GetRowType DEF WellFormed
<1>8. \A c \in 1..Len(tbl) : last[c] = ReadBack(SchemaOf(tbl)[c], last[c])
  <2> TAKE c \in 1..Len(tbl)
  <2>1. SchemaOf(tbl)[c] = new[c].type
    BY <1>1, SchemaOfType
  <2>2. n + 1 \in Nat
    BY <1>2
  <2> QED BY <1>1, <2>1, <2>2, RowReadsBack
<1> HIDE DEF last
<1>9. /\ Append(RowsOf(tbl), last) \in Seq(Seq(Values))
      /\ Len(Append(RowsOf(tbl), last)) = n + 1
      /\ \A r \in 1..n : Append(RowsOf(tbl), last)[r] = GetRow(tbl, r)
      /\ Append(RowsOf(tbl), last)[n + 1] = last
  BY <1>5, <1>7, AppendProperties
<1>10. \A r \in 1..n + 1 : RowsOf(new)[r] = Append(RowsOf(tbl), last)[r]
  <2> TAKE r \in 1..n + 1
  <2>1. CASE r = n + 1
    BY <1>6, <1>9, <2>1 DEF last
  <2>2. CASE r # n + 1
    <3>1. r \in 1..n
      BY <1>2, <2>2
    <3> QED BY <1>4, <1>6, <1>9, <3>1
  <2> QED BY <2>1, <2>2
<1>11. RowsOf(new) = Append(RowsOf(tbl), last)
  BY <1>2, <1>6, <1>9, <1>10, SeqEqual
<1>12. last = [c \in 1..Len(tbl) |-> ReadBack(SchemaOf(tbl)[c], last[c])]
  BY <1>7, <1>8
<1> QED BY <1>1, <1>2, <1>7, <1>11, <1>12 DEF new, last

LEMMA InsertIsAppend ==
    ASSUME CleanInv, InsertStep
    PROVE  Rows!Next \/ View' = View
<1> DEFINE tbl == catalog[target]
           operands == stmt.rows[pos + 1]
           row == RowToInsert(Len(tbl), stmt.cols, operands)
           new == InsertRow(tbl, row)
           last == GetRow(new, RowCount(tbl) + 1)
<1>0. TableInv /\ TypeOK
  BY DEF CleanInv, TableInv
<1>1. op = "insert" /\ pos < Len(stmt.rows)
  BY DEF InsertStep
<1>2. /\ target \in Names /\ WellFormed(tbl) /\ tbl # << >> /\ Len(tbl) \in Nat
  BY <1>0, <1>1, TargetTable
<1>3. /\ pos \in Nat /\ stmt.rows \in Seq(Seq(Operands)) /\ stmt.cols \in Seq(Nat)
      /\ Len(stmt.rows) \in Nat
  BY <1>0, LenProperties DEF TypeOK, Statements
<1>4. pos + 1 \in 1..Len(stmt.rows) /\ pos + 1 \in pos + 1..Len(stmt.rows)
  BY <1>1, <1>3
<1>5. operands \in Seq(Operands)
  BY <1>3, <1>4, ElementOfSeq
<1>6. Len(SchemaOf(tbl)) = Len(tbl)
  BY <1>2, SchemaOfType DEF WellFormed
<1>7. Fits(SchemaOf(tbl), stmt.cols, operands)
  BY <1>1, <1>4 DEF CleanInv
<1>8. CASE OperandsRaise(Len(tbl), stmt.cols, operands)
  BY <1>8, ViewSame DEF InsertStep, Reject
<1>9. CASE ~ OperandsRaise(Len(tbl), stmt.cols, operands)
  <2>1. row \in [1..Len(tbl) -> Values]
    BY <1>2, <1>3, <1>5, <1>9, RowToInsertType
  <2>2. AcceptsRow(SchemaOf(tbl), row)
    BY <1>6, <1>7, <1>9 DEF Fits
  <2>3. Rectangular(tbl)
    BY <1>2 DEF CleanInv, AllSameLength, Exists, NoTable
  <2>4. catalog' = [catalog EXCEPT ![target] = new]
    BY <1>9 DEF InsertStep
  <2> HIDE DEF row, operands
  <2>5. /\ new # << >> /\ SchemaOf(new) = SchemaOf(tbl)
        /\ RowsOf(new) = Append(RowsOf(tbl), last)
        /\ last \in [1..Len(tbl) -> Values]
        /\ last = [c \in 1..Len(tbl) |-> ReadBack(SchemaOf(tbl)[c], last[c])]
    BY <1>2, <2>1, <2>2, <2>3, InsertedRows
  <2> HIDE DEF new
  <2>6. RowView(new) = [schema |-> SchemaOf(tbl), rows |-> Append(RowsOf(tbl), last)]
    BY <2>5 DEF RowView, NoTable
  <2>7. Exists(target)
    BY <1>2 DEF Exists, NoTable
  <2>8. View[target] = [schema |-> SchemaOf(tbl), rows |-> RowsOf(tbl)] /\ View[target] # Rows!Absent
    BY <1>0, <1>2, <2>7, ViewOfTable
  <2> HIDE DEF last, tbl
  <2>9. View' = [View EXCEPT ![target].rows = Append(RowsOf(tbl), last)]
    <3>1. View' = [View EXCEPT ![target] = RowView(new)]
      BY <1>0, <1>2, <2>4, ViewReplace
    <3>2. [View EXCEPT ![target] = [schema |-> SchemaOf(tbl), rows |-> Append(RowsOf(tbl), last)]]
            = [View EXCEPT ![target].rows = Append(RowsOf(tbl), last)]
      <4>1. PICK q : q = Append(RowsOf(tbl), last)
        OBVIOUS
      <4>2. [View[target] EXCEPT !.rows = q] = [schema |-> SchemaOf(tbl), rows |-> q]
        BY <2>8
      <4> QED BY <4>1, <4>2
    <3> QED BY <2>6, <3>1, <3>2
  <2>10. RowsOf(tbl) \in Seq(Seq(Values)) /\ last \in Seq(Values)
    BY <1>2, <2>5, RowsOfType, FcnIsSeq DEF WellFormed
  <2>11. /\ View'[target].rows = Append(RowsOf(tbl), last)
         /\ Len(View'[target].rows) = Len(View[target].rows) + 1
         /\ View'[target].rows[Len(View[target].rows) + 1] = last
    <3>1. View'[target].rows = Append(RowsOf(tbl), last)
      BY <1>2, <2>8, <2>9 DEF View
    <3> QED BY <2>8, <2>10, <3>1, AppendProperties
  <2>12. last \in [1..Len(View[target].schema) -> Rows!Values]
    BY <1>6, <2>5, <2>8, SameValues
  <2>13. last = Rows!ReadBackRow(View[target].schema, last)
    BY <1>6, <2>5, <2>8, SameReadBack DEF Rows!ReadBackRow
  <2>14. View' = [View EXCEPT ![target].rows = Append(@, last)]
    BY <2>8, <2>9
  <2>15. Rows!AppendRow(target)
    BY <2>8, <2>11, <2>12, <2>13, <2>14 DEF Rows!AppendRow, View
  <2> QED BY <1>2, <2>15 DEF Rows!Next
<1> QED BY <1>8, <1>9

LEMMA UpdateIsUpdate ==
    ASSUME IInv, Next, RewriteEnds("update")
    PROVE  Rows!Next
<1> DEFINE tbl == catalog[target]
           old == RowsOf(tbl)
           new == RebuiltTable(SchemaOf(tbl), acc)
           changed == [r \in 1..Len(old) |->
                         IF Matches(stmt.where, old[r])
                         THEN Rows!ReadBackRow(SchemaOf(tbl), UpdatedRow(stmt.sets, old[r]))
                         ELSE old[r]]
<1>1. op = "update" /\ op' = "idle" /\ result'.ok
  BY DEF RewriteEnds
<1>2. catalog' = [catalog EXCEPT ![target] = new] /\ pos = RowCount(tbl)
  BY <1>1, RewriteEnd
<1>3. /\ WellFormed(tbl) /\ tbl # << >> /\ RowCount(tbl) \in Nat /\ target \in Names
      /\ Len(SchemaOf(tbl)) = Len(tbl)
      /\ \A c \in 1..Len(tbl) : SchemaOf(tbl)[c] = tbl[c].type
  BY <1>1, TargetTable, RowCountType, SchemaOfType DEF IInv, WellFormed
<1>4. /\ Len(old) = RowCount(tbl)
      /\ \A r \in 1..RowCount(tbl) : old[r] = GetRow(tbl, r)
  BY <1>3, RowsOfType DEF WellFormed
<1>5. Len(acc) = pos
  BY <1>1 DEF IInv, TableInv, StatementInv
<1>6. new # << >> /\ SchemaOf(new) = SchemaOf(tbl)
  BY <1>1, RebuiltTarget DEF IInv
<1>7. /\ RowsOf(new) = [r \in 1..Len(acc) |-> GetRow(new, r)]
      /\ \A r \in 1..Len(acc) :
            /\ RowsOf(new)[r] \in [1..Len(tbl) -> Values]
            /\ \A c \in 1..Len(tbl) : RowsOf(new)[r][c] = ReadBack(tbl[c].type, acc[r][c])
  BY <1>1, RewrittenRows
<1>8. ASSUME NEW r \in 1..pos
      PROVE  RowsOf(new)[r] = IF Matches(stmt.where, old[r])
                              THEN Rows!ReadBackRow(SchemaOf(tbl), UpdatedRow(stmt.sets, old[r]))
                              ELSE old[r]
  <2> DEFINE row == GetRow(tbl, r)
  <2>1. old[r] = row /\ r \in Nat
    BY <1>2, <1>3, <1>4
  <2>2. acc[r] = IF Matches(stmt.where, row) THEN UpdatedRow(stmt.sets, row) ELSE row
    BY <1>1 DEF IInv, Collected
  <2>3. row \in [1..Len(tbl) -> Values]
    BY <1>3, <2>1, GetRowType DEF WellFormed
  <2>4. \A c \in 1..Len(tbl) : ReadBack(tbl[c].type, row[c]) = row[c]
    BY <1>3, <2>1, RowReadsBack
  <2>5. /\ RowsOf(new)[r] \in [1..Len(tbl) -> Values]
        /\ \A c \in 1..Len(tbl) : RowsOf(new)[r][c] = ReadBack(tbl[c].type, acc[r][c])
    BY <1>5, <1>7
  <2> HIDE DEF row, old, new, tbl
  <2>6. CASE Matches(stmt.where, row)
    <3>1. RowsOf(new)[r] = [c \in 1..Len(tbl) |-> ReadBack(tbl[c].type, acc[r][c])]
      BY <2>5
    <3>2. Rows!ReadBackRow(SchemaOf(tbl), acc[r]) = [c \in 1..Len(tbl) |-> ReadBack(tbl[c].type, acc[r][c])]
      BY <1>3, SameReadBack DEF Rows!ReadBackRow
    <3> QED BY <2>1, <2>2, <2>6, <3>1, <3>2
  <2>7. CASE ~ Matches(stmt.where, row)
    <3>1. acc[r] = row
      BY <2>2, <2>7
    <3>2. \A c \in 1..Len(tbl) : RowsOf(new)[r][c] = row[c]
      BY <2>4, <2>5, <3>1
    <3>3. RowsOf(new)[r] = row
      BY <2>3, <2>5, <3>2
    <3> QED BY <2>1, <2>7, <3>3
  <2> QED BY <2>6, <2>7
<1>9. 1..Len(acc) = 1..Len(old) /\ 1..Len(old) = 1..pos
  BY <1>2, <1>4, <1>5
<1>10. RowsOf(new) = changed
  <2>1. RowsOf(new) = [r \in 1..Len(old) |-> RowsOf(new)[r]]
    BY <1>7, <1>9
  <2> HIDE DEF new, old
  <2> QED BY <1>8, <1>9, <2>1
<1>11. Exists(target) /\ TypeOK
  BY <1>3 DEF Exists, NoTable, IInv, TableInv
<1>12. /\ View[target] = [schema |-> SchemaOf(tbl), rows |-> old]
       /\ View[target] # Rows!Absent
  BY <1>3, <1>11, ViewOfTable
<1> HIDE DEF new, old, changed
<1>13. RowView(new) = [schema |-> SchemaOf(tbl), rows |-> changed]
  BY <1>6, <1>10 DEF RowView, NoTable
<1>14. View' = [View EXCEPT ![target] = RowView(new)]
  BY <1>2, <1>3, <1>11, ViewReplace
<1> HIDE DEF tbl
<1>15. View' = [View EXCEPT ![target].rows = changed]
  <2>1. PICK q : q = changed
    OBVIOUS
  <2>2. [View[target] EXCEPT !.rows = q] = [schema |-> SchemaOf(tbl), rows |-> q]
    BY <1>12
  <2> QED BY <1>13, <1>14, <2>1, <2>2
<1>16. changed = [r \in 1..Len(View[target].rows) |->
                    IF Rows!Matches(stmt.where, View[target].rows[r])
                    THEN Rows!ReadBackRow(View[target].schema,
                                          Rows!UpdatedRow(stmt.sets, View[target].rows[r]))
                    ELSE View[target].rows[r]]
  BY <1>12, SameMatches, SameUpdatedRow DEF changed
<1>17. stmt \in UpdateInputs
  BY <1>1 DEF IInv, Collected
<1>18. Rows!Update(target)
  BY <1>12, <1>15, <1>16, <1>17 DEF Rows!Update, View
<1> QED BY <1>3, <1>18 DEF Rows!Next
LEMMA DeleteIsDelete ==
    ASSUME IInv, Next, RewriteEnds("delete")
    PROVE  Rows!Next
<1> DEFINE tbl == catalog[target]
           old == RowsOf(tbl)
           new == RebuiltTable(SchemaOf(tbl), acc)
           k == Len(acc)
           keep == {r \in 1..Len(old) : ~ Matches(stmt.where, old[r])}
<1>1. op = "delete" /\ op' = "idle" /\ result'.ok
  BY DEF RewriteEnds
<1>2. catalog' = [catalog EXCEPT ![target] = new] /\ pos = RowCount(tbl)
  BY <1>1, RewriteEnd
<1>3. /\ WellFormed(tbl) /\ tbl # << >> /\ RowCount(tbl) \in Nat /\ target \in Names
  BY <1>1, TargetTable, RowCountType DEF IInv, WellFormed
<1>4. /\ Len(old) = RowCount(tbl)
      /\ \A r \in 1..RowCount(tbl) : old[r] = GetRow(tbl, r)
  BY <1>3, RowsOfType DEF WellFormed
<1>5. k = pos - affected /\ affected \in Nat /\ k \in Nat
  BY <1>1, LenProperties DEF IInv, TableInv, TypeOK, StatementInv
<1>6. new # << >> /\ SchemaOf(new) = SchemaOf(tbl)
  BY <1>1, RebuiltTarget DEF IInv
<1>7. /\ RowsOf(new) = [r \in 1..k |-> GetRow(new, r)]
      /\ \A r \in 1..k :
            /\ RowsOf(new)[r] \in [1..Len(tbl) -> Values]
            /\ \A c \in 1..Len(tbl) : RowsOf(new)[r][c] = ReadBack(tbl[c].type, acc[r][c])
  BY <1>1, RewrittenRows
<1>8. keep = {r \in 1..pos : ~ Matches(stmt.where, GetRow(tbl, r))}
  BY <1>2, <1>4
<1>9. PICK ix \in [1..k -> 1..pos] :
        /\ Lists(ix, keep)
        /\ \A i \in 1..k : acc[i] = GetRow(tbl, ix[i])
  BY <1>1, <1>8 DEF IInv, Collected
<1>10. ASSUME NEW i \in 1..k
       PROVE  RowsOf(new)[i] = old[ix[i]]
  <2>1. ix[i] \in 1..RowCount(tbl) /\ ix[i] \in Nat
    BY <1>2, <1>3
  <2>2. old[ix[i]] = GetRow(tbl, ix[i]) /\ acc[i] = GetRow(tbl, ix[i])
    BY <1>4, <1>9, <2>1
  <2>3. GetRow(tbl, ix[i]) \in [1..Len(tbl) -> Values]
    BY <1>3, <2>1, GetRowType DEF WellFormed
  <2>4. \A c \in 1..Len(tbl) : RowsOf(new)[i][c] = GetRow(tbl, ix[i])[c]
    BY <1>3, <1>7, <2>1, <2>2, RowReadsBack
  <2>5. RowsOf(new)[i] \in [1..Len(tbl) -> Values]
    BY <1>7
  <2> HIDE DEF old, new, tbl, k
  <2> QED BY <2>2, <2>3, <2>4, <2>5
<1>11. PICK kept : kept = [i \in 1..k |-> old[ix[i]]]
  OBVIOUS
<1>12. RowsOf(new) = kept
  <2>1. RowsOf(new) = [i \in 1..k |-> RowsOf(new)[i]]
    BY <1>7
  <2> HIDE DEF new, old, k
  <2> QED BY <1>10, <1>11, <2>1
<1>13. Exists(target) /\ TypeOK
  BY <1>3 DEF Exists, NoTable, IInv, TableInv
<1>14. /\ View[target] = [schema |-> SchemaOf(tbl), rows |-> old]
       /\ View[target] # Rows!Absent
  BY <1>3, <1>13, ViewOfTable
<1>15. stmt \in DeleteInputs
  BY <1>1 DEF IInv, Collected
<1>16. k \in 0..Len(old) /\ ix \in [1..k -> 1..Len(old)]
  BY <1>2, <1>3, <1>4, <1>5
<1> HIDE DEF new, old, k
<1>17. RowView(new) = [schema |-> SchemaOf(tbl), rows |-> kept]
  BY <1>6, <1>12 DEF RowView, NoTable
<1>18. View' = [View EXCEPT ![target] = RowView(new)]
  BY <1>2, <1>3, <1>13, ViewReplace
<1> HIDE DEF tbl
<1>19. View' = [View EXCEPT ![target].rows = kept]
  <2>1. [View[target] EXCEPT !.rows = kept] = [schema |-> SchemaOf(tbl), rows |-> kept]
    BY <1>14
  <2> QED BY <1>17, <1>18, <2>1
<1>20. keep = {r \in 1..Len(View[target].rows) :
                 ~ Rows!Matches(stmt.where, View[target].rows[r])}
  BY <1>14, SameMatches DEF keep
<1> HIDE DEF keep
<1>21. Rows!Lists(ix, keep)
  BY <1>9, SameLists
<1>22. /\ k \in 0..Len(View[target].rows)
       /\ ix \in [1..k -> 1..Len(View[target].rows)]
       /\ View' = [View EXCEPT ![target].rows = [i \in 1..k |-> View[target].rows[ix[i]]]]
  BY <1>11, <1>14, <1>16, <1>19
<1>23. Rows!Delete(target)
  <2>1. PICK m : m = k
    OBVIOUS
  <2>2. /\ m \in 0..Len(View[target].rows)
        /\ ix \in [1..m -> 1..Len(View[target].rows)]
        /\ Rows!Lists(ix, {r \in 1..Len(View[target].rows) :
                            ~ Rows!Matches(stmt.where, View[target].rows[r])})
        /\ View' = [View EXCEPT ![target].rows = [i \in 1..m |-> View[target].rows[ix[i]]]]
    BY <1>20, <1>21, <1>22, <2>1
  <2>3. \E j \in 0..Len(View[target].rows) : \E kx \in [1..j -> 1..Len(View[target].rows)] :
          /\ Rows!Lists(kx, {r \in 1..Len(View[target].rows) :
                              ~ Rows!Matches(stmt.where, View[target].rows[r])})
          /\ View' = [View EXCEPT ![target].rows = [i \in 1..j |-> View[target].rows[kx[i]]]]
    <3> m \in 0..Len(View[target].rows) /\ ix \in [1..m -> 1..Len(View[target].rows)]
      BY <2>2
    <3> WITNESS m \in 0..Len(View[target].rows)
    <3> WITNESS ix \in [1..m -> 1..Len(View[target].rows)]
    <3> QED BY <2>2
  <2> QED BY <1>14, <1>15, <2>3 DEF Rows!Delete, View
<1> QED BY <1>3, <1>23 DEF Rows!Next

(* One step per action: those that end with the catalog they began with    *)
(* are stutters of RowStore.                                               *)
LEMMA StepIsStep ==
    ASSUME CleanInv, IInv, [Next]_vars
    PROVE  Rows!Next \/ View' = View
<1>0. TypeOK
  BY DEF IInv, TableInv
<1>1. CASE UNCHANGED vars
  BY <1>1, ViewSame DEF vars
<1>2. CASE Next
  <2>1. ASSUME NEW t \in Names, NEW schema \in SchemaInputs, CreateTable(t, schema)
        PROVE  Rows!Next
    BY <1>0, <2>1, CreateIsCreate
  <2>2. ASSUME NEW t \in Names, NEW ifExists \in BOOLEAN, DropTable(t, ifExists)
        PROVE  Rows!Next
    BY <1>0, <2>2, DropIsDrop
  <2>3. ASSUME NEW t \in Names, NEW file \in CsvInputs, ImportCsv(t, file)
        PROVE  Rows!Next \/ View' = View
    BY <1>0, <2>3, ImportIsImport
  <2>4. ASSUME NEW t \in Names, ImportCsvFails(t) \/ Select(t)
        PROVE  View' = View
    BY <2>4, ViewSame DEF ImportCsvFails, Select, Reject
  <2>5. ASSUME NEW t \in Names, NEW s, BeginInsert(t, s) \/ BeginUpdate(t, s) \/ BeginDelete(t, s)
        PROVE  View' = View
    <3>1. UNCHANGED catalog
      BY <2>5 DEF BeginInsert, BeginUpdate, BeginDelete, Begin, Reject
    <3> QED BY <3>1, ViewSame
  <2>6. ASSUME NEW t \in Names, NEW source \in Names, NEW cols, BeginInsertSelect(t, source, cols)
        PROVE  View' = View
    <3>1. UNCHANGED catalog
      BY <2>6 DEF BeginInsertSelect, Begin, Reject
    <3> QED BY <3>1, ViewSame
  <2>7. CASE InsertStep
    BY <2>7, InsertIsAppend
  <2>8. ASSUME InsertDone \/ UpdateStep \/ DeleteStep \/ Restart
        PROVE  View' = View
    <3>1. UNCHANGED catalog
      BY <2>8 DEF InsertDone, UpdateStep, DeleteStep, Restart, Reject
    <3> QED BY <3>1, ViewSame
  <2>9. CASE RewriteDone
    <3>1. UNCHANGED catalog \/ RewriteEnds(op)
      BY <2>9 DEF RewriteDone, RewriteEnds, Reject, Finish, Ok
    <3>2. op \in {"update", "delete"}
      BY <2>9 DEF RewriteDone
    <3>3. CASE RewriteEnds("update")
      BY <1>2, <3>3, UpdateIsUpdate
    <3>4. CASE RewriteEnds("delete")
      BY <1>2, <3>4, DeleteIsDelete
    <3>5. CASE UNCHANGED catalog
      BY <3>5, ViewSame
    <3> QED BY <3>1, <3>2, <3>3, <3>4, <3>5
  <2> QED BY <1>2, <2>1, <2>2, <2>3, <2>4, <2>5, <2>6, <2>7, <2>8, <2>9, CleanNoCrash DEF Next
<1> QED BY <1>1, <1>2

(* As long as no statement carries a value its column refuses, the catalog *)
(* of columns behaves like the tables of rows of RowStore: every step of a *)
(* Connection is one of its steps or changes no table.  INSERT disturbs no *)
(* row it did not insert, UPDATE and DELETE take effect at once, and no    *)
(* statement touches two tables, for any schemas, statements and sizes.    *)
THEOREM CatalogImplementsRows == ASSUME CleanInputs PROVE Spec => ImplementsRowStore
<1>1. Init => Rows!Init
  BY DEF Init, Rows!Init, RowView, Rows!Absent
<1>2. ASSUME CleanInv, IInv, [Next]_vars
      PROVE  [Rows!Next]_View
  BY <1>2, StepIsStep
<1>3. View = [t \in Names |-> RowView(catalog[t])]
  BY DEF View
<1> QED BY <1>1, <1>2, Invariance, CleanInvariance, PTL
        DEF Spec, ImplementsRowStore, Rows!Spec, View
=============================================================================
