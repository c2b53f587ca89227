----------------------------- MODULE CApiProofs -----------------------------
(***************************************************************************)
(* The contract of the C API, for every number of threads, databases,      *)
(* results, rows and columns.                                              *)
(***************************************************************************)
EXTENDS CApi, SequenceTheorems, TLAPS

LEMMA Bounds == Width \in Nat /\ MaxRows \in Nat
  BY CApiAssumption

(* The tables behind a handle.                                             *)
LEMMA TableType ==
    ASSUME NEW rows \in Seq(Rows), Len(rows) <= MaxRows
    PROVE  Table(rows) \in Tables
<1>1. rows \in [1..Len(rows) -> Rows] /\ Len(rows) \in 0..MaxRows
  BY LenProperties, Bounds
<1> QED BY <1>1 DEF Tables

LEMMA TableRows ==
    ASSUME NEW tbl \in Tables
    PROVE  /\ tbl[2] \in Seq(Rows) /\ Len(tbl[2]) <= MaxRows
           /\ tbl = NoTable => tbl[2] = << >>
<1>1. CASE tbl = NoTable
  <2>1. tbl[2] = << >>
    BY <1>1 DEF NoTable
  <2> QED BY <2>1, EmptySeq, Bounds
<1>2. CASE tbl # NoTable
  <2>1. PICK n \in 0..MaxRows : \E rows \in [1..n -> Rows] : tbl = Table(rows)
    BY <1>2 DEF Tables
  <2> PICK rows \in [1..n -> Rows] : tbl = Table(rows)
    BY <2>1
  <2>2. n \in Nat /\ n <= MaxRows
    BY Bounds
  <2>3. rows \in Seq(Rows) /\ Len(rows) = n
    BY <2>2, LenProperties, SeqDef
  <2> QED BY <1>2, <2>2, <2>3 DEF Table, NoTable
<1> QED BY <1>1, <1>2

(* What a call of the engine gives back to the wrapper around it.          *)
EngineAnswer(a) ==
    /\ a.ok \in BOOLEAN
    /\ a.rows \in Seq(Rows)
    /\ ~ a.ok => a.rows = << >>
    /\ a.error \in Messages
    /\ Len(a.table[2]) <= MaxRows => a.table \in Tables

LEMMA AnswerType ==
    ASSUME NEW rows \in Seq(Rows), NEW tbl, Len(tbl[2]) <= MaxRows => tbl \in Tables
    PROVE  EngineAnswer(Answer(rows, tbl)) /\ Answer(rows, tbl).rows = rows
<1>1. /\ Answer(rows, tbl).ok = TRUE
      /\ Answer(rows, tbl).rows = rows
      /\ Answer(rows, tbl).error = ""
      /\ Answer(rows, tbl).table = tbl
  BY DEF Answer
<1> QED BY <1>1 DEF EngineAnswer, Messages

LEMMA ErrorType ==
    ASSUME NEW cause \in Messages, NEW tbl \in Tables
    PROVE  EngineAnswer(MakeError(cause, tbl)) /\ MakeError(cause, tbl).rows = << >>
<1>1. << >> \in Seq(Rows)
  BY EmptySeq
<1>2. /\ MakeError(cause, tbl).ok = FALSE
      /\ MakeError(cause, tbl).rows = << >>
      /\ MakeError(cause, tbl).error = cause
      /\ MakeError(cause, tbl).table = tbl
  BY DEF MakeError
<1> QED BY <1>1, <1>2 DEF EngineAnswer

LEMMA EmptyTable ==
    /\ NoTable \in Tables
    /\ << >> \in Seq(Rows)
    /\ Table(<< >>) \in Tables
<1>1. << >> \in Seq(Rows) /\ Len(<< >>) <= MaxRows
  BY EmptySeq, Bounds
<1>2. Table(<< >>) \in Tables
  BY <1>1, TableType
<1> QED BY <1>1, <1>2 DEF Tables

LEMMA EngineQueryType ==
    ASSUME NEW tbl \in Tables, NEW sql \in Sql
    PROVE  /\ EngineAnswer(EngineQuery(tbl, sql))
           /\ EngineQuery(tbl, sql).rows = IF sql[1] = "select" THEN tbl[2] ELSE << >>
<1>1. tbl[2] \in Seq(Rows) /\ (tbl = NoTable => tbl[2] = << >>)
  BY TableRows
<1>2. NoTable \in Tables /\ << >> \in Seq(Rows) /\ Table(<< >>) \in Tables
  BY EmptyTable
<1> DEFINE Good(a) == EngineAnswer(a) /\ a.rows = IF sql[1] = "select" THEN tbl[2] ELSE << >>
<1>a. ASSUME NEW new \in Tables, sql[1] # "select"
      PROVE  Good(Answer(<< >>, new))
  BY <1>a, <1>2, AnswerType
<1>b. ASSUME NEW cause \in Messages, sql[1] # "select" \/ tbl = NoTable
      PROVE  Good(MakeError(cause, tbl))
  BY <1>b, <1>1, ErrorType
<1> SUFFICES Good(EngineQuery(tbl, sql))
  OBVIOUS
<1> HIDE DEF Good
<1>3. CASE sql[1] = "syntax"
  <2>1. EngineQuery(tbl, sql) = MakeError("syntax error", tbl)
    BY <1>3 DEF EngineQuery
  <2>2. "syntax error" \in Messages /\ sql[1] # "select"
    BY <1>3 DEF Messages
  <2> QED BY <1>b, <2>1, <2>2
<1>4. CASE sql[1] = "create"
  <2>1. EngineQuery(tbl, sql) \in {Answer(<< >>, Table(<< >>)), MakeError("table exists", tbl)}
    BY <1>4 DEF EngineQuery
  <2>2. "table exists" \in Messages /\ sql[1] # "select"
    BY <1>4 DEF Messages
  <2> QED BY <1>2, <1>a, <1>b, <2>1, <2>2
<1>5. CASE sql[1] \notin {"syntax", "create"} /\ tbl = NoTable
  <2>1. EngineQuery(tbl, sql) = MakeError("no such table", tbl)
    BY <1>5 DEF EngineQuery
  <2>2. "no such table" \in Messages
    BY DEF Messages
  <2> QED BY <1>5, <1>b, <2>1, <2>2
<1>6. CASE sql[1] = "drop" /\ tbl # NoTable
  <2>1. EngineQuery(tbl, sql) = Answer(<< >>, NoTable) /\ sql[1] # "select"
    BY <1>6 DEF EngineQuery
  <2> QED BY <1>2, <1>a, <2>1
<1>9. CASE sql[1] = "delete" /\ tbl # NoTable
  <2>1. EngineQuery(tbl, sql) = Answer(<< >>, Table(<< >>)) /\ sql[1] # "select"
    BY <1>9 DEF EngineQuery
  <2> QED BY <1>2, <1>a, <2>1
<1>10. CASE sql[1] = "select" /\ tbl # NoTable
  <2>1. EngineQuery(tbl, sql) = Answer(tbl[2], tbl)
    BY <1>10 DEF EngineQuery
  <2> QED BY <1>1, <1>10, <2>1, AnswerType DEF Good
<1>7. CASE sql[1] = "insert" /\ tbl # NoTable
  <2>1. PICK row \in Rows : sql = <<"insert", row>>
    BY <1>7 DEF Sql
  <2>2. Append(tbl[2], row) \in Seq(Rows)
    BY <1>1, AppendProperties
  <2> DEFINE new == Table(Append(tbl[2], row))
  <2>3. Len(new[2]) <= MaxRows => new \in Tables
    BY <2>2, TableType DEF Table
  <2>4. EngineQuery(tbl, sql) = Answer(<< >>, new)
    BY <1>7, <2>1 DEF EngineQuery
  <2> HIDE DEF new
  <2>5. sql[1] # "select"
    BY <1>7
  <2> QED BY <1>2, <2>3, <2>4, <2>5, AnswerType DEF Good
<1>8. sql[1] \in {"create", "drop", "delete", "select", "syntax", "insert"}
  BY DEF Sql
<1> QED BY <1>3, <1>4, <1>5, <1>6, <1>7, <1>8, <1>9, <1>10

LEMMA OtherEngineTypes ==
    ASSUME TypeOK, NEW tbl \in Tables
    PROVE  /\ \A found \in BOOLEAN : EngineAnswer(EngineImport(tbl, found))
           /\ EngineAnswer(EngineLoad(tbl))
           /\ EngineAnswer(Answer(<< >>, tbl))
           /\ EngineAnswer(MakeError("cannot open file for writing", tbl))
<1>1. << >> \in Seq(Rows) /\ Table(CsvRows) \in Tables
  BY EmptySeq, TableType, CApiAssumption
<1>2. {"table exists", "cannot open CSV file", "cannot open file for reading",
       "cannot open file for writing"} \subseteq Messages
  BY DEF Messages
<1>3. ASSUME NEW found \in BOOLEAN
      PROVE  EngineAnswer(EngineImport(tbl, found))
  BY <1>1, <1>2, AnswerType, ErrorType DEF EngineImport
<1>4. EngineAnswer(EngineLoad(tbl))
  <2>1. CASE file = NULL
    BY <1>2, <2>1, ErrorType DEF EngineLoad
  <2>2. CASE file # NULL
    <3>1. (IF file = NoTable THEN tbl ELSE file) \in Tables
      BY <2>2 DEF TypeOK
    <3> QED BY <1>1, <2>2, <3>1, AnswerType DEF EngineLoad
  <2> QED BY <2>1, <2>2
<1>5. EngineAnswer(Answer(<< >>, tbl)) /\ EngineAnswer(MakeError("cannot open file for writing", tbl))
  BY <1>1, <1>2, AnswerType, ErrorType
<1> QED BY <1>3, <1>4, <1>5

-----------------------------------------------------------------------------
(* Reading a row by type and getter gives the row.                         *)
LEMMA RowType ==
    ASSUME NEW row \in Rows
    PROVE  row \in [1..Width -> Cells] /\ Len(row) = Width
<1>1. row \in [1..Width -> Cells] /\ Width \in Nat
  BY CApiAssumption
<1>2. row \in Seq(Cells) /\ DOMAIN row = 1..Width
  BY <1>1, SeqDef
<1>3. Len(row) \in Nat /\ DOMAIN row = 1..Len(row)
  BY <1>2, LenProperties
<1>4. Len(row) = Width
  BY <1>1, <1>2, <1>3
<1> QED BY <1>1, <1>4

LEMMA CurrentRow ==
    ASSUME NEW res \in ResultType, HasCurrentRow(res)
    PROVE  /\ res.rows[res.cursor + 1] \in Rows
           /\ \A col \in Nat : CurrentValue(res, col) =
                 IF col < Width THEN res.rows[res.cursor + 1][col + 1] ELSE NoValue
<1>1. res.rows \in Seq(Rows) /\ res.cursor \in Int
  BY DEF ResultType
<1>2. res.cursor + 1 \in 1..Len(res.rows)
  BY <1>1, LenProperties DEF HasCurrentRow
<1>3. res.rows[res.cursor + 1] \in Rows
  BY <1>1, <1>2, ElementOfSeq
<1> QED BY <1>3, RowType DEF CurrentValue

LEMMA CellKinds ==
    ASSUME NEW v \in Cells
    PROVE  /\ v # NoValue
           /\ \/ v = Null
              \/ v[1] = "int" /\ v[2] \in Int /\ v = <<"int", v[2]>>
              \/ v[1] = "double" /\ v[2] \in Int /\ v = <<"double", v[2]>>
              \/ v[1] = "bool" /\ v[2] \in {0, 1} /\ v = <<"bool", v[2]>>
              \/ v[1] = "text" /\ v[2] \in STRING /\ v = <<"text", v[2]>>
  BY DEF Cells, NoValue, Null

(* What the getters answer on a value of each kind.                        *)
IntOf(v) == IF v = Null THEN 0 ELSE IF v[1] = "int" THEN v[2] ELSE Truncate(ToDouble(v))
DoubleOf(v) == IF v = Null THEN 0 ELSE ToDouble(v)
BoolOf(v) == IF v = Null THEN 0 ELSE IF v[1] = "bool" THEN v[2] ELSE IF ToDouble(v) # 0 THEN 1 ELSE 0

LEMMA GetterAnswers ==
    ASSUME NEW res \in ResultType, HasCurrentRow(res), NEW col,
           NEW v \in Cells, CurrentValue(res, col) = v
    PROVE  /\ v[1] = "text" =>
                 /\ GetInt(res, col, TRUE).status = "ERROR"
                 /\ GetDouble(res, col, TRUE).status = "ERROR"
                 /\ GetBool(res, col, TRUE).status = "ERROR"
           /\ v[1] # "text" =>
                 /\ GetInt(res, col, TRUE).status = "OK"
                 /\ GetDouble(res, col, TRUE).status = "OK"
                 /\ GetBool(res, col, TRUE).status = "OK"
                 /\ GetInt(res, col, TRUE).value = IntOf(v)
                 /\ GetDouble(res, col, TRUE).value = DoubleOf(v)
                 /\ GetBool(res, col, TRUE).value = BoolOf(v)
<1>1. v # NoValue
  BY CellKinds
<1>2. GetterStatus(res, col, TRUE) = IF v[1] = "text" THEN "ERROR" ELSE "OK"
  BY <1>1 DEF GetterStatus
<1>3. ASSUME NEW value
      PROVE  /\ v[1] = "text" => Getter(res, col, TRUE, value).status = "ERROR"
             /\ v[1] # "text" => /\ Getter(res, col, TRUE, value).status = "OK"
                                 /\ Getter(res, col, TRUE, value).value = value
  BY <1>2 DEF Getter
<1>4. /\ GetInt(res, col, TRUE) = Getter(res, col, TRUE, IntOf(v))
      /\ GetDouble(res, col, TRUE) = Getter(res, col, TRUE, DoubleOf(v))
      /\ GetBool(res, col, TRUE) = Getter(res, col, TRUE, BoolOf(v))
  BY DEF GetInt, GetDouble, GetBool, IntOf, DoubleOf, BoolOf
<1> QED BY <1>3, <1>4

LEMMA ReadCellIsCell ==
    ASSUME NEW res \in ResultType, HasCurrentRow(res), NEW col,
           NEW v \in Cells, CurrentValue(res, col) = v
    PROVE  ReadCell(res, col) = v
<1>1. v # NoValue
  BY CellKinds
<1>2. CASE v = Null
  <2>1. ColumnType(res, col) = "NULL" /\ IsNull(res, col)
    BY <1>2 DEF ColumnType, IsNull
  <2> QED BY <1>2, <2>1 DEF ReadCell
<1>3. CASE v[1] = "int" /\ v = <<"int", v[2]>> /\ v # Null
  <2>1. ColumnType(res, col) = "INT"
    BY <1>1, <1>3 DEF ColumnType, TypeName
  <2>2. GetInt(res, col, TRUE).value = v[2]
    BY <1>3, GetterAnswers DEF IntOf
  <2> QED BY <1>3, <2>1, <2>2 DEF ReadCell
<1>4. CASE v[1] = "double" /\ v = <<"double", v[2]>> /\ v # Null
  <2>1. ColumnType(res, col) = "DOUBLE"
    BY <1>1, <1>4 DEF ColumnType, TypeName
  <2>2. GetDouble(res, col, TRUE).value = v[2]
    BY <1>4, GetterAnswers DEF DoubleOf, ToDouble
  <2> QED BY <1>4, <2>1, <2>2 DEF ReadCell
<1>5. CASE v[1] = "bool" /\ v = <<"bool", v[2]>> /\ v # Null
  <2>1. ColumnType(res, col) = "BOOL"
    BY <1>1, <1>5 DEF ColumnType, TypeName
  <2>2. GetBool(res, col, TRUE).value = v[2]
    BY <1>5, GetterAnswers DEF BoolOf
  <2> QED BY <1>5, <2>1, <2>2 DEF ReadCell
<1>6. CASE v[1] = "text" /\ v = <<"text", v[2]>> /\ v # Null
  <2>1. ColumnType(res, col) = "TEXT"
    BY <1>1, <1>6 DEF ColumnType, TypeName
  <2>2. AsString(v)[2] = v[2]
    BY <1>6 DEF AsString
  <2> QED BY <1>6, <2>1, <2>2 DEF ReadCell
<1> QED BY <1>2, <1>3, <1>4, <1>5, <1>6, CellKinds

LEMMA ReadRowIsRow ==
    ASSUME NEW res \in ResultType, HasCurrentRow(res)
    PROVE  ReadRow(res) = res.rows[res.cursor + 1]
<1> DEFINE row == res.rows[res.cursor + 1]
<1>1. row \in Rows
  BY CurrentRow
<1>2. row \in [1..Width -> Cells]
  BY <1>1, RowType
<1>3. ASSUME NEW i \in 1..Width
      PROVE  ReadCell(res, i - 1) = row[i]
  <2>1. i - 1 \in Nat /\ i - 1 < Width /\ i - 1 + 1 = i
    BY Bounds
  <2>2. CurrentValue(res, i - 1) = row[i]
    BY <2>1, CurrentRow
  <2> QED BY <1>2, <2>2, ReadCellIsCell
<1> HIDE DEF row
<1>4. ReadRow(res) = [i \in 1..Width |-> row[i]]
  BY <1>3 DEF ReadRow
<1> QED BY <1>2, <1>4 DEF row

-----------------------------------------------------------------------------
(* The invariant.  Every action touches at most one result; what is left   *)
(* to show for it is the type and the cursor of that one.                  *)
THEOREM InitInv == Init => IInv
<1> SUFFICES ASSUME Init PROVE IInv
  OBVIOUS
<1>1. << >> \in Seq(Rows) /\ "" \in Messages
  BY EmptySeq DEF Messages
<1>2. /\ {err, told} \subseteq [Callers -> [Functions -> Messages]]
      /\ {snapshot, seen} \subseteq [Results -> Seq(Rows)]
  BY <1>1 DEF Init
<1>3. TypeOK
  BY <1>2 DEF Init, TypeOK
<1>4. CursorInv /\ ScratchInv /\ LentErrorsStay
  BY DEF Init, CursorInv, ScratchInv, LentErrorsStay
<1> QED BY <1>3, <1>4 DEF IInv

LEMMA ResultNotNull == \A res \in ResultType : res # NULL
  BY CApiAssumption

(* A step that leaves the results and what was lent of them alone.         *)
LEMMA ResultsUntouched ==
    ASSUME IInv, UNCHANGED <<results, snapshot, seen, ended, lent>>,
           dbs' \in [Dbs -> Tables \cup {NULL}], file' \in Tables \cup {NULL},
           {err', told'} \subseteq [Callers -> [Functions -> Messages]], LentErrorsStay'
    PROVE  IInv'
  BY DEF IInv, TypeOK, CursorInv, ScratchInv

LEMMA ErrorsUntouched ==
    ASSUME IInv, UNCHANGED <<err, told>>
    PROVE  {err', told'} \subseteq [Callers -> [Functions -> Messages]] /\ LentErrorsStay'
  BY DEF IInv, TypeOK, LentErrorsStay

(* A step that gives result r the value res and the caller's history of it *)
(* the values answer, read, end and text.                                  *)
LEMMA OneResult ==
    ASSUME IInv, UNCHANGED <<err, told, file>>, dbs' \in [Dbs -> Tables \cup {NULL}],
           NEW r \in Results, NEW res \in ResultType, NEW answer \in Seq(Rows),
           NEW read \in Seq(Rows), NEW end \in BOOLEAN, NEW text \in Texts \cup {NULL},
           results' = [results EXCEPT ![r] = res],
           snapshot' = [snapshot EXCEPT ![r] = answer],
           seen' = [seen EXCEPT ![r] = read],
           ended' = [ended EXCEPT ![r] = end],
           lent' = [lent EXCEPT ![r] = text],
           res.cursor \in -1..Len(res.rows),
           CursorAt(res, answer, read, end),
           text # NULL => res.textScratch = text
    PROVE  IInv'
<1>1. /\ results' \in [Results -> ResultType \cup {NULL}]
      /\ {snapshot', seen'} \subseteq [Results -> Seq(Rows)]
      /\ ended' \in [Results -> BOOLEAN]
      /\ lent' \in [Results -> Texts \cup {NULL}]
  BY DEF IInv, TypeOK
<1>2. ASSUME NEW q \in Results
      PROVE  /\ results'[q] = IF q = r THEN res ELSE results[q]
             /\ snapshot'[q] = IF q = r THEN answer ELSE snapshot[q]
             /\ seen'[q] = IF q = r THEN read ELSE seen[q]
             /\ ended'[q] = IF q = r THEN end ELSE ended[q]
             /\ lent'[q] = IF q = r THEN text ELSE lent[q]
  BY DEF IInv, TypeOK
<1>3. TypeOK'
  BY <1>1, <1>2, ErrorsUntouched DEF IInv, TypeOK
<1>4. CursorInv'
  BY <1>2 DEF IInv, CursorInv
<1>5. ScratchInv'
  BY <1>2, ResultNotNull DEF IInv, ScratchInv
<1> QED BY <1>3, <1>4, <1>5, ErrorsUntouched DEF IInv

LEMMA OpenCloseInv ==
    ASSUME IInv, NEW d \in Dbs, Open(d) \/ Close(d)
    PROVE  IInv'
<1>1. dbs' \in [Dbs -> Tables \cup {NULL}] /\ file' \in Tables \cup {NULL}
  BY EmptyTable DEF IInv, TypeOK, Open, Close
<1>2. UNCHANGED <<results, snapshot, seen, ended, lent>> /\ UNCHANGED <<err, told>>
  BY DEF Open, Close, client
<1> QED BY <1>1, <1>2, ErrorsUntouched, ResultsUntouched

LEMMA CallInv ==
    ASSUME IInv, NEW t \in Callers, NEW f \in Functions, NEW d \in Dbs, NEW a, NEW out,
           EngineAnswer(a), Call(t, f, d, a, out), file' \in Tables \cup {NULL}
    PROVE  IInv'
<1>1. a.table \in Tables /\ a.error \in Messages
  BY DEF Call, EngineAnswer
<1>2. dbs' \in [Dbs -> Tables \cup {NULL}]
  BY <1>1 DEF IInv, TypeOK, Call
<1>3. UNCHANGED <<results, snapshot, seen, ended, lent>>
  BY DEF Call, client
<1>4. {err', told'} \subseteq [Callers -> [Functions -> Messages]] /\ LentErrorsStay'
  <2>1. CASE UNCHANGED <<err, client>>
    BY <2>1, ErrorsUntouched DEF client
  <2>2. CASE err' = [err EXCEPT ![t][f] = a.error] /\ told' = [told EXCEPT ![t][f] = a.error]
    <3>1. err \in [Callers -> [Functions -> Messages]] /\ told \in [Callers -> [Functions -> Messages]]
      BY DEF IInv, TypeOK
    <3>2. err' \in [Callers -> [Functions -> Messages]] /\ told' \in [Callers -> [Functions -> Messages]]
      BY <1>1, <2>2, <3>1
    <3>3. ASSUME NEW u \in Callers, NEW g \in Functions
          PROVE  /\ err'[u][g] = IF u = t /\ g = f THEN a.error ELSE err[u][g]
                 /\ told'[u][g] = IF u = t /\ g = f THEN a.error ELSE told[u][g]
      BY <2>2, <3>1
    <3>4. LentErrorsStay'
      <4> SUFFICES ASSUME NEW u \in Callers, NEW g \in Functions, told'[u][g] # ""
                   PROVE  err'[u][g] = told'[u][g]
        BY DEF LentErrorsStay
      <4>1. told[u][g] # "" => err[u][g] = told[u][g]
        BY DEF IInv, LentErrorsStay
      <4>2. /\ err'[u][g] = IF u = t /\ g = f THEN a.error ELSE err[u][g]
            /\ told'[u][g] = IF u = t /\ g = f THEN a.error ELSE told[u][g]
        BY <3>3
      <4> QED BY ONLY <4>1, <4>2, told'[u][g] # ""
    <3> QED BY <3>2, <3>4
  <2> QED BY <2>1, <2>2 DEF Call, Report
<1> QED BY <1>2, <1>3, <1>4, ResultsUntouched

LEMMA ExecInv ==
    ASSUME IInv, NEW t \in Callers, NEW d \in Dbs, NEW sql \in Sql, NEW out, Exec(t, d, sql, out)
    PROVE  IInv'
<1>1. dbs[d] \in Tables /\ file' \in Tables \cup {NULL} /\ "exec" \in Functions
  BY DEF IInv, TypeOK, Exec, Functions
<1>2. EngineAnswer(EngineQuery(dbs[d], sql))
  BY <1>1, EngineQueryType
<1> QED BY <1>1, <1>2, CallInv DEF Exec

LEMMA ImportInv ==
    ASSUME IInv, NEW t \in Callers, NEW d \in Dbs, NEW found \in BOOLEAN, NEW out,
           ImportCsv(t, d, found, out)
    PROVE  IInv'
<1>1. dbs[d] \in Tables /\ file' \in Tables \cup {NULL} /\ "import" \in Functions /\ TypeOK
  BY DEF IInv, TypeOK, ImportCsv, Functions
<1>2. EngineAnswer(EngineImport(dbs[d], found))
  BY <1>1, OtherEngineTypes
<1> QED BY <1>1, <1>2, CallInv DEF ImportCsv

LEMMA SaveInv ==
    ASSUME IInv, NEW t \in Callers, NEW d \in Dbs, NEW writable \in BOOLEAN, NEW out,
           Save(t, d, writable, out)
    PROVE  IInv'
<1>1. dbs[d] \in Tables /\ file' \in Tables \cup {NULL} /\ "save" \in Functions /\ TypeOK
  BY DEF IInv, TypeOK, Save, Functions
<1> DEFINE a == IF writable THEN Answer(<< >>, dbs[d])
                ELSE MakeError("cannot open file for writing", dbs[d])
<1>2. EngineAnswer(a)
  BY <1>1, OtherEngineTypes
<1>3. Call(t, "save", d, a, out)
  BY DEF Save
<1> HIDE DEF a
<1> QED BY <1>1, <1>2, <1>3, CallInv

LEMMA LoadInv ==
    ASSUME IInv, NEW t \in Callers, NEW d \in Dbs, NEW out, Load(t, d, out)
    PROVE  IInv'
<1>1. dbs[d] \in Tables /\ file' \in Tables \cup {NULL} /\ "load" \in Functions /\ TypeOK
  BY DEF IInv, TypeOK, Load, Functions
<1>2. EngineAnswer(EngineLoad(dbs[d]))
  BY <1>1, OtherEngineTypes
<1> QED BY <1>1, <1>2, CallInv DEF Load

(* A new result stands before its first row.                               *)
LEMMA NewResultType ==
    ASSUME NEW ok \in BOOLEAN, NEW rows \in Seq(Rows), ok = TRUE \/ rows = << >>,
           NEW a, a.ok = ok, a.rows = rows
    PROVE  /\ NewResult(a) \in ResultType
           /\ NewResult(a).cursor \in -1..Len(NewResult(a).rows)
           /\ CursorAt(NewResult(a), rows, << >>, FALSE)
<1> DEFINE res == NewResult(a)
<1>1. res.ok = ok /\ res.rows = rows /\ res.cursor = -1
  BY DEF NewResult
<1>2. res \in ResultType
  <2>1. <<"chars", "">> \in Texts
    BY DEF Texts
  <2>2. res = [ok |-> ok, rows |-> rows, cursor |-> -1, textScratch |-> <<"chars", "">>]
    BY DEF NewResult
  <2>3. -1 \in Int
    OBVIOUS
  <2> HIDE DEF res
  <2> QED BY <2>1, <2>2, <2>3, Zenon DEF ResultType
<1>3. << >> \in Seq(Rows) /\ Len(<< >>) = 0 /\ Len(rows) \in Nat
  BY EmptySeq, LenProperties
<1>4. res.cursor \in -1..Len(res.rows)
  BY <1>1, <1>3
<1>5. CursorAt(res, rows, << >>, FALSE)
  BY <1>1, <1>3 DEF CursorAt
<1> QED BY <1>2, <1>4, <1>5

LEMMA NewResultInv ==
    ASSUME IInv, UNCHANGED <<err, file>>, dbs' \in [Dbs -> Tables \cup {NULL}],
           NEW r \in Results, NEW res \in ResultType, NEW answer \in Seq(Rows),
           res.cursor \in -1..Len(res.rows), CursorAt(res, answer, << >>, FALSE),
           results' = [results EXCEPT ![r] = res], Remember(r, answer, NULL)
    PROVE  IInv'
<1>1. << >> \in Seq(Rows)
  BY EmptySeq
<1> QED BY <1>1, OneResult DEF Remember

LEMMA QueryInv ==
    ASSUME IInv, NEW d \in Dbs \cup {NULL}, NEW sql \in Sql \cup {NULL}, NEW r \in Results,
           Query(d, sql, r)
    PROVE  IInv'
<1>1. CASE d = NULL \/ sql = NULL
  <2> DEFINE a == MakeError("null db or sql", NoTable)
  <2>1. a.ok \in BOOLEAN /\ a.rows = << >> /\ a.rows \in Seq(Rows)
    BY EmptySeq DEF MakeError
  <2>2. dbs' \in [Dbs -> Tables \cup {NULL}]
    BY <1>1 DEF Query, IInv, TypeOK
  <2>3. results' = [results EXCEPT ![r] = NewResult(a)] /\ Remember(r, << >>, NULL) /\ UNCHANGED <<err, file>>
    BY <1>1 DEF Query
  <2> HIDE DEF a
  <2> DEFINE res == NewResult(a)
  <2>4. /\ res \in ResultType /\ res.cursor \in -1..Len(res.rows)
        /\ CursorAt(res, << >>, << >>, FALSE) /\ << >> \in Seq(Rows)
    BY <2>1, NewResultType, Zenon
  <2>5. results' = [results EXCEPT ![r] = res]
    BY <2>3
  <2> HIDE DEF res
  <2> QED BY <2>2, <2>3, <2>4, <2>5, NewResultInv
<1>2. CASE d # NULL /\ sql # NULL
  <2> DEFINE a == EngineQuery(dbs[d], sql)
             answer == IF sql[1] = "select" THEN dbs[d][2] ELSE << >>
  <2>1. d \in Dbs /\ sql \in Sql
    BY <1>2
  <2>2. dbs[d] \in Tables
    BY <1>2, <2>1 DEF Query, IInv, TypeOK
  <2>3. EngineAnswer(a) /\ a.rows = answer
    BY <2>1, <2>2, EngineQueryType
  <2>4. /\ Len(a.table[2]) <= MaxRows
        /\ results' = [results EXCEPT ![r] = NewResult(a)]
        /\ dbs' = [dbs EXCEPT ![d] = a.table]
        /\ Remember(r, answer, NULL)
        /\ UNCHANGED <<err, file>>
    BY <1>2 DEF Query
  <2> HIDE DEF a, answer
  <2>5. dbs' \in [Dbs -> Tables \cup {NULL}]
    BY <2>1, <2>3, <2>4 DEF EngineAnswer, IInv, TypeOK
  <2> DEFINE res == NewResult(a)
  <2>6. /\ res \in ResultType /\ res.cursor \in -1..Len(res.rows)
        /\ CursorAt(res, answer, << >>, FALSE) /\ answer \in Seq(Rows)
    <3>1. a.ok \in BOOLEAN /\ a.rows \in Seq(Rows) /\ (a.ok = TRUE \/ a.rows = << >>)
      BY <2>3 DEF EngineAnswer
    <3> QED BY <2>3, <3>1, NewResultType, Zenon
  <2>7. results' = [results EXCEPT ![r] = res]
    BY <2>4
  <2> HIDE DEF res
  <2> QED BY <2>4, <2>5, <2>6, <2>7, NewResultInv
<1> QED BY <1>1, <1>2

(* A result in use: its parts, and the update that leaves a part as it is. *)
LEMMA ResultInUse ==
    ASSUME IInv, NEW r \in Results, results[r] # NULL
    PROVE  /\ results[r] \in ResultType
           /\ results[r].cursor \in -1..Len(results[r].rows)
           /\ results[r].rows \in Seq(Rows) /\ Len(results[r].rows) \in Nat
           /\ results[r].ok \in BOOLEAN
           /\ CursorAt(results[r], snapshot[r], seen[r], ended[r])
           /\ lent[r] # NULL => results[r].textScratch = lent[r]
           /\ snapshot[r] \in Seq(Rows) /\ seen[r] \in Seq(Rows) /\ ended[r] \in BOOLEAN
           /\ lent[r] \in Texts \cup {NULL}
           /\ snapshot = [snapshot EXCEPT ![r] = snapshot[r]]
           /\ seen = [seen EXCEPT ![r] = seen[r]]
           /\ ended = [ended EXCEPT ![r] = ended[r]]
           /\ lent = [lent EXCEPT ![r] = lent[r]]
<1>1. results[r] \in ResultType
  BY DEF IInv, TypeOK
<1>2. results[r].rows \in Seq(Rows) /\ results[r].ok \in BOOLEAN
  BY <1>1 DEF ResultType
<1>3. Len(results[r].rows) \in Nat /\ results[r].cursor \in -1..Len(results[r].rows)
  BY <1>2, LenProperties DEF IInv, TypeOK
<1>4. /\ CursorAt(results[r], snapshot[r], seen[r], ended[r])
      /\ lent[r] # NULL => results[r].textScratch = lent[r]
  BY DEF IInv, CursorInv, ScratchInv
<1>5. /\ snapshot[r] \in Seq(Rows) /\ seen[r] \in Seq(Rows)
      /\ ended[r] \in BOOLEAN /\ lent[r] \in Texts \cup {NULL}
  BY DEF IInv, TypeOK
<1>6. /\ snapshot = [snapshot EXCEPT ![r] = snapshot[r]]
      /\ seen = [seen EXCEPT ![r] = seen[r]]
      /\ lent = [lent EXCEPT ![r] = lent[r]]
  BY DEF IInv, TypeOK
<1>7. ended = [ended EXCEPT ![r] = ended[r]]
  BY DEF IInv, TypeOK
<1> QED BY <1>1, <1>2, <1>3, <1>4, <1>5, <1>6, <1>7

LEMMA SameDbs == IInv /\ UNCHANGED dbs => dbs' \in [Dbs -> Tables \cup {NULL}]
  BY DEF IInv, TypeOK

LEMMA ResultNextInv ==
    ASSUME IInv, NEW r \in Results, ResultNext(r)
    PROVE  IInv'
<1> DEFINE old == results[r]
           res == Advance(old)
           row == res.ok /\ res.cursor < Len(res.rows)
           read == IF row THEN Append(seen[r], ReadRow(res)) ELSE seen[r]
<1>1. old # NULL
  BY DEF ResultNext
<1>2. /\ old \in ResultType /\ old.cursor \in -1..Len(old.rows)
      /\ old.rows \in Seq(Rows) /\ Len(old.rows) \in Nat /\ old.ok \in BOOLEAN
      /\ CursorAt(old, snapshot[r], seen[r], ended[r])
      /\ lent[r] # NULL => old.textScratch = lent[r]
      /\ lent[r] \in Texts \cup {NULL}
      /\ snapshot[r] \in Seq(Rows) /\ seen[r] \in Seq(Rows)
      /\ snapshot = [snapshot EXCEPT ![r] = snapshot[r]]
      /\ lent = [lent EXCEPT ![r] = lent[r]]
  BY <1>1, ResultInUse
<1>3. /\ results' = [results EXCEPT ![r] = res]
      /\ ended' = [ended EXCEPT ![r] = ~ row]
      /\ lent' = [lent EXCEPT ![r] = NULL]
      /\ UNCHANGED <<dbs, err, file, snapshot, told>>
  BY DEF ResultNext
<1>4. seen' = [seen EXCEPT ![r] = read]
  BY <1>1, ResultInUse DEF ResultNext
<1> HIDE DEF old
<1>5. /\ res \in ResultType /\ res.rows = old.rows /\ res.ok = old.ok
      /\ res.textScratch = old.textScratch
      /\ res.cursor = IF ~ old.ok THEN old.cursor
                      ELSE IF old.cursor + 1 >= Len(old.rows) THEN Len(old.rows) ELSE old.cursor + 1
  BY <1>2 DEF Advance, ResultType
<1>6. row \in BOOLEAN /\ (~ row) \in BOOLEAN
  OBVIOUS
<1> HIDE DEF res
<1>7. CASE row
  <2>1. old.ok = TRUE /\ res.cursor = old.cursor + 1 /\ res.cursor \in 0..Len(old.rows) - 1
    BY <1>2, <1>5, <1>7
  <2>2. HasCurrentRow(res)
    BY <1>5, <2>1, <1>2, ResultNotNull DEF HasCurrentRow
  <2>3. ReadRow(res) = old.rows[res.cursor + 1] /\ ReadRow(res) \in Rows
    BY <1>5, <2>2, ReadRowIsRow, CurrentRow
  <2>4. Len(seen[r]) = res.cursor
    BY <1>2, <2>1 DEF CursorAt
  <2>5. /\ read \in Seq(Rows) /\ Len(read) = res.cursor + 1
        /\ \A i \in 1..Len(seen[r]) : read[i] = seen[r][i]
        /\ read[res.cursor + 1] = old.rows[res.cursor + 1]
    BY <1>2, <1>7, <2>1, <2>3, <2>4, AppendProperties
  <2> HIDE DEF read
  <2>6. ASSUME NEW i \in 1..Len(read)
        PROVE  read[i] = old.rows[i]
    <3>1. i \in 1..Len(seen[r]) \/ i = res.cursor + 1
      BY <2>1, <2>4, <2>5
    <3> QED BY <1>2, <2>5, <3>1 DEF CursorAt
  <2>7. CursorAt(res, snapshot[r], read, ~ row)
    BY <1>2, <1>5, <1>7, <2>1, <2>5, <2>6 DEF CursorAt
  <2>8. res.cursor \in -1..Len(res.rows)
    BY <1>2, <1>5, <2>1
  <2> HIDE DEF row
  <2> QED BY <1>2, <1>3, <1>4, <1>5, <1>6, <2>5, <2>7, <2>8, SameDbs, OneResult
<1>8. CASE ~ row
  <2>1. read = seen[r]
    BY <1>8
  <2>2. old.ok = TRUE => res.cursor = Len(old.rows) /\ Len(seen[r]) = Len(old.rows)
    BY <1>2, <1>5, <1>8 DEF CursorAt
  <2>3. old.ok = FALSE => res.cursor = old.cursor
    BY <1>5
  <2>4. CursorAt(res, snapshot[r], read, ~ row)
    BY <1>2, <1>5, <1>8, <2>1, <2>2, <2>3 DEF CursorAt
  <2>5. res.cursor \in -1..Len(res.rows)
    BY <1>2, <1>5, <2>2, <2>3
  <2> HIDE DEF row, read
  <2> QED BY <1>2, <1>3, <1>4, <1>5, <1>6, <2>1, <2>4, <2>5, SameDbs, OneResult
<1> QED BY <1>7, <1>8

LEMMA ResultResetInv ==
    ASSUME IInv, NEW r \in Results, ResultReset(r)
    PROVE  IInv'
<1> DEFINE old == results[r]
           res == [old EXCEPT !.cursor = -1]
<1>1. old # NULL
  BY DEF ResultReset
<1>2. /\ old \in ResultType /\ old.rows \in Seq(Rows) /\ Len(old.rows) \in Nat
      /\ CursorAt(old, snapshot[r], seen[r], ended[r])
      /\ lent[r] # NULL => old.textScratch = lent[r]
      /\ lent[r] \in Texts \cup {NULL}
      /\ snapshot[r] \in Seq(Rows)
  BY <1>1, ResultInUse
<1>3. results' = [results EXCEPT ![r] = res]
  BY DEF ResultReset, IInv, TypeOK
<1>4. Remember(r, snapshot[r], lent[r]) /\ UNCHANGED <<dbs, err, file>>
  BY DEF ResultReset
<1> HIDE DEF old
<1>5. /\ res \in ResultType /\ res.rows = old.rows /\ res.ok = old.ok
      /\ res.textScratch = old.textScratch /\ res.cursor = -1
  BY <1>2 DEF ResultType
<1>6. << >> \in Seq(Rows) /\ Len(<< >>) = 0
  BY EmptySeq
<1>7. CursorAt(res, snapshot[r], << >>, FALSE)
  BY <1>2, <1>5, <1>6 DEF CursorAt
<1>8. res.cursor \in -1..Len(res.rows)
  BY <1>2, <1>5
<1> HIDE DEF res
<1> QED BY <1>2, <1>3, <1>4, <1>5, <1>6, <1>7, <1>8, SameDbs, OneResult DEF Remember

LEMMA GetTextInv ==
    ASSUME IInv, NEW r \in Results, NEW col \in 0..Width, GetText(r, col)
    PROVE  IInv'
<1> DEFINE old == results[r]
           v == CurrentValue(old, col)
           res == [old EXCEPT !.textScratch = AsString(v)]
<1>1. old # NULL
  BY DEF GetText
<1>2. /\ old \in ResultType /\ old.cursor \in -1..Len(old.rows)
      /\ CursorAt(old, snapshot[r], seen[r], ended[r])
      /\ snapshot[r] \in Seq(Rows) /\ seen[r] \in Seq(Rows) /\ ended[r] \in BOOLEAN
      /\ snapshot = [snapshot EXCEPT ![r] = snapshot[r]]
      /\ seen = [seen EXCEPT ![r] = seen[r]]
      /\ ended = [ended EXCEPT ![r] = ended[r]]
  BY <1>1, ResultInUse
<1>3. UNCHANGED <<dbs, err, file, snapshot, seen, ended, told>>
  BY DEF GetText
<1>4. CASE v \in {NoValue, Null}
  <2>1. UNCHANGED <<results, lent>>
    BY <1>4 DEF GetText
  <2>2. file' \in Tables \cup {NULL}
    BY <1>3 DEF IInv, TypeOK
  <2> QED BY <1>3, <2>1, <2>2, SameDbs, ErrorsUntouched, ResultsUntouched
<1>5. CASE v \notin {NoValue, Null}
  <2>1. results' = [results EXCEPT ![r] = res] /\ lent' = [lent EXCEPT ![r] = AsString(v)]
    BY <1>5 DEF GetText, Scratch, IInv, TypeOK
  <2>2. col \in Nat
    BY Bounds
  <2> HIDE DEF old
  <2>3. HasCurrentRow(old) /\ col < Width
    BY <1>2, <1>5, <2>2, CurrentRow DEF CurrentValue
  <2>4. v \in Cells
    <3>1. old.rows[old.cursor + 1] \in Rows /\ v = old.rows[old.cursor + 1][col + 1]
      BY <1>2, <2>2, <2>3, CurrentRow
    <3>2. col + 1 \in 1..Width
      BY <2>2, <2>3, Bounds
    <3> QED BY <3>1, <3>2, RowType
  <2>5. AsString(v) \in Texts
    <3> HIDE DEF v
    <3>1. CASE v[1] = "text"
      <4>1. v[2] \in STRING
        BY <2>4, <3>1, CellKinds DEF Null
      <4>2. AsString(v) = <<"chars", v[2]>>
        BY <3>1 DEF AsString
      <4>3. \A s \in STRING : <<"chars", s>> \in Texts
        BY Zenon DEF Texts
      <4> QED BY <4>1, <4>2, <4>3
    <3>2. CASE v[1] # "text"
      BY <2>4, <3>2 DEF AsString, Texts
    <3> QED BY <3>1, <3>2
  <2> HIDE DEF v
  <2>6. /\ res \in ResultType /\ res.rows = old.rows /\ res.ok = old.ok
        /\ res.textScratch = AsString(v) /\ res.cursor = old.cursor
    BY <1>2, <2>5 DEF ResultType
  <2>7. CursorAt(res, snapshot[r], seen[r], ended[r]) /\ res.cursor \in -1..Len(res.rows)
    BY <1>2, <2>6 DEF CursorAt
  <2> HIDE DEF res
  <2> DEFINE text == AsString(v)
             answer == snapshot[r]
             read == seen[r]
             end == ended[r]
  <2>8. text \in Texts \cup {NULL} /\ (text # NULL => res.textScratch = text)
    BY <2>5, <2>6
  <2>9. /\ lent' = [lent EXCEPT ![r] = text]
        /\ snapshot' = [snapshot EXCEPT ![r] = answer]
        /\ seen' = [seen EXCEPT ![r] = read]
        /\ ended' = [ended EXCEPT ![r] = end]
    BY <1>2, <1>3, <2>1
  <2>10. answer \in Seq(Rows) /\ read \in Seq(Rows) /\ end \in BOOLEAN /\ CursorAt(res, answer, read, end)
    BY <1>2, <2>7
  <2>11. UNCHANGED <<err, told, file>> /\ UNCHANGED dbs
    BY <1>3
  <2> HIDE DEF text, answer, read, end
  <2>12. dbs' \in [Dbs -> Tables \cup {NULL}]
    BY <2>11, SameDbs
  <2> HIDE DEF v
  <2>13. CASE end = TRUE
    BY <2>1, <2>6, <2>7, <2>8, <2>9, <2>10, <2>11, <2>12, <2>13, OneResult
  <2>14. CASE end = FALSE
    BY <2>1, <2>6, <2>7, <2>8, <2>9, <2>10, <2>11, <2>12, <2>14, OneResult
  <2> QED BY <2>10, <2>13, <2>14
<1> QED BY <1>4, <1>5

LEMMA ResultFreeInv ==
    ASSUME IInv, NEW r \in Results, ResultFree(r)
    PROVE  IInv'
<1>1. << >> \in Seq(Rows)
  BY EmptySeq
<1>2. /\ results' \in [Results -> ResultType \cup {NULL}]
      /\ {snapshot', seen'} \subseteq [Results -> Seq(Rows)]
      /\ ended' \in [Results -> BOOLEAN]
      /\ lent' \in [Results -> Texts \cup {NULL}]
  BY <1>1 DEF IInv, TypeOK, ResultFree, Remember
<1>3. results'[r] = NULL /\ lent'[r] = NULL
  BY DEF IInv, TypeOK, ResultFree, Remember
<1>4. ASSUME NEW q \in Results, q # r
      PROVE  /\ results'[q] = results[q] /\ snapshot'[q] = snapshot[q] /\ seen'[q] = seen[q]
             /\ ended'[q] = ended[q] /\ lent'[q] = lent[q]
  BY <1>4 DEF IInv, TypeOK, ResultFree, Remember
<1>5. UNCHANGED <<err, told, dbs, file>>
  BY DEF ResultFree, Remember
<1>6. TypeOK'
  BY <1>2, <1>3, <1>4, <1>5 DEF IInv, TypeOK
<1>7. CursorInv' /\ ScratchInv'
  BY <1>3, <1>4 DEF IInv, CursorInv, ScratchInv
<1> QED BY <1>5, <1>6, <1>7, ErrorsUntouched DEF IInv

LEMMA NextInv ==
    ASSUME IInv, [Next]_vars
    PROVE  IInv'
<1>1. CASE UNCHANGED vars
  <2>1. /\ UNCHANGED <<results, snapshot, seen, ended, lent>> /\ UNCHANGED <<err, told>>
        /\ UNCHANGED dbs /\ UNCHANGED file
    BY <1>1 DEF vars, client
  <2>2. file' \in Tables \cup {NULL}
    BY <2>1 DEF IInv, TypeOK
  <2> QED BY <2>1, <2>2, SameDbs, ErrorsUntouched, ResultsUntouched
<1>2. ASSUME NEW d \in Dbs, Open(d) \/ Close(d)
      PROVE  IInv'
  BY <1>2, OpenCloseInv
<1>3. ASSUME NEW d \in Dbs \cup {NULL}, NEW sql \in Sql \cup {NULL}, NEW r \in Results, Query(d, sql, r)
      PROVE  IInv'
  BY <1>3, QueryInv
<1>4. ASSUME NEW t \in Callers, NEW out \in BOOLEAN, NEW d \in Dbs,
             \/ \E sql \in Sql : Exec(t, d, sql, out)
             \/ \E works \in BOOLEAN : ImportCsv(t, d, works, out) \/ Save(t, d, works, out)
             \/ Load(t, d, out)
      PROVE  IInv'
  BY <1>4, ExecInv, ImportInv, SaveInv, LoadInv
<1>5. ASSUME NEW r \in Results, ResultNext(r) \/ ResultReset(r) \/ ResultFree(r)
      PROVE  IInv'
  BY <1>5, ResultNextInv, ResultResetInv, ResultFreeInv
<1>6. ASSUME NEW r \in Results, NEW col \in 0..Width, GetText(r, col)
      PROVE  IInv'
  BY <1>6, GetTextInv
<1> QED BY <1>1, <1>2, <1>3, <1>4, <1>5, <1>6 DEF Next

(* The invariant of the C API: types, where every cursor is, and what has  *)
(* been read and lent, in every reachable state.                           *)
THEOREM Invariance == Spec => []IInv
  BY InitInv, NextInv, PTL DEF Spec

(* Rows are read from a result in the order of the answer, each once, and  *)
(* all of them before the end is reported, whatever other calls come in    *)
(* between.                                                                *)
THEOREM AnswersAreRead == Spec => []ReadsTheAnswer
<1>1. IInv => ReadsTheAnswer
  <2> SUFFICES ASSUME IInv, NEW r \in Results, results[r] # NULL
               PROVE  /\ Len(seen[r]) <= Len(snapshot[r])
                      /\ seen[r] = SubSeq(snapshot[r], 1, Len(seen[r]))
                      /\ ended[r] => seen[r] = snapshot[r]
    BY DEF ReadsTheAnswer
  <2> DEFINE res == results[r]
  <2>1. /\ res.cursor \in -1..Len(res.rows) /\ Len(res.rows) \in Nat /\ res.rows \in Seq(Rows)
        /\ CursorAt(res, snapshot[r], seen[r], ended[r])
        /\ snapshot[r] \in Seq(Rows) /\ seen[r] \in Seq(Rows)
        /\ res.ok \in BOOLEAN
    BY ResultInUse
  <2> HIDE DEF res
  <2>2. /\ Len(seen[r]) <= Len(snapshot[r])
        /\ \A i \in 1..Len(seen[r]) : seen[r][i] = snapshot[r][i]
    BY <2>1, EmptySeq DEF CursorAt
  <2>3. seen[r] = SubSeq(snapshot[r], 1, Len(seen[r]))
    <3>1. Len(seen[r]) \in Nat /\ Len(snapshot[r]) \in Nat
      BY <2>1, LenProperties
    <3> DEFINE n == Len(seen[r])
               sub == SubSeq(snapshot[r], 1, n)
    <3>2. sub = [i \in 1..n |-> snapshot[r][i]]
      BY <2>1, <2>2, <3>1
    <3>3. seen[r] = [i \in 1..n |-> seen[r][i]]
      BY <2>1, <3>1, LenProperties
    <3> HIDE DEF n, sub
    <3>4. \A i \in 1..n : seen[r][i] = snapshot[r][i]
      BY <2>2 DEF n
    <3>5. sub = seen[r]
      BY <3>2, <3>3, <3>4
    <3> QED BY <3>5 DEF sub, n
  <2>4. ended[r] => Len(seen[r]) = Len(snapshot[r])
    BY <2>1, EmptySeq DEF CursorAt
  <2>5. ended[r] => seen[r] = snapshot[r]
    BY <2>1, <2>2, <2>4, SeqEqual
  <2> QED BY <2>2, <2>3, <2>5
<1> QED BY <1>1, Invariance, PTL

(* An error message stays until the same function fails again in the same  *)
(* thread.                                                                 *)
THEOREM ErrorsStay == Spec => []LentErrorsStay
<1>1. IInv => LentErrorsStay
  BY DEF IInv
<1> QED BY <1>1, Invariance, PTL

(* What the getters make of a value that is not a text.                    *)
LEMMA Conversions ==
    ASSUME NEW v \in Cells, v[1] # "text",
           NEW h, h = IF v[1] = "double" THEN v[2] ELSE 2 * v[2]
    PROVE  DoubleOf(v) = h /\ Whole(h, IntOf(v)) /\ BoolOf(v) = IF h = 0 THEN 0 ELSE 1
<1>1. CASE v = Null
  <2>1. h = 0 /\ DoubleOf(v) = 0 /\ IntOf(v) = 0 /\ BoolOf(v) = 0
    BY <1>1 DEF Null, DoubleOf, IntOf, BoolOf
  <2> QED BY <2>1 DEF Whole
<1>2. CASE v # Null /\ v[1] = "double" /\ v[2] \in Int
  <2>1. h \in Int /\ DoubleOf(v) = h /\ IntOf(v) = Truncate(h) /\ BoolOf(v) = IF h # 0 THEN 1 ELSE 0
    BY <1>2 DEF DoubleOf, IntOf, BoolOf, ToDouble
  <2>2. Whole(h, Truncate(h))
    BY <2>1 DEF Whole, Truncate
  <2> QED BY <2>1, <2>2
<1>3. CASE v # Null /\ v[1] = "int" /\ v[2] \in Int
  <2>1. h = 2 * v[2] /\ DoubleOf(v) = h /\ IntOf(v) = v[2] /\ BoolOf(v) = IF h # 0 THEN 1 ELSE 0
    BY <1>3 DEF DoubleOf, IntOf, BoolOf, ToDouble
  <2>2. Whole(h, v[2])
    BY <1>3, <2>1 DEF Whole
  <2> QED BY <2>1, <2>2
<1>4. CASE v # Null /\ v[1] = "bool" /\ v[2] \in {0, 1}
  <2>1. h = 2 * v[2] /\ DoubleOf(v) = h /\ IntOf(v) = Truncate(h) /\ BoolOf(v) = v[2]
    BY <1>4 DEF DoubleOf, IntOf, BoolOf, ToDouble
  <2>2. Truncate(h) = v[2]
    BY <1>4, <2>1 DEF Truncate
  <2> QED BY <1>4, <2>1, <2>2 DEF Whole
<1> QED BY <1>1, <1>2, <1>3, <1>4, CellKinds

(* The row the caller has read last is the row of the cursor.              *)
LEMMA CursorIsOnRow ==
    ASSUME IInv, NEW r \in Results, results[r] # NULL
    PROVE  /\ HasCurrentRow(results[r]) <=> seen[r] # << >> /\ ~ ended[r]
           /\ HasCurrentRow(results[r]) =>
                 seen[r][Len(seen[r])] = results[r].rows[results[r].cursor + 1]
<1> DEFINE res == results[r]
<1>1. /\ res.cursor \in -1..Len(res.rows) /\ Len(res.rows) \in Nat /\ res.rows \in Seq(Rows)
      /\ CursorAt(res, snapshot[r], seen[r], ended[r])
      /\ seen[r] \in Seq(Rows) /\ res.ok \in BOOLEAN /\ ended[r] \in BOOLEAN
  BY ResultInUse
<1> HIDE DEF res
<1>2. (seen[r] = << >> <=> Len(seen[r]) = 0) /\ Len(seen[r]) \in Nat
  BY <1>1, EmptySeq, LenProperties
<1>3. HasCurrentRow(res) <=> res.cursor >= 0 /\ res.cursor < Len(res.rows)
  BY DEF HasCurrentRow, res
<1>4. Len(seen[r]) = IF res.cursor = Len(res.rows) THEN res.cursor ELSE res.cursor + 1
  BY <1>1 DEF CursorAt
<1>5. CASE res.ok = TRUE
  <2>1. ended[r] <=> res.cursor = Len(res.rows)
    BY <1>1, <1>5 DEF CursorAt
  <2>2. HasCurrentRow(res) <=> seen[r] # << >> /\ ~ ended[r]
    BY <1>1, <1>2, <1>3, <1>4, <2>1
  <2>3. HasCurrentRow(res) => Len(seen[r]) = res.cursor + 1 /\ Len(seen[r]) \in 1..Len(seen[r])
    BY <1>1, <1>2, <1>3, <1>4
  <2>4. HasCurrentRow(res) => seen[r][Len(seen[r])] = res.rows[res.cursor + 1]
    BY <1>1, <2>3 DEF CursorAt
  <2> QED BY <2>2, <2>4 DEF res
<1>6. CASE res.ok = FALSE
  <2>1. res.cursor = -1 /\ Len(res.rows) = 0
    BY <1>1, <1>6, EmptySeq DEF CursorAt
  <2>2. ~ HasCurrentRow(res) /\ seen[r] = << >>
    BY <1>2, <1>3, <1>4, <2>1
  <2> QED BY <2>2 DEF res
<1> QED BY <1>1, <1>5, <1>6

(* What the getters have to answer for a cell with value v, h halves.      *)
CellAnswered(int, double, bool, v, h) ==
    /\ v[1] = "text" => int.status = "ERROR" /\ double.status = "ERROR" /\ bool.status = "ERROR"
    /\ v[1] # "text" =>
          /\ int.status = "OK" /\ double.status = "OK" /\ bool.status = "OK"
          /\ double.value = h
          /\ Whole(h, int.value)
          /\ bool.value = IF h = 0 THEN 0 ELSE 1

LEMMA CellGetters ==
    ASSUME IInv, NEW r \in Results, NEW col \in 0..Width, results[r] # NULL,
           HasCurrentRow(results[r]), col < Width,
           NEW v, v = seen[r][Len(seen[r])][col + 1],
           NEW h, h = IF v[1] = "double" THEN v[2] ELSE 2 * v[2]
    PROVE  CellAnswered(GetInt(results[r], col, TRUE), GetDouble(results[r], col, TRUE),
                        GetBool(results[r], col, TRUE), v, h)
<1>1. results[r] \in ResultType /\ col \in Nat /\ col + 1 \in 1..Width
  BY ResultInUse, Bounds
<1>2. v = results[r].rows[results[r].cursor + 1][col + 1]
  BY CursorIsOnRow
<1>3. CurrentValue(results[r], col) = v /\ results[r].rows[results[r].cursor + 1] \in Rows
  BY <1>1, <1>2, CurrentRow
<1>4. v \in Cells
  BY <1>1, <1>2, <1>3, RowType
<1>5. v[1] # "text" => DoubleOf(v) = h /\ Whole(h, IntOf(v)) /\ BoolOf(v) = IF h = 0 THEN 0 ELSE 1
  BY <1>4, Conversions
<1> QED BY <1>1, <1>3, <1>4, <1>5, GetterAnswers DEF CellAnswered

(* The getters keep what litequery.h promises of them, whatever the types  *)
(* of the row, wherever the cursor is, and after any calls: a status for   *)
(* every misuse, the value as far as the type holds it, never a number     *)
(* made of a text.                                                         *)
THEOREM GettersAnswer == Spec => []GettersKeepContract
<1>1. IInv => GettersKeepContract
  <2> SUFFICES ASSUME IInv
               PROVE  GettersKeepContract
    OBVIOUS
  <2>1. ASSUME NEW r \in Results, NEW col \in 0..Width, results[r] # NULL,
               ~ HasCurrentRow(results[r])
        PROVE  /\ GetInt(results[r], col, TRUE).status = "ERROR"
               /\ GetDouble(results[r], col, TRUE).status = "ERROR"
               /\ GetBool(results[r], col, TRUE).status = "ERROR"
    BY <2>1 DEF GetInt, GetDouble, GetBool, Getter, GetterStatus
  <2>2. ASSUME NEW r \in Results, NEW col \in 0..Width, results[r] # NULL,
               HasCurrentRow(results[r]), col >= Width
        PROVE  /\ GetInt(results[r], col, TRUE).status = "RANGE"
               /\ GetDouble(results[r], col, TRUE).status = "RANGE"
               /\ GetBool(results[r], col, TRUE).status = "RANGE"
    <3>1. CurrentValue(results[r], col) = NoValue
      BY <2>2, ResultInUse, CurrentRow, Bounds
    <3>2. GetterStatus(results[r], col, TRUE) = "RANGE"
      BY <2>2, <3>1 DEF GetterStatus
    <3> QED BY <3>2 DEF GetInt, GetDouble, GetBool, Getter
  <2> SUFFICES ASSUME NEW r \in Results, NEW col \in 0..Width, results[r] # NULL
               PROVE  GettersKeepContract!(r, col)!2
    BY DEF GettersKeepContract
  <2> DEFINE v == seen[r][Len(seen[r])][col + 1]
             h == IF v[1] = "double" THEN v[2] ELSE 2 * v[2]
             int == GetInt(results[r], col, TRUE)
             double == GetDouble(results[r], col, TRUE)
             bool == GetBool(results[r], col, TRUE)
             current == seen[r] # << >> /\ ~ ended[r]
  <2>4. HasCurrentRow(results[r]) <=> current
    BY CursorIsOnRow
  <2>5. ~ current => int.status = "ERROR" /\ double.status = "ERROR" /\ bool.status = "ERROR"
    BY <2>1, <2>4
  <2>6. current /\ col >= Width =>
          int.status = "RANGE" /\ double.status = "RANGE" /\ bool.status = "RANGE"
    BY <2>2, <2>4
  <2>7. current /\ col < Width => CellAnswered(int, double, bool, v, h)
    BY <2>4, CellGetters
  <2>8. col >= Width \/ col < Width
    BY Bounds
  <2> HIDE DEF v, h, int, double, bool, current
  <2> SUFFICES CASE ~ current -> {int.status, double.status, bool.status} = {"ERROR"}
                 [] current /\ col >= Width -> {int.status, double.status, bool.status} = {"RANGE"}
                 [] current /\ col < Width ->
                      IF v[1] = "text" THEN {int.status, double.status, bool.status} = {"ERROR"}
                      ELSE /\ {int.status, double.status, bool.status} = {"OK"}
                           /\ double.value = h
                           /\ Whole(h, int.value)
                           /\ bool.value = IF h = 0 THEN 0 ELSE 1
    BY DEF v, h, int, double, bool, current
  <2>9. CASE ~ current
    BY <2>5, <2>9
  <2>10. CASE current /\ col >= Width
    <3>1. ~ (col < Width)
      BY <2>10, Bounds
    <3> QED BY <2>6, <2>10, <3>1
  <2>11. CASE current /\ col < Width
    <3>1. ~ (col >= Width)
      BY <2>11, Bounds
    <3> QED BY <2>7, <2>11, <3>1 DEF CellAnswered
  <2> QED BY <2>8, <2>9, <2>10, <2>11
<1> QED BY <1>1, Invariance, PTL
=============================================================================
