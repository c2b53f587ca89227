-------------------------------- MODULE CApi --------------------------------
(***************************************************************************)
(* The C API (include/litequery/litequery.h, src/api/c_api.cpp): database  *)
(* and result handles, the row cursor and the getters of a result, and the *)
(* strings the library lends to its caller: the text of a cell lives in    *)
(* the result's textScratch, an error message in a thread_local of the     *)
(* function that failed.                                                   *)
(*                                                                         *)
(* The caller keeps the header's rules: it uses no handle after closing or *)
(* freeing it and serialises the calls on a handle, so a call is one step. *)
(* The engine behind a handle (Database.tla, Persistence.tla, Csv.tla) is  *)
(* one table here; what matters of it is that it answers or fails.         *)
(*                                                                         *)
(* A value is <<kind, content>>, a double counted in halves.               *)
(***************************************************************************)
EXTENDS Integers, Sequences

CONSTANTS Callers,  \* threads of the caller
          Dbs,      \* lq_db handles it may open
          Results,  \* lq_result handles it may be given
          Rows,     \* rows its statements insert
          CsvRows,  \* the rows of the CSV file it imports
          Width,    \* columns of a row
          MaxRows,  \* bound on the rows of a table
          NULL      \* the null pointer

Null == <<"null", 0>>
Cells == {Null} \cup ({"int", "double"} \X Int) \cup ({"bool"} \X {0, 1}) \cup ({"text"} \X STRING)
Texts == {<<"chars", "">>} \cup ({"chars"} \X STRING) \cup ({"printed"} \X Cells)
ResultType == [ok : BOOLEAN, rows : Seq(Rows), cursor : Int, textScratch : Texts]
Messages == {"", "syntax error", "table exists", "no such table", "cannot open CSV file",
             "cannot open file for reading", "cannot open file for writing"}

ASSUME CApiAssumption ==
    /\ NULL \notin Dbs \cup Results \cup ResultType
    /\ Width \in Nat /\ MaxRows \in Nat
    /\ Rows \subseteq [1..Width -> Cells]
    /\ CsvRows \in Seq(Rows) /\ Len(CsvRows) <= MaxRows

VARIABLES dbs,       \* the table behind each handle, NULL for a handle not open
          results,   \* the lq_result of each handle, NULL for one not in use
          err,       \* the thread_local message of each function in each thread
          file,      \* the database file, NULL before the first save
          snapshot,  \* history: the rows a result has to show
          seen,      \* history: the rows read from it since it was rewound
          ended,     \* history: whether lq_result_next has returned 0 since
          lent,      \* history: the text each result has lent last, NULL if none
                     \* since lq_result_next
          told       \* history: the message it was lent in each thread

client == <<snapshot, seen, ended, lent, told>>
vars == <<dbs, results, err, file, client>>

NoValue == <<"nullptr", 0>>
NoTable == <<"no table", << >>>>
Table(rows) == <<"table", rows>>
Functions == {"exec", "import", "save", "load"}
Sql == {<<s>> : s \in {"create", "drop", "delete", "select", "syntax"}}
       \cup {<<"insert", row>> : row \in Rows}

-----------------------------------------------------------------------------
(* The engine: QueryResult, and the table a statement leaves.              *)
Answer(rows, table) == [ok |-> TRUE, rows |-> rows, error |-> "", table |-> table]
MakeError(cause, table) == [ok |-> FALSE, rows |-> << >>, error |-> cause, table |-> table]

(* Connection::query.                                                      *)
EngineQuery(table, sql) ==
    IF sql[1] = "syntax" THEN MakeError("syntax error", table)
    ELSE IF sql[1] = "create"
    THEN IF table = NoTable THEN Answer(<< >>, Table(<< >>)) ELSE MakeError("table exists", table)
    ELSE IF table = NoTable THEN MakeError("no such table", table)
    ELSE CASE sql[1] = "drop"   -> Answer(<< >>, NoTable)
           [] sql[1] = "delete" -> Answer(<< >>, Table(<< >>))
           [] sql[1] = "select" -> Answer(table[2], table)
           [] sql[1] = "insert" -> Answer(<< >>, Table(Append(table[2], sql[2])))

(* Connection::importCsv of the file, or of one that is missing.           *)
EngineImport(table, found) ==
    IF table # NoTable THEN MakeError("table exists", table)
    ELSE IF found THEN Answer(<< >>, Table(CsvRows))
    ELSE MakeError("cannot open CSV file", table)

(* Connection::loadDatabase: the file's table, if it has one, replaces the *)
(* one of that name.                                                       *)
EngineLoad(table) ==
    IF file = NULL THEN MakeError("cannot open file for reading", table)
    ELSE Answer(<< >>, IF file = NoTable THEN table ELSE file)

-----------------------------------------------------------------------------
(* Reading the current row of a result.                                    *)
HasCurrentRow(res) ==
    /\ res # NULL
    /\ res.cursor >= 0
    /\ res.cursor < Len(res.rows)

CurrentValue(res, col) ==
    IF HasCurrentRow(res) /\ col < Len(res.rows[res.cursor + 1])
    THEN res.rows[res.cursor + 1][col + 1]
    ELSE NoValue

TypeName == [bool |-> "BOOL", int |-> "INT", double |-> "DOUBLE", text |-> "TEXT"]

ColumnType(res, col) ==
    LET v == CurrentValue(res, col)
    IN IF v \in {NoValue, Null} THEN "NULL" ELSE TypeName[v[1]]

IsNull(res, col) == CurrentValue(res, col) \in {NoValue, Null}

(* Value::toDouble, in halves; it throws on a text.                        *)
ToDouble(v) == IF v[1] = "double" THEN v[2] ELSE 2 * v[2]

(* static_cast<int64_t> of a double.                                       *)
Truncate(halves) == IF halves < 0 THEN - ((- halves) \div 2) ELSE halves \div 2

(* Value::toString: every kind prints in a form of its own.                *)
AsString(v) == IF v[1] = "text" THEN <<"chars", v[2]>> ELSE <<"printed", v>>

(* What the typed getters return; an exception becomes LQ_ERROR.           *)
GetterStatus(res, col, out) ==
    CASE ~ out -> "MISUSE"
      [] out /\ ~ HasCurrentRow(res) -> "ERROR"
      [] OTHER -> LET v == CurrentValue(res, col)
                  IN IF v = NoValue THEN "RANGE" ELSE IF v[1] = "text" THEN "ERROR" ELSE "OK"

Getter(res, col, out, value) ==
    IF GetterStatus(res, col, out) # "OK" THEN [status |-> GetterStatus(res, col, out)]
    ELSE [status |-> "OK", value |-> value]

(* Mutant of GetInt: every value but an integer goes through toDouble, an  *)
(* SQL NULL too, where it throws.                                          *)
GetIntUnchecked(res, col, out) ==
    LET v == CurrentValue(res, col)
    IN IF v = Null THEN [status |-> "ERROR"]
       ELSE Getter(res, col, out, IF v[1] = "int" THEN v[2] ELSE Truncate(ToDouble(v)))

GetInt(res, col, out) ==
    LET v == CurrentValue(res, col)
    IN Getter(res, col, out, IF v = Null THEN 0
                             ELSE IF v[1] = "int" THEN v[2] ELSE Truncate(ToDouble(v)))

GetDouble(res, col, out) ==
    LET v == CurrentValue(res, col)
    IN Getter(res, col, out, IF v = Null THEN 0 ELSE ToDouble(v))

GetBool(res, col, out) ==
    LET v == CurrentValue(res, col)
    IN Getter(res, col, out, IF v = Null THEN 0
                             ELSE IF v[1] = "bool" THEN v[2]
                             ELSE IF ToDouble(v) # 0 THEN 1 ELSE 0)

(* A row as the header tells a caller to read it: the type of each column  *)
(* first, then the getter for that type.                                   *)
ReadCell(res, col) ==
    CASE ColumnType(res, col) = "NULL"   -> IF IsNull(res, col) THEN Null ELSE NoValue
      [] ColumnType(res, col) = "BOOL"   -> <<"bool", GetBool(res, col, TRUE).value>>
      [] ColumnType(res, col) = "INT"    -> <<"int", GetInt(res, col, TRUE).value>>
      [] ColumnType(res, col) = "DOUBLE" -> <<"double", GetDouble(res, col, TRUE).value>>
      [] ColumnType(res, col) = "TEXT"   -> <<"text", AsString(CurrentValue(res, col))[2]>>

ReadRow(res) == [i \in 1..Width |-> ReadCell(res, i - 1)]

-----------------------------------------------------------------------------
Init ==
    /\ dbs = [d \in Dbs |-> NULL]
    /\ results = [r \in Results |-> NULL]
    /\ err = [t \in Callers |-> [f \in Functions |-> ""]]
    /\ file = NULL
    /\ snapshot = [r \in Results |-> << >>]
    /\ seen = [r \in Results |-> << >>]
    /\ ended = [r \in Results |-> FALSE]
    /\ lent = [r \in Results |-> NULL]
    /\ told = [t \in Callers |-> [f \in Functions |-> ""]]

(* lq_open and lq_close; results are copies and stay.                      *)
Open(d) ==
    /\ dbs[d] = NULL
    /\ dbs' = [dbs EXCEPT ![d] = NoTable]
    /\ UNCHANGED <<results, err, file, client>>

Close(d) ==
    /\ dbs[d] # NULL
    /\ dbs' = [dbs EXCEPT ![d] = NULL]
    /\ UNCHANGED <<results, err, file, client>>

(* The caller's history starts anew with the handle.                       *)
Remember(r, rows, text) ==
    /\ snapshot' = [snapshot EXCEPT ![r] = rows]
    /\ seen' = [seen EXCEPT ![r] = << >>]
    /\ ended' = [ended EXCEPT ![r] = FALSE]
    /\ lent' = [lent EXCEPT ![r] = text]
    /\ UNCHANGED told

NewResult(a) == [ok |-> a.ok, rows |-> a.rows, cursor |-> -1, textScratch |-> <<"chars", "">>]

(* lq_query: always a handle; a null db or sql is an error result.         *)
Query(d, sql, r) ==
    /\ results[r] = NULL
    /\ d # NULL => dbs[d] # NULL
    /\ IF d = NULL \/ sql = NULL
       THEN /\ results' = [results EXCEPT ![r] = NewResult(MakeError("null db or sql", NoTable))]
            /\ Remember(r, << >>, NULL)
            /\ UNCHANGED dbs
       ELSE LET a == EngineQuery(dbs[d], sql)
            IN /\ Len(a.table[2]) <= MaxRows
               /\ results' = [results EXCEPT ![r] = NewResult(a)]
               /\ dbs' = [dbs EXCEPT ![d] = a.table]
               /\ Remember(r, IF sql[1] = "select" THEN dbs[d][2] ELSE << >>, NULL)
    /\ UNCHANGED <<err, file>>

(* Mutant of Report: one message for all threads.                          *)
ReportStatic(t, f, message) == [u \in Callers |-> [err[u] EXCEPT ![f] = message]]

(* The thread_local string of function f.                                  *)
Report(t, f, message) == [err EXCEPT ![t][f] = message]

(* lq_exec, lq_import_csv, lq_save and lq_load (a null argument returns    *)
(* LQ_MISUSE at once); an error is lent to a caller that passes out_error. *)
Call(t, f, d, a, out) ==
    /\ Len(a.table[2]) <= MaxRows
    /\ dbs' = [dbs EXCEPT ![d] = a.table]
    /\ IF a.ok \/ ~ out
       THEN UNCHANGED <<err, client>>
       ELSE /\ err' = Report(t, f, a.error)
            /\ told' = [told EXCEPT ![t][f] = a.error]
            /\ UNCHANGED <<snapshot, seen, ended, lent>>
    /\ UNCHANGED results

Exec(t, d, sql, out) ==
    /\ dbs[d] # NULL
    /\ Call(t, "exec", d, EngineQuery(dbs[d], sql), out)
    /\ UNCHANGED file

ImportCsv(t, d, found, out) ==
    /\ dbs[d] # NULL
    /\ Call(t, "import", d, EngineImport(dbs[d], found), out)
    /\ UNCHANGED file

(* A path that cannot be opened for writing is an error.                   *)
Save(t, d, writable, out) ==
    /\ dbs[d] # NULL
    /\ file' = IF writable THEN dbs[d] ELSE file
    /\ Call(t, "save", d, IF writable THEN Answer(<< >>, dbs[d])
                          ELSE MakeError("cannot open file for writing", dbs[d]), out)

Load(t, d, out) ==
    /\ dbs[d] # NULL
    /\ Call(t, "load", d, EngineLoad(dbs[d]), out)
    /\ UNCHANGED file

(* Mutant of Advance: the cursor goes on past the last row.                *)
AdvancePast(res) == IF res.ok THEN [res EXCEPT !.cursor = @ + 1] ELSE res

(* Mutant of Advance: the last row is not reached.                         *)
AdvanceShort(res) ==
    IF ~ res.ok THEN res
    ELSE IF res.cursor + 2 >= Len(res.rows) THEN [res EXCEPT !.cursor = Len(res.rows)]
    ELSE [res EXCEPT !.cursor = @ + 1]

(* lq_result_next; it returns 1 when a row has become current.             *)
Advance(res) ==
    IF ~ res.ok THEN res
    ELSE IF res.cursor + 1 >= Len(res.rows) THEN [res EXCEPT !.cursor = Len(res.rows)]
    ELSE [res EXCEPT !.cursor = @ + 1]

ResultNext(r) ==
    /\ results[r] # NULL
    /\ LET res == Advance(results[r])
           row == res.ok /\ res.cursor < Len(res.rows)
       IN /\ results' = [results EXCEPT ![r] = res]
          /\ ended' = [ended EXCEPT ![r] = ~ row]
          /\ seen' = IF row THEN [seen EXCEPT ![r] = Append(@, ReadRow(res))]
                     ELSE seen
    /\ lent' = [lent EXCEPT ![r] = NULL]
    /\ UNCHANGED <<dbs, err, file, snapshot, told>>

ResultReset(r) ==
    /\ results[r] # NULL
    /\ results' = [results EXCEPT ![r].cursor = -1]
    /\ Remember(r, snapshot[r], lent[r])
    /\ UNCHANGED <<dbs, err, file>>

Scratch(r, text) == [results EXCEPT ![r].textScratch = text]

(* lq_result_get_text: a literal "" when there is no value.                *)
GetText(r, col) ==
    /\ results[r] # NULL
    /\ LET v == CurrentValue(results[r], col)
       IN IF v \in {NoValue, Null} THEN UNCHANGED <<results, lent>>
          ELSE /\ results' = Scratch(r, AsString(v))
               /\ lent' = [lent EXCEPT ![r] = AsString(v)]
    /\ UNCHANGED <<dbs, err, file, snapshot, seen, ended, told>>

ResultFree(r) ==
    /\ results[r] # NULL
    /\ results' = [results EXCEPT ![r] = NULL]
    /\ Remember(r, << >>, NULL)
    /\ UNCHANGED <<dbs, err, file>>

Next ==
    \/ \E d \in Dbs : Open(d) \/ Close(d)
    \/ \E d \in Dbs \cup {NULL}, sql \in Sql \cup {NULL}, r \in Results : Query(d, sql, r)
    \/ \E t \in Callers, out \in BOOLEAN :
          \/ \E d \in Dbs, sql \in Sql : Exec(t, d, sql, out)
          \/ \E d \in Dbs, works \in BOOLEAN : \/ ImportCsv(t, d, works, out)
                                               \/ Save(t, d, works, out)
          \/ \E d \in Dbs : Load(t, d, out)
    \/ \E r \in Results : ResultNext(r) \/ ResultReset(r) \/ ResultFree(r)
    \/ \E r \in Results, col \in 0..Width : GetText(r, col)

Spec == Init /\ [][Next]_vars

-----------------------------------------------------------------------------
Tables == {NoTable} \cup {Table(rows) : rows \in UNION {[1..n -> Rows] : n \in 0..MaxRows}}

(* The state has its type: in particular a cursor stays within -1 and the  *)
(* number of rows, however often lq_result_next is called at the end.      *)
TypeOK ==
    /\ dbs \in [Dbs -> Tables \cup {NULL}]
    /\ file \in Tables \cup {NULL}
    /\ results \in [Results -> ResultType \cup {NULL}]
    /\ \A r \in Results : results[r] # NULL => results[r].cursor \in -1..Len(results[r].rows)
    /\ {err, told} \subseteq [Callers -> [Functions -> Messages]]
    /\ {snapshot, seen} \subseteq [Results -> Seq(Rows)]
    /\ ended \in [Results -> BOOLEAN]
    /\ lent \in [Results -> Texts \cup {NULL}]

(* A result holds the rows of its answer, none if the statement failed;    *)
(* the caller has read those up to the cursor, and it has been told of the *)
(* end exactly when the cursor is past the last.                           *)
CursorAt(res, answer, read, end) ==
    /\ res.rows = answer
    /\ Len(read) = IF res.cursor = Len(res.rows) THEN res.cursor ELSE res.cursor + 1
    /\ \A i \in 1..Len(read) : read[i] = res.rows[i]
    /\ res.ok => (end <=> res.cursor = Len(res.rows))
    /\ ~ res.ok => res.cursor = -1 /\ res.rows = << >>

CursorInv ==
    \A r \in Results : results[r] # NULL => CursorAt(results[r], snapshot[r], seen[r], ended[r])

(* litequery.h: lq_result_next "returns non-zero if a row is now current,  *)
(* 0 at end".  Whatever other calls come between (statements on the same   *)
(* database, its lq_close, a load, getters, other results), the rows read  *)
(* from a result by type and getter are the first rows of the answer at    *)
(* the time of the query, each once and in order, and all of them when it  *)
(* has returned 0.                                                         *)
ReadsTheAnswer ==
    \A r \in Results : results[r] # NULL =>
        /\ Len(seen[r]) <= Len(snapshot[r])
        /\ seen[r] = SubSeq(snapshot[r], 1, Len(seen[r]))
        /\ ended[r] => seen[r] = snapshot[r]

(* The whole part n of a double that counts h halves, towards zero.        *)
Whole(h, n) ==
    /\ h >= 0 => 2 * n <= h /\ h < 2 * n + 2
    /\ h <= 0 => 2 * n >= h /\ h > 2 * n - 2

(* litequery.h on the getters: LQ_OK and the value, LQ_RANGE if the column *)
(* is out of range, LQ_ERROR if there is no current row, 0 for a NULL, and *)
(* what they give for the value the caller is at is that value as far as   *)
(* the type can hold it; no number is ever made of a text.                 *)
GettersKeepContract ==
    \A r \in Results, col \in 0..Width : results[r] # NULL =>
        LET current == seen[r] # << >> /\ ~ ended[r]
            int == GetInt(results[r], col, TRUE)
            double == GetDouble(results[r], col, TRUE)
            bool == GetBool(results[r], col, TRUE)
            Status == {int.status, double.status, bool.status}
        IN CASE ~ current -> Status = {"ERROR"}
             [] current /\ col >= Width -> Status = {"RANGE"}
             [] current /\ col < Width ->
                  LET v == seen[r][Len(seen[r])][col + 1]
                      h == IF v[1] = "double" THEN v[2] ELSE 2 * v[2]
                  IN IF v[1] = "text" THEN Status = {"ERROR"}
                     ELSE /\ Status = {"OK"}
                          /\ double.value = h
                          /\ Whole(h, int.value)
                          /\ bool.value = IF h = 0 THEN 0 ELSE 1

(* litequery.h: lq_result_get_text "returns a pointer into engine-owned    *)
(* memory valid until the next lq_result_next()/free": no other call       *)
(* changes a text that was lent.  The code keeps this only up to the next  *)
(* lq_result_get_text on the same result.                                  *)
LentTextsStay ==
    [][\A r \in Results : lent[r] # NULL /\ lent'[r] # NULL => results'[r].textScratch = lent[r]]_vars

(* An error message lent to a thread stays what it was until the same      *)
(* function fails again in the same thread: no other thread and no other   *)
(* function touches it.                                                    *)
LentErrorsStay ==
    \A t \in Callers, f \in Functions : told[t][f] # "" => err[t][f] = told[t][f]

(* What a result has lent last is in its scratch buffer.                   *)
ScratchInv ==
    \A r \in Results : lent[r] # NULL =>
        /\ results[r] # NULL
        /\ results[r].textScratch = lent[r]

(* The inductive invariant of Spec: with the types, where the cursors are  *)
(* and what has been lent is enough to know all that a caller can read.    *)
IInv == TypeOK /\ CursorInv /\ ScratchInv /\ LentErrorsStay
=============================================================================
