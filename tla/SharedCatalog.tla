---------------------------- MODULE SharedCatalog ----------------------------
(***************************************************************************)
(* Statements of several threads on one Catalog (src/catalog/catalog.h,    *)
(* src/api/connection.cpp).  The catalog's shared_mutex covers the lookup  *)
(* and the registration of a table, nothing in between: a handler works on *)
(* the Table object its shared_ptr holds while the name may come to stand  *)
(* for another object, or for none.                                        *)
(*                                                                         *)
(* A row is the identity of the INSERT that made it; a column is the       *)
(* sequence of the rows that have a cell in it.  Statements that return an *)
(* error without touching anything are left out.  A step is one critical   *)
(* section, the append to one column, the copy of one row or one column;   *)
(* unsynchronised steps on one buffer are taken as atomic, the least harm  *)
(* a data race on it can do.                                               *)
(***************************************************************************)
EXTENDS Integers, Sequences, FiniteSets, SequencesExt

CONSTANTS Threads,    \* threads with a reference to the catalog
          Names,      \* table names
          RowIds,     \* rows that may be inserted
          TableWidth, \* columns of a table
          Discipline  \* what callers keep apart, see MayRun

ASSUME SharedAssumption ==
    /\ IsFiniteSet(Threads) /\ IsFiniteSet(Names)
    /\ TableWidth \in Nat \ {0}
    /\ RowIds \subseteq Nat \ {0}
    /\ Discipline \in {"none", "writers", "readers"}

VARIABLES tables,  \* Catalog::tables_: the object a name stands for, 0 for none
          heap,    \* the columns of every Table object
          task,    \* the statement each thread is in
          used,    \* rows some INSERT or import has been given
          kept     \* history: the rows each table is to have by the
                   \* statements that have returned

sharedVars == <<tables, heap, task, used, kept>>

(* As many objects as names and running statements can refer to, and one.  *)
Objects == 1..Cardinality(Names) + 2 * Cardinality(Threads) + 1
Columns == 1..TableWidth
EmptyTable == [c \in Columns |-> << >>]
TableOf(rows) == [c \in Columns |-> rows]
RowCount(o) == Len(heap[o][1])

Statement(op, t, o, arg) ==
    [op |-> op, name |-> t, obj |-> o, arg |-> arg, at |-> 0, total |-> 0,
     acc |-> << >>, base |-> << >>]
Idle == Statement("idle", "", 0, 0)

(* An object nobody refers to: shared_ptr frees it with its last owner.    *)
Fresh == CHOOSE o \in Objects :
            /\ \A t \in Names : tables[t] # o
            /\ \A p \in Threads : task[p].obj # o

Writes(op) == op \in {"create", "insert", "update", "delete", "import"}

(* table.h: "callers serialize writes to a given table".  "none": they do  *)
(* not; "writers": they do; "readers": they also keep queries away from a  *)
(* table while rows are inserted in it.                                    *)
MayRun(p, op, t) ==
    \A q \in Threads \ {p} : task[q].name = t =>
        /\ Discipline # "none" => ~ (Writes(op) /\ Writes(task[q].op))
        /\ Discipline = "readers" => {op, task[q].op} # {"insert", "select"}

-----------------------------------------------------------------------------
SharedInit ==
    /\ tables = [t \in Names |-> 0]
    /\ heap = [o \in Objects |-> EmptyTable]
    /\ task = [p \in Threads |-> Idle]
    /\ used = {}
    /\ kept = [t \in Names |-> {}]

Start(p, op, t, arg) ==
    /\ task[p].op = "idle"
    /\ MayRun(p, op, t)
    /\ task' = [task EXCEPT ![p] = Statement(op, t, tables[t], arg)]

Return(p) == task' = [task EXCEPT ![p] = Idle]

(* registerTable of a new object with these columns.                       *)
Register(t, cols) ==
    /\ tables' = [tables EXCEPT ![t] = Fresh]
    /\ heap' = [heap EXCEPT ![Fresh] = cols]

(* runCreate and runDrop: one critical section each.                       *)
Create(p, t) ==
    /\ task[p].op = "idle" /\ MayRun(p, "create", t)
    /\ Register(t, EmptyTable)
    /\ kept' = [kept EXCEPT ![t] = {}]
    /\ UNCHANGED <<task, used>>

Drop(p, t) ==
    /\ task[p].op = "idle" /\ MayRun(p, "create", t)
    /\ tables' = [tables EXCEPT ![t] = 0]
    /\ kept' = [kept EXCEPT ![t] = {}]
    /\ UNCHANGED <<heap, task, used>>

(* runInsert: getTable, then insertRow, one column after the other.        *)
BeginInsert(p, t, row) ==
    /\ tables[t] # 0
    /\ row \notin used
    /\ Start(p, "insert", t, row)
    /\ used' = used \cup {row}
    /\ UNCHANGED <<tables, heap, kept>>

InsertCell(p) ==
    /\ task[p].op = "insert"
    /\ LET c == task[p].at + 1
           t == task[p].name
       IN /\ heap' = [heap EXCEPT ![task[p].obj][c] = Append(@, task[p].arg)]
          /\ IF c < TableWidth
             THEN task' = [task EXCEPT ![p].at = c] /\ UNCHANGED kept
             ELSE Return(p) /\ kept' = [kept EXCEPT ![t] = @ \cup {task[p].arg}]
    /\ UNCHANGED <<tables, used>>

(* runUpdate and runDelete (of the row arg): getTable, collect the rows,   *)
(* register a new table of them under the name.                            *)
BeginRewrite(p, t, op, row) ==
    /\ tables[t] # 0
    /\ Start(p, op, t, row)
    /\ UNCHANGED <<tables, heap, used, kept>>

(* Mutant of RewriteRow: a deleted row leaves a tombstone.                 *)
RewriteRowTombstone(p) ==
    /\ task[p].op \in {"update", "delete"}
    /\ task[p].at < RowCount(task[p].obj)
    /\ LET row == heap[task[p].obj][1][task[p].at + 1]
       IN task' = [task EXCEPT
             ![p].at = @ + 1,
             ![p].acc = Append(@, IF task[p].op = "delete" /\ row = task[p].arg THEN 0 ELSE row)]
    /\ UNCHANGED <<tables, heap, used, kept>>

RewriteRow(p) ==
    /\ task[p].op \in {"update", "delete"}
    /\ task[p].at < RowCount(task[p].obj)
    /\ LET row == heap[task[p].obj][1][task[p].at + 1]
       IN task' = [task EXCEPT
             ![p].at = @ + 1,
             ![p].acc = IF task[p].op = "delete" /\ row = task[p].arg THEN @ ELSE Append(@, row)]
    /\ UNCHANGED <<tables, heap, used, kept>>

RewriteOver(p) ==
    /\ task[p].op \in {"update", "delete"}
    /\ task[p].at >= RowCount(task[p].obj)
    /\ kept' = IF task[p].op = "delete"
               THEN [kept EXCEPT ![task[p].name] = @ \ {task[p].arg}]
               ELSE kept
    /\ Return(p)
    /\ UNCHANGED used

(* Mutant of RewriteRegister: an empty table is not registered.            *)
RewriteRegisterNonEmpty(p) ==
    /\ RewriteOver(p)
    /\ IF task[p].acc = << >> THEN UNCHANGED <<tables, heap>>
       ELSE Register(task[p].name, TableOf(task[p].acc))

(* Mutant of RewriteRegister: the table is rewritten in place.             *)
RewriteRegisterInPlace(p) ==
    /\ RewriteOver(p)
    /\ heap' = [heap EXCEPT ![task[p].obj] = TableOf(task[p].acc)]
    /\ UNCHANGED tables

RewriteRegister(p) ==
    /\ task[p].op \in {"update", "delete"}
    /\ task[p].at >= RowCount(task[p].obj)
    /\ Register(task[p].name, TableOf(task[p].acc))
    /\ kept' = IF task[p].op = "delete"
               THEN [kept EXCEPT ![task[p].name] = @ \ {task[p].arg}]
               ELSE kept
    /\ Return(p)
    /\ UNCHANGED used

(* Mutant of BeginImport: no test for an existing table.                   *)
BeginImportAnyway(p, t, row) ==
    /\ row \notin used
    /\ Start(p, "import", t, row)
    /\ used' = used \cup {row}
    /\ UNCHANGED <<tables, heap, kept>>

(* importCsv of a file with one row: hasTable, then registerTable.  Its    *)
(* row joins what the name is to have: an import makes a new table, it     *)
(* takes nothing away that another statement has acknowledged meanwhile.   *)
BeginImport(p, t, row) ==
    /\ tables[t] = 0
    /\ row \notin used
    /\ Start(p, "import", t, row)
    /\ used' = used \cup {row}
    /\ UNCHANGED <<tables, heap, kept>>

ImportRegister(p) ==
    /\ task[p].op = "import"
    /\ Register(task[p].name, TableOf(<<task[p].arg>>))
    /\ kept' = [kept EXCEPT ![task[p].name] = @ \cup {task[p].arg}]
    /\ Return(p)
    /\ UNCHANGED used

(* SELECT * FROM t: getTable, then SeqScan::next until it finds no row past *)
(* the cursor.  Each call takes the row count once and then copies column  *)
(* by column; a cell that is not there reads as 0.                         *)
BeginSelect(p, t) ==
    /\ tables[t] # 0
    /\ task[p].op = "idle"
    /\ MayRun(p, "select", t)
    /\ task' = [task EXCEPT ![p] =
                   [op |-> "select", name |-> t, obj |-> tables[t], arg |-> 0, at |-> TableWidth,
                    total |-> 0, acc |-> EmptyTable, base |-> heap[tables[t]]]]
    /\ UNCHANGED <<tables, heap, used, kept>>

ScanBatch(p) ==
    /\ task[p].op = "select"
    /\ task[p].at = TableWidth
    /\ Len(task[p].acc[1]) < RowCount(task[p].obj)
    /\ task' = [task EXCEPT ![p].total = RowCount(task[p].obj), ![p].at = 0]
    /\ UNCHANGED <<tables, heap, used, kept>>

ScanColumn(p) ==
    /\ task[p].op = "select"
    /\ task[p].at < TableWidth
    /\ LET c == task[p].at + 1
           col == heap[task[p].obj][c]
       IN task' = [task EXCEPT
             ![p].at = c,
             ![p].acc[c] = @ \o [r \in 1..task[p].total - Len(@) |->
                               IF Len(@) + r <= Len(col) THEN col[Len(@) + r] ELSE 0]]
    /\ UNCHANGED <<tables, heap, used, kept>>

ScanEnds(p) ==
    /\ task[p].op = "select"
    /\ task[p].at = TableWidth
    /\ Len(task[p].acc[1]) >= RowCount(task[p].obj)

EndSelect(p) ==
    /\ ScanEnds(p)
    /\ Return(p)
    /\ UNCHANGED <<tables, heap, used, kept>>

-----------------------------------------------------------------------------
SharedNext == \E p \in Threads :
    \/ \E t \in Names :
        \/ Create(p, t) \/ Drop(p, t) \/ BeginSelect(p, t)
        \/ BeginRewrite(p, t, "update", 0)
        \/ \E row \in RowIds :
            BeginInsert(p, t, row) \/ BeginRewrite(p, t, "delete", row) \/ BeginImport(p, t, row)
    \/ InsertCell(p) \/ RewriteRow(p) \/ RewriteRegister(p) \/ ImportRegister(p)
    \/ ScanBatch(p) \/ ScanColumn(p) \/ EndSelect(p)

SharedSpec == SharedInit /\ [][SharedNext]_sharedVars

-----------------------------------------------------------------------------
(* Properties                                                              *)

(* A statement other than a query collects rows, a query columns.          *)
StatementType ==
    [op : {"idle", "insert", "update", "delete", "import"}, name : Names \cup {""},
     obj : Objects \cup {0}, arg : RowIds \cup {0}, at : Nat, total : Nat,
     acc : Seq(RowIds), base : {<< >>}]
QueryType ==
    [op : {"select"}, name : Names, obj : Objects, arg : {0}, at : 0..TableWidth, total : Nat,
     acc : [Columns -> Seq(RowIds \cup {0})], base : [Columns -> Seq(RowIds)]]
TaskType == StatementType \cup QueryType

WellTyped(k) ==
    /\ k.op = "idle" => k = Idle
    /\ k.op # "idle" => k.name \in Names
    /\ k.op \in {"insert", "update", "delete"} => k.obj # 0
    /\ k.op \in {"insert", "import"} => k.arg \in used
    /\ k.op = "insert" => k.at < TableWidth

(* Types of the state: every statement has the object and the row its next *)
(* step works on.                                                          *)
SharedTypeOK ==
    /\ tables \in [Names -> Objects \cup {0}]
    /\ heap \in [Objects -> [Columns -> Seq(RowIds)]]
    /\ used \subseteq RowIds
    /\ kept \in [Names -> SUBSET used]
    /\ task \in [Threads -> TaskType]
    /\ \A p \in Threads : WellTyped(task[p])

Writing(t) == \E p \in Threads : task[p].name = t /\ Writes(task[p].op)

(* connection.h: "Multiple Connections may share a Catalog (its            *)
(* shared_mutex guards concurrent access)".  While nobody writes a table,  *)
(* it has exactly the rows that the statements which have returned gave    *)
(* and left it, once each: no acknowledged INSERT is lost to the rebuilt   *)
(* table of a concurrent UPDATE or DELETE or to the table of an import     *)
(* that tested the name before there was one; no deleted row and no        *)
(* dropped table comes back.                                               *)
AcknowledgedRowsKept ==
    \A t \in Names : ~ Writing(t) =>
        IF tables[t] = 0 THEN kept[t] = {}
        ELSE \A c \in Columns :
                /\ ToSet(heap[tables[t]][c]) = kept[t]
                /\ Len(heap[tables[t]][c]) = Cardinality(kept[t])

(* A query reads its table as it was when the query looked it up, column   *)
(* for column, although the table has been updated, emptied, dropped or    *)
(* created anew while the query was reading.                               *)
SelectReadsSnapshot ==
    \A p \in Threads : ScanEnds(p) => task[p].acc = task[p].base

-----------------------------------------------------------------------------
(* The inductive invariant: what the discipline keeps apart, and what the  *)
(* statements k that run know of the tables meanwhile.                     *)
Apart(j, k) ==
    j.name = k.name =>
        /\ ~ (Writes(j.op) /\ Writes(k.op))
        /\ Discipline = "readers" => ~ (j.op = "insert" /\ k.op = "select")

Serialized == \A p, q \in Threads : p # q => Apart(task[p], task[q])

(* No object is shared by two names, nor by a name and a statement on      *)
(* another.                                                                *)
OwnObject(k) == \A u \in Names : k.obj = tables[u] => tables[u] = 0 \/ k.name = u

Owned ==
    /\ \A t, u \in Names : tables[t] = tables[u] => tables[t] = 0 \/ t = u
    /\ \A p \in Threads : OwnObject(task[p])

RowsTo(rows, n) == {rows[i] : i \in 1..n}
Lists(rows, S) == ToSet(rows) = S /\ IsInjective(rows)

(* The rows on their way into column c of table t.                         *)
Landed(t, c) ==
    {task[p].arg : p \in {q \in Threads : /\ task[q].op = "insert" /\ task[q].name = t
                                          /\ c <= task[q].at}}

TablesHoldRows ==
    \A t \in Names :
        IF tables[t] = 0 THEN kept[t] = {}
        ELSE \A c \in Columns : Lists(heap[tables[t]][c], kept[t] \cup Landed(t, c))

(* A writer's name still stands for what it looked up, which for an import *)
(* is nothing; an INSERT has a new row; an UPDATE or DELETE has collected  *)
(* the rows it has been through.                                           *)
WriterInv(k) ==
    /\ Writes(k.op) => tables[k.name] = k.obj
    /\ k.op = "import" => k.obj = 0
    /\ k.op = "insert" => k.arg \notin kept[k.name]
    /\ k.op \in {"update", "delete"} =>
          /\ k.at <= RowCount(k.obj)
          /\ Lists(k.acc, RowsTo(heap[k.obj][1], k.at)
                          \ (IF k.op = "delete" THEN {k.arg} ELSE {}))

(* A query's table stays what it was, and has been read up to a column.    *)
ScanInv(k) ==
    k.op = "select" =>
        /\ k.base = heap[k.obj]
        /\ \A c \in Columns : Len(k.base[c]) = Len(k.base[1])
        /\ \/ k.at = TableWidth /\ k.acc = EmptyTable
           \/ /\ k.total = Len(k.base[1])
              /\ \A c \in Columns : k.acc[c] = IF c <= k.at THEN k.base[c] ELSE << >>

(* The inductive invariant of SharedSpec.  Whatever callers do, a table    *)
(* object belongs to one name; where they serialize writes, the registered *)
(* tables hold the acknowledged rows and writers what they have read;      *)
(* where they also keep INSERTs away, queries what they found.             *)
SharedInv ==
    /\ SharedTypeOK
    /\ Owned
    /\ Discipline # "none" => /\ Serialized
                              /\ TablesHoldRows
                              /\ \A p \in Threads : WriterInv(task[p])
    /\ Discipline = "readers" => \A p \in Threads : ScanInv(task[p])
=============================================================================
