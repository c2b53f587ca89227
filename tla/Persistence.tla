---------------------------- MODULE Persistence ----------------------------
(***************************************************************************)
(* saveDatabase and loadDatabase (src/storage/persistence.cpp): the        *)
(* catalog is written to a file through a buffered stream and read back    *)
(* table by table.  The process may die at any point of either, and the    *)
(* stream may fail whenever it hands bytes to the operating system.        *)
(*                                                                         *)
(* A file is a sequence of items: "word" is an 8-byte integer, "real" an   *)
(* 8-byte double, "str" a length-prefixed string, "type" a column name and *)
(* its DataType.  The statements of a Connection are abstracted to what    *)
(* they do to the catalog: registerTable and dropTable.                    *)
(***************************************************************************)
EXTENDS ColumnStore, SequencesExt

CONSTANTS Names,        \* table names, which are strings
          TableInputs,  \* tables that statements may put in the catalog
          ForeignFiles, \* files at the path that no save of this build wrote
          WordBits      \* bits of a word of a validity bitmap: 64 in the code

VARIABLES catalog,   \* Catalog::tables_
          disk,      \* the items of the file at the path, or NoFile
          op,        \* "idle", "save", "close" (the destructor of the ofstream), "load"
                     \* or "crashed"
          pending,   \* items saveDatabase has still to write
          buffer,    \* items written to the stream that are not in the file yet
          bad,       \* the stream's badbit
          rd,        \* state of loadDatabase's loops
          result,    \* QueryResult of the last operation
          snapshot   \* history: the catalog the file was opened to save

vars == <<catalog, disk, op, pending, buffer, bad, rd, result, snapshot>>

NoTable == << >>
NoFile == << <<"none", 0>> >>
Version == 1   \* kPersistenceVersion

Strings == [kind : {"String"}, src : Kinds, num : Nat]

(* What a table may be: with as many cells as bits, of the column's kind.  *)
(* num is the eight bytes of a number, read as a natural, or the string.   *)
SavedColumns == [type : Types, data : Seq([kind : Kinds, src : Kinds, num : Nat]),
                 valid : Seq(BOOLEAN)]
Saved(tbl) == tbl \in Seq(SavedColumns) /\ tbl # << >> /\ BuffersAgree(tbl) /\ BuffersTyped(tbl)

(* LoadHeader accepts the file: its magic is ours, its version not later.  *)
Accepted(file) == /\ Len(file) >= 3
                  /\ file[1][1] = "magic" /\ file[1][2] = "LQDB"
                  /\ file[2][1] = "version" /\ file[2][2] <= Version

ASSUME PersistenceAssumption ==
    /\ IsFiniteSet(Names) /\ Names \subseteq Strings
    /\ \A tbl \in TableInputs : Saved(tbl)
    /\ \A file \in ForeignFiles : Len(file) \in Nat /\ ~ Accepted(file)
    /\ WordBits \in Nat \ {0}

Stored(cat) == {t \in Names : cat[t] # NoTable}

-----------------------------------------------------------------------------
(* The file format                                                         *)

(* ValidityBitmap::push fills word after word, from the lowest bit up.     *)
WordCount(rows) == (rows + WordBits - 1) \div WordBits

(* The w-th word: the number its bits make, from the highest one down.     *)
Word(valid, w) ==
    LET Bit(k) == LET i == (w - 1) * WordBits + k
                  IN IF i <= Len(valid) /\ valid[i] THEN 1 ELSE 0
        from[k \in 1..WordBits + 1] ==
            IF k > WordBits THEN 0 ELSE 2 * from[k + 1] + Bit(k)
    IN from[1]

BitmapWords(valid) == [w \in 1..WordCount(Len(valid)) |-> <<"word", Word(valid, w)>>]

CellItem(cell) ==
    CASE cell.kind = "Int64"  -> <<"word", cell.num>>
      [] cell.kind = "Double" -> <<"real", cell.num>>
      [] cell.kind = "String" -> <<"str", cell>>

(* Mutant of EncodeColumn: no word count where there is no word.           *)
EncodeColumnNoCount(col) ==
    (IF col.valid = << >> THEN << >>
     ELSE << <<"word", WordCount(Size(col))>> >> \o BitmapWords(col.valid))
        \o [i \in 1..Len(col.data) |-> CellItem(col.data[i])]

EncodeColumn(col) ==
    << <<"word", Len(BitmapWords(col.valid))>> >>
        \o BitmapWords(col.valid)
        \o [i \in 1..Len(col.data) |-> CellItem(col.data[i])]

(* The head of a table, then its columns; RowCount is the first column's.  *)
EncodeHead(t, tbl) ==
    << <<"str", t>>, <<"word", Len(tbl)>> >>
        \o [c \in 1..Len(tbl) |-> <<"type", tbl[c].type>>]
        \o << <<"word", RowCount(tbl)>> >>

EncodeColumns(tbl) == [c \in 1..Len(tbl) |-> EncodeColumn(tbl[c])]

EncodeTable(t, tbl) == EncodeHead(t, tbl) \o FlattenSeq(EncodeColumns(tbl))

EncodeTables(cat, names) == [i \in 1..Len(names) |-> EncodeTable(names[i], cat[names[i]])]

(* The tables are written in the order tableNames() gives them.            *)
EncodeCatalog(cat, names) ==
    << <<"magic", "LQDB">>, <<"version", Version>>, <<"word", Len(names)>> >>
        \o FlattenSeq(EncodeTables(cat, names))

-----------------------------------------------------------------------------
Ok(n) == [affected |-> n, ok |-> TRUE]
Error == [affected |-> 0, ok |-> FALSE]

(* at: the next item to read; left: tables still to read; the rest is what *)
(* has been read of the current table, name = Null between tables.         *)
Between(at, left) ==
    [schema |-> << >>, rows |-> 0, at |-> at, left |-> left, name |-> Null, cols |-> << >>]

NoReader == Between(1, 0)

Init ==
    /\ catalog = [t \in Names |-> NoTable]
    /\ disk \in {NoFile} \cup ForeignFiles
    /\ op = "idle"
    /\ pending = << >>
    /\ buffer = << >>
    /\ bad = FALSE
    /\ rd = NoReader
    /\ result = Ok(0)
    /\ snapshot = catalog

Register(t, tbl) ==
    /\ op = "idle"
    /\ catalog' = [catalog EXCEPT ![t] = tbl]
    /\ UNCHANGED <<disk, op, pending, buffer, bad, rd, result, snapshot>>

Drop(t) ==
    /\ op = "idle"
    /\ catalog' = [catalog EXCEPT ![t] = NoTable]
    /\ UNCHANGED <<disk, op, pending, buffer, bad, rd, result, snapshot>>

(* The process dies; what the stream had not handed over is lost.          *)
Crash ==
    /\ op # "crashed"
    /\ catalog' = [t \in Names |-> NoTable]
    /\ op' = "crashed"
    /\ pending' = << >>
    /\ buffer' = << >>
    /\ bad' = FALSE
    /\ rd' = NoReader
    /\ result' = Ok(0)
    /\ UNCHANGED <<disk, snapshot>>

(* A new process starts, with an empty catalog.                            *)
Restart ==
    /\ op = "crashed"
    /\ op' = "idle"
    /\ UNCHANGED <<catalog, disk, pending, buffer, bad, rd, result, snapshot>>

-----------------------------------------------------------------------------
(* saveDatabase                                                            *)

(* Opening truncates the file at once.                                     *)
SaveOpen(names) ==
    /\ op = "idle"
    /\ disk' = << >>
    /\ op' = "save"
    /\ pending' = EncodeCatalog(catalog, names)
    /\ snapshot' = catalog
    /\ UNCHANGED <<catalog, buffer, bad, rd, result>>

SaveOpenFails ==
    /\ op = "idle"
    /\ result' = Error
    /\ UNCHANGED <<catalog, disk, op, pending, buffer, bad, rd, snapshot>>

(* Mutant of SaveWrite: a write that fails is tried again.                 *)
SaveWriteRetrying ==
    /\ op = "save"
    /\ pending # << >>
    /\ pending' = IF bad THEN pending ELSE Tail(pending)
    /\ buffer' = IF bad THEN buffer ELSE Append(buffer, Head(pending))
    /\ UNCHANGED <<catalog, disk, op, bad, rd, result, snapshot>>

(* Writing to a stream that is bad does nothing.                           *)
SaveWrite ==
    /\ op = "save"
    /\ pending # << >>
    /\ pending' = Tail(pending)
    /\ buffer' = IF bad THEN buffer ELSE Append(buffer, Head(pending))
    /\ UNCHANGED <<catalog, disk, op, bad, rd, result, snapshot>>

(* The stream hands items to the operating system when it likes.           *)
Flush ==
    /\ (op = "save" /\ ~ bad) \/ op = "close"
    /\ buffer # << >>
    /\ disk' = Append(disk, Head(buffer))
    /\ buffer' = Tail(buffer)
    /\ UNCHANGED <<catalog, op, pending, bad, rd, result, snapshot>>

FlushFails ==
    /\ op = "save"
    /\ buffer # << >>
    /\ bad' = TRUE
    /\ UNCHANGED <<catalog, disk, op, pending, buffer, rd, result, snapshot>>

(* The end of saveDatabase: throws if the stream is bad by now.  The       *)
(* destructor of the stream has still to close the file.                   *)
SaveEnd ==
    /\ op = "save"
    /\ pending = << >>
    /\ op' = "close"
    /\ result' = IF bad THEN Error ELSE Ok(Cardinality(Stored(catalog)))
    /\ UNCHANGED <<catalog, disk, pending, buffer, bad, rd, snapshot>>

(* The destructor returns; a flush that fails in it is reported to nobody. *)
Close ==
    /\ op = "close"
    /\ buffer = << >>
    /\ op' = "idle"
    /\ bad' = FALSE
    /\ UNCHANGED <<catalog, disk, pending, buffer, rd, result, snapshot>>

CloseFails ==
    /\ op = "close"
    /\ buffer # << >>
    /\ op' = "idle"
    /\ buffer' = << >>
    /\ bad' = FALSE
    /\ UNCHANGED <<catalog, disk, pending, rd, result, snapshot>>

-----------------------------------------------------------------------------
(* loadDatabase                                                            *)

LoadEnds(r) ==
    /\ op' = "idle"
    /\ rd' = NoReader
    /\ result' = r
    /\ UNCHANGED <<disk, pending, buffer, bad, snapshot>>

LoadFails == LoadEnds(Error) /\ UNCHANGED catalog

LoadContinues(r) ==
    /\ rd' = r
    /\ UNCHANGED <<catalog, disk, op, pending, buffer, bad, result, snapshot>>

LoadOpen ==
    /\ op = "idle"
    /\ IF disk = NoFile
       THEN LoadFails
       ELSE /\ op' = "load"
            /\ UNCHANGED <<catalog, disk, pending, buffer, bad, rd, result, snapshot>>

(* The items at position i on, against the sorts the reader expects of     *)
(* them: as expected, the file ending before the last, or something else.  *)
Sort(i) == disk[i][1]
Item(i) == disk[i][2]
Agree(i, sorts) == \A k \in 1..Len(sorts) : i + k - 1 <= Len(disk) => Sort(i + k - 1) = sorts[k]
Reads(i, sorts) == Agree(i, sorts) /\ i + Len(sorts) - 1 <= Len(disk)
EndsEarly(i, sorts) == Agree(i, sorts) /\ i + Len(sorts) - 1 > Len(disk)

(* Items are read as something else than they were written as.  The bytes  *)
(* decide what comes of it: the model lets the load fail or the process    *)
(* die.                                                                    *)
Misread(i, sorts) == ~ Agree(i, sorts) /\ (LoadFails \/ Crash)

Times(n, sort) == [k \in 1..n |-> sort]

(* Magic, version and table count.  The first two reject the file; the     *)
(* file may end before either.                                             *)
LoadHeader ==
    /\ op = "load"
    /\ rd.at = 1
    /\ IF /\ Reads(1, <<"magic", "version", "word">>)
          /\ Item(1) = "LQDB"
          /\ Item(2) <= Version
       THEN LoadContinues(Between(4, Item(3)))
       ELSE LoadFails

ReadingTable == op = "load" /\ rd.at > 1 /\ rd.name # Null
BetweenTables == op = "load" /\ rd.at > 1 /\ rd.name = Null

(* The head of a table: name, column count, columns, row count.            *)
HeadSorts(i) ==
    <<"str", "word">> \o
        IF Reads(i, <<"str", "word">>) THEN Append(Times(Item(i + 1), "type"), "word") ELSE << >>

(* Mutant of LoadTable: the end of the file ends the load.                 *)
LoadTableToEnd ==
    /\ BetweenTables
    /\ rd.left > 0
    /\ LET i == rd.at
           sorts == HeadSorts(i)
           ncol == Item(i + 1)
       IN \/ /\ Reads(i, sorts)
             /\ LoadContinues([rd EXCEPT
                    !.at = i + Len(sorts),
                    !.name = Item(i),
                    !.schema = [c \in 1..ncol |-> Item(i + 1 + c)],
                    !.rows = Item(i + 2 + ncol)])
          \/ EndsEarly(i, sorts) /\ LoadEnds(Ok(0)) /\ UNCHANGED catalog
          \/ Misread(i, sorts)

LoadTable ==
    /\ BetweenTables
    /\ rd.left > 0
    /\ LET i == rd.at
           sorts == HeadSorts(i)
           ncol == Item(i + 1)
       IN \/ /\ Reads(i, sorts)
             /\ LoadContinues([rd EXCEPT
                    !.at = i + Len(sorts),
                    !.name = Item(i),
                    !.schema = [c \in 1..ncol |-> Item(i + 1 + c)],
                    !.rows = Item(i + 2 + ncol)])
          \/ EndsEarly(i, sorts) /\ LoadFails
          \/ Misread(i, sorts)

CellSort(type) == CASE KindOf(type) = "Int64"  -> "word"
                    [] KindOf(type) = "Double" -> "real"
                    [] KindOf(type) = "String" -> "str"

Cell(type, item) == CASE KindOf(type) = "Int64"  -> IntV(item)
                      [] KindOf(type) = "Double" -> DblV(item)
                      [] KindOf(type) = "String" -> item

(* The k-th bit of a word: shifted down k - 1 times, it is the lowest.      *)
BitAt(word, k) ==
    LET shifted[j \in 1..WordBits] == IF j = 1 THEN word ELSE shifted[j - 1] \div 2
    IN shifted[k] % 2 = 1

(* Mutant of IsValid: bits counted from 1.                                 *)
IsValidShifted(words, i) == BitAt(words[i \div WordBits + 1], (i % WordBits) + 1)

IsValid(words, i) == BitAt(words[(i - 1) \div WordBits + 1], ((i - 1) % WordBits) + 1)

Covers(words, i) == i <= Len(words) * WordBits

(* ValidityBitmap::assignRaw checks nothing: rows beyond the words read as *)
(* whatever lies behind them in memory.                                    *)
BitsOf(words, rows) ==
    {valid \in [1..rows -> BOOLEAN] :
        \A i \in 1..rows : Covers(words, i) => valid[i] = IsValid(words, i)}

(* assignRaw looks for the first NULL, beyond the words if they have none. *)
Overruns(words, rows) == \A i \in 1..rows : Covers(words, i) => IsValid(words, i)

(* One column: word count, words, then as many cells as the table has      *)
(* rows.                                                                   *)
ColumnSorts(i, type, rows) ==
    <<"word">> \o
        IF Reads(i, <<"word">>) THEN Times(Item(i), "word") \o Times(rows, CellSort(type)) ELSE << >>

(* A process that looks beyond the words may die; it does if there are     *)
(* none, as their address is null.                                         *)
LoadColumn ==
    /\ ReadingTable
    /\ Len(rd.cols) < Len(rd.schema)
    /\ LET i == rd.at
           type == rd.schema[Len(rd.cols) + 1]
           sorts == ColumnSorts(i, type, rd.rows)
           count == Item(i)
           words == [w \in 1..count |-> Item(i + w)]
           cells == [r \in 1..rd.rows |-> Cell(type, Item(i + count + r))]
       IN \/ /\ Reads(i, sorts)
             /\ count > 0 \/ rd.rows = 0
             /\ \E valid \in BitsOf(words, rd.rows) :
                    LoadContinues([rd EXCEPT
                        !.at = i + Len(sorts),
                        !.cols = Append(rd.cols, [type |-> type, data |-> cells, valid |-> valid])])
          \/ /\ Reads(i, sorts)
             /\ ~ Covers(words, rd.rows)
             /\ Overruns(words, rd.rows)
             /\ Crash
          \/ EndsEarly(i, sorts) /\ LoadFails
          \/ Misread(i, sorts)

LoadRegister ==
    /\ ReadingTable
    /\ Len(rd.cols) = Len(rd.schema)
    /\ catalog' = [catalog EXCEPT ![rd.name] = rd.cols]
    /\ rd' = Between(rd.at, rd.left - 1)
    /\ UNCHANGED <<disk, op, pending, buffer, bad, result, snapshot>>

LoadDone ==
    /\ BetweenTables
    /\ rd.left = 0
    /\ LoadEnds(Ok(Cardinality(Stored(catalog))))
    /\ UNCHANGED catalog

-----------------------------------------------------------------------------
Next ==
    \/ \E t \in Names, tbl \in TableInputs : Register(t, tbl)
    \/ \E t \in Names : Drop(t)
    \/ \E names \in SetToSeqs(Stored(catalog)) : SaveOpen(names)
    \/ SaveOpenFails \/ SaveWrite \/ Flush \/ FlushFails \/ SaveEnd \/ Close \/ CloseFails
    \/ LoadOpen \/ LoadHeader \/ LoadTable \/ LoadColumn \/ LoadRegister \/ LoadDone
    \/ Crash \/ Restart

(* The thread inside saveDatabase or loadDatabase keeps running.           *)
Fairness ==
    /\ WF_vars(SaveWrite \/ SaveEnd)
    /\ WF_vars(Flush \/ Close \/ CloseFails)
    /\ WF_vars(LoadHeader \/ LoadTable \/ LoadColumn \/ LoadRegister \/ LoadDone)

Spec == Init /\ [][Next]_vars

FairSpec == Spec /\ Fairness

-----------------------------------------------------------------------------
(* Properties                                                              *)

(* The catalog the file was to hold has only rectangular tables.           *)
CleanSnapshot == \A t \in Stored(snapshot) : Rectangular(snapshot[t])

(* The whole snapshot is in the file.                                      *)
FileComplete == \E names \in SetToSeqs(Stored(snapshot)) : disk = EncodeCatalog(snapshot, names)

(* Whatever is left of a file after a crash, a failed flush or a write to  *)
(* a full disk, a table that loadDatabase registers from it is, buffer by  *)
(* buffer and bit by bit, the table that was saved under that name: no     *)
(* table is ever cut short, shifted or mixed with another.                 *)
LoadsOnlySavedTables ==
    [][op = "load" /\ op' # "crashed" /\ CleanSnapshot =>
        \A t \in Names : catalog'[t] # catalog[t] =>
            snapshot[t] # NoTable /\ catalog'[t] = snapshot[t]]_vars

LoadReturns(ok) == op = "load" /\ op' = "idle" /\ result'.ok = ok

(* A load that reports success has brought back every table of the         *)
(* snapshot: a file that was cut off is never taken for a smaller one.     *)
SuccessfulLoadIsComplete ==
    [][LoadReturns(TRUE) /\ CleanSnapshot =>
        FileComplete /\ \A t \in Stored(snapshot) : catalog'[t] = snapshot[t]]_vars

(* Connection: "Save the whole database (all tables + data) to a single    *)
(* file, and load it back": a load of a completely written file succeeds,  *)
(* if its tables were rectangular.                                         *)
CompleteFileLoads == [][FileComplete /\ CleanSnapshot => ~ LoadReturns(FALSE)]_vars

(* persistence.h: saveDatabase "Throws PersistenceError on I/O failure": a *)
(* save that has returned without an error has put the snapshot on disk.   *)
SaveReportsFailure == [][op = "close" /\ op' = "idle" /\ result'.ok => FileComplete']_vars

(* A save or a load ends, whatever the file holds.                         *)
OperationsFinish == (op # "idle") ~> (op \in {"idle", "crashed"})

-----------------------------------------------------------------------------
(* The inductive invariant                                                 *)

Items ==
    ({"word", "real"} \X Nat) \cup ({"str"} \X Strings) \cup ({"type"} \X Types)
        \cup {<<"magic", "LQDB">>, <<"version", Version>>}

Catalogs == {cat \in [Names -> Seq(SavedColumns)] : \A t \in Stored(cat) : Saved(cat[t])}

(* The first k of the sequences in s have so many elements.                *)
Offset(s, k) ==
    LET end[j \in 0..Len(s)] == IF j = 0 THEN 0 ELSE end[j - 1] + Len(s[j])
    IN end[k]

(* The file holds s behind its first n items.                              *)
Holds(file, n, s) == n + Len(s) <= Len(file) /\ \A i \in 1..Len(s) : file[n + i] = s[i]

(* The orders the tables of the snapshot can have been written in.         *)
Orders == SetToSeqs(Stored(snapshot))

(* What is in the file and what is on its way there is the beginning of    *)
(* the snapshot's encoding; unless a write has failed, what is still to be *)
(* written continues it.                                                   *)
BeingWritten(names) ==
    LET file == EncodeCatalog(snapshot, names) IN
    /\ Holds(file, 0, disk)
    /\ Holds(file, Len(disk), buffer)
    /\ op = "save" /\ ~ bad => Holds(file, Len(disk) + Len(buffer), pending)

OwnFile == disk \in Seq(Items) /\ \E names \in Orders : BeingWritten(names)

(* Only the header of another file is ever read.                           *)
FileInv ==
    \/ disk \in {NoFile} \cup ForeignFiles /\ op \notin {"save", "close"} /\ rd.at = 1
    \/ OwnFile

(* Where the k-th table and the c-th column of the k-th table begin.       *)
TableAt(cat, names, k) == 4 + Offset(EncodeTables(cat, names), k - 1)

ColumnAt(cat, names, k, c) ==
    LET tbl == cat[names[k]]
    IN TableAt(cat, names, k) + Len(tbl) + 3 + Offset(EncodeColumns(tbl), c - 1)

(* The reader is at the beginning of a table or of a column, and what it   *)
(* has read is what was saved.                                             *)
AlignedAt(names, k) ==
    /\ rd.left = Len(names) + 1 - k
    /\ \A j \in 1..k - 1 : catalog[names[j]] = snapshot[names[j]]
    /\ rd.name = Null => rd.at = TableAt(snapshot, names, k)
    /\ rd.name # Null =>
          /\ k <= Len(names)
          /\ rd.name = names[k]
          /\ rd.schema = SchemaOf(snapshot[names[k]])
          /\ rd.rows = RowCount(snapshot[names[k]])
          /\ \A c \in 1..Len(rd.cols) : rd.cols[c] = snapshot[names[k]][c]
          /\ rd.at = ColumnAt(snapshot, names, k, Len(rd.cols) + 1)

Aligned(names) == \E k \in 1..Len(names) + 1 : AlignedAt(names, k)

(* Where the snapshot has only rectangular tables; the reader of another   *)
(* file may be anywhere.                                                   *)
AlignInv ==
    CleanSnapshot /\ rd.at > 1 =>
        \A names \in Orders : Holds(EncodeCatalog(snapshot, names), 0, disk) => Aligned(names)

Readers == [schema : Seq(Types), rows : Nat, at : Nat \ {0}, left : Int,
            name : Strings \cup {Null}, cols : Seq(SavedColumns)]

(* The columns read so far have the types of the schema, and as many rows  *)
(* as the table; between tables there are none.                            *)
ReaderInv ==
    /\ op # "load" \/ rd.at = 1 => rd = NoReader
    /\ rd.name = Null => rd.cols = << >>
    /\ rd \in Readers
    /\ rd.at - 1 <= Len(disk) \/ rd.at = 1
    /\ Len(rd.cols) <= Len(rd.schema)
    /\ BuffersAgree(rd.cols)
    /\ BuffersTyped(rd.cols)
    /\ \A c \in 1..Len(rd.cols) :
          rd.cols[c].type = rd.schema[c] /\ Size(rd.cols[c]) = rd.rows

CatalogInv == catalog \in Catalogs /\ snapshot \in Catalogs

StreamInv ==
    /\ buffer \in Seq(Items) /\ pending \in Seq(Items)
    /\ op \notin {"save", "close"} => buffer = << >>

IInv == CatalogInv /\ StreamInv /\ FileInv /\ ReaderInv /\ AlignInv
=============================================================================
