----------------------------- MODULE ColumnStore -----------------------------
(***************************************************************************)
(* The typed columns and tables of src/storage/column.h and table.h, as    *)
(* operators on values: what a column stores of a boxed Value, what it     *)
(* gives back, and how a table appends, reads and rebuilds rows.           *)
(*                                                                         *)
(* A Value is a record.  "kind" is the variant alternative that matters to *)
(* a column (Int64, Double, String, or Null), num is its number: an integer, *)
(* a double counted in halves, or the identity of a string.  A string may  *)
(* also be the rendering of a number by Value::toString; src says which    *)
(* kind was rendered, so equal texts are equal records.                    *)
(***************************************************************************)
EXTENDS Integers, Sequences

Kinds == {"Int64", "Double", "String"}

(* The column types the model tells apart.  INT8 stands for the integer    *)
(* types narrower than the int64 buffer they are stored in.                *)
Types == {"INT8", "INT64", "FLOAT64", "VARCHAR"}

Null == [kind |-> "Null", src |-> "Null", num |-> 0]
IntV(i) == [kind |-> "Int64", src |-> "Int64", num |-> i]
DblV(h) == [kind |-> "Double", src |-> "Double", num |-> h]
StrV(i) == [kind |-> "String", src |-> "String", num |-> i]

Scalars == [kind : Kinds, src : Kinds, num : Int]
Values == Scalars \cup {Null}

-----------------------------------------------------------------------------
(* Column: conversion on the way in                                        *)

KindOf(type) ==
    CASE type = "FLOAT64" -> "Double"
      [] type = "VARCHAR" -> "String"
      [] OTHER            -> "Int64"

(* Mutant of Accepts: no toString for a VARCHAR column.                    *)
AcceptsOwnKind(type, v) == v = Null \/ (v.kind = "String") = (KindOf(type) = "String")

(* Value::toInt64 and Value::toDouble throw on a string; getString and     *)
(* toString accept everything.                                             *)
Accepts(type, v) == v.kind = "String" => KindOf(type) = "String"

(* static_cast<int64_t>(double): truncation toward zero, of halves.        *)
Truncate(h) == IF h >= 0 THEN h \div 2 ELSE -((-h) \div 2)

Convert(type, v) ==
    CASE KindOf(type) = "Int64"  -> IntV(IF v.kind = "Double" THEN Truncate(v.num) ELSE v.num)
      [] KindOf(type) = "Double" -> DblV(IF v.kind = "Double" THEN v.num ELSE 2 * v.num)
      [] KindOf(type) = "String" -> [kind |-> "String", src |-> v.src, num |-> v.num]

(* The placeholder pushNull puts in the typed buffer: 0, 0.0 or "".        *)
Placeholder(type) == [kind |-> KindOf(type), src |-> KindOf(type), num |-> 0]

Columns == [type : Types, data : Seq(Scalars), valid : Seq(BOOLEAN)]

NewColumn(type) == [type |-> type, data |-> << >>, valid |-> << >>]

CellData(type, v) == IF v = Null THEN Placeholder(type) ELSE Convert(type, v)

(* Mutant of AppendValue: pushNull pushes only the validity bit.           *)
AppendValueBitOnly(col, v) ==
    [type  |-> col.type,
     data  |-> IF v = Null THEN col.data ELSE Append(col.data, CellData(col.type, v)),
     valid |-> Append(col.valid, v # Null)]

(* Column::append, for a value the column accepts.                         *)
AppendValue(col, v) ==
    [type  |-> col.type,
     data  |-> Append(col.data, CellData(col.type, v)),
     valid |-> Append(col.valid, v # Null)]

Size(col) == Len(col.valid)

(* Column: conversion on the way out.  An int8 column narrows what the     *)
(* int64 buffer holds.                                                     *)
Narrow(i) == ((i + 128) % 256) - 128

MakeIntValue(type, v) == IF type = "INT8" THEN IntV(Narrow(v.num)) ELSE v

(* Mutant of OutsideBitmap: the words are rounded up from one row too few. *)
OutsideBitmapShort(col, i) == (i - 1) \div 64 >= (Size(col) + 62) \div 64

(* ValidityBitmap::isValid(i) reads word (i - 1) / 64 unchecked; the words *)
(* cover the rows pushed so far.  A column without any row has no word.    *)
OutsideBitmap(col, i) == (i - 1) \div 64 >= (Size(col) + 63) \div 64

(* Column::valueAt, inside the bitmap.  Past its last row a column reads a *)
(* zero bit of its last word, so the cell is NULL.                         *)
ValueAt(col, i) ==
    IF i \in 1..Size(col) /\ col.valid[i]
    THEN IF KindOf(col.type) = "Int64" THEN MakeIntValue(col.type, col.data[i])
                                       ELSE col.data[i]
    ELSE Null

(* How a column reads back a value that was stored in it.                  *)
ReadBack(type, v) == ValueAt(AppendValue(NewColumn(type), v), 1)

-----------------------------------------------------------------------------
(* Table: a non-empty sequence of columns                                  *)

Schemas == Seq(Types) \ {<< >>}
Tables == Seq(Columns) \ {<< >>}

NewTable(schema) == [c \in 1..Len(schema) |-> NewColumn(schema[c])]

SchemaOf(tbl) == [c \in 1..Len(tbl) |-> tbl[c].type]

RowCount(tbl) == Size(tbl[1])

GetRow(tbl, r) == [c \in 1..Len(tbl) |-> ValueAt(tbl[c], r)]

RowsOf(tbl) == [r \in 1..RowCount(tbl) |-> GetRow(tbl, r)]

(* Reading row r, or every row, touches memory outside a validity bitmap.  *)
RowCrashes(tbl, r) == \E c \in 1..Len(tbl) : OutsideBitmap(tbl[c], r)
ScanCrashes(tbl) == \E r \in 1..RowCount(tbl) : RowCrashes(tbl, r)

(* Does insertRow get through every column of the row without a throw?     *)
AcceptsRow(schema, row) == \A c \in 1..Len(schema) : Accepts(schema[c], row[c])

(* Mutant of InsertRow: a refused value is skipped, the row goes on.       *)
InsertRowSkipping(tbl, row) ==
    [c \in 1..Len(tbl) |->
        IF Accepts(tbl[c].type, row[c]) THEN AppendValue(tbl[c], row[c]) ELSE tbl[c]]

(* Table::insertRow appends column by column; a throw leaves the columns   *)
(* before it one row longer.                                               *)
InsertRow(tbl, row) ==
    [c \in 1..Len(tbl) |->
        IF \A d \in 1..c : Accepts(tbl[d].type, row[d])
        THEN AppendValue(tbl[c], row[c])
        ELSE tbl[c]]

(* rebuiltTable: a fresh table that insertRow filled with rows, for rows   *)
(* it accepts.                                                             *)
RebuiltTable(schema, rows) ==
    [c \in 1..Len(schema) |->
        [type  |-> schema[c],
         data  |-> [r \in 1..Len(rows) |-> CellData(schema[c], rows[r][c])],
         valid |-> [r \in 1..Len(rows) |-> rows[r][c] # Null]]]

-----------------------------------------------------------------------------
(* What a well-formed table is                                             *)

(* Every validity bit has its cell in the typed buffer: valueAt never      *)
(* reads past the end of the buffer.                                       *)
BuffersAgree(tbl) == \A c \in 1..Len(tbl) : Len(tbl[c].data) = Len(tbl[c].valid)

(* rowCount() is taken from the first column; no later column is longer    *)
(* than the one before it, so no stored cell lies beyond rowCount().       *)
Staircase(tbl) == \A c \in 1..Len(tbl) - 1 : Size(tbl[c]) >= Size(tbl[c + 1])

(* What a column of the type holds for a value is of the type's kind, and  *)
(* a number is its own.                                                    *)
Storable(type, v) == v.kind = KindOf(type) /\ (v.kind = "String" \/ v.src = v.kind)

(* A typed buffer holds values of its column's kind only.                  *)
BuffersTyped(tbl) ==
    \A c \in 1..Len(tbl) : \A i \in 1..Len(tbl[c].data) :
        Storable(tbl[c].type, tbl[c].data[i])

(* All columns have the same length.                                       *)
Rectangular(tbl) == \A c \in 1..Len(tbl) : Size(tbl[c]) = RowCount(tbl)
=============================================================================
