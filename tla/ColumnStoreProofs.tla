-------------------------- MODULE ColumnStoreProofs --------------------------
(* Lemmas about the operators of ColumnStore.                              *)
EXTENDS ColumnStore, SequenceTheorems, TLAPS

(* A function over 1..n with values in S is a sequence of length n.        *)
LEMMA FcnIsSeq ==
    ASSUME NEW S, NEW n \in Nat, NEW f \in [1..n -> S]
    PROVE  f \in Seq(S) /\ Len(f) = n /\ DOMAIN f = 1..n
  OBVIOUS

LEMMA ConvertType ==
    ASSUME NEW type \in Types, NEW v \in Values
    PROVE  CellData(type, v) \in Scalars
<1>1. KindOf(type) \in Kinds
  BY DEF KindOf, Kinds, Types
<1>2. CASE v = Null
  BY <1>1, <1>2 DEF CellData, Placeholder, Scalars
<1>3. CASE v # Null
  <2>1. v \in Scalars
    BY <1>3 DEF Values
  <2>2. Truncate(v.num) \in Int
    BY <2>1 DEF Truncate, Scalars
  <2>3. Convert(type, v) \in Scalars
    BY <1>1, <2>1, <2>2 DEF Convert, IntV, DblV, Scalars, Kinds
  <2> QED BY <1>3, <2>3 DEF CellData
<1> QED BY <1>2, <1>3

LEMMA AppendValueType ==
    ASSUME NEW col \in Columns, NEW v \in Values
    PROVE  /\ AppendValue(col, v) \in Columns
           /\ AppendValue(col, v).type = col.type
           /\ Len(AppendValue(col, v).data) = Len(col.data) + 1
           /\ Size(AppendValue(col, v)) = Size(col) + 1
<1>1. CellData(col.type, v) \in Scalars
  BY ConvertType DEF Columns
<1>2. /\ AppendValue(col, v).type = col.type
      /\ AppendValue(col, v).data = Append(col.data, CellData(col.type, v))
      /\ AppendValue(col, v).valid = Append(col.valid, v # Null)
  BY DEF AppendValue, Columns
<1>3. (v # Null) \in BOOLEAN
  OBVIOUS
<1>4. /\ Append(col.data, CellData(col.type, v)) \in Seq(Scalars)
      /\ Append(col.valid, v # Null) \in Seq(BOOLEAN)
  BY <1>1, <1>3, AppendProperties DEF Columns
<1>5. AppendValue(col, v) \in Columns
  BY <1>4 DEF AppendValue, Columns
<1> QED BY <1>1, <1>2, <1>5 DEF Size, Columns

LEMMA ValueAtType ==
    ASSUME NEW col \in Columns, NEW i \in Nat, Len(col.data) = Len(col.valid)
    PROVE  ValueAt(col, i) \in Values
<1>1. CASE i \in 1..Size(col) /\ col.valid[i]
  <2>1. col.data[i] \in Scalars
    BY <1>1 DEF Columns, Size
  <2>2. MakeIntValue(col.type, col.data[i]) \in Scalars
    BY <2>1 DEF MakeIntValue, IntV, Narrow, Scalars, Kinds
  <2> QED BY <1>1, <2>1, <2>2 DEF ValueAt, Values
<1>2. CASE ~(i \in 1..Size(col) /\ col.valid[i])
  BY <1>2 DEF ValueAt, Values
<1> QED BY <1>1, <1>2

-----------------------------------------------------------------------------
LEMMA SchemaOfType ==
    ASSUME NEW tbl \in Seq(Columns)
    PROVE  /\ SchemaOf(tbl) \in Seq(Types)
           /\ Len(SchemaOf(tbl)) = Len(tbl)
           /\ \A c \in 1..Len(tbl) : SchemaOf(tbl)[c] = tbl[c].type
<1>0. \A c \in 1..Len(tbl) : tbl[c] \in Columns
  BY ElementOfSeq
<1>1. Len(tbl) \in Nat /\ \A c \in 1..Len(tbl) : tbl[c].type \in Types
  BY <1>0, LenProperties DEF Columns
<1>2. SchemaOf(tbl) \in [1..Len(tbl) -> Types]
  BY <1>1 DEF SchemaOf
<1> QED BY <1>1, <1>2, FcnIsSeq DEF SchemaOf

(* An empty table is well formed.                                          *)
LEMMA NewTableType ==
    ASSUME NEW schema \in Seq(Types)
    PROVE  /\ NewTable(schema) \in Seq(Columns)
           /\ Len(NewTable(schema)) = Len(schema)
           /\ SchemaOf(NewTable(schema)) = schema
           /\ BuffersAgree(NewTable(schema))
           /\ Staircase(NewTable(schema))
           /\ \A c \in 1..Len(schema) : Size(NewTable(schema)[c]) = 0
<1> DEFINE T == NewTable(schema)
<1>1. \A c \in 1..Len(schema) : NewColumn(schema[c]) \in Columns
  BY EmptySeq DEF NewColumn, Columns
<1>2. T \in [1..Len(schema) -> Columns]
  BY <1>1 DEF NewTable
<1>3. T \in Seq(Columns) /\ Len(T) = Len(schema) /\ DOMAIN T = 1..Len(schema)
  BY <1>2, FcnIsSeq, LenProperties
<1>4. \A c \in 1..Len(schema) :
         T[c].type = schema[c] /\ T[c].data = << >> /\ T[c].valid = << >>
  BY DEF NewTable, NewColumn
<1>5. SchemaOf(T) = schema
  <2>1. SchemaOf(T) = [c \in 1..Len(schema) |-> schema[c]]
    BY <1>3, <1>4 DEF SchemaOf
  <2> QED BY <2>1, LenProperties
<1> HIDE DEF T
<1>6. BuffersAgree(T) /\ Staircase(T) /\ \A c \in 1..Len(schema) : Size(T[c]) = 0
  BY <1>3, <1>4, LenProperties DEF BuffersAgree, Staircase, Size
<1> QED BY <1>3, <1>5, <1>6 DEF T

(* Whatever the row, insertRow leaves a table of the same schema whose     *)
(* columns keep their buffers in step and their lengths non-increasing.    *)
LEMMA InsertRowType ==
    ASSUME NEW tbl \in Seq(Columns), NEW row \in [1..Len(tbl) -> Values],
           BuffersAgree(tbl), Staircase(tbl)
    PROVE  /\ InsertRow(tbl, row) \in Seq(Columns)
           /\ Len(InsertRow(tbl, row)) = Len(tbl)
           /\ SchemaOf(InsertRow(tbl, row)) = SchemaOf(tbl)
           /\ BuffersAgree(InsertRow(tbl, row))
           /\ Staircase(InsertRow(tbl, row))
<1> DEFINE T == InsertRow(tbl, row)
           Gets(c) == \A d \in 1..c : Accepts(tbl[d].type, row[d])
<1>1. \A c \in 1..Len(tbl) : tbl[c] \in Columns /\ row[c] \in Values
  BY ElementOfSeq
<1>2. \A c \in 1..Len(tbl) : T[c] = IF Gets(c) THEN AppendValue(tbl[c], row[c]) ELSE tbl[c]
  BY DEF InsertRow
<1>3. T \in [1..Len(tbl) -> Columns]
  BY <1>1, AppendValueType DEF InsertRow
<1>4. Len(tbl) \in Nat
  BY LenProperties
<1>5. T \in Seq(Columns) /\ Len(T) = Len(tbl)
  BY <1>3, <1>4, FcnIsSeq
<1>6. \A c \in 1..Len(tbl) :
        /\ T[c].type = tbl[c].type
        /\ Len(T[c].data) = IF Gets(c) THEN Len(tbl[c].data) + 1 ELSE Len(tbl[c].data)
        /\ Size(T[c]) = IF Gets(c) THEN Size(tbl[c]) + 1 ELSE Size(tbl[c])
  <2> HIDE DEF T, Gets
  <2> TAKE c \in 1..Len(tbl)
  <2>1. CASE Gets(c)
    BY <2>1, <1>1, <1>2, AppendValueType
  <2>2. CASE ~ Gets(c)
    BY <2>2, <1>2
  <2> QED BY <2>1, <2>2
<1>7. \A c \in 1..Len(tbl) - 1 : Gets(c + 1) => Gets(c)
  BY <1>4
<1>8. \A c \in 1..Len(tbl) : Size(tbl[c]) \in Nat
  BY <1>1, LenProperties DEF Size, Columns
<1> HIDE DEF T, Gets
<1>9. SchemaOf(T) = SchemaOf(tbl)
  BY <1>5, <1>6 DEF SchemaOf
<1>10. BuffersAgree(T)
  BY <1>5, <1>6 DEF BuffersAgree, Size
<1>11. Staircase(T)
  <2> SUFFICES ASSUME NEW c \in 1..Len(tbl) - 1
               PROVE  Size(T[c]) >= Size(T[c + 1])
    BY <1>5 DEF Staircase
  <2>1. c \in 1..Len(tbl) /\ c + 1 \in 1..Len(tbl)
    BY <1>4
  <2>2. Size(tbl[c]) >= Size(tbl[c + 1])
    BY DEF Staircase
  <2>3. Size(tbl[c]) \in Nat /\ Size(tbl[c + 1]) \in Nat
    BY <2>1, <1>8
  <2>4. /\ Size(T[c]) = IF Gets(c) THEN Size(tbl[c]) + 1 ELSE Size(tbl[c])
        /\ Size(T[c + 1]) = IF Gets(c + 1) THEN Size(tbl[c + 1]) + 1 ELSE Size(tbl[c + 1])
    BY <2>1, <1>6
  <2>5. Gets(c + 1) => Gets(c)
    BY <1>7
  <2> QED BY <2>2, <2>3, <2>4, <2>5
<1> QED BY <1>5, <1>9, <1>10, <1>11 DEF T

(* A row that every column accepts makes every column one longer.          *)
LEMMA InsertRowAccepted ==
    ASSUME NEW tbl \in Seq(Columns), tbl # << >>, NEW row \in [1..Len(tbl) -> Values],
           AcceptsRow(SchemaOf(tbl), row), Rectangular(tbl)
    PROVE  /\ Rectangular(InsertRow(tbl, row))
           /\ RowCount(InsertRow(tbl, row)) = RowCount(tbl) + 1
<1> DEFINE T == InsertRow(tbl, row)
<1>1. \A c \in 1..Len(tbl) : tbl[c] \in Columns /\ row[c] \in Values
  BY ElementOfSeq
<1>2. \A c \in 1..Len(tbl) : T[c] = AppendValue(tbl[c], row[c])
  <2>1. Len(SchemaOf(tbl)) = Len(tbl) /\ \A c \in 1..Len(tbl) : SchemaOf(tbl)[c] = tbl[c].type
    BY SchemaOfType
  <2>2. \A c \in 1..Len(tbl) : Accepts(tbl[c].type, row[c])
    BY <2>1 DEF AcceptsRow
  <2> QED BY <2>2, LenProperties DEF InsertRow
<1>3. \A c \in 1..Len(tbl) : Size(T[c]) = Size(tbl[c]) + 1
  BY <1>1, <1>2, AppendValueType
<1>4. Len(tbl) \in Nat \ {0} /\ 1 \in 1..Len(tbl)
  BY EmptySeq, LenProperties
<1>5. Len(T) = Len(tbl)
  <2>1. T \in [1..Len(tbl) -> Columns]
    BY <1>1, AppendValueType DEF InsertRow
  <2> QED BY <2>1, <1>4, FcnIsSeq
<1> HIDE DEF T
<1>6. RowCount(T) = RowCount(tbl) + 1
  BY <1>3, <1>4 DEF RowCount
<1>7. Rectangular(T)
  BY <1>3, <1>4, <1>5, <1>6 DEF Rectangular
<1> QED BY <1>6, <1>7 DEF T

-----------------------------------------------------------------------------
(* Reading a row gives a value for every column.                           *)
LEMMA GetRowType ==
    ASSUME NEW tbl \in Seq(Columns), BuffersAgree(tbl), NEW r \in Nat
    PROVE  /\ GetRow(tbl, r) \in [1..Len(tbl) -> Values]
           /\ GetRow(tbl, r) \in Seq(Values)
           /\ Len(GetRow(tbl, r)) = Len(tbl)
<1>1. \A c \in 1..Len(tbl) : ValueAt(tbl[c], r) \in Values
  BY ElementOfSeq, ValueAtType DEF BuffersAgree
<1>2. GetRow(tbl, r) \in [1..Len(tbl) -> Values]
  BY <1>1 DEF GetRow
<1> QED BY <1>2, FcnIsSeq, LenProperties

LEMMA RowCountType ==
    ASSUME NEW tbl \in Seq(Columns), tbl # << >>
    PROVE  RowCount(tbl) \in Nat /\ Len(tbl) \in Nat \ {0} /\ 1 \in 1..Len(tbl)
<1>1. Len(tbl) \in Nat \ {0} /\ 1 \in 1..Len(tbl)
  BY EmptySeq, LenProperties
<1>2. tbl[1] \in Columns
  BY <1>1, ElementOfSeq
<1> QED BY <1>1, <1>2, LenProperties DEF RowCount, Size, Columns

LEMMA RowsOfType ==
    ASSUME NEW tbl \in Seq(Columns), tbl # << >>, BuffersAgree(tbl)
    PROVE  /\ RowsOf(tbl) \in Seq(Seq(Values))
           /\ Len(RowsOf(tbl)) = RowCount(tbl)
           /\ \A r \in 1..RowCount(tbl) : RowsOf(tbl)[r] = GetRow(tbl, r)
<1>1. RowCount(tbl) \in Nat
  BY RowCountType
<1>2. \A r \in 1..RowCount(tbl) : GetRow(tbl, r) \in Seq(Values)
  BY <1>1, GetRowType
<1>3. RowsOf(tbl) \in [1..RowCount(tbl) -> Seq(Values)]
  BY <1>2 DEF RowsOf
<1> QED BY <1>1, <1>3, FcnIsSeq DEF RowsOf

(* A rebuilt table has the schema it was given and one cell per row in     *)
(* each of its columns.                                                    *)
LEMMA RebuiltTableType ==
    ASSUME NEW schema \in Seq(Types), schema # << >>, NEW rows,
           Len(rows) \in Nat,
           \A r \in 1..Len(rows) : rows[r] \in [1..Len(schema) -> Values]
    PROVE  /\ RebuiltTable(schema, rows) \in Seq(Columns)
           /\ RebuiltTable(schema, rows) # << >>
           /\ Len(RebuiltTable(schema, rows)) = Len(schema)
           /\ SchemaOf(RebuiltTable(schema, rows)) = schema
           /\ BuffersAgree(RebuiltTable(schema, rows))
           /\ Staircase(RebuiltTable(schema, rows))
           /\ Rectangular(RebuiltTable(schema, rows))
           /\ RowCount(RebuiltTable(schema, rows)) = Len(rows)
<1> DEFINE T == RebuiltTable(schema, rows)
           D(c) == [r \in 1..Len(rows) |-> CellData(schema[c], rows[r][c])]
           V(c) == [r \in 1..Len(rows) |-> rows[r][c] # Null]
<1>1. Len(schema) \in Nat \ {0} /\ \A c \in 1..Len(schema) : schema[c] \in Types
  BY EmptySeq, LenProperties, ElementOfSeq
<1>2. ASSUME NEW c \in 1..Len(schema)
      PROVE  /\ D(c) \in Seq(Scalars) /\ Len(D(c)) = Len(rows)
             /\ V(c) \in Seq(BOOLEAN) /\ Len(V(c)) = Len(rows)
  <2>1. \A r \in 1..Len(rows) : rows[r][c] \in Values
    OBVIOUS
  <2>2. D(c) \in [1..Len(rows) -> Scalars]
    BY <1>1, <2>1, ConvertType
  <2>3. V(c) \in [1..Len(rows) -> BOOLEAN]
    OBVIOUS
  <2> HIDE DEF D, V
  <2> QED BY <2>2, <2>3, FcnIsSeq
<1>3. \A c \in 1..Len(schema) : T[c] = [type |-> schema[c], data |-> D(c), valid |-> V(c)]
  BY DEF RebuiltTable
<1>4. T = [c \in 1..Len(schema) |-> T[c]]
  BY DEF RebuiltTable
<1> HIDE DEF T, D, V
<1>5. \A c \in 1..Len(schema) :
        /\ T[c] \in Columns
        /\ T[c].type = schema[c]
        /\ Len(T[c].data) = Len(rows)
        /\ Size(T[c]) = Len(rows)
  <2> TAKE c \in 1..Len(schema)
  <2>1. PICK d \in Seq(Scalars), v \in Seq(BOOLEAN) :
           /\ Len(d) = Len(rows) /\ Len(v) = Len(rows)
           /\ T[c] = [type |-> schema[c], data |-> d, valid |-> v]
    BY <1>2, <1>3
  <2> QED BY <1>1, <2>1 DEF Columns, Size
<1>6. T \in [1..Len(schema) -> Columns]
  BY <1>4, <1>5
<1>7. T \in Seq(Columns) /\ Len(T) = Len(schema)
  BY <1>1, <1>6, FcnIsSeq
<1>8. T # << >>
  BY <1>1, <1>7, EmptySeq
<1>9. SchemaOf(T) = schema
  <2>1. SchemaOf(T) = [c \in 1..Len(schema) |-> schema[c]]
    BY <1>5, <1>7 DEF SchemaOf
  <2> QED BY <2>1, LenProperties
<1>10. RowCount(T) = Len(rows)
  BY <1>1, <1>5 DEF RowCount
<1>11. BuffersAgree(T) /\ Staircase(T) /\ Rectangular(T)
  BY <1>1, <1>5, <1>7, <1>10 DEF BuffersAgree, Staircase, Rectangular, Size
<1> QED BY <1>7, <1>8, <1>9, <1>10, <1>11 DEF T

-----------------------------------------------------------------------------
(* Typed buffers                                                           *)

LEMMA CellDataStored ==
    ASSUME NEW type \in Types, NEW v \in Values
    PROVE  Storable(type, CellData(type, v))
<1>1. KindOf(type) \in Kinds
  BY DEF KindOf, Kinds, Types
<1>2. Storable(type, Convert(type, v))
  BY <1>1 DEF Convert, IntV, DblV, Kinds, Storable
<1> QED BY <1>2 DEF CellData, Placeholder, Storable

LEMMA NewTableTyped ==
    ASSUME NEW schema \in Seq(Types)
    PROVE  BuffersTyped(NewTable(schema))
<1>1. Len(NewTable(schema)) = Len(schema)
  BY NewTableType
<1>2. \A c \in 1..Len(schema) : NewTable(schema)[c].data = << >>
  BY DEF NewTable, NewColumn
<1> QED BY <1>1, <1>2 DEF BuffersTyped

LEMMA InsertRowTyped ==
    ASSUME NEW tbl \in Seq(Columns), NEW row \in [1..Len(tbl) -> Values],
           BuffersAgree(tbl), Staircase(tbl), BuffersTyped(tbl)
    PROVE  BuffersTyped(InsertRow(tbl, row))
<1> DEFINE T == InsertRow(tbl, row)
<1>1. Len(T) = Len(tbl)
  BY InsertRowType
<1> SUFFICES ASSUME NEW c \in 1..Len(tbl), NEW i \in 1..Len(T[c].data)
             PROVE  Storable(T[c].type, T[c].data[i])
  BY <1>1 DEF BuffersTyped
<1>2. tbl[c] \in Columns /\ row[c] \in Values
  BY ElementOfSeq
<1>3. tbl[c].data \in Seq(Scalars) /\ tbl[c].type \in Types
  BY <1>2 DEF Columns
<1>4. \A j \in 1..Len(tbl[c].data) : Storable(tbl[c].type, tbl[c].data[j])
  BY DEF BuffersTyped
<1>5. T[c] = tbl[c] \/ T[c] = AppendValue(tbl[c], row[c])
  BY DEF InsertRow
<1>6. CASE T[c] = tbl[c]
  BY <1>4, <1>6
<1>7. CASE T[c] = AppendValue(tbl[c], row[c])
  <2> DEFINE new == CellData(tbl[c].type, row[c])
  <2>1. new \in Scalars /\ Storable(tbl[c].type, new)
    BY <1>2, <1>3, ConvertType, CellDataStored
  <2>2. T[c].data = Append(tbl[c].data, new) /\ T[c].type = tbl[c].type
    BY <1>7 DEF AppendValue
  <2> HIDE DEF new, T
  <2>3. /\ Len(T[c].data) = Len(tbl[c].data) + 1
        /\ T[c].data[Len(tbl[c].data) + 1] = new
        /\ \A j \in 1..Len(tbl[c].data) : T[c].data[j] = tbl[c].data[j]
    BY <1>3, <2>1, <2>2, AppendProperties
  <2>4. Len(tbl[c].data) \in Nat
    BY <1>3, LenProperties
  <2>5. i \in 1..Len(tbl[c].data) \/ i = Len(tbl[c].data) + 1
    BY <2>3, <2>4
  <2> QED BY <1>4, <2>1, <2>2, <2>3, <2>5
<1> QED BY <1>5, <1>6, <1>7

LEMMA RebuiltTableTyped ==
    ASSUME NEW schema \in Seq(Types), schema # << >>, NEW rows,
           Len(rows) \in Nat,
           \A r \in 1..Len(rows) : rows[r] \in [1..Len(schema) -> Values]
    PROVE  BuffersTyped(RebuiltTable(schema, rows))
<1> DEFINE T == RebuiltTable(schema, rows)
<1>1. Len(T) = Len(schema)
  BY RebuiltTableType
<1> SUFFICES ASSUME NEW c \in 1..Len(schema), NEW i \in 1..Len(T[c].data)
             PROVE  Storable(T[c].type, T[c].data[i])
  BY <1>1 DEF BuffersTyped
<1>2. /\ T[c].type = schema[c]
      /\ T[c].data = [r \in 1..Len(rows) |-> CellData(schema[c], rows[r][c])]
  BY DEF RebuiltTable
<1>3. Len(T[c].data) = Len(rows)
  BY <1>2
<1>4. schema[c] \in Types /\ rows[i][c] \in Values
  BY <1>3, ElementOfSeq
<1>5. T[c].data[i] = CellData(schema[c], rows[i][c])
  BY <1>2, <1>3
<1> QED BY <1>2, <1>4, <1>5, CellDataStored

(* Only a VARCHAR column reads back strings.                               *)
LEMMA StringsFromVarchar ==
    ASSUME NEW tbl \in Seq(Columns), BuffersAgree(tbl), BuffersTyped(tbl),
           NEW c \in 1..Len(tbl), NEW r \in Nat,
           ValueAt(tbl[c], r).kind = "String"
    PROVE  tbl[c].type = "VARCHAR"
<1>1. tbl[c] \in Columns
  BY ElementOfSeq
<1>2. r \in 1..Size(tbl[c]) /\ tbl[c].valid[r] /\ KindOf(tbl[c].type) # "Int64"
  BY DEF ValueAt, Null, MakeIntValue, IntV, BuffersTyped, BuffersAgree, Size, Storable
<1>3. tbl[c].data[r].kind = "String"
  BY <1>2 DEF ValueAt
<1>4. KindOf(tbl[c].type) = "String"
  BY <1>2, <1>3 DEF BuffersTyped, BuffersAgree, Size, Storable
<1> QED BY <1>1, <1>4 DEF KindOf, Columns, Types
=============================================================================
