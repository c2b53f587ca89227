----------------------------- MODULE Statements -----------------------------
(***************************************************************************)
(* The statements that change a table, as the parser hands them to the     *)
(* handlers of src/api/connection.cpp, and the value of their expressions  *)
(* (src/execution/eval.cpp): constants, column references, equality in a   *)
(* WHERE clause, and expressions that throw.                               *)
(***************************************************************************)
EXTENDS ColumnStore

(* Statements                                                              *)

(* An expression whose evaluation throws EvalError.                        *)
Raises == [kind |-> "Raises", src |-> "Raises", num |-> 0]
Operands == Values \cup {Raises}

(* WHERE col = val; column 0 stands for a statement without WHERE.         *)
Predicates == [col : Nat, val : Values]
(* A SET expression: the column ref of the old row, or (ref = 0) val.      *)
Exprs == [val : Operands, ref : Nat]
(* SET col = expr; column 0 stands for a name the schema does not have.    *)
Assignments == [col : Nat, expr : Exprs]

Statements == [rows : Seq(Seq(Operands)), cols : Seq(Nat),
               sets : Seq(Assignments), where : Predicates]

NoWhere == [col |-> 0, val |-> Null]

InsertStmt(cols, rows) ==
    [rows |-> rows, cols |-> cols, sets |-> << >>, where |-> NoWhere]
UpdateStmt(sets, where) ==
    [rows |-> << >>, cols |-> << >>, sets |-> sets, where |-> where]
DeleteStmt(where) == UpdateStmt(<< >>, where)

-----------------------------------------------------------------------------
(* Expressions                                                             *)

(* compareValues on two values that are not NULL: numbers compare as       *)
(* numbers of any kind, strings as strings, and the rest throws.           *)
Halves(v) == IF v.kind = "Double" THEN v.num ELSE 2 * v.num
Comparable(a, b) == (a.kind = "String") = (b.kind = "String")
SameValue(a, b) ==
    IF a.kind = "String" THEN a = b ELSE Halves(a) = Halves(b)

PredicateRaises(where, row) ==
    /\ where.col # 0
    /\ \/ where.col > Len(row)
       \/ /\ where.col <= Len(row)
          /\ row[where.col] # Null
          /\ where.val # Null
          /\ ~ Comparable(row[where.col], where.val)

(* evaluatePredicate: NULL counts as not matching.                         *)
Matches(where, row) ==
    \/ where.col = 0
    \/ /\ row[where.col] # Null
       /\ where.val # Null
       /\ SameValue(row[where.col], where.val)

ExprRaises(e, row) == IF e.ref = 0 THEN e.val = Raises ELSE e.ref > Len(row)

Evaluate(e, row) == IF e.ref = 0 THEN e.val ELSE row[e.ref]

(* The index of the last entry of a column list that names column c: later *)
(* assignments to a column overwrite earlier ones.                         *)
IsLastFor(cols, c, i) ==
    cols[i] = c /\ \A j \in i + 1..Len(cols) : cols[j] # c

(* The row INSERT builds from one list of operands: NULL where the column  *)
(* list does not name the column.                                          *)
RowToInsert(width, cols, operands) ==
    [c \in 1..width |->
        IF cols = << >> THEN operands[c]
        ELSE IF \E i \in 1..Len(cols) : IsLastFor(cols, c, i)
             THEN operands[CHOOSE i \in 1..Len(cols) : IsLastFor(cols, c, i)]
             ELSE Null]

SetColumns(sets) == [i \in 1..Len(sets) |-> sets[i].col]

(* Mutant of UpdatedRow: the expressions see what the first SET assigned.  *)
UpdatedRowInSequence(sets, row) ==
    LET mid == [row EXCEPT ![sets[1].col] = Evaluate(sets[1].expr, row)]
    IN [c \in 1..Len(row) |->
          IF \E i \in 1..Len(sets) : IsLastFor(SetColumns(sets), c, i)
          THEN Evaluate(sets[CHOOSE i \in 1..Len(sets) :
                                IsLastFor(SetColumns(sets), c, i)].expr, mid)
          ELSE row[c]]

(* The row UPDATE puts in the place of a matching row: every expression    *)
(* sees the old row.                                                       *)
UpdatedRow(sets, row) ==
    [c \in 1..Len(row) |->
        IF \E i \in 1..Len(sets) : IsLastFor(SetColumns(sets), c, i)
        THEN Evaluate(sets[CHOOSE i \in 1..Len(sets) :
                              IsLastFor(SetColumns(sets), c, i)].expr, row)
        ELSE row[c]]

UnknownColumn(cols, width) == \E i \in 1..Len(cols) : cols[i] \notin 1..width

(* ix lists the members of keep, a subset of 1..n, in ascending order.     *)
Lists(ix, keep) ==
    /\ \A i \in 1..Len(ix) : ix[i] \in keep
    /\ \A r \in keep : \E i \in 1..Len(ix) : ix[i] = r
    /\ \A i \in 1..Len(ix), j \in 1..Len(ix) : i < j => ix[i] < ix[j]
=============================================================================
