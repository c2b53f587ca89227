-------------------------------- MODULE Ast --------------------------------
(***************************************************************************)
(* The nodes of src/parser/ast.h, one constructor per struct.  A name is   *)
(* the sequence of its symbols, an optional field is a sequence of length  *)
(* 0 or 1, source locations are left out.                                  *)
(***************************************************************************)

None == << >>

(* Values: the type and, unless NULL, what it holds.                       *)
NullValue == <<"NULL">>
Bool(b) == <<"BOOLEAN", b>>
Int64(n) == <<"INT64", n>>
Float64(q) == <<"FLOAT64", q>>      \* q: a fraction, see Evaluator
Varchar(s) == <<"VARCHAR", s>>

Literal(v) == [node |-> "Literal", value |-> v]
(* path: <<column>>, <<table, column>> or <<schema, table, column>>.       *)
ColumnRef(path) == [node |-> "ColumnRef", path |-> path]
UnaryExpr(op, operand) == [node |-> "Unary", op |-> op, operand |-> operand]
BinaryExpr(op, left, right) == [node |-> "Binary", op |-> op, left |-> left, right |-> right]
FunctionCall(name, args, distinct, star) ==
    [node |-> "Call", name |-> name, args |-> args, distinct |-> distinct, star |-> star]
CaseWhen(condition, result) == [condition |-> condition, result |-> result]
CaseExpr(subject, whens, else) ==
    [node |-> "Case", subject |-> subject, whens |-> whens, else |-> else]
(* values: a list of expressions, or of one SELECT when sub holds.         *)
InExpr(expr, values, sub, negated) ==
    [node |-> "In", expr |-> expr, values |-> values, sub |-> sub, negated |-> negated]
BetweenExpr(expr, low, high, negated) ==
    [node |-> "Between", expr |-> expr, low |-> low, high |-> high, negated |-> negated]
IsNullExpr(expr, negated) == [node |-> "IsNull", expr |-> expr, negated |-> negated]
SubqueryExpr(select) == [node |-> "Subquery", select |-> select]

SelectItem(expr, alias) == [expr |-> expr, alias |-> alias]
SortKey(expr, order, nulls) == [expr |-> expr, order |-> order, nulls |-> nulls]
(* path: <<name>> or <<schema, name>>.                                     *)
TableRef(path) == [node |-> "TableRef", path |-> path]
AliasedRef(ref, alias) == [node |-> "AliasedRef", ref |-> ref, alias |-> alias]
JoinRef(type, left, right, condition) ==
    [node |-> "JoinRef", type |-> type, left |-> left, right |-> right, condition |-> condition]
SubqueryRef(select) == [node |-> "SubqueryRef", select |-> select]

(* setOp: << >>, or the operation and the SELECT on its right.             *)
SelectStmt(distinct, list, from, where, group, having, order, limit, offset, setOp) ==
    [node |-> "Select", distinct |-> distinct, list |-> list, from |-> from, where |-> where,
     group |-> group, having |-> having, order |-> order, limit |-> limit, offset |-> offset,
     setOp |-> setOp]
(* rows: the VALUES, or one SELECT when sub holds.                         *)
InsertStmt(table, columns, rows, sub) ==
    [node |-> "Insert", table |-> table, columns |-> columns, rows |-> rows, sub |-> sub]
UpdateAssignment(column, value) == [column |-> column, value |-> value]
UpdateStmt(table, assignments, where) ==
    [node |-> "Update", table |-> table, assignments |-> assignments, where |-> where]
DeleteStmt(table, where) == [node |-> "Delete", table |-> table, where |-> where]
DataType(id, params) == [id |-> id, params |-> params]
ColumnConstraint(kind, expr) == [kind |-> kind, expr |-> expr]
ColumnSpec(name, type, constraints) == [name |-> name, type |-> type, constraints |-> constraints]
CreateTableStmt(table, columns) == [node |-> "Create", table |-> table, columns |-> columns]
DropTableStmt(table) == [node |-> "Drop", table |-> table]
=============================================================================
