------------------------------- MODULE Parser -------------------------------
(***************************************************************************)
(* src/parser/parser.cpp: the recursive-descent parser of statements and   *)
(* the precedence-climbing parser of expressions, one operator per         *)
(* function.  A parse function takes the index of the current token and    *)
(* returns where it stopped and the node it built.  An exception is the    *)
(* index 0: no token is there, so whatever runs next matches nothing and   *)
(* the whole parse ends at 0 too.                                          *)
(***************************************************************************)
EXTENDS Lexer, Ast, Fractions

CONSTANT MaxInt     \* the largest integer literal, INT64_MAX

ASSUME MaxIntAssumption == MaxInt \in Nat

At(i, node) == [at |-> i, node |-> node]
Failure == At(0, None)

(* Parser::peek: the end of file is sticky.                                *)
Kind(i) ==
    IF i = 0 THEN "ERROR" ELSE IF i > Len(tokens) THEN "EOF" ELSE tokens[i].kind
Text(i) == IF i \in 1..Len(tokens) THEN SubSeq(source, tokens[i].from, tokens[i].to - 1) ELSE << >>
Expect(i, kind) == IF Kind(i) = kind THEN i + 1 ELSE 0
Match(i, kind) == IF Kind(i) = kind THEN i + 1 ELSE i
-----------------------------------------------------------------------------
(* Token::intValue, floatValue and stringValue.                            *)
DigitValue == [c \in Digits |-> CHOOSE n \in 0..9 : <<"0", "1", "2", "3", "4", "5", "6", "7", "8", "9">>[n + 1] = c]

IntValue(s) ==
    LET Upto[k \in 0..Len(s)] == IF k = 0 THEN 0 ELSE 10 * Upto[k - 1] + DigitValue[s[k]]
    IN Upto[Len(s)]

FloatValue(s) ==
    LET Index(S) == CHOOSE k \in 1..(Len(s) + 1) : \/ k = Len(s) + 1 /\ \A j \in 1..Len(s) : s[j] \notin S
                                                   \/ k <= Len(s) /\ s[k] \in S /\ \A j \in 1..(k - 1) : s[j] \notin S
        dot == Index({"."})
        e == Index({"e", "E"})
        OfDigits(t) == IntValue(SelectSeq(t, LAMBDA c : c \in Digits))
        fraction == IF dot < e THEN e - dot - 1 ELSE 0
        power == OfDigits(SubSeq(s, e + 1, Len(s)))
        scaled == Fraction(OfDigits(SubSeq(s, 1, e - 1)), 10 ^ fraction)
    IN IF e < Len(s) /\ s[e + 1] = "-" THEN Over(scaled, Whole(10 ^ power)) ELSE Times(scaled, Whole(10 ^ power))

StringValue(s) ==
    LET inner == SubSeq(s, 2, Len(s) - 1)
        From[k \in 1..(Len(inner) + 2)] ==
            IF k > Len(inner) THEN << >>
            ELSE IF inner[k] = "'" /\ k < Len(inner) /\ inner[k + 1] = "'" THEN <<"'">> \o From[k + 2]
            ELSE <<inner[k]>> \o From[k + 1]
    IN From[1]
-----------------------------------------------------------------------------
(* A call of one parse function by another goes through Parse, the one     *)
(* point of recursion; see its definition below.                           *)
RECURSIVE Parse(_, _), ParseInfix(_, _), ParseUnary(_), ParsePostfix(_), ParseWhens(_)
RECURSIVE CommaList(_, _), ParseJoinChain(_), ParseConstraints(_)

ParseExpr(i, minPrecedence) == Parse(<<"expr", minPrecedence>>, i)
ParseExpression(i) == ParseExpr(i, 0)
ParseSelect(i) == Parse(<<"select">>, i)
ParseList(what, i) == Parse(<<"list", what>>, i)

(* An expression after a keyword that may be missing.                      *)
Clause(i, keyword) ==
    IF Kind(i) # keyword THEN At(i, None)
    ELSE LET e == ParseExpression(i + 1) IN At(e.at, <<e.node>>)

BinaryPrecedence(k) ==
    CASE k = "OR" -> 1
      [] k = "AND" -> 2
      [] k \in {"=", "<>", "<", "<=", ">", ">=", "LIKE", "ILIKE"} -> 4
      [] k = "||" -> 5
      [] k \in {"+", "-"} -> 6
      [] k \in {"*", "/", "%"} -> 7
      [] k = "^" -> 8
      [] OTHER -> -1

(* Mutant of IsRightAssoc: a ^ b ^ c is (a ^ b) ^ c.                       *)
IsNeverRightAssoc(k) == FALSE

IsRightAssoc(k) == k = "^"

(* The postfix operators are tried on the operand before any operator to   *)
(* its left has been completed.                                            *)
ParseOperand(i) == ParsePostfix(ParseUnary(i))

ParseInfix(left, minPrecedence) ==
    LET k == Kind(left.at)
        prec == BinaryPrecedence(k)
        right == ParseExpr(left.at + 1, IF IsRightAssoc(k) THEN prec ELSE prec + 1)
    IN IF prec < minPrecedence \/ prec < 0 THEN left
       ELSE ParseInfix(ParsePostfix(At(right.at, BinaryExpr(k, left.node, right.node))), minPrecedence)

(* parsePrimary, case IDENT: a column, qualified or not, or a star.        *)
ParseColumn(i) ==
    IF Kind(i + 1) # "." THEN At(i + 1, ColumnRef(<<Text(i)>>))
    ELSE IF Kind(i + 2) = "*" THEN At(i + 3, ColumnRef(<<Text(i), <<"*">> >>))
    ELSE IF Kind(Expect(i + 2, "IDENT")) # "." THEN At(Expect(i + 2, "IDENT"), ColumnRef(<<Text(i), Text(i + 2)>>))
    ELSE At(Expect(i + 4, "IDENT"), ColumnRef(<<Text(i), Text(i + 2), Text(i + 4)>>))

ParseFunctionCall(i) ==
    LET first == Match(i + 2, "DISTINCT")
        star == Kind(first) = "*"
        args == IF star THEN At(first + 1, None)
                ELSE IF Kind(first) = ")" THEN At(first, None)
                ELSE ParseList("expression", first)
        name == [k \in 1..Len(Text(i)) |-> Upper(Text(i)[k])]
    IN At(Expect(args.at, ")"), FunctionCall(name, args.node, Kind(i + 2) = "DISTINCT", star))

ParseWhens(so) ==
    LET condition == ParseExpression(so.at + 1)
        result == ParseExpression(Expect(condition.at, "THEN"))
    IN IF Kind(so.at) # "WHEN" THEN so
       ELSE ParseWhens(At(result.at, Append(so.node, CaseWhen(condition.node, result.node))))

ParseCase(i) ==
    LET subject == IF Kind(i) = "WHEN" THEN At(i, None)
                   ELSE LET e == ParseExpression(i) IN At(e.at, <<e.node>>)
        whens == ParseWhens(At(subject.at, << >>))
        else == Clause(whens.at, "ELSE")
    IN IF Len(whens.node) = 0 THEN Failure
       ELSE At(Expect(else.at, "END"), CaseExpr(subject.node, whens.node, else.node))

ParsePrimary(i) ==
    LET k == Kind(i)
        inner == IF Kind(i + 1) = "SELECT" THEN ParseSelect(i + 1) ELSE ParseExpression(i + 1)
    IN CASE k = "LIT_INTEGER" -> IF IntValue(Text(i)) > MaxInt THEN Failure ELSE At(i + 1, Literal(Int64(IntValue(Text(i)))))
         [] k = "LIT_FLOAT" -> At(i + 1, Literal(Float64(FloatValue(Text(i)))))
         [] k = "LIT_STRING" -> At(i + 1, Literal(Varchar(StringValue(Text(i)))))
         [] k \in {"TRUE", "FALSE"} -> At(i + 1, Literal(Bool(k = "TRUE")))
         [] k = "NULL" -> At(i + 1, Literal(NullValue))
         [] k = "CASE" -> ParseCase(i + 1)
         [] k = "(" -> At(Expect(inner.at, ")"), IF Kind(i + 1) = "SELECT" THEN SubqueryExpr(inner.node) ELSE inner.node)
         [] k = "*" -> At(i + 1, ColumnRef(<< <<"*">> >>))
         [] k = "IDENT" -> IF Kind(i + 1) = "(" THEN ParseFunctionCall(i) ELSE ParseColumn(i)
         [] OTHER -> Failure

ParseUnary(i) ==
    LET operand == IF Kind(i) = "NOT" THEN ParseExpr(i + 1, 3) ELSE ParseUnary(i + 1)
    IN IF Kind(i) \in {"NOT", "-", "+"} THEN At(operand.at, UnaryExpr(Kind(i), operand.node)) ELSE ParsePrimary(i)

ParsePostfix(left) ==
    LET i == left.at
        negated == Kind(i) = "NOT" /\ Kind(i + 1) \in {"BETWEEN", "IN", "LIKE", "ILIKE"}
        j == IF negated THEN i + 1 ELSE i
        low == ParseExpr(j + 1, 5)
        high == ParseExpr(Expect(low.at, "AND"), 5)
        open == Expect(j + 1, "(")
        sub == Kind(open) = "SELECT"
        select == ParseSelect(open)
        values == IF sub THEN At(select.at, <<select.node>>)
                  ELSE IF Kind(open) = ")" THEN At(open, None)
                  ELSE ParseList("expression", open)
        pattern == ParseExpr(j + 1, 5)
    IN CASE Kind(i) = "IS" ->
              ParsePostfix(At(Expect(Match(i + 1, "NOT"), "NULL"), IsNullExpr(left.node, Kind(i + 1) = "NOT")))
         [] Kind(j) = "BETWEEN" ->
              ParsePostfix(At(high.at, BetweenExpr(left.node, low.node, high.node, negated)))
         [] Kind(j) = "IN" ->
              ParsePostfix(At(Expect(values.at, ")"), InExpr(left.node, values.node, sub, negated)))
         [] negated /\ Kind(j) \in {"LIKE", "ILIKE"} ->
              ParsePostfix(At(pattern.at, UnaryExpr("NOT", BinaryExpr(Kind(j), left.node, pattern.node))))
         [] OTHER -> left
-----------------------------------------------------------------------------
(* [schema .] name                                                         *)
ParseTableName(i) ==
    IF Kind(Expect(i, "IDENT")) = "." THEN At(Expect(i + 2, "IDENT"), <<Text(i), Text(i + 2)>>)
    ELSE At(Expect(i, "IDENT"), <<Text(i)>>)

(* [AS] alias, if there is one.                                            *)
ParseAlias(i) ==
    IF Kind(i) = "AS" THEN At(Expect(i + 1, "IDENT"), <<Text(i + 1)>>)
    ELSE IF Kind(i) = "IDENT" THEN At(i + 1, <<Text(i)>>)
    ELSE At(i, None)

ParseSelectItem(i) ==
    LET expr == ParseExpression(i)
        alias == ParseAlias(expr.at)
    IN IF Kind(i) = "*" THEN At(i + 1, SelectItem(ColumnRef(<< <<"*">> >>), None))
       ELSE At(alias.at, SelectItem(expr.node, alias.node))

ParsePrimaryTableRef(i) ==
    LET select == ParseSelect(i + 1)
        name == ParseTableName(i)
        ref == IF Kind(i) = "(" THEN At(Expect(select.at, ")"), SubqueryRef(select.node))
               ELSE At(name.at, TableRef(name.node))
        alias == ParseAlias(ref.at)
    IN At(alias.at, IF Len(alias.node) = 0 THEN ref.node ELSE AliasedRef(ref.node, alias.node[1]))

ParseJoinChain(left) ==
    LET k == Kind(left.at)
        join == CASE k \in {"CROSS", "INNER"} -> left.at + 1
                  [] k \in {"LEFT", "RIGHT", "FULL"} -> Match(left.at + 1, "OUTER")
                  [] OTHER -> left.at
        right == ParsePrimaryTableRef(Expect(join, "JOIN"))
        on == ParseExpression(Expect(right.at, "ON"))
    IN CASE k = "CROSS" -> ParseJoinChain(At(right.at, JoinRef(k, left.node, right.node, None)))
         [] k \in {"INNER", "LEFT", "RIGHT", "FULL", "JOIN"} ->
              ParseJoinChain(At(on.at, JoinRef(IF k = "JOIN" THEN "INNER" ELSE k, left.node, right.node, <<on.node>>)))
         [] OTHER -> left

ParseSortKey(i) ==
    LET expr == ParseExpression(i)
        nulls == IF Kind(expr.at) \in {"ASC", "DESC"} THEN expr.at + 1 ELSE expr.at
        order == IF Kind(expr.at) = "DESC" THEN "DESC" ELSE "ASC"
    IN CASE Kind(nulls) # "NULLS" -> At(nulls, SortKey(expr.node, order, "UNSPECIFIED"))
         [] Kind(nulls) = "NULLS" /\ Kind(nulls + 1) \in {"FIRST", "LAST"} ->
              At(nulls + 2, SortKey(expr.node, order, Kind(nulls + 1)))
         [] OTHER -> Failure

(* FROM list, GROUP BY list or ORDER BY list, if it is there.              *)
ListClause(i, keyword, by, what) ==
    IF Kind(i) # keyword THEN At(i, None)
    ELSE ParseList(what, IF by THEN Expect(i + 1, "BY") ELSE i + 1)

OffsetClause(limit) == IF Len(limit.node) > 0 THEN Clause(limit.at, "OFFSET") ELSE At(limit.at, None)

UnionClause(i) ==
    LET right == ParseSelect(Match(i + 1, "ALL"))
    IN IF Kind(i) # "UNION" THEN At(i, None)
       ELSE At(right.at, <<IF Kind(i + 1) = "ALL" THEN "UNION ALL" ELSE "UNION", right.node>>)

(* SELECT, with what follows it up to UNION and the SELECT on its right.   *)
SelectAt(i) ==
    LET quantified == Kind(Expect(i, "SELECT")) \in {"DISTINCT", "ALL"}
        list == ParseList("item", IF quantified THEN i + 2 ELSE Expect(i, "SELECT"))
        from == ListClause(list.at, "FROM", FALSE, "table")
        where == Clause(from.at, "WHERE")
        group == ListClause(where.at, "GROUP", TRUE, "expression")
        having == Clause(group.at, "HAVING")
        order == ListClause(having.at, "ORDER", TRUE, "key")
        limit == Clause(order.at, "LIMIT")
        offset == OffsetClause(limit)
        setOp == UnionClause(offset.at)
    IN At(setOp.at, SelectStmt(Kind(Expect(i, "SELECT")) = "DISTINCT", list.node, from.node, where.node, group.node,
                               having.node, order.node, limit.node, offset.node, setOp.node))

(* A VALUES row.                                                           *)
ParseRow(i) ==
    LET open == Expect(i, "(")
        list == IF Kind(open) = ")" THEN At(open, None) ELSE ParseList("expression", open)
    IN At(Expect(list.at, ")"), list.node)

ParseAssignment(i) ==
    LET value == ParseExpression(Expect(Expect(i, "IDENT"), "="))
    IN At(value.at, UpdateAssignment(Text(i), value.node))

(* The types without parameters, and what the code keeps of them.          *)
PlainTypes ==
    [BOOLEAN |-> "BOOLEAN", BOOL |-> "BOOLEAN", TINYINT |-> "INT8", SMALLINT |-> "INT16",
     INT |-> "INT32", INTEGER |-> "INT32", BIGINT |-> "INT64", REAL |-> "FLOAT32", FLOAT |-> "FLOAT32",
     DOUBLE |-> "FLOAT64", DATE |-> "DATE", TIMESTAMP |-> "TIMESTAMP", TEXT |-> "VARCHAR", BLOB |-> "BLOB"]

(* The length, the precision or the scale of a type.                       *)
ParseParameter(i) ==
    IF Kind(i) # "LIT_INTEGER" \/ IntValue(Text(i)) > MaxInt THEN Failure ELSE At(i + 1, IntValue(Text(i)))

(* Precision and scale are kept in eight bits.                             *)
DataTypeAt(i) ==
    LET k == Kind(i)
        open == Kind(i + 1) = "("
        first == ParseParameter(i + 2)
        scale == IF Kind(first.at) = "," THEN ParseParameter(first.at + 1) ELSE At(first.at, 0)
    IN CASE k \in DOMAIN PlainTypes -> At(i + 1, DataType(PlainTypes[k], << >>))
         [] k = "VARCHAR" /\ ~open -> At(i + 1, DataType("VARCHAR", << >>))
         [] k = "VARCHAR" /\ open -> At(Expect(first.at, ")"), DataType("VARCHAR", <<first.node>>))
         [] k \in {"DECIMAL", "NUMERIC"} /\ ~open -> At(i + 1, DataType("DECIMAL", <<18, 0>>))
         [] k \in {"DECIMAL", "NUMERIC"} /\ open ->
              At(Expect(scale.at, ")"),
                 IF scale.at = 0 THEN None ELSE DataType("DECIMAL", <<first.node % 2 ^ 8, scale.node % 2 ^ 8>>))
         [] OTHER -> Failure

ParseConstraints(so) ==
    LET k == Kind(so.at)
        Add(at, kind, expr) == ParseConstraints(At(at, Append(so.node, ColumnConstraint(kind, expr))))
        default == ParseExpression(so.at + 1)
    IN CASE k = "NOT" -> Add(Expect(so.at + 1, "NULL"), "NOT_NULL", None)
         [] k = "PRIMARY" -> Add(Expect(so.at + 1, "KEY"), "PRIMARY_KEY", None)
         [] k = "DEFAULT" -> Add(default.at, "DEFAULT", <<default.node>>)
         [] OTHER -> so

ParseColumnSpec(i) ==
    LET type == Parse(<<"type">>, Expect(i, "IDENT"))
        constraints == ParseConstraints(At(type.at, << >>))
    IN At(constraints.at, ColumnSpec(Text(i), type.node, constraints.node))

(* do { one of them } while (match(COMMA))                                 *)
CommaList(what, i) ==
    LET one == IF what = "expression" THEN ParseExpression(i) ELSE Parse(<<what>>, i)
        rest == CommaList(what, one.at + 1)
    IN IF Kind(one.at) = "," THEN At(rest.at, <<one.node>> \o rest.node) ELSE At(one.at, <<one.node>>)
-----------------------------------------------------------------------------
ParseInsert(i) ==
    LET table == ParseTableName(Expect(i + 1, "INTO"))
        names == ParseList("name", table.at + 1)
        columns == IF Kind(table.at) = "(" THEN At(Expect(names.at, ")"), names.node) ELSE At(table.at, None)
        select == ParseSelect(columns.at)
        values == ParseList("row", Expect(columns.at, "VALUES"))
    IN IF Kind(columns.at) = "SELECT" THEN At(select.at, InsertStmt(table.node, columns.node, <<select.node>>, TRUE))
       ELSE At(values.at, InsertStmt(table.node, columns.node, values.node, FALSE))

ParseUpdate(i) ==
    LET table == ParseTableName(i + 1)
        sets == ParseList("assignment", Expect(table.at, "SET"))
        where == Clause(sets.at, "WHERE")
    IN At(where.at, UpdateStmt(table.node, sets.node, where.node))

ParseDelete(i) ==
    LET table == ParseTableName(Expect(i + 1, "FROM"))
        where == Clause(table.at, "WHERE")
    IN At(where.at, DeleteStmt(table.node, where.node))

ParseCreateTable(i) ==
    LET table == ParseTableName(Expect(i + 1, "TABLE"))
        columns == ParseList("column", Expect(table.at, "("))
    IN At(Expect(columns.at, ")"), CreateTableStmt(table.node, columns.node))

ParseDropTable(i) ==
    LET table == ParseTableName(Expect(i + 1, "TABLE")) IN At(table.at, DropTableStmt(table.node))

StatementAt(i) ==
    CASE Kind(i) = "SELECT" -> ParseSelect(i)
      [] Kind(i) = "INSERT" -> ParseInsert(i)
      [] Kind(i) = "UPDATE" -> ParseUpdate(i)
      [] Kind(i) = "DELETE" -> ParseDelete(i)
      [] Kind(i) = "CREATE" -> ParseCreateTable(i)
      [] Kind(i) = "DROP" -> ParseDropTable(i)
      [] OTHER -> Failure

Parse(rule, i) ==
    CASE rule[1] = "statement" -> StatementAt(i)
      [] rule[1] = "select" -> SelectAt(i)
      [] rule[1] = "list" -> CommaList(rule[2], i)
      [] rule[1] = "item" -> ParseSelectItem(i)
      [] rule[1] = "table" -> ParseJoinChain(ParsePrimaryTableRef(i))
      [] rule[1] = "key" -> ParseSortKey(i)
      [] rule[1] = "name" -> At(Expect(i, "IDENT"), Text(i))
      [] rule[1] = "row" -> ParseRow(i)
      [] rule[1] = "assignment" -> ParseAssignment(i)
      [] rule[1] = "column" -> ParseColumnSpec(i)
      [] rule[1] = "type" -> DataTypeAt(i)
      [] rule[1] = "expr" -> ParseInfix(ParseOperand(i), rule[2])

(* Mutant of ParseStatement: what follows the statement is not looked at.  *)
ParseStatementOnly == Parse(<<"statement">>, 1)

(* One statement, an optional semicolon, and nothing after it.             *)
ParseStatement ==
    LET stmt == Parse(<<"statement">>, 1)
    IN IF Kind(Match(stmt.at, ";")) = "EOF" THEN stmt ELSE Failure
=============================================================================
