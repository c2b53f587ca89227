-------------------------- MODULE FrontEndMeaning --------------------------
(***************************************************************************)
(* What the front end owes to somebody who types at it: a script is        *)
(* written down as the statements and commands it stands for, laid out as  *)
(* text in one of several ways, and given to the shell.                    *)
(***************************************************************************)
EXTENDS Shell

CONSTANTS
    Library,        \* what the files were written to stand for: name -> items
    OperandLevel    \* level from which the writer trusts what is on the left of IS NULL, IN,
                    \* BETWEEN and NOT LIKE to be their operand without parentheses

VARIABLE script     \* [how, items, layout, closed]: what is written, and how

vars == <<script, shellVars>>
-----------------------------------------------------------------------------
(* A tree as text: a sequence of words, each a sequence of symbols, with   *)
(* only the parentheses that the precedence table asks for.                *)

Spelled(kind) ==
    IF \E op \in Operators : op[2] = kind THEN <<(CHOOSE op \in Operators : op[2] = kind)[1]>> ELSE << <<kind>> >>

When(condition, words) == IF condition THEN words ELSE << >>

Commas(parts) ==
    LET Upto[k \in 0..Len(parts)] ==
            IF k = 0 THEN << >> ELSE Upto[k - 1] \o When(k > 1, Spelled(",")) \o parts[k]
    IN Upto[Len(parts)]

Dotted(path) == LET Upto[k \in 1..Len(path)] == IF k = 1 THEN <<path[1]>> ELSE Upto[k - 1] \o Spelled(".") \o <<path[k]>>
                IN Upto[Len(path)]

Enclosed(words) == Spelled("(") \o words \o Spelled(")")

(* 'it''s' and so on; the fractions the scripts use are written as here.   *)
Fractional == (<<1, 2>> :> <<".", "5">>) @@ (<<3, 2>> :> <<"1", ".", "5">>) @@ (<<20, 1>> :> <<"2", "e", "1">>)
              @@ (<<1, 10>> :> <<"1", "E", "-", "1">>)
LiteralWord(v) ==
    CASE v[1] = "NULL" -> <<"NULL">>
      [] v[1] = "BOOLEAN" -> <<IF v[2] THEN "TRUE" ELSE "FALSE">>
      [] v[1] = "INT64" -> Decimal(v[2])
      [] v[1] = "FLOAT64" -> Fractional[v[2]]
      [] v[1] = "VARCHAR" -> <<"'">> \o FlattenSeq([k \in 1..Len(v[2]) |-> IF v[2][k] = "'" THEN <<"'", "'">> ELSE <<v[2][k]>>]) \o <<"'">>

(* x NOT LIKE y is written for NOT over LIKE where x may stand there.      *)
RECURSIVE Level(_)
IsNotLike(e) == e.node = "Unary" /\ e.op = "NOT" /\ e.operand.node = "Binary" /\ e.operand.op \in {"LIKE", "ILIKE"}
                /\ Level(e.operand.left) >= OperandLevel
Level(e) ==
    CASE e.node = "Binary" -> BinaryPrecedence(e.op)
      [] e.node \in {"IsNull", "In", "Between"} \/ IsNotLike(e) -> 4
      [] e.node = "Unary" /\ ~IsNotLike(e) -> IF e.op = "NOT" THEN 3 ELSE 10
      [] OTHER -> 11

RECURSIVE Render(_, _)
RenderExpr(e, min) == Render(<<"expr", min>>, e)
RenderSelect(s) == Render(<<"select">>, s)
RenderTable(ref) == Render(<<"table">>, ref)

RenderList(exprs) == Commas([k \in 1..Len(exprs) |-> RenderExpr(exprs[k], 0)])
RenderClause(keyword, exprs) == When(Len(exprs) > 0, keyword \o RenderList(exprs))

ExprWords(e) ==
    LET not == When(e.negated, Spelled("NOT"))
    IN CASE e.node = "Literal" -> <<LiteralWord(e.value)>>
         [] e.node = "ColumnRef" -> Dotted(e.path)
         [] IsNotLike(e) -> RenderExpr(e.operand.left, OperandLevel) \o Spelled("NOT") \o Spelled(e.operand.op)
                            \o RenderExpr(e.operand.right, 5)
         [] e.node = "Unary" /\ ~IsNotLike(e) -> Spelled(e.op) \o RenderExpr(e.operand, Level(e))
         [] e.node = "Binary" ->
              LET p == BinaryPrecedence(e.op)
                  right == e.op = "^"
              IN RenderExpr(e.left, IF right THEN p + 1 ELSE p) \o Spelled(e.op) \o RenderExpr(e.right, IF right THEN p ELSE p + 1)
         [] e.node = "IsNull" -> RenderExpr(e.expr, OperandLevel) \o Spelled("IS") \o not \o Spelled("NULL")
         [] e.node = "Between" -> RenderExpr(e.expr, OperandLevel) \o not \o Spelled("BETWEEN") \o RenderExpr(e.low, 5)
                                  \o Spelled("AND") \o RenderExpr(e.high, 5)
         [] e.node = "In" -> RenderExpr(e.expr, OperandLevel) \o not \o Spelled("IN")
                             \o Enclosed(IF e.sub THEN RenderSelect(e.values[1]) ELSE RenderList(e.values))
         [] e.node = "Case" ->
              Spelled("CASE") \o RenderList(e.subject)
              \o FlattenSeq([k \in 1..Len(e.whens) |-> Spelled("WHEN") \o RenderExpr(e.whens[k].condition, 0)
                                                       \o Spelled("THEN") \o RenderExpr(e.whens[k].result, 0)])
              \o RenderClause(Spelled("ELSE"), e.else) \o Spelled("END")
         [] e.node = "Call" -> <<e.name>> \o Enclosed(When(e.distinct, Spelled("DISTINCT"))
                                                      \o IF e.star THEN Spelled("*") ELSE RenderList(e.args))
         [] e.node = "Subquery" -> Enclosed(RenderSelect(e.select))

TableWords(ref) ==
    CASE ref.node = "TableRef" -> Dotted(ref.path)
      [] ref.node = "SubqueryRef" -> Enclosed(RenderSelect(ref.select))
      [] ref.node = "AliasedRef" -> RenderTable(ref.ref) \o Spelled("AS") \o <<ref.alias>>
      [] ref.node = "JoinRef" -> RenderTable(ref.left) \o When(ref.type # "INNER", Spelled(ref.type)) \o Spelled("JOIN")
                                 \o RenderTable(ref.right) \o RenderClause(Spelled("ON"), ref.condition)

RenderItem(item) == RenderExpr(item.expr, 0) \o When(Len(item.alias) > 0, Spelled("AS") \o item.alias)
RenderKey(key) == RenderExpr(key.expr, 0) \o When(key.order = "DESC", Spelled("DESC"))
                 \o When(key.nulls # "UNSPECIFIED", Spelled("NULLS") \o Spelled(key.nulls))

SelectWords(s) ==
    Spelled("SELECT") \o When(s.distinct, Spelled("DISTINCT")) \o Commas([k \in 1..Len(s.list) |-> RenderItem(s.list[k])])
    \o When(Len(s.from) > 0, Spelled("FROM") \o Commas([k \in 1..Len(s.from) |-> RenderTable(s.from[k])]))
    \o RenderClause(Spelled("WHERE"), s.where)
    \o RenderClause(Spelled("GROUP") \o Spelled("BY"), s.group)
    \o RenderClause(Spelled("HAVING"), s.having)
    \o When(Len(s.order) > 0, Spelled("ORDER") \o Spelled("BY") \o Commas([k \in 1..Len(s.order) |-> RenderKey(s.order[k])]))
    \o RenderClause(Spelled("LIMIT"), s.limit) \o RenderClause(Spelled("OFFSET"), s.offset)
    \o When(Len(s.setOp) > 0, Spelled("UNION") \o When(s.setOp[1] = "UNION ALL", Spelled("ALL")) \o RenderSelect(s.setOp[2]))

RenderColumn(c) ==
    LET type == CHOOSE k \in DOMAIN PlainTypes \cup {"DECIMAL", "VARCHAR"} :
                    IF k \in DOMAIN PlainTypes THEN PlainTypes[k] = c.type.id /\ c.type.id # "VARCHAR" ELSE k = c.type.id
        Constraint(k) == CASE k.kind = "NOT_NULL" -> Spelled("NOT") \o Spelled("NULL")
                           [] k.kind = "PRIMARY_KEY" -> Spelled("PRIMARY") \o Spelled("KEY")
                           [] k.kind = "DEFAULT" -> Spelled("DEFAULT") \o RenderExpr(k.expr[1], 0)
        params == IF c.type.params = <<18, 0>> THEN << >>
                  ELSE IF Len(c.type.params) = 2 /\ c.type.params[2] = 0 THEN <<c.type.params[1]>>
                  ELSE c.type.params
    IN <<c.name>> \o Spelled(type)
       \o When(Len(params) > 0, Enclosed(Commas([k \in 1..Len(params) |-> <<Decimal(params[k])>>])))
       \o FlattenSeq([k \in 1..Len(c.constraints) |-> Constraint(c.constraints[k])])

StatementWords(s) ==
    CASE s.node = "Select" -> RenderSelect(s)
      [] s.node = "Insert" ->
           Spelled("INSERT") \o Spelled("INTO") \o Dotted(s.table)
           \o When(Len(s.columns) > 0, Enclosed(Commas([k \in 1..Len(s.columns) |-> <<s.columns[k]>>])))
           \o IF s.sub THEN RenderSelect(s.rows[1])
              ELSE Spelled("VALUES") \o Commas([k \in 1..Len(s.rows) |-> Enclosed(RenderList(s.rows[k]))])
      [] s.node = "Update" ->
           Spelled("UPDATE") \o Dotted(s.table) \o Spelled("SET")
           \o Commas([k \in 1..Len(s.assignments) |->
                        <<s.assignments[k].column>> \o Spelled("=") \o RenderExpr(s.assignments[k].value, 0)])
           \o RenderClause(Spelled("WHERE"), s.where)
      [] s.node = "Delete" ->
           Spelled("DELETE") \o Spelled("FROM") \o Dotted(s.table) \o RenderClause(Spelled("WHERE"), s.where)
      [] s.node = "Create" ->
           Spelled("CREATE") \o Spelled("TABLE") \o Dotted(s.table)
           \o Enclosed(Commas([k \in 1..Len(s.columns) |-> RenderColumn(s.columns[k])]))
      [] s.node = "Drop" -> Spelled("DROP") \o Spelled("TABLE") \o Dotted(s.table)

Render(rule, x) ==
    CASE rule[1] = "expr" ->
           When(Level(x) < rule[2], Spelled("(")) \o ExprWords(x) \o When(Level(x) < rule[2], Spelled(")"))
      [] rule[1] = "select" -> SelectWords(x)
      [] rule[1] = "table" -> TableWords(x)
      [] rule[1] = "statement" -> StatementWords(x)
RenderStatement(s) == Render(<<"statement">>, s)
-----------------------------------------------------------------------------
(* Words as lines: all on one; one word a line; on one line without a      *)
(* blank that is not needed; with comments in between.                     *)

NeedsBlank(u, v) ==
    LET letters == Words \cup Digits
    IN \/ Last(u) \in letters /\ v[1] \in letters
       \/ Last(u) \in Digits /\ v[1] = "."
       \/ <<Last(u), v[1]>> \in {<<"-", "-">>, <<"/", "*">>, <<"<", "=">>, <<"<", ">">>, <<">", "=">>, <<"-", ">">>,
                                 <<"'", "'">>, <<"\"", "\"">>}

Comment == <<"/", "*", "'", "/", "*", "-", "-", "*", "/", "SELECT", "*", "/">>

Layout(words, style) ==
    CASE style = "line" -> <<FlattenSeq([k \in 1..Len(words) |-> words[k] \o <<" ">>])>>
      [] style = "rows" -> words
      [] style = "tight" ->
           <<FlattenSeq([k \in 1..Len(words) |-> words[k] \o When(k < Len(words) /\ NeedsBlank(words[k], words[k + 1]), <<" ">>)])>>
      [] style = "comments" ->
           << <<"-", "-", "'", "SELECT">>, FlattenSeq([k \in 1..Len(words) |-> Comment \o words[k]]) >>

(* An item of a script: statements, a command, or words that claim nothing.*)
ItemWords(item, closed) ==
    CASE item[1] = "sql" -> FlattenSeq([k \in 1..Len(item[2]) |->
                                RenderStatement(item[2][k]) \o When(closed \/ k < Len(item[2]), Spelled(";"))])
      [] item[1] = "words" -> item[2]
      [] item[1] = "mode" -> << <<".", "mode">>, <<item[2]>> >>
      [] item[1] = "timing" -> << <<".", "timing">>, <<IF item[2] THEN "on" ELSE "off">> >>
      [] item[1] = "read" -> << <<".", "read">>, item[2] >>
      [] item[1] = "quit" -> << <<".", item[2]>> >>
      [] item[1] = "command" -> item[2]

Lines(items, style, closed) ==
    FlattenSeq([k \in 1..Len(items) |->
        Layout(ItemWords(items[k], closed \/ k < Len(items)), IF items[k][1] \in {"sql", "words"} THEN style ELSE "line")])

Given(s) ==
    LET lines == Lines(s.items, s.layout, s.closed)
    IN CASE s.how = "-c" -> FlattenSeq([k \in 1..Len(lines) |-> Append(lines[k], "\n")])
         [] s.how = "file" -> s.items[1][2]
         [] OTHER -> lines
-----------------------------------------------------------------------------
Ended == phase \in {"done", "crashed"}
Next ==
    \/ (Main(script.how, Given(script)) \/ ShellNext) /\ UNCHANGED script
    \/ Ended /\ UNCHANGED vars

(* One thread runs the program, and every step of it ends: it goes on      *)
(* until it has ended.  This is weak fairness of ShellNext, since there is *)
(* no deadlock before the end, without TLC's evaluation of ENABLED, which  *)
(* would parse the text anew for every LET of the parser.                  *)
GoesOn == []<>Ended \/ []<><<TRUE>>_vars
-----------------------------------------------------------------------------
(* The script as it was meant: what is to be done, in order.               *)
RECURSIVE Intended(_, _)
Intended(items, so) ==
    LET item == Head(items)
        rest == Tail(items)
        Done(entries) == [so EXCEPT !.deeds = @ \o entries]
    IN IF items = << >> THEN so
       ELSE CASE item[1] = "sql" ->
                   Intended(rest, Done([k \in 1..Len(item[2]) |-> <<"ran", item[2][k], so.mode, so.timing>>]))
              [] item[1] = "mode" -> Intended(rest, [so EXCEPT !.mode = item[2]])
              [] item[1] = "timing" -> Intended(rest, [so EXCEPT !.timing = item[2]])
              [] item[1] = "quit" -> so
              [] item[1] = "command" -> Intended(rest, Done(<<item[3]>>))
              [] item[1] \in {"read", "file"} ->
                   IF item[2] \notin DOMAIN Library \/ so.depth = MaxOpen
                   THEN Intended(rest, Done(<< <<"complaint", "file">> >>))
                   ELSE Intended(rest, [Intended(Library[item[2]], [so EXCEPT !.depth = @ + 1]) EXCEPT !.depth = so.depth])

Deeds == Intended(script.items, [deeds |-> << >>, mode |-> "table", timing |-> TRUE,
                                 depth |-> IF script.how = "file" THEN 0 ELSE 1]).deeds

Does(entry, deed) ==
    IF entry[1] = "ran"
    THEN <<"ran", entry[2], entry[4], entry[5]>> = [deed EXCEPT ![4] = @ /\ interactive]
    ELSE IF entry[1] = "failed" THEN deed[1] = "ran" /\ entry[2] = deed[2]
    ELSE entry = deed

(* A script does what it was written to do: every statement reaches the    *)
(* connection as the tree it was written for, whatever its layout, in      *)
(* order, once, under the mode and the timing the commands before it set;  *)
(* .read takes the file's place.  Parentheses are written where the table  *)
(* of levels in docs/sql-reference.md asks for them.  With OperandLevel =  *)
(* 5 that is all of them; with 9 a writer also puts every sum, product and *)
(* power in parentheses that is tested by a postfix operator.              *)
StatementsRunAsWritten ==
    (\A k \in 1..Len(script.items) : script.items[k][1] # "words") =>
        /\ Len(log) <= Len(Deeds)
        /\ \A k \in 1..Len(log) : Does(log[k], Deeds[k])
        /\ phase = "done" => Len(log) = Len(Deeds)
-----------------------------------------------------------------------------
(* The words of a text, without those that have another way to say them.   *)
Gist(words) ==
    LET Silent(k) == \/ words[k] \in {<<"(">>, <<")">>, <<";">>, <<"NOT">>, <<"AS">>, <<"INNER">>, <<"OUTER">>, <<"ASC">>}
                     \/ words[k] = <<"ALL">> /\ words[k - 1] = <<"SELECT">>
        Said(k) == IF words[k][1] \in DOMAIN PlainTypes THEN <<PlainTypes[words[k][1]]>>
                   ELSE IF words[k] = <<"NUMERIC">> THEN <<"DECIMAL">>
                   ELSE [j \in 1..Len(words[k]) |-> Upper(words[k][j])]
    IN [words |-> FlattenSeq([k \in 1..Len(words) |-> IF Silent(k) THEN << >> ELSE <<Said(k)>>]),
        nots |-> Cardinality({k \in 1..Len(words) : words[k] = <<"NOT">>})]

TokenWord(i) == IF Kind(i) \in {"IDENT", "LIT_INTEGER", "LIT_FLOAT", "LIT_STRING"} THEN Text(i) ELSE Spelled(Kind(i))[1]

(* A statement that is accepted says what its whole text says: no token    *)
(* was passed over or used twice on the way to the tree (parseStatement    *)
(* and all it calls), whatever the tokens.                                 *)
NothingIgnored ==
    LET Says(parsed) == parsed.at = 0 \/ Gist(RenderStatement(parsed.node)) = Gist([i \in 1..(Len(tokens) - 1) |-> TokenWord(i)])
    IN phase = "parse" /\ errors = << >> => Says(ParseStatement)
-----------------------------------------------------------------------------
(* What an expression means: exact arithmetic, and the logic of three      *)
(* values as an order, false (0) < unknown (1) < true (2).  No claim is    *)
(* made where the exact result is no INT64, where types do not fit, for a  *)
(* text with "%" on the left of LIKE, and for BETWEEN with a NULL bound,   *)
(* which evaluate answers with NULL even when the other bound decides.     *)
NoClaim == <<"NO CLAIM">>

Exact(n) == IF n \in MinInt..MaxInt THEN Int64(n) ELSE NoClaim
Truth(v) == IF v = NullValue THEN 1 ELSE IF IsZero(ToDouble(v)) THEN 0 ELSE 2
OfTruth(t) == <<Bool(FALSE), NullValue, Bool(TRUE)>>[t + 1]
HasTruth(v) == v = NullValue \/ HasDouble(v)

Equal(a, b) ==
    IF NullValue \in {a, b} THEN 1
    ELSE IF IF IsNumeric(a) THEN ToDouble(a) = ToDouble(b) ELSE a[2] = b[2] THEN 2 ELSE 0
Alike(a, b) == NullValue \in {a, b} \/ (IsNumeric(a) /\ IsNumeric(b)) \/ (a[1] = b[1] /\ a # NoClaim)
Less(a, b) ==
    IF NullValue \in {a, b} THEN 1
    ELSE IF IF a[1] = "VARCHAR" THEN TextBelow(a[2], b[2]) ELSE Below(ToDouble(a), ToDouble(b)) THEN 2 ELSE 0

Reckon(op, a, b) ==
    LET x == ToDouble(a)
        y == ToDouble(b)
        whole == IsInteger(a) /\ IsInteger(b)
    IN CASE op = "+" -> IF whole THEN Exact(a[2] + b[2]) ELSE Float64(Plus(x, y))
         [] op = "-" -> IF whole THEN Exact(a[2] - b[2]) ELSE Float64(Plus(x, Negative(y)))
         [] op = "*" -> IF whole THEN Exact(a[2] * b[2]) ELSE Float64(Times(x, y))
         [] op \in {"/", "%"} /\ IsZero(y) -> NullValue
         [] op = "/" /\ ~IsZero(y) -> Float64(Over(x, y))
         [] op = "%" /\ ~IsZero(y) ->
              IF ~whole \/ Exact(Quotient(a[2], b[2])) = NoClaim THEN NoClaim
              ELSE Int64(CHOOSE r \in MinInt..MaxInt : /\ Magnitude(r) < Magnitude(b[2]) /\ (a[2] - r) % Magnitude(b[2]) = 0
                                                       /\ r = 0 \/ (r < 0) = (a[2] < 0))
         [] OTHER -> NoClaim

(* "%" (any run) and "_" (one char).                                       *)
RECURSIVE Matches(_, _, _)
Matches(text, pattern, ci) ==
    LET Same(c, d) == IF ci THEN Lower(c) = Lower(d) ELSE c = d
    IN IF pattern = << >> THEN text = << >>
       ELSE IF Head(pattern) = "%"
            THEN \E k \in 0..Len(text) : Matches(SubSeq(text, k + 1, Len(text)), Tail(pattern), ci)
       ELSE /\ text # << >>
            /\ Head(pattern) = "_" \/ Same(Head(pattern), Head(text))
            /\ Matches(Tail(text), Tail(pattern), ci)

RECURSIVE Meaning(_)
MeaningOfBinary(op, a, b) ==
    CASE NoClaim \in {a, b} -> NoClaim
      [] op \in {"AND", "OR"} /\ NoClaim \notin {a, b} ->
           IF ~HasTruth(a) \/ ~HasTruth(b) THEN NoClaim
           ELSE OfTruth(IF op = "AND" THEN Min({Truth(a), Truth(b)}) ELSE Max({Truth(a), Truth(b)}))
      [] op \notin {"AND", "OR"} /\ NoClaim \notin {a, b} /\ NullValue \in {a, b} -> NullValue
      [] op \in {"=", "<>", "<", "<=", ">", ">="} /\ {a, b} \cap {NoClaim, NullValue} = {} ->
           IF ~Alike(a, b) THEN NoClaim
           ELSE OfTruth(CASE op = "=" -> Equal(a, b)
                          [] op = "<>" -> 2 - Equal(a, b)
                          [] op = "<" -> Less(a, b)
                          [] op = ">=" -> 2 - Less(a, b)
                          [] op = ">" -> Less(b, a)
                          [] op = "<=" -> 2 - Less(b, a))
      [] op \in {"LIKE", "ILIKE"} /\ {a, b} \cap {NoClaim, NullValue} = {} ->
           IF a[1] # "VARCHAR" \/ b[1] # "VARCHAR" \/ "%" \in Range(a[2]) THEN NoClaim
           ELSE Bool(Matches(a[2], b[2], op = "ILIKE"))
      [] OTHER -> IF IsNumeric(a) /\ IsNumeric(b) THEN Reckon(op, a, b) ELSE NoClaim

Meaning(e) ==
    LET Negate(v, negated) == IF v = NoClaim \/ ~negated THEN v ELSE OfTruth(2 - Truth(v))
    IN CASE e.node = "Literal" -> e.value
         [] e.node = "Unary" ->
              LET v == Meaning(e.operand)
              IN CASE v = NoClaim -> NoClaim
                   [] e.op = "NOT" /\ v # NoClaim -> IF HasTruth(v) THEN OfTruth(2 - Truth(v)) ELSE NoClaim
                   [] e.op = "-" /\ v # NoClaim -> IF v = NullValue THEN v
                                                   ELSE MeaningOfBinary("-", Int64(0), v)
                   [] OTHER -> v
         [] e.node = "Binary" -> MeaningOfBinary(e.op, Meaning(e.left), Meaning(e.right))
         [] e.node = "IsNull" ->
              LET v == Meaning(e.expr) IN IF v = NoClaim THEN v ELSE Bool((v = NullValue) # e.negated)
         [] e.node = "Between" ->
              LET v == Meaning(e.expr)
                  low == Meaning(e.low)
                  high == Meaning(e.high)
              IN IF NullValue \in {low, high} THEN NoClaim
                 ELSE Negate(MeaningOfBinary("AND", MeaningOfBinary(">=", v, low), MeaningOfBinary("<=", v, high)), e.negated)
         [] e.node = "In" /\ ~e.sub /\ Len(e.values) > 0 ->
              LET v == Meaning(e.expr)
                  Among[k \in 0..Len(e.values)] ==
                      IF k = 0 THEN Bool(FALSE)
                      ELSE MeaningOfBinary("OR", Among[k - 1], MeaningOfBinary("=", v, Meaning(e.values[k])))
              IN Negate(Among[Len(e.values)], e.negated)
         [] e.node = "Case" ->
              LET Test(k) == LET c == Meaning(e.whens[k].condition)
                             IN IF Len(e.subject) = 0 THEN c ELSE MeaningOfBinary("=", Meaning(e.subject[1]), c)
                  tests == {Test(k) : k \in 1..Len(e.whens)}
                  hits == {k \in 1..Len(e.whens) : Test(k) # NullValue /\ Truth(Test(k)) = 2}
              IN IF \E t \in tests : ~HasTruth(t) THEN NoClaim
                 ELSE IF hits # {} THEN Meaning(e.whens[Min(hits)].result)
                 ELSE IF Len(e.else) = 0 THEN NullValue ELSE Meaning(e.else[1])
         [] e.node = "Call" /\ e.name = <<"COALESCE">> ->
              LET args == {k \in 1..Len(e.args) : Meaning(e.args[k]) # NullValue}
              IN IF args = {} THEN NullValue ELSE Meaning(e.args[Min(args)])
         [] OTHER -> NoClaim

(* What a SELECT of constants answers is what its expressions mean, and    *)
(* none that means something fails or ends the process (evaluate, with its *)
(* short-circuits, its early returns and its arithmetic of the machine).   *)
AnswersMeanTheirExpressions ==
    \A k \in 1..Len(log) :
        LET list == log[k][2].list
            meant == [j \in 1..Len(list) |-> Meaning(list[j].expr)]
        IN CASE log[k][1] = "ran" -> \A j \in 1..Len(log[k][3]) : meant[j] \in {NoClaim, log[k][3][j]}
             [] log[k][1] = "failed" -> \E j \in 1..Len(list) : meant[j] = NoClaim
             [] OTHER -> TRUE

(* Whatever the input, even a file that reads itself, the shell gets to    *)
(* its end, or to the one remainder that kills it.                         *)
ShellEnds == <>(phase \in {"done", "crashed"})
=============================================================================
