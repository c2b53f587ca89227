----------------------------- MODULE Evaluator -----------------------------
(***************************************************************************)
(* evaluate (src/execution/eval.cpp): the value of an expression on a row. *)
(* A row gives a value to each column name of the schema, a name being     *)
(* <<column>> or <<table, column>>.  Besides a value the outcome may be    *)
(* an exception; the signal with which the processor answers the one       *)
(* division it cannot represent and which ends the process; or, where      *)
(* std::pow gives no fraction the model has, Opaque: no claim is made.     *)
(***************************************************************************)
EXTENDS Parser

CONSTANT MaxExponent    \* the largest power the model computes

Raise == <<"RAISE">>
Trap == <<"TRAP">>
Opaque == <<"OPAQUE">>
Stops(v) == v \in {Raise, Trap, Opaque}

(* The first of the values vs, evaluated in this order, that is none.      *)
Unless(vs, result) ==
    IF \A k \in 1..Len(vs) : ~Stops(vs[k]) THEN result
    ELSE vs[CHOOSE k \in 1..Len(vs) : Stops(vs[k]) /\ \A j \in 1..(k - 1) : ~Stops(vs[j])]

MinInt == -MaxInt - 1
(* Signed overflow, as the machine's two's complement shows it.            *)
Wrap(n) == ((n - MinInt) % (2 * (MaxInt + 1))) + MinInt

IsNull(v) == v = NullValue
IsInteger(v) == v[1] = "INT64"
IsNumeric(v) == v[1] \in {"INT64", "FLOAT64"}

(* Value::toDouble; it throws on NULL and on strings.                      *)
HasDouble(v) == v[1] \in {"INT64", "FLOAT64", "BOOLEAN"}
ToDouble(v) ==
    CASE v[1] = "FLOAT64" -> v[2]
      [] v[1] = "INT64" -> Whole(v[2])
      [] v[1] = "BOOLEAN" -> Whole(IF v[2] THEN 1 ELSE 0)

(* std::string::compare, by the order of the characters.                   *)
CharOrder == <<" ", "%", "'", "-", "0", "1", ";", "A", "B", "E", "T", "_", "a", "b", "e", "t">>
Rank(c) == CHOOSE k \in 1..Len(CharOrder) : CharOrder[k] = c
TextBelow(s, t) ==
    \E k \in 0..Len(s) :
        /\ k < Len(t) /\ SubSeq(s, 1, k) = SubSeq(t, 1, k)
        /\ k = Len(s) \/ Rank(s[k + 1]) < Rank(t[k + 1])

Unknown == 2
Incomparable == 3       \* compareValues throws

CompareValues(a, b) ==
    LET Sign(less, more) == IF less THEN -1 ELSE IF more THEN 1 ELSE 0
    IN CASE IsNull(a) \/ IsNull(b) -> Unknown
         [] IsNumeric(a) /\ IsNumeric(b) ->
              Sign(Below(ToDouble(a), ToDouble(b)), Below(ToDouble(b), ToDouble(a)))
         [] a[1] = "BOOLEAN" /\ b[1] = "BOOLEAN" -> Sign(~a[2] /\ b[2], a[2] /\ ~b[2])
         [] a[1] = "VARCHAR" /\ b[1] = "VARCHAR" -> Sign(TextBelow(a[2], b[2]), TextBelow(b[2], a[2]))
         [] OTHER -> Incomparable

(* 0, 1 or Unknown; Incomparable where the code throws.                    *)
Truthiness(v) ==
    CASE IsNull(v) -> Unknown
      [] HasDouble(v) -> IF IsZero(ToDouble(v)) THEN 0 ELSE 1
      [] OTHER -> Incomparable

BoolValue(t) == IF t = Unknown THEN NullValue ELSE Bool(t = 1)

(* std::pow, for whole exponents; 10 ^ digits in ROUND too.                *)
Power(p, n) == IF n = 0 THEN Whole(1) ELSE IF n > 0 THEN <<p[1] ^ n, p[2] ^ n>> ELSE Fraction(p[2] ^ (-n), p[1] ^ (-n))
HasPower(p, q) == q[2] = 1 /\ Magnitude(q[1]) <= MaxExponent /\ (q[1] >= 0 \/ ~IsZero(p))

EvalArithmetic(op, l, r) ==
    LET x == ToDouble(l)
        y == ToDouble(r)
        a == l[2]
        b == r[2]
    IN CASE IsNull(l) \/ IsNull(r) -> NullValue
         [] ~IsNull(l) /\ ~IsNull(r) /\ ~(IsNumeric(l) /\ IsNumeric(r)) -> Raise
         [] IsInteger(l) /\ IsInteger(r) /\ op = "+" -> Int64(Wrap(a + b))
         [] IsInteger(l) /\ IsInteger(r) /\ op = "-" -> Int64(Wrap(a - b))
         [] IsInteger(l) /\ IsInteger(r) /\ op = "*" -> Int64(Wrap(a * b))
         [] IsInteger(l) /\ IsInteger(r) /\ op = "%" ->
              IF b = 0 THEN NullValue ELSE IF a = MinInt /\ b = -1 THEN Trap ELSE Int64(Remainder(a, b))
         [] OTHER ->
              CASE op = "+" -> Float64(Plus(x, y))
                [] op = "-" -> Float64(Plus(x, Negative(y)))
                [] op = "*" -> Float64(Times(x, y))
                [] op = "/" -> IF IsZero(y) THEN NullValue ELSE Float64(Over(x, y))
                [] op = "%" -> IF IsZero(y) THEN NullValue
                               ELSE Float64(Plus(x, Negative(Times(y, Whole(Quotient(Over(x, y)[1], Over(x, y)[2]))))))
                [] op = "^" -> IF HasPower(x, y) THEN Float64(Power(x, y[1])) ELSE Opaque

Compared(op, c) ==
    CASE c = Incomparable -> Raise
      [] c = Unknown -> NullValue
      [] op = "=" -> Bool(c = 0)
      [] op = "<>" -> Bool(c # 0)
      [] op = "<" -> Bool(c < 0)
      [] op = "<=" -> Bool(c <= 0)
      [] op = ">" -> Bool(c > 0)
      [] op = ">=" -> Bool(c >= 0)

RECURSIVE Decimal(_), LikeFrom(_, _, _, _, _, _, _)

(* std::to_string: digits; a double with six of them after the point.      *)
Decimal(n) ==
    LET digit == CHOOSE c \in Digits : DigitValue[c] = n % 10
    IN IF n < 10 THEN <<digit>> ELSE Append(Decimal(n \div 10), digit)

ToText(v) ==
    LET sign == IF (v[1] = "INT64" /\ v[2] < 0) \/ (v[1] = "FLOAT64" /\ v[2][1] < 0) THEN <<"-">> ELSE << >>
        millionths == (2 * 10 ^ 6 * Magnitude(v[2][1]) + v[2][2]) \div (2 * v[2][2])
        places == SubSeq(Decimal(10 ^ 6 + (millionths % 10 ^ 6)), 2, 7)
    IN CASE v[1] = "VARCHAR" -> v[2]
         [] v[1] = "BOOLEAN" -> <<IF v[2] THEN "true" ELSE "false">>
         [] v[1] = "INT64" -> sign \o Decimal(Magnitude(v[2]))
         [] v[1] = "FLOAT64" -> sign \o Decimal(millionths \div 10 ^ 6) \o <<".">> \o places

(* likeMatch from places ti and pi of the two strings on; star is the last *)
(* "%" met (0: none), tstar where its run ends.  A character of the        *)
(* pattern is compared before it is known for a wildcard.                  *)
LikeFrom(text, pattern, ci, ti, pi, star, tstar) ==
    LET Same(c, d) == IF ci THEN Lower(c) = Lower(d) ELSE c = d
        inPattern == pi <= Len(pattern)
    IN IF ti > Len(text) THEN \A k \in pi..Len(pattern) : pattern[k] = "%"
       ELSE IF inPattern /\ (pattern[pi] = "_" \/ Same(pattern[pi], text[ti]))
            THEN LikeFrom(text, pattern, ci, ti + 1, pi + 1, star, tstar)
       ELSE IF inPattern /\ pattern[pi] = "%"
            THEN LikeFrom(text, pattern, ci, ti, pi + 1, pi, ti)
       ELSE star # 0 /\ LikeFrom(text, pattern, ci, tstar + 1, star + 1, star, tstar + 1)

Like(text, pattern, ci) == LikeFrom(text, pattern, ci, 1, 1, 0, 1)

(* The binary operators that evaluate both sides first.                    *)
EvalStrict(op, l, r) ==
    CASE op \in {"+", "-", "*", "/", "%", "^"} -> EvalArithmetic(op, l, r)
      [] op \in {"=", "<>", "<", "<=", ">", ">="} -> Compared(op, CompareValues(l, r))
      [] op = "||" -> IF IsNull(l) \/ IsNull(r) THEN NullValue ELSE Varchar(ToText(l) \o ToText(r))
      [] op \in {"LIKE", "ILIKE"} ->
           IF IsNull(l) \/ IsNull(r) THEN NullValue
           ELSE IF l[1] # "VARCHAR" \/ r[1] # "VARCHAR" THEN Raise
           ELSE Bool(Like(l[2], r[2], op = "ILIKE"))

EvalUnary(op, v) ==
    CASE op = "+" -> v
      [] op = "-" -> IF IsNull(v) THEN NullValue
                     ELSE IF IsInteger(v) THEN Int64(Wrap(-v[2]))
                     ELSE IF HasDouble(v) THEN Float64(Negative(ToDouble(v))) ELSE Raise
      [] op = "NOT" -> LET t == Truthiness(v) IN IF t = Incomparable THEN Raise
                                                 ELSE BoolValue(IF t = Unknown THEN Unknown ELSE 1 - t)

Aggregates == {"SUM", "COUNT", "AVG", "MIN", "MAX", "STDDEV", "VARIANCE"}

(* The scalar functions of one argument that is not NULL, and ROUND.       *)
EvalFunction(fn, v) ==
    CASE fn = "ABS" -> IF IsInteger(v) THEN Int64(Wrap(Magnitude(v[2])))
                       ELSE IF HasDouble(v) THEN Float64(<<Magnitude(ToDouble(v)[1]), ToDouble(v)[2]>>) ELSE Raise
      [] fn = "LENGTH" -> IF v[1] = "VARCHAR" THEN Int64(Len(v[2])) ELSE Raise
      [] fn = "UPPER" -> IF v[1] = "VARCHAR" THEN Varchar([k \in 1..Len(v[2]) |-> Upper(v[2][k])]) ELSE Raise
      [] fn = "LOWER" -> IF v[1] = "VARCHAR" THEN Varchar([k \in 1..Len(v[2]) |-> Lower(v[2][k])]) ELSE Raise
      [] OTHER -> Raise

(* std::round goes away from zero at a half.                               *)
EvalRound(v, digits) ==
    LET scale == Power(Whole(10), digits)
        x == Times(ToDouble(v), scale)
        whole == (2 * Magnitude(x[1]) + x[2]) \div (2 * x[2])
    IN Float64(Over(Whole(IF x[1] < 0 THEN -whole ELSE whole), scale))
-----------------------------------------------------------------------------
RECURSIVE Evaluate(_, _), EvalIn(_, _, _, _), EvalWhens(_, _, _, _), FirstNotNull(_, _)

(* Schema::indexOf, first with the table's name in front, then without.    *)
EvalColumn(path, row) ==
    LET name == path[Len(path)]
        full == IF Len(path) > 1 THEN <<path[Len(path) - 1], name>> ELSE <<name>>
    IN CASE name = <<"*">> -> Raise
         [] name # <<"*">> /\ full \in DOMAIN row -> row[full]
         [] name # <<"*">> /\ full \notin DOMAIN row /\ <<name>> \in DOMAIN row -> row[<<name>>]
         [] OTHER -> Raise

(* AND and OR skip the right side once the left decides (decisive: 0 for   *)
(* AND, 1 for OR).                                                         *)
EvalLogical(e, row, decisive) ==
    LET lv == Evaluate(e.left, row)
        rv == Evaluate(e.right, row)
        l == Truthiness(lv)
        r == Truthiness(rv)
    IN CASE Stops(lv) -> lv
         [] ~Stops(lv) /\ l = Incomparable -> Raise
         [] ~Stops(lv) /\ l = decisive -> Bool(decisive = 1)
         [] OTHER -> Unless(<<rv>>, CASE r = Incomparable -> Raise
                                      [] r = decisive -> Bool(decisive = 1)
                                      [] r # decisive /\ Unknown \in {l, r} -> NullValue
                                      [] OTHER -> Bool(decisive = 0))

(* Mutant of EvalIn: a comparison that is unknown counts as false.         *)
EvalInTwoValued(e, v, k, row) ==
    Bool(e.negated # \E j \in k..Len(e.values) : CompareValues(v, Evaluate(e.values[j], row)) = 0)

(* The loop of IN over the values from k on.                               *)
EvalIn(e, v, k, row) ==
    LET item == Evaluate(e.values[k], row)
        c == CompareValues(v, item)
        rest == EvalIn(e, v, k + 1, row)
    IN IF k > Len(e.values) THEN Bool(e.negated)
       ELSE IF Stops(item) THEN item
       ELSE IF c = Incomparable THEN Raise
       ELSE IF c = 0 THEN Bool(~e.negated)
       ELSE IF c = Unknown /\ rest = Bool(e.negated) THEN NullValue
       ELSE rest

(* CASE from its k-th WHEN on; subject: the subject's value, if any.       *)
EvalWhens(e, subject, k, row) ==
    LET condition == Evaluate(e.whens[k].condition, row)
        verdict == IF Len(e.subject) = 0 THEN Truthiness(condition) = 1 ELSE CompareValues(subject, condition) = 0
        raises == Incomparable = IF Len(e.subject) = 0 THEN Truthiness(condition) ELSE CompareValues(subject, condition)
    IN IF k > Len(e.whens) THEN IF Len(e.else) = 0 THEN NullValue ELSE Evaluate(e.else[1], row)
       ELSE Unless(<<condition>>, CASE raises -> Raise
                                    [] ~raises /\ verdict -> Evaluate(e.whens[k].result, row)
                                    [] OTHER -> EvalWhens(e, subject, k + 1, row))

(* COALESCE: the arguments are evaluated up to the first that is not NULL. *)
FirstNotNull(args, row) ==
    IF args = << >> THEN NullValue
    ELSE LET v == Evaluate(Head(args), row) IN IF IsNull(v) THEN FirstNotNull(Tail(args), row) ELSE v

EvalCall(e, row) ==
    LET fn == e.name[1]
        v == Evaluate(e.args[1], row)
        digits == IF Len(e.args) >= 2 THEN Evaluate(e.args[2], row) ELSE Int64(0)
    IN CASE fn \in Aggregates -> Raise
         [] fn = "COALESCE" -> FirstNotNull(e.args, row)
         [] fn \in {"ABS", "LENGTH", "UPPER", "LOWER"} /\ Len(e.args) = 1 ->
              IF Stops(v) \/ IsNull(v) THEN v ELSE EvalFunction(fn, v)
         [] fn = "ROUND" /\ Len(e.args) >= 1 ->
              IF Stops(v) \/ IsNull(v) THEN v
              ELSE IF ~HasDouble(v) THEN Raise
              ELSE IF Stops(digits) THEN digits
              ELSE IF digits[1] \notin {"INT64", "BOOLEAN"} THEN Raise
              ELSE IF HasPower(Whole(10), ToDouble(digits)) THEN EvalRound(v, ToDouble(digits)[1]) ELSE Opaque
         [] OTHER -> Raise

EvalBetween(e, row) ==
    LET v == Evaluate(e.expr, row)
        low == Evaluate(e.low, row)
        high == Evaluate(e.high, row)
        cl == CompareValues(v, low)
        ch == CompareValues(v, high)
    IN Unless(<<v, low, high>>,
              CASE Incomparable \in {cl, ch} -> Raise
                [] Incomparable \notin {cl, ch} /\ Unknown \in {cl, ch} -> NullValue
                [] OTHER -> Bool((cl >= 0 /\ ch <= 0) # e.negated))

Evaluate(e, row) ==
    CASE e.node = "Literal" -> e.value
      [] e.node = "ColumnRef" -> EvalColumn(e.path, row)
      [] e.node = "Unary" -> LET v == Evaluate(e.operand, row) IN Unless(<<v>>, EvalUnary(e.op, v))
      [] e.node = "Binary" /\ e.op = "AND" -> EvalLogical(e, row, 0)
      [] e.node = "Binary" /\ e.op = "OR" -> EvalLogical(e, row, 1)
      [] e.node = "Binary" /\ e.op \notin {"AND", "OR"} ->
           LET l == Evaluate(e.left, row)
               r == Evaluate(e.right, row)
           IN Unless(<<l, r>>, EvalStrict(e.op, l, r))
      [] e.node = "IsNull" ->
           LET v == Evaluate(e.expr, row) IN Unless(<<v>>, Bool(IsNull(v) # e.negated))
      [] e.node = "Between" -> EvalBetween(e, row)
      [] e.node = "In" ->
           LET v == Evaluate(e.expr, row)
           IN IF Stops(v) \/ IsNull(v) THEN v ELSE IF e.sub THEN Raise ELSE EvalIn(e, v, 1, row)
      [] e.node = "Case" ->
           LET v == IF Len(e.subject) = 0 THEN NullValue ELSE Evaluate(e.subject[1], row)
           IN Unless(<<v>>, EvalWhens(e, v, 1, row))
      [] e.node = "Call" -> EvalCall(e, row)
      [] OTHER -> Raise
=============================================================================
