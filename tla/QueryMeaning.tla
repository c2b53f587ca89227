---------------------------- MODULE QueryMeaning ----------------------------
(***************************************************************************)
(* What a SELECT means, without batches, operators or plans: docs/         *)
(* sql-reference.md read as definitions over sets of row positions.  A     *)
(* tuple <<i, j>> is row i of the left table and row j of the right one, 0 *)
(* where an outer join found no partner or there is no table.              *)
(***************************************************************************)
EXTENDS Query

(* A name belongs to the table it is qualified with, by alias if there is  *)
(* one, or to the only table that has it.                                  *)
Has(ref, e) ==
    /\ IndexOf(db[ref.tbl].cols, e.col) > 0
    /\ e.tbl \in {"", IF ref.alias # "" THEN ref.alias ELSE ref.tbl}

InScope(core, e) == e.kind = "lit" \/ Cardinality({i \in 1..Len(Sources(core)) : Has(Sources(core)[i], e)}) = 1

RowsOf(ref) == db[ref.tbl].rows
CellAt(ref, e, i) == IF i = 0 THEN Null ELSE RowsOf(ref)[i][IndexOf(db[ref.tbl].cols, e.col)]

Cell(core, e, t) ==
    IF e.kind = "lit" THEN e.val
    ELSE IF Has(core.source.left, e) THEN CellAt(core.source.left, e, t[1])
    ELSE CellAt(core.source.right, e, t[2])

TrueAt(core, atoms, t) ==
    \A i \in 1..Len(atoms) :
        LET a == Cell(core, atoms[i].lhs, t)
            b == Cell(core, atoms[i].rhs, t)
        IN a # Null /\ b # Null /\ Compare(atoms[i].cmp, a, b)

Tuples(core) ==
    LET src == core.source
        I == 1..Len(RowsOf(src.left))
        J == 1..Len(RowsOf(src.right))
        Pairs == {t \in I \X J : TrueAt(core, src.on, t)}
        Lefts == {<<i, 0>> : i \in {i \in I : \A j \in J : <<i, j>> \notin Pairs}}
        Rights == {<<0, j>> : j \in {j \in J : \A i \in I : <<i, j>> \notin Pairs}}
    IN CASE Sources(core) = << >> -> {<<0, 0>>}
         [] Sources(core) # << >> /\ src.join = "none" -> {<<i, 0>> : i \in I}
         [] src.join \in {"CROSS", "INNER"} -> Pairs
         [] src.join = "LEFT"  -> Pairs \cup Lefts
         [] src.join = "RIGHT" -> Pairs \cup Rights
         [] src.join = "FULL"  -> Pairs \cup Lefts \cup Rights

Selected(core) == {t \in Tuples(core) : TrueAt(core, core.where, t)}

(* What becomes one row of the result: a tuple, or a group of them.        *)
Units(core) ==
    LET T == Selected(core)
        SameGroup(s, t) == \A k \in 1..Len(core.group) :
            Cell(core, core.group[k], s) = Cell(core, core.group[k], t)
    IN CASE ~ IsAggregateQuery(core) -> {{t} : t \in T}
         [] IsAggregateQuery(core) /\ core.group = << >> -> {T}
         [] IsAggregateQuery(core) /\ core.group # << >> -> {{s \in T : SameGroup(s, t)} : t \in T}

(* The arguments of a call, one for every tuple that has one.              *)
CallValue(core, e, unit) ==
    LET cells == {<<IF e.distinct THEN <<0, 0>> ELSE t, Cell(core, e, t)>> : t \in unit}
        args == {a \in cells : a[2] # Null}
    IN CASE e.col = "*" -> Cardinality(unit)
         [] e.col # "*" /\ e.fn = "COUNT" -> Cardinality(args)
         [] e.col # "*" /\ e.fn # "COUNT" /\ args = {} -> Null
         [] e.fn = "SUM" /\ args # {} -> MapThenSumSet(LAMBDA a : a[2], args)
         [] e.fn = "MIN" /\ args # {} -> Min({a[2] : a \in args})
         [] e.fn = "MAX" /\ args # {} -> Max({a[2] : a \in args})

ExprValue(core, e, unit) ==
    CASE e.kind = "lit" -> e.val
      [] e.kind = "agg" -> CallValue(core, e, unit)
      [] e.kind = "col" -> Cell(core, e, CHOOSE t \in unit : TRUE)

Kept(core) ==
    {unit \in Units(core) : \A i \in 1..Len(core.having) :
        LET a == ExprValue(core, core.having[i].lhs, unit)
            b == ExprValue(core, core.having[i].rhs, unit)
        IN a # Null /\ b # Null /\ Compare(core.having[i].cmp, a, b)}

(* What a row of the result is sorted by: its keys, then its first tuple,  *)
(* those that only the right table has last.                               *)
TupleBefore(s, t) ==
    \/ s[1] # 0 /\ (t[1] = 0 \/ s[1] < t[1])
    \/ s[1] = t[1] /\ s[2] < t[2]

FirstTuple(unit) ==
    IF unit = {} THEN <<0, 0>> ELSE CHOOSE t \in unit : \A s \in unit \ {t} : TupleBefore(t, s)

OrderExpr(core, e) == IF IsAggregateQuery(core) THEN KeyExpr(core, e) ELSE e

ResultBefore(order, r, s) ==
    LET differ == {k \in 1..Len(order) : r.keys[k] # s.keys[k]}
        first == Min(differ)
    IN IF differ = {}
       THEN TupleBefore(r.first, s.first)
       ELSE KeyBefore(order[first], r.keys[first], s.keys[first])

RowOfUnit(core, unit) ==
    IF core.items = Star
    THEN LET Part(ref, i) == [c \in 1..Len(db[ref.tbl].cols) |-> IF i = 0 THEN Null ELSE RowsOf(ref)[i][c]]
         IN Part(core.source.left, FirstTuple(unit)[1]) \o
            IF core.source.join = "none" THEN << >> ELSE Part(core.source.right, FirstTuple(unit)[2])
    ELSE [i \in 1..Len(core.items) |-> ExprValue(core, core.items[i].expr, unit)]

Results(core) ==
    {[keys |-> [k \in 1..Len(core.order) |-> ExprValue(core, OrderExpr(core, core.order[k].expr), unit)],
      first |-> FirstTuple(unit), row |-> RowOfUnit(core, unit)] : unit \in Kept(core)}

InOrder(results, order) ==
    [p \in 1..Cardinality(results) |->
        (CHOOSE r \in results : Cardinality({s \in results : ResultBefore(order, s, r)}) = p - 1).row]

(* No row twice, each where it comes first.                                *)
NoDuplicates(rows) ==
    LET firsts == {i \in 1..Len(rows) : \A j \in 1..i - 1 : rows[j] # rows[i]}
        Nth(n) == CHOOSE i \in firsts : Cardinality({j \in firsts : j <= i}) = n
    IN [n \in 1..Cardinality(firsts) |-> rows[Nth(n)]]

RowsOfCore(core) ==
    LET rows == InOrder(Results(core), core.order)
    IN Window(core, IF core.distinct THEN NoDuplicates(rows) ELSE rows)

(* ORDER BY and LIMIT bind to the SELECT they are written in.              *)
Answer ==
    LET rows == FlattenSeq([c \in 1..Len(Cores) |-> RowsOfCore(Cores[c])])
    IN IF stmt.op = "UNION" THEN NoDuplicates(rows) ELSE rows

-----------------------------------------------------------------------------
(* Statements that have a meaning                                          *)

TypeOf(core, e) ==
    CASE e.kind = "lit" -> IF e.val = Null THEN "null" ELSE IF IsText(e.val) THEN "str" ELSE "num"
      [] e.kind = "agg" /\ e.fn = "COUNT" -> "num"
      [] OTHER -> LET ref == CHOOSE ref \in ToSet(Sources(core)) : Has(ref, e)
                  IN db[ref.tbl].types[IndexOf(db[ref.tbl].cols, e.col)]

(* An expression over the rows of FROM.                                    *)
RowExpr(core, e) == e.kind # "agg" /\ InScope(core, e)

(* An expression over groups: aggregates, keys, constants.                 *)
GroupExpr(core, e) ==
    CASE e.kind = "lit" -> TRUE
      [] e.kind = "agg" -> e.col = "*" \/ (InScope(core, e) /\ (e.fn = "SUM" => TypeOf(core, e) = "num"))
      [] e.kind = "col" -> \E k \in 1..Len(core.group) : core.group[k] = e

AtomsMean(core, atoms, Expr(_, _)) ==
    \A i \in 1..Len(atoms) :
        LET sides == {atoms[i].lhs, atoms[i].rhs}
        IN /\ \A x \in sides : Expr(core, x)
           /\ Cardinality({TypeOf(core, x) : x \in sides} \ {"null"}) <= 1

(* A comparison of a text with a number fails, once AND reaches it for     *)
(* some tuple: AND stops at a comparison that is false.                    *)
WhereFails(core) ==
    LET Sides(i, t) == {Cell(core, core.where[i].lhs, t), Cell(core, core.where[i].rhs, t)}
    IN \E t \in Tuples(core), i \in 1..Len(core.where) :
          /\ Null \notin Sides(i, t) /\ Cardinality({IsText(v) : v \in Sides(i, t)}) = 2
          /\ \A j \in 1..i - 1 : Null \in Sides(j, t) \/ TrueAt(core, <<core.where[j]>>, t)

CoreMeans(core) ==
    LET Expr(c, e) == IF IsAggregateQuery(c) THEN GroupExpr(c, e) ELSE RowExpr(c, e)
    IN /\ \A ref \in ToSet(Sources(core)) : ref.tbl \in DOMAIN db
       /\ AtomsMean(core, core.source.on, RowExpr)
       /\ \A i \in 1..Len(core.where) : RowExpr(core, core.where[i].lhs) /\ RowExpr(core, core.where[i].rhs)
       /\ AtomsMean(core, core.having, Expr)
       /\ \A k \in 1..Len(core.group) : RowExpr(core, core.group[k])
       /\ \A i \in 1..Len(core.items) : (core.items = Star /\ ~ IsAggregateQuery(core)) \/ Expr(core, core.items[i].expr)
       /\ \A k \in 1..Len(core.order) : Expr(core, OrderExpr(core, core.order[k].expr))

(* The cores whose WHERE fails for some tuple.                             *)
Failing == {core \in ToSet(Cores) : WhereFails(core)}

Meaningful ==
    /\ \A c \in 1..Len(Cores) : CoreMeans(Cores[c])
    /\ Cardinality({Width(Cores[c]) : c \in 1..Len(Cores)}) = 1

-----------------------------------------------------------------------------
(* Properties                                                              *)

Statuses == {"planning", "running", "done", "error", "crash"}

(* The state is typed: a call stack position within the plan, batches no   *)
(* longer than the batch size, an operator's counters within its input.    *)
TypeOK ==
    /\ status \in Statuses
    /\ at \in 0..Len(plan) /\ from \in 0..Len(plan)
    /\ mode \in {"ask", "give"}
    /\ Len(batch) <= BatchSize
    /\ DOMAIN st = 1..Len(plan)
    /\ \A n \in DOMAIN st :
          /\ st[n].cursor \in Nat
          /\ st[n].skipped \in 0..plan[n].offset
          /\ plan[n].limit >= 0 => st[n].emitted \in 0..plan[n].limit
    /\ ended \subseteq 1..Len(plan)

(* Whatever way a statement takes, batch by batch through the operators or *)
(* through the typed aggregate path, its rows are the ones it means, in    *)
(* the order it asks for.  It fails if it has no meaning or if its WHERE   *)
(* fails for some tuple, which only a LIMIT may leave unread, and never    *)
(* brings the process down.                                                *)
AnswerCorrect ==
    /\ (status = "done" /\ Meaningful) =>
          /\ Failing = {} => output = Answer
          /\ \A core \in Failing : core.limit # NoLimit
    /\ status = "error" => ~ Meaningful \/ Failing # {}
    /\ status # "crash"

(* next() is not called again on an operator that has returned the empty   *)
(* batch that ends it.                                                     *)
NoPullAfterEnd == (status = "running" /\ mode = "ask") => at \notin ended

(* Every statement is answered: no operator asks for ever.                 *)
QueryEnds == <>(status \notin {"planning", "running"})
=============================================================================
