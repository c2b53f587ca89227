------------------------------- MODULE Query -------------------------------
(***************************************************************************)
(* A SELECT from its parsed statement to its rows: runSelect tries the     *)
(* typed aggregate path, then builds a tree of physical operators and      *)
(* drains it (src/api/connection.cpp, src/execution/fast_aggregate.cpp).   *)
(*                                                                         *)
(* Column names are pairs <<qualifier, name>>, the qualifier "" for a bare *)
(* name.  Columns are INTEGER ("num") or VARCHAR ("str").                  *)
(***************************************************************************)
EXTENDS Pipeline

CONSTANTS Databases,   \* catalogs: table name -> [cols, types, rows]
          Queries      \* SELECT statements

VARIABLES db, stmt

queryVars == <<db, stmt, pipeVars>>

-----------------------------------------------------------------------------
(* Statements as the parser delivers them                                  *)

Ref(t, c) == [kind |-> "col", fn |-> "", distinct |-> FALSE, tbl |-> t, col |-> c, val |-> Null]
Lit(v) == [Ref("", "") EXCEPT !.kind = "lit", !.val = v]
Call(fn, t, c) == [Ref(t, c) EXCEPT !.kind = "agg", !.fn = fn]
CallDistinct(fn, t, c) == [Call(fn, t, c) EXCEPT !.distinct = TRUE]
CountStar == Call("COUNT", "", "*")

Atom(x, cmp, y) == [cmp |-> cmp, lhs |-> x, rhs |-> y]
Item(e, alias) == [expr |-> e, alias |-> alias]
Key(e, asc, nulls) == [expr |-> e, asc |-> asc, nulls |-> nulls]
Star == << Item(Ref("", "*"), "") >>

(* FROM: no table (""), a table, or the join of two; "CROSS" also stands   *)
(* for a comma.                                                            *)
Table(t, alias) == [tbl |-> t, alias |-> alias]
Single(t) == [join |-> "none", left |-> t, right |-> t, on |-> << >>]
Join(type, l, r, on) == [join |-> type, left |-> l, right |-> r, on |-> on]

NoLimit == -1

(* A SELECT without its UNION tail.  Clauses that are absent are empty.    *)
Core(from_, where, items) ==
    [source |-> from_, where |-> where, items |-> items, group |-> << >>, having |-> << >>,
     order |-> << >>, distinct |-> FALSE, limit |-> NoLimit, offset |-> 0]

(* op is "none", "UNION" or "UNION ALL"; without a tail rhs is not used.   *)
Select(core) == [op |-> "none", lhs |-> core, rhs |-> core]
Union(op, l, r) == [op |-> op, lhs |-> l, rhs |-> r]

-----------------------------------------------------------------------------
(* Names                                                                   *)

IndexOf(names, n) ==
    LET found == {i \in 1..Len(names) : names[i] = n}
    IN IF found = {} THEN -1 ELSE Min(found)

(* evaluate of a ColumnRef: the qualified name, or else the bare one; the  *)
(* first column that has it.                                               *)
Resolve(names, e) ==
    IF e.kind = "lit" THEN Constant(e.val)
    ELSE LET qualified == IF e.tbl = "" THEN -1 ELSE IndexOf(names, <<e.tbl, e.col>>)
         IN Column(IF qualified > 0 THEN qualified ELSE IndexOf(names, <<"", e.col>>))

(* scanSchema: an alias qualifies the names.                               *)
ScanNames(ref) ==
    LET cols == db[ref.tbl].cols
    IN [c \in 1..Len(cols) |-> <<ref.alias, cols[c]>>]

ResolveAll(names, atoms) ==
    [i \in 1..Len(atoms) |-> [cmp |-> atoms[i].cmp, lhs |-> Resolve(names, atoms[i].lhs),
                              rhs |-> Resolve(names, atoms[i].rhs)]]

-----------------------------------------------------------------------------
(* buildTableRef, buildSelectCore, buildSelect: the nodes, in postorder    *)

When(cond, node) == IF cond THEN <<node>> ELSE << >>

Sources(core) ==
    IF core.source.left.tbl = "" THEN << >>
    ELSE IF core.source.join = "none" THEN <<core.source.left>>
    ELSE <<core.source.left, core.source.right>>

(* The columns of FROM; a join has those of both sides.                    *)
FromNames(core) == FlattenSeq([t \in 1..Len(Sources(core)) |-> ScanNames(Sources(core)[t])])

(* Without FROM there is one row to evaluate the items over.               *)
FromNodes(core) ==
    LET src == Sources(core)
    IN IF src = << >> THEN << ScanOp(<< <<0>> >>) >>
       ELSE [t \in 1..Len(src) |-> ScanOp(db[src[t].tbl].rows)]
            \o When(Len(src) = 2,
                    JoinOp(core.source.join, ResolveAll(FromNames(core), core.source.on), 1,
                           Len(ScanNames(src[1])), Len(ScanNames(src[2]))))

(* collectAggs, collectInto: one slot for every different call, in SELECT, *)
(* HAVING, ORDER BY order.                                                 *)
Expressions(core) ==
    [i \in 1..Len(core.items) |-> core.items[i].expr]
    \o FlattenSeq([i \in 1..Len(core.having) |-> <<core.having[i].lhs, core.having[i].rhs>>])
    \o [i \in 1..Len(core.order) |-> core.order[i].expr]

IsCall(e) == e.kind = "agg"
Slots(core) == FirstOccurrences(SelectSeq(Expressions(core), IsCall))

IsAggregateQuery(core) ==
    \/ core.group # << >>
    \/ core.having # << >>
    \/ \E i \in 1..Len(core.items) : IsCall(core.items[i].expr)

(* Mutant of SubstAggs: slots are counted from the first column.           *)
SubstAggsShifted(core, slots, e) ==
    IF IsCall(e)
    THEN Column(IndexOf(slots, e))
    ELSE Resolve([k \in 1..Len(core.group) |-> <<"", core.group[k].col>>], e)

(* cloneSubstAggs: over the output of the aggregation a call is the column *)
(* of its slot, and a name is looked up among the bare names of the keys.  *)
SubstAggs(core, slots, e) ==
    IF IsCall(e)
    THEN Column(Len(core.group) + IndexOf(slots, e))
    ELSE Resolve([k \in 1..Len(core.group) |-> <<"", core.group[k].col>>], e)

SlotOf(names, call) ==
    [fn |-> call.fn, star |-> call.col = "*", arg |-> Resolve(names, call), distinct |-> call.distinct]

(* A sort key that names the alias of an item stands for the item.         *)
KeyExpr(core, e) ==
    LET named == {i \in 1..Len(core.items) : e.kind = "col" /\ core.items[i].alias = e.col}
    IN IF named = {} THEN e ELSE core.items[Min(named)].expr

AggregateNodes(core) ==
    LET names == FromNames(core)
        slots == Slots(core)
        Subst(e) == SubstAggs(core, slots, e)
    IN << AggregateOp([k \in 1..Len(core.group) |-> Resolve(names, core.group[k])],
                      [s \in 1..Len(slots) |-> SlotOf(names, slots[s])]) >>
       \o When(core.having # << >>,
               FilterOp([i \in 1..Len(core.having) |->
                   [cmp |-> core.having[i].cmp, lhs |-> Subst(core.having[i].lhs), rhs |-> Subst(core.having[i].rhs)]]))
       \o When(core.order # << >>,
               SortOp([k \in 1..Len(core.order) |->
                   [x |-> Subst(KeyExpr(core, core.order[k].expr)), asc |-> core.order[k].asc,
                    nulls |-> core.order[k].nulls]]))
       \o << ProjectOp([i \in 1..Len(core.items) |-> Subst(core.items[i].expr)]) >>

(* Sorted before the projection, over the columns of FROM.                 *)
PlainNodes(core) ==
    LET names == FromNames(core)
    IN When(core.order # << >>,
            SortOp([k \in 1..Len(core.order) |->
                [x |-> Resolve(names, core.order[k].expr), asc |-> core.order[k].asc,
                 nulls |-> core.order[k].nulls]]))
       \o When(core.items # Star,
               ProjectOp([i \in 1..Len(core.items) |-> Resolve(names, core.items[i].expr)]))

BuildSelectCore(core) ==
    FromNodes(core)
    \o When(core.where # << >>, FilterOp(ResolveAll(FromNames(core), core.where)))
    \o (IF IsAggregateQuery(core) THEN AggregateNodes(core) ELSE PlainNodes(core))
    \o When(core.distinct, DistinctOp)
    \o When(core.limit # NoLimit, LimitOp(core.limit, core.offset))

(* Left subtrees of a tree that is placed behind n other nodes.            *)
Shifted(nodes, n) ==
    [i \in 1..Len(nodes) |-> IF nodes[i].left = 0 THEN nodes[i] ELSE [nodes[i] EXCEPT !.left = @ + n]]

Cores == IF stmt.op = "none" THEN <<stmt.lhs>> ELSE <<stmt.lhs, stmt.rhs>>

Width(core) == IF core.items = Star THEN Len(FromNames(core)) ELSE Len(core.items)

(* getTable throws; so does a UNION of different widths.                   *)
PlanRaises ==
    \/ \E c \in 1..Len(Cores) : \E t \in 1..Len(Sources(Cores[c])) : Sources(Cores[c])[t].tbl \notin DOMAIN db
    \/ Cardinality({Width(Cores[c]) : c \in 1..Len(Cores)}) # 1

AppendNodes(l, r) == l \o Shifted(r, Len(l)) \o << AppendOp(Len(l)) >>

PlanOf ==
    IF stmt.op = "none" THEN BuildSelectCore(stmt.lhs)
    ELSE AppendNodes(BuildSelectCore(stmt.lhs), BuildSelectCore(stmt.rhs)) \o When(stmt.op = "UNION", DistinctOp)

-----------------------------------------------------------------------------
(* tryFastAggregate                                                        *)

FastTable == stmt.lhs.source.left.tbl
FastColumn(e) == IndexOf(db[FastTable].cols, e.col)     \* a qualifier is not looked at
FastType(e) == db[FastTable].types[FastColumn(e)]

Flip(cmp) == CASE cmp = "<" -> ">" [] cmp = ">" -> "<" [] cmp = "=" -> "="

(* parseAtom: column and constant, in this order.                          *)
FastAtom(p) == IF p.lhs.kind = "col" THEN p ELSE Atom(p.rhs, Flip(p.cmp), p.lhs)
IsFastAtom(p) ==
    /\ FastAtom(p).lhs.kind = "col" /\ FastAtom(p).rhs.kind = "lit"
    /\ FastColumn(FastAtom(p).lhs) > 0
    /\ FastAtom(p).rhs.val # Null

HasKey == \E i \in 1..Len(stmt.lhs.items) : stmt.lhs.items[i].expr.kind = "col"

(* The shape gate, up to the execution over the columns.                   *)
FastShape ==
    LET core == stmt.lhs
    IN /\ stmt.op = "none" /\ ~ core.distinct
       /\ core.source.join = "none" /\ core.source.left.alias = ""
       /\ FastTable \in DOMAIN db
       /\ core.having = << >>
       /\ Len(core.group) <= 1
       /\ \A k \in 1..Len(core.group) : core.group[k].kind = "col" /\ FastColumn(core.group[k]) > 0
       /\ \A i \in 1..Len(core.items) :
             LET e == core.items[i].expr
             IN \/ e.kind = "col" /\ core.group # << >> /\ e.col = core.group[1].col
                \/ e.kind = "agg" /\ e.col = "*"
                \/ e.kind = "agg" /\ ~ e.distinct /\ FastColumn(e) > 0 /\ FastType(e) = "num"
       /\ \E i \in 1..Len(core.items) : IsCall(core.items[i].expr)
       /\ \A i \in 1..Len(core.where) : IsFastAtom(core.where[i])

(* rowPasses: comparisons of a numeric column with a string are false.     *)
FastAtomPasses(p, row) ==
    LET a == FastAtom(p)
        cell == row[FastColumn(a.lhs)]
    IN cell # Null /\ IsText(cell) = IsText(a.rhs.val) /\ Compare(a.cmp, cell, a.rhs.val)

RowPasses(row) == \A i \in 1..Len(stmt.lhs.where) : FastAtomPasses(stmt.lhs.where[i], row)

(* A number is compared with the cell of a string column by reading the    *)
(* column's empty integer buffer.                                          *)
ReadsEmptyBuffer ==
    LET where == stmt.lhs.where
    IN \E r \in 1..Len(db[FastTable].rows), i \in 1..Len(where) :
          LET row == db[FastTable].rows[r]
              a == FastAtom(where[i])
          IN /\ \A j \in 1..i - 1 : FastAtomPasses(where[j], row)
             /\ row[FastColumn(a.lhs)] # Null
             /\ FastType(a.lhs) = "str" /\ ~ IsText(a.rhs.val)

FastCalls == SelectSeq([i \in 1..Len(stmt.lhs.items) |-> stmt.lhs.items[i]], LAMBDA it : IsCall(it.expr))

(* The result's columns: the key, wherever the statement has it, and the   *)
(* aggregates, by their alias or function.                                 *)
FastNames ==
    (IF HasKey THEN << stmt.lhs.group[1].col >> ELSE << >>)
    \o [i \in 1..Len(FastCalls) |-> IF FastCalls[i].alias # "" THEN FastCalls[i].alias ELSE FastCalls[i].expr.fn]

(* Sort keys have to name a column of the result.                          *)
FastOrder ==
    \A k \in 1..Len(stmt.lhs.order) :
        stmt.lhs.order[k].expr.kind = "col" /\ IndexOf(FastNames, stmt.lhs.order[k].expr.col) > 0

Window(core, rows) ==
    IF core.limit = NoLimit THEN rows
    ELSE SubSeq(rows, core.offset + 1, Min({core.offset + core.limit, Len(rows)}))

(* Groups in the order of their first rows; sorted by the result's         *)
(* columns, an explicit NULLS FIRST or LAST not looked at.                 *)
FastResult ==
    LET core == stmt.lhs
        cols == [c \in 1..Len(db[FastTable].cols) |-> <<"", db[FastTable].cols[c]>>]
        keys == [k \in 1..Len(core.group) |-> Column(FastColumn(core.group[k]))]
        aggs == [i \in 1..Len(FastCalls) |-> SlotOf(cols, FastCalls[i].expr)]
        passing == SelectSeq(db[FastTable].rows, RowPasses)
        groups == GroupsOf(keys, passing)
        Result(key) ==
            LET row == AggregateRow(keys, aggs, passing, key)
            IN IF HasKey THEN row ELSE SubSeq(row, Len(keys) + 1, Len(row))
        order == [k \in 1..Len(core.order) |->
                    [x |-> Column(IndexOf(FastNames, core.order[k].expr.col)), asc |-> core.order[k].asc,
                     nulls |-> "unspecified"]]
    IN Window(core, StableSorted([g \in 1..Len(groups) |-> Result(groups[g])], order))

-----------------------------------------------------------------------------
(* runSelect                                                               *)

Init ==
    /\ db \in Databases
    /\ stmt \in Queries
    /\ NoPlan

FastAggregate ==
    /\ status = "planning"
    /\ FastShape
    /\ IF ReadsEmptyBuffer
       THEN status' = "crash" /\ UNCHANGED output
       ELSE FastOrder /\ status' = "done" /\ output' = FastResult
    /\ UNCHANGED <<db, stmt, plan, at, mode, from, batch, st, ended>>

BuildSelect ==
    /\ status = "planning"
    /\ ~ (FastShape /\ (ReadsEmptyBuffer \/ FastOrder))
    /\ IF PlanRaises THEN Raise ELSE \E p \in {PlanOf} : Start(p)
    /\ UNCHANGED <<db, stmt>>

(* The statement has been answered.                                        *)
Answered ==
    /\ status \notin {"planning", "running"}
    /\ UNCHANGED queryVars

Next ==
    \/ FastAggregate
    \/ BuildSelect
    \/ PipelineNext /\ UNCHANGED <<db, stmt>>
    \/ Answered

Spec == Init /\ [][Next]_queryVars /\ WF_queryVars(Next)
=============================================================================
