------------------------------ MODULE Pipeline ------------------------------
(***************************************************************************)
(* The physical operators (src/execution/physical_plan.cpp).  A plan is a  *)
(* tree; next() of an operator asks its children for batches and gives a   *)
(* batch to its parent, an empty one when it has no more.  drain() asks    *)
(* the root until it gives an empty batch.  A step is what one operator    *)
(* does between two such calls.                                            *)
(*                                                                         *)
(* A plan is the sequence of its nodes in postorder: the last node is the  *)
(* root, the (right) child of node n is n - 1, the left child of a join or *)
(* an append is its field left.  Rows are sequences of values; a value is  *)
(* a number or, from 100 on, a string.                                     *)
(***************************************************************************)
EXTENDS Integers, Sequences, FiniteSets, SequencesExt, FiniteSetsExt

CONSTANT BatchSize   \* kDefaultBatchSize

ASSUME BatchAssumption == BatchSize \in Nat \ {0}

VARIABLES plan,    \* the operator tree
          at,      \* the operator that runs, 0 for drain
          mode,    \* "ask": next() was called; "give": a child has returned
          from,    \* the child that has returned
          batch,   \* what it has returned
          st,      \* the members of every operator
          output,  \* the rows drain has collected
          status,  \* "planning", "running", "done", "error" (an exception), "crash"
          ended    \* history: the operators that have given an empty batch

pipeVars == <<plan, at, mode, from, batch, st, output, status, ended>>

-----------------------------------------------------------------------------
(* Values, expressions, predicates                                         *)

Null == -1
IsText(v) == v >= 100

(* An expression over a row: a column (Unknown if the schema does not have *)
(* the name) or a constant.                                                *)
Column(c) == [col |-> c, val |-> Null]
Constant(v) == [col |-> 0, val |-> v]
Unknown == Column(-1)

ValueRaises(x) == x = Unknown
ValueOf(x, row) == IF x.col = 0 THEN x.val ELSE row[x.col]
ValuesOf(xs, row) == [i \in 1..Len(xs) |-> ValueOf(xs[i], row)]

(* A predicate is a conjunction of comparisons [cmp, lhs, rhs].            *)
Compare(cmp, a, b) ==
    \/ cmp = "=" /\ a = b
    \/ cmp = "<" /\ a < b
    \/ cmp = ">" /\ a > b

(* compareValues throws for a string and a number.                         *)
AtomRaises(p, row) ==
    \/ ValueRaises(p.lhs)
    \/ ValueRaises(p.rhs)
    \/ LET a == ValueOf(p.lhs, row)
           b == ValueOf(p.rhs, row)
       IN a # Null /\ b # Null /\ IsText(a) # IsText(b)

AtomIsNull(p, row) == ValueOf(p.lhs, row) = Null \/ ValueOf(p.rhs, row) = Null

AtomHolds(p, row) ==
    ~ AtomIsNull(p, row) /\ Compare(p.cmp, ValueOf(p.lhs, row), ValueOf(p.rhs, row))

(* AND goes on after a comparison that is NULL, not after one that is      *)
(* false.                                                                  *)
PredicateRaises(pred, row) ==
    \E i \in 1..Len(pred) :
        /\ AtomRaises(pred[i], row)
        /\ \A j \in 1..i - 1 :
               ~ AtomRaises(pred[j], row) /\ (AtomIsNull(pred[j], row) \/ AtomHolds(pred[j], row))

(* evaluatePredicate: NULL is not true.                                    *)
Holds(pred, row) == \A i \in 1..Len(pred) : AtomHolds(pred[i], row)

(* ORDER BY keys: an expression, its direction and where its NULLs go.     *)
NullsFirst(k) == k.nulls = "first" \/ (k.nulls = "unspecified" /\ k.asc)

KeyBefore(k, a, b) ==
    IF a = Null \/ b = Null
    THEN a # b /\ (a = Null) = NullsFirst(k)
    ELSE IF k.asc THEN a < b ELSE b < a

Before(keys, a, b) ==
    \E i \in 1..Len(keys) :
        /\ \A j \in 1..i - 1 : ValueOf(keys[j].x, a) = ValueOf(keys[j].x, b)
        /\ KeyBefore(keys[i], ValueOf(keys[i].x, a), ValueOf(keys[i].x, b))

(* std::stable_sort: the place of an element follows from the number of    *)
(* those that go before it.                                                *)
StableSorted(s, keys) ==
    LET Place(i) == 1 + Cardinality({j \in 1..Len(s) \ {i} :
                            \/ Before(keys, s[j], s[i])
                            \/ ~ Before(keys, s[i], s[j]) /\ j < i})
    IN [k \in 1..Len(s) |-> s[CHOOSE i \in 1..Len(s) : Place(i) = k]]

(* The elements of s at their first occurrence.                            *)
FirstOccurrences(s) ==
    FoldLeft(LAMBDA seen, e : IF Contains(seen, e) THEN seen ELSE Append(seen, e), << >>, s)

-----------------------------------------------------------------------------
(* Aggregates                                                              *)

(* A slot of HashAggregate is [fn, star, arg, distinct], fn one of "COUNT",*)
(* "SUM", "MIN" and "MAX".  NULL arguments are passed over.                *)
Arguments(agg, rows) ==
    LET cells == SelectSeq([r \in 1..Len(rows) |-> ValueOf(agg.arg, rows[r])], LAMBDA v : v # Null)
    IN IF agg.distinct THEN FirstOccurrences(cells) ELSE cells

AggregateRaises(agg, rows) ==
    /\ ~ agg.star
    /\ rows # << >>
    /\ \/ ValueRaises(agg.arg)
       \/ agg.fn = "SUM" /\ \E r \in 1..Len(rows) : IsText(ValueOf(agg.arg, rows[r]))

Aggregated(agg, rows) ==
    IF agg.star THEN Len(rows)
    ELSE LET args == Arguments(agg, rows)
         IN CASE agg.fn = "COUNT" -> Len(args)
              [] agg.fn # "COUNT" /\ args = << >> -> Null
              [] agg.fn = "SUM" /\ args # << >>   -> FoldLeft(LAMBDA sum, v : sum + v, 0, args)
              [] agg.fn = "MIN" /\ args # << >>   -> Min(ToSet(args))
              [] agg.fn = "MAX" /\ args # << >>   -> Max(ToSet(args))

(* The keys of the groups in the order of their first rows; without GROUP  *)
(* BY there is a group even if there is no row.                            *)
GroupsOf(keys, rows) ==
    IF keys = << >> /\ rows = << >>
    THEN << << >> >>
    ELSE FirstOccurrences([r \in 1..Len(rows) |-> ValuesOf(keys, rows[r])])

Members(keys, rows, key) == SelectSeq(rows, LAMBDA row : ValuesOf(keys, row) = key)

AggregateRow(keys, aggs, rows, key) ==
    key \o [a \in 1..Len(aggs) |-> Aggregated(aggs[a], Members(keys, rows, key))]

-----------------------------------------------------------------------------
(* Plans                                                                   *)

Blank == [op |-> "", rows |-> << >>, pred |-> << >>, cols |-> << >>, keys |-> << >>,
          aggs |-> << >>, limit |-> -1, offset |-> 0, join |-> "", left |-> 0,
          lwidth |-> 0, rwidth |-> 0]

ScanOp(rows) == [Blank EXCEPT !.op = "scan", !.rows = rows]
FilterOp(pred) == [Blank EXCEPT !.op = "filter", !.pred = pred]
ProjectOp(cols) == [Blank EXCEPT !.op = "project", !.cols = cols]
LimitOp(limit, offset) == [Blank EXCEPT !.op = "limit", !.limit = limit, !.offset = offset]
SortOp(keys) == [Blank EXCEPT !.op = "sort", !.keys = keys]
DistinctOp == [Blank EXCEPT !.op = "distinct"]
AggregateOp(cols, aggs) == [Blank EXCEPT !.op = "aggregate", !.cols = cols, !.aggs = aggs]
JoinOp(type, pred, left, lwidth, rwidth) ==
    [Blank EXCEPT !.op = "join", !.join = type, !.pred = pred, !.left = left,
                  !.lwidth = lwidth, !.rwidth = rwidth]
AppendOp(left) == [Blank EXCEPT !.op = "append", !.left = left]

Blocking == {"sort", "distinct", "aggregate", "join"}

Nodes == 1..Len(plan)
Child(n) == n - 1
Parent(n) ==
    IF n = Len(plan) THEN 0
    ELSE CHOOSE p \in Nodes : (plan[p].op # "scan" /\ Child(p) = n) \/ plan[p].left = n

(* cursor: rows given; rows, left: rows taken from the (right) child and   *)
(* from the left child; leftDone: the left child has ended; built: rows is *)
(* the operator's result; skipped, emitted: Limit's counters.              *)
NewState == [cursor |-> 0, rows |-> << >>, left |-> << >>, leftDone |-> FALSE,
             built |-> FALSE, skipped |-> 0, emitted |-> 0]

(* Before a plan is built.                                                 *)
NoPlan ==
    /\ plan = << >>
    /\ at = 0
    /\ mode = "ask"
    /\ from = 0
    /\ batch = << >>
    /\ st = << >>
    /\ output = << >>
    /\ status = "planning"
    /\ ended = {}

(* drain calls the root for the first time.                                *)
Start(p) ==
    /\ plan' = p
    /\ at' = Len(p)
    /\ st' = [n \in 1..Len(p) |-> NewState]
    /\ status' = "running"
    /\ UNCHANGED <<mode, from, batch, output, ended>>

-----------------------------------------------------------------------------
(* Calls and returns                                                       *)

Here == plan[at]
Running(op, m) == status = "running" /\ at # 0 /\ Here.op = op /\ mode = m

Ask(n) ==
    /\ at' = n
    /\ mode' = "ask"
    /\ UNCHANGED <<plan, from, batch, output, status, ended>>

Give(b) ==
    /\ batch' = b
    /\ from' = at
    /\ at' = Parent(at)
    /\ mode' = "give"
    /\ ended' = IF b = << >> THEN ended \cup {at} ELSE ended
    /\ UNCHANGED <<plan, output, status>>

Raise ==
    /\ status' = "error"
    /\ UNCHANGED <<plan, at, mode, from, batch, st, output, ended>>

(* Mutant of Slice: the end is one row too far.                            *)
SliceInclusive(rows, cursor) ==
    SubSeq(rows, cursor + 1, Min({cursor + BatchSize + 1, Len(rows)}))

(* The next rows of a result, at most a batch.                             *)
Slice(rows, cursor) ==
    SubSeq(rows, cursor + 1, Min({cursor + BatchSize, Len(rows)}))

GiveSlice(rows, s) ==
    /\ Give(Slice(rows, s.cursor))
    /\ st' = [st EXCEPT ![at] = [s EXCEPT !.cursor = Min({@ + BatchSize, Len(rows)})]]

-----------------------------------------------------------------------------
(* The operators                                                           *)

SeqScanNext == Running("scan", "ask") /\ GiveSlice(Here.rows, st[at])

FilterNext == Running("filter", "ask") /\ Ask(Child(at)) /\ UNCHANGED st

(* Mutant of FilterTakes: a batch of which no row passes is given.         *)
FilterTakesEmpty ==
    /\ Running("filter", "give")
    /\ Give(SelectSeq(batch, LAMBDA row : ~ PredicateRaises(Here.pred, row) /\ Holds(Here.pred, row)))
    /\ UNCHANGED st

(* A batch of which no row passes is not given: the next one is asked for. *)
FilterTakes ==
    /\ Running("filter", "give")
    /\ IF \E r \in 1..Len(batch) : PredicateRaises(Here.pred, batch[r])
       THEN Raise
       ELSE LET passing == SelectSeq(batch, LAMBDA row : Holds(Here.pred, row))
            IN /\ \/ batch = << >> /\ Give(<< >>)
                  \/ batch # << >> /\ IF passing # << >> THEN Give(passing) ELSE Ask(Child(at))
               /\ UNCHANGED st

ProjectNext == Running("project", "ask") /\ Ask(Child(at)) /\ UNCHANGED st

ProjectTakes ==
    /\ Running("project", "give")
    /\ IF batch # << >> /\ \E c \in 1..Len(Here.cols) : ValueRaises(Here.cols[c])
       THEN Raise
       ELSE /\ Give([r \in 1..Len(batch) |-> ValuesOf(Here.cols, batch[r])])
            /\ UNCHANGED st

LimitReached(emitted) == Here.limit >= 0 /\ emitted >= Here.limit

LimitNext ==
    /\ Running("limit", "ask")
    /\ IF LimitReached(st[at].emitted) THEN Give(<< >>) ELSE Ask(Child(at))
    /\ UNCHANGED st

(* Mutant of LimitTakes: the end of the child is not noticed.              *)
LimitTakesForever ==
    /\ Running("limit", "give")
    /\ LET s == st[at]
           skip == Min({Here.offset - s.skipped, Len(batch)})
           left == Len(batch) - skip
           n == IF Here.limit < 0 THEN left ELSE Min({left, Here.limit - s.emitted})
       IN /\ IF n > 0 \/ LimitReached(s.emitted)
             THEN Give(SubSeq(batch, skip + 1, skip + n))
             ELSE Ask(Child(at))
          /\ st' = [st EXCEPT ![at].skipped = s.skipped + skip, ![at].emitted = s.emitted + n]

(* Rows are first skipped, then passed on until the limit is reached, over *)
(* as many batches as it takes.                                            *)
LimitTakes ==
    /\ Running("limit", "give")
    /\ \/ batch = << >> /\ Give(<< >>) /\ UNCHANGED st
       \/ /\ batch # << >>
          /\ LET s == st[at]
                 skip == Min({Here.offset - s.skipped, Len(batch)})
                 left == Len(batch) - skip
                 n == IF Here.limit < 0 THEN left ELSE Min({left, Here.limit - s.emitted})
             IN /\ IF n > 0 \/ LimitReached(s.emitted)
                   THEN Give(SubSeq(batch, skip + 1, skip + n))
                   ELSE Ask(Child(at))
                /\ st' = [st EXCEPT ![at].skipped = s.skipped + skip, ![at].emitted = s.emitted + n]

(* HashJoin::computeResult: nested loops over the rows of both sides.      *)
NullRow(n) == [c \in 1..n |-> Null]

JoinRaises(node, left, right) ==
    \E i \in 1..Len(left), j \in 1..Len(right) :
        node.join # "CROSS" /\ PredicateRaises(node.pred, left[i] \o right[j])

JoinMatch(node, l, r) == node.join = "CROSS" \/ Holds(node.pred, l \o r)

Joined(node, left, right) ==
    LET Matches(l) == SelectSeq(right, LAMBDA r : JoinMatch(node, l, r))
        OfLeft(l) ==
            IF Matches(l) = << >> /\ node.join \in {"LEFT", "FULL"}
            THEN << l \o NullRow(node.rwidth) >>
            ELSE [k \in 1..Len(Matches(l)) |-> l \o Matches(l)[k]]
        lonely == SelectSeq(right, LAMBDA r : \A i \in 1..Len(left) : ~ JoinMatch(node, left[i], r))
    IN FlattenSeq([i \in 1..Len(left) |-> OfLeft(left[i])]) \o
       IF node.join \in {"RIGHT", "FULL"}
       THEN [k \in 1..Len(lonely) |-> NullRow(node.lwidth) \o lonely[k]]
       ELSE << >>

(* What a blocking operator makes of the rows of its children, or whether  *)
(* it throws.  The code throws as soon as it meets the row; nothing        *)
(* depends on the rows it has not asked for by then.  A sort looks at a    *)
(* key when the keys before it are equal.                                  *)
BuildRaises(node, s) ==
    CASE node.op = "aggregate" ->
            \/ s.rows # << >> /\ \E k \in 1..Len(node.cols) : ValueRaises(node.cols[k])
            \/ \E a \in 1..Len(node.aggs) : AggregateRaises(node.aggs[a], s.rows)
      [] node.op = "sort" ->
            \E k \in 1..Len(node.keys), i, j \in 1..Len(s.rows) :
                /\ ValueRaises(node.keys[k].x)
                /\ i < j
                /\ \A h \in 1..k - 1 :
                       /\ ~ ValueRaises(node.keys[h].x)
                       /\ ValueOf(node.keys[h].x, s.rows[i]) = ValueOf(node.keys[h].x, s.rows[j])
      [] node.op = "join" -> JoinRaises(node, s.left, s.rows)
      [] OTHER -> FALSE

Built(node, s) ==
    CASE node.op = "sort"     -> StableSorted(s.rows, node.keys)
      [] node.op = "distinct" -> FirstOccurrences(s.rows)
      [] node.op = "join"     -> Joined(node, s.left, s.rows)
      [] node.op = "aggregate" ->
            LET groups == GroupsOf(node.cols, s.rows)
            IN [g \in 1..Len(groups) |-> AggregateRow(node.cols, node.aggs, s.rows, groups[g])]

(* next() of an operator that needs all rows of its children first.        *)
BuildNext ==
    /\ \E op \in Blocking : Running(op, "ask")
    /\ IF st[at].built
       THEN GiveSlice(st[at].rows, st[at])
       ELSE /\ Ask(IF Here.op = "join" THEN Here.left ELSE Child(at))
            /\ UNCHANGED st

BuildTakes ==
    /\ \E op \in Blocking : Running(op, "give")
    /\ LET s == st[at]
       IN IF from = Here.left
          THEN /\ Ask(IF batch = << >> THEN Child(at) ELSE Here.left)
               /\ st' = [st EXCEPT ![at].left = @ \o batch]
          ELSE IF batch # << >>
          THEN /\ Ask(Child(at))
               /\ st' = [st EXCEPT ![at].rows = @ \o batch]
          ELSE IF BuildRaises(Here, s)
          THEN Raise
          ELSE \E rows \in {Built(Here, s)} :
                  GiveSlice(rows, [s EXCEPT !.rows = rows, !.built = TRUE])

(* Mutant of AppendNext: the left side is asked every time.                *)
AppendNextLeft == Running("append", "ask") /\ Ask(Here.left) /\ UNCHANGED st

AppendNext ==
    /\ Running("append", "ask")
    /\ Ask(IF st[at].leftDone THEN Child(at) ELSE Here.left)
    /\ UNCHANGED st

AppendTakes ==
    /\ Running("append", "give")
    /\ IF from = Here.left /\ batch = << >>
       THEN Ask(Child(at)) /\ st' = [st EXCEPT ![at].leftDone = TRUE]
       ELSE Give(batch) /\ UNCHANGED st

(* drain: the root has returned.                                           *)
Drain ==
    /\ status = "running" /\ at = 0
    /\ IF batch = << >>
       THEN status' = "done" /\ UNCHANGED <<at, mode>>
       ELSE at' = Len(plan) /\ mode' = "ask" /\ UNCHANGED status
    /\ output' = output \o batch
    /\ UNCHANGED <<plan, from, batch, st, ended>>

PipelineNext ==
    \/ SeqScanNext
    \/ FilterNext \/ FilterTakes
    \/ ProjectNext \/ ProjectTakes
    \/ LimitNext \/ LimitTakes
    \/ BuildNext \/ BuildTakes
    \/ AppendNext \/ AppendTakes
    \/ Drain

-----------------------------------------------------------------------------
(* The calls between operators: the inductive invariant                    *)

Operators == {"scan", "filter", "project", "limit", "append"} \cup Blocking
Binary == {"join", "append"}

(* Node n of plan p is a child of node m.                                  *)
IsKid(p, m, n) == n > 0 /\ ((p[m].op # "scan" /\ n = Child(m)) \/ n = p[m].left)

(* A plan is a tree: scans are its leaves, and every node but the root is  *)
(* the child of one other node.                                            *)
IsTree(p) ==
    /\ Len(p) \in Nat \ {0} /\ DOMAIN p = 1..Len(p)
    /\ \A m \in 1..Len(p) :
          /\ p[m].op \in Operators
          /\ p[m].op \in Binary => p[m].left \in 1..m - 2
          /\ p[m].op \notin Binary => p[m].left = 0
          /\ p[m].op # "scan" => m > 1
    /\ \A n \in 1..Len(p) - 1 : \E m \in 1..Len(p) :
          IsKid(p, m, n) /\ \A k \in 1..Len(p) : IsKid(p, k, n) => k = m

(* path: the operators whose next() has been called and has not returned.  *)
(* One operator has called the other; none of them has ended.              *)
IsPath(path) ==
    /\ IF at = 0 THEN path = {} ELSE at \in path
    /\ \A n \in path :
          /\ at <= n /\ n \notin ended
          /\ n # Len(plan) => Parent(n) \in path
          /\ \A m \in path : m < n => Parent(m) <= n

(* The child n has returned and its parent has not gone on yet.            *)
Returned(n) == mode = "give" /\ from = n
InCall(path, n) == n \in path \/ Returned(n)

(* What an operator remembers of the children that have ended.             *)
NodeInv(path, p) ==
    LET s == st[p]
        left == plan[p].left
    IN /\ {"built", "leftDone"} \subseteq DOMAIN s
       /\ plan[p].op \in {"filter", "project", "limit"} =>
             (Child(p) \in ended => p \in ended \/ Returned(Child(p)))
       /\ plan[p].op = "append" =>
             /\ left \in ended => s.leftDone \/ Returned(left)
             /\ Child(p) \in ended => s.leftDone /\ (p \in ended \/ Returned(Child(p)))
             /\ InCall(path, left) => ~ s.leftDone
             /\ InCall(path, Child(p)) => s.leftDone
       /\ plan[p].op \in Blocking =>
             /\ s.built => ~ InCall(path, Child(p)) /\ ~ InCall(path, left)
             /\ ~ s.built =>
                   /\ Child(p) \in ended => Returned(Child(p))
                   /\ left \in ended => Returned(left) \/ InCall(path, Child(p))

CallsInv(path) ==
    /\ IsTree(plan)
    /\ at \in 0..Len(plan) /\ mode \in {"ask", "give"} /\ ended \subseteq Nodes
    /\ at = 0 => mode = "give"
    /\ mode = "give" => IF at = 0 THEN from = Len(plan) ELSE IsKid(plan, at, from)
    /\ mode = "give" => (from \in ended <=> batch = << >>)
    /\ IsPath(path)
    /\ DOMAIN st = Nodes
    /\ \A p \in Nodes : NodeInv(path, p)

(* Inductive: while a plan runs, its calls are those of a tree of          *)
(* operators, and no operator has forgotten that a child has ended.        *)
CallInv ==
    /\ status = "planning" => mode = "ask" /\ ended = {}
    /\ status = "running" => \E path \in SUBSET Nodes : CallsInv(path)
=============================================================================
