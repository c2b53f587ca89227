------------------------------ MODULE MCQuery ------------------------------
(***************************************************************************)
(* SELECT statements over two tables, a(g, v) and b(g, s), s a VARCHAR.    *)
(* Batches hold two rows, so that every operator sees several.             *)
(***************************************************************************)
EXTENDS QueryMeaning

TableOf(cols, types, rows) == [cols |-> cols, types |-> types, rows |-> rows]

RowsA == {<<1, 5>>, <<Null, 3>>}
Long1 == << <<2, 3>>, <<1, Null>>, <<1, 5>> >>
Long2 == << <<1, Null>>, <<Null, 3>>, <<2, 3>>, <<Null, 5>> >>
Long3 == << <<2, 3>>, <<1, 5>>, <<2, Null>>, <<1, 5>>, <<3, 4>> >>
ShortB == << <<1, 101>>, <<4, 100>>, <<1, Null>> >>

AllDatabases ==
    {[a |-> TableOf(<<"g", "v">>, <<"num", "num">>, rows),
      b |-> TableOf(<<"g", "s">>, <<"num", "str">>, ShortB)]
        : rows \in SeqOf(RowsA, 2) \cup {Long1, Long2, Long3}}

G == Ref("", "g")
V == Ref("", "v")
OfA == Single(Table("a", ""))
OfB == Single(Table("b", ""))
Plain(e) == Item(e, "")

Wheres == {<< >>, << Atom(V, "<", Lit(5)) >>, << Atom(Lit(3), "<", V), Atom(G, "=", Lit(1)) >>}
NoPlace == "unspecified"

(* SELECT v, * or constants FROM a, sorted, windowed, DISTINCT or not.     *)
PlainCores ==
    {[Core(OfA, w, items) EXCEPT !.order = o, !.distinct = d, !.limit = l[1], !.offset = l[2]] :
        w \in Wheres, items \in {Star, <<Plain(V)>>, <<Plain(Lit(1)), Plain(G)>>},
        o \in {<< >>, <<Key(G, TRUE, NoPlace)>>, <<Key(V, FALSE, "first"), Key(G, TRUE, "last")>>},
        d \in BOOLEAN, l \in {<<NoLimit, 0>>, <<1, 0>>, <<2, 1>>, <<0, 0>>}}

Items(c) == {<<Plain(G), Item(c, "n")>>, <<Item(c, "n")>>}
Calls == {CountStar, Call("COUNT", "", "v"), Call("SUM", "", "v"), Call("MIN", "", "v"),
          Call("MAX", "", "v"), CallDistinct("COUNT", "", "v"), CallDistinct("SUM", "", "v")}

(* Aggregates with and without GROUP BY; ORDER BY the key, an alias or a   *)
(* call; HAVING with a call of its own.                                    *)
Havings == {<< >>, <<Atom(CountStar, ">", Lit(1))>>}
ByAlias == <<Key(Ref("", "n"), TRUE, NoPlace), Key(G, TRUE, NoPlace)>>
GroupCores ==
    {[Core(OfA, w, items) EXCEPT !.group = <<G>>, !.having = h, !.order = o] :
        w \in Wheres, items \in UNION {Items(c) : c \in Calls}, h \in Havings, o \in {<< >>, ByAlias}}
    \cup
    {[Core(OfA, << >>, items) EXCEPT !.group = <<G>>, !.having = h, !.order = o, !.limit = l[1], !.offset = l[2]] :
        items \in Items(Call("SUM", "", "v")), h \in Havings,
        o \in {ByAlias, <<Key(G, FALSE, NoPlace)>>, <<Key(Call("MAX", "", "v"), FALSE, NoPlace)>>},
        l \in {<<NoLimit, 0>>, <<2, 1>>}}

WholeCores ==
    {[Core(OfA, w, <<Item(c, "n"), Plain(CountStar)>>) EXCEPT !.distinct = d] :
        w \in Wheres \cup {<< Atom(G, ">", Lit(7)) >>}, c \in Calls, d \in BOOLEAN}

(* Joins of aliased tables, as the documentation asks for.                 *)
X(c) == Ref("x", c)
Y(c) == Ref("y", c)
JoinOf(type, on) == Join(type, Table("a", "x"), Table("b", "y"), on)
JoinCores ==
    {[Core(JoinOf(type, IF type = "CROSS" THEN << >> ELSE on), w, items) EXCEPT !.order = o] :
        type \in {"INNER", "LEFT", "RIGHT", "FULL", "CROSS"},
        on \in {<<Atom(X("g"), "=", Y("g"))>>, <<Atom(X("v"), ">", Y("g")), Atom(Y("s"), "=", Lit(101))>>},
        w \in {<< >>, <<Atom(Y("g"), "<", Lit(4))>>},
        items \in {Star, <<Plain(Y("s")), Plain(X("v"))>>},
        o \in {<< >>, <<Key(Y("s"), TRUE, "last")>>}}
    \cup {[Core(JoinOf("LEFT", <<Atom(X("g"), "=", Y("g"))>>), << >>,
                <<Plain(X("g")), Plain(Call("COUNT", "y", "s")), Plain(Call("MAX", "y", "s"))>>)
             EXCEPT !.group = <<X("g")>>]}

(* Statements that fail, for every reason the planner and the operators    *)
(* have.                                                                   *)
BadCores ==
    {Core(Single(Table("c", "")), << >>, Star), Core(OfA, << >>, <<Plain(Ref("", "z"))>>),
     Core(OfA, << Atom(V, "=", Lit(100)) >>, Star), Core(OfA, << Atom(V, "<", Lit(5)), Atom(G, "=", Lit(100)) >>, Star),
     Core(OfB, << >>, <<Plain(Call("SUM", "", "s"))>>), Core(OfA, << >>, <<Plain(V), Plain(CountStar)>>),
     [Core(OfA, << >>, Star) EXCEPT !.order = <<Key(V, TRUE, NoPlace), Key(Ref("", "z"), TRUE, NoPlace)>>],
     Core(JoinOf("INNER", <<Atom(X("g"), "=", Y("s"))>>), << >>, Star)}

Unions ==
    {Union(op, [Core(OfA, << >>, <<Plain(G)>>) EXCEPT !.limit = l], right) :
        op \in {"UNION", "UNION ALL"}, l \in {NoLimit, 2},
        right \in {Core(OfB, << >>, <<Plain(G)>>), Core(OfB, << >>, Star),
                   [Core(OfA, << Atom(V, "<", Lit(5)) >>, <<Plain(G)>>) EXCEPT !.order = <<Key(V, TRUE, NoPlace)>>],
                   [Core(JoinOf("FULL", <<Atom(X("g"), "=", Y("g"))>>), << >>, <<Plain(X("g"))>>) EXCEPT !.distinct = TRUE]}}

NoTable == Core(Single(Table("", "")), << >>, <<Plain(Lit(1))>>)

MostQueries ==
    {Select(core) : core \in PlainCores \cup GroupCores \cup WholeCores \cup JoinCores \cup BadCores \cup {NoTable}}
    \cup Unions

(* Statements of which AnswerCorrect fails, no part of MostQueries.  On    *)
(* the typed path: SELECT COUNT of the rows FROM b WHERE s = 5, and of     *)
(* those FROM a WHERE v = 'text', which the general path refuses; the key  *)
(* after the call; NULLS LAST.  And FROM a JOIN b ON a.g = b.g, the tables *)
(* not aliased.                                                            *)
CountByNumber == Select(Core(OfB, << Atom(Ref("", "s"), "=", Lit(5)) >>, <<Plain(CountStar)>>))
CountByText == Select(Core(OfA, << Atom(V, "=", Lit(100)) >>, <<Plain(CountStar)>>))
KeyAfterCall == Select([Core(OfA, << >>, <<Plain(CountStar), Plain(G)>>) EXCEPT !.group = <<G>>])
CountNullsLast ==
    Select([Core(OfA, << >>, <<Plain(G), Plain(CountStar)>>) EXCEPT !.group = <<G>>, !.order = <<Key(G, TRUE, "last")>>])
JoinByTableName ==
    Select(Core(Join("INNER", Table("a", ""), Table("b", ""), <<Atom(Ref("a", "g"), "=", Ref("b", "g"))>>),
                << >>, <<Plain(V), Plain(Ref("", "s"))>>))

Disputed == {CountByNumber, CountByText, KeyAfterCall, CountNullsLast, JoinByTableName}
=============================================================================
