----------------------------- MODULE MCFrontEnd -----------------------------
(***************************************************************************)
(* Scripts for the front end: every pair and chain of operators, every     *)
(* operator on every kind of value, every kind of statement in every       *)
(* layout, every text one word away from a statement, and sessions with    *)
(* commands and files.  The largest integer is 7, so that sums overflow.   *)
(***************************************************************************)
EXTENDS FrontEndMeaning

Num(n) == Literal(Int64(n))
Null == Literal(NullValue)
True == Literal(Bool(TRUE))
Quote(s) == Literal(Varchar(s))
Half == Literal(Float64(<<1, 2>>))
Column(c) == ColumnRef(<< <<c>> >>)
Minus(e) == UnaryExpr("-", e)

SelectOf(exprs) ==
    SelectStmt(FALSE, [k \in 1..Len(exprs) |-> SelectItem(exprs[k], None)], None, None, None, None, None, None, None, None)
Single(s) == [how |-> "-c", items |-> << <<"sql", <<s>> >> >>, layout |-> "line", closed |-> TRUE]
-----------------------------------------------------------------------------
(* Every operator around e, on each of its sides.                          *)
Around(e, x) ==
    UNION {{BinaryExpr(op, e, x), BinaryExpr(op, x, e)} : op \in {"OR", "AND", "=", "LIKE", "||", "-", "*", "^"}}
    \cup {UnaryExpr(op, e) : op \in {"NOT", "-"}}
    \cup {IsNullExpr(e, FALSE), BetweenExpr(e, x, x, FALSE), BetweenExpr(x, e, x, TRUE), BetweenExpr(x, x, e, FALSE),
          InExpr(e, <<x>>, FALSE, TRUE), InExpr(x, <<e, x>>, FALSE, FALSE)}

Chains(x) == UNION {Around(e, x) : e \in UNION {Around(d, x) : d \in Around(x, x)}}
ChainScripts == {Single(SelectOf(<<e>>)) : e \in Chains(Num(1))}
-----------------------------------------------------------------------------
(* Every operator on every kind of value.                                  *)
Simple == {Num(0), Num(7), Null, True, Quote(<<"a">>), Half}
Least == BinaryExpr("-", Minus(Num(7)), Num(1))
Compound == Simple \cup {Num(2), Minus(Num(1)), Least, BinaryExpr("+", Num(7), Num(1)), BinaryExpr("%", Num(7), Num(0)),
                         BinaryExpr("+", Quote(<<"b">>), Num(1)), BinaryExpr("/", Num(1), Num(2))}
BinaryOps == {"OR", "AND", "=", "<>", "<", "<=", ">", ">=", "LIKE", "ILIKE", "||", "+", "-", "*", "/", "%", "^"}
Call(name, args) == FunctionCall(<<name>>, args, FALSE, FALSE)

ValueExprs ==
    {BinaryExpr(op, x, y) : op \in BinaryOps, x \in Compound, y \in Compound}
    \cup {UnaryExpr(op, x) : op \in {"NOT", "-", "+"}, x \in Compound}
    \cup {IsNullExpr(x, negated) : x \in Compound, negated \in BOOLEAN}
    \cup {BetweenExpr(x, y, z, negated) : x \in Simple, y \in Simple, z \in Simple, negated \in BOOLEAN}
    \cup {InExpr(x, <<y, z>>, FALSE, negated) : x \in Simple, y \in Simple, z \in Simple, negated \in BOOLEAN}
    \cup {CaseExpr(None, <<CaseWhen(x, Num(1)), CaseWhen(y, Num(2))>>, z) :
             x \in Compound, y \in Simple, z \in {None, <<Num(7)>>}}
    \cup {CaseExpr(<<x>>, <<CaseWhen(y, Num(1)), CaseWhen(z, Num(2))>>, <<Half>>) : x \in Simple, y \in Simple, z \in Simple}
    \cup {Call(f, <<x>>) : f \in {"ABS", "LENGTH", "UPPER", "LOWER", "ROUND", "COALESCE", "T"}, x \in Compound}
    \cup {Call("COALESCE", <<x, y>>) : x \in Simple, y \in Simple}
    \cup {Call("ROUND", <<x, y>>) : x \in Simple, y \in Simple}
    \cup {Call("ABS", << >>), Column("a"), ColumnRef(<< <<"*">> >>), SubqueryExpr(SelectOf(<<Num(1)>>)),
          InExpr(Num(1), << >>, FALSE, FALSE), InExpr(Num(1), <<SelectOf(<<Num(1)>>)>>, TRUE, FALSE)}
    \cup {BinaryExpr(op, Quote(<<"a", "b">>), Quote(p)) :
             op \in {"LIKE", "ILIKE"}, p \in {<<"%", "B">>, <<"_", "b">>, <<"a", "%", "b", "%">>, << >>}}
ValueScripts == {Single(SelectOf(<<e>>)) : e \in ValueExprs} \cup {Single(SelectOf(<<Num(1), e, Null>>)) : e \in Compound}
-----------------------------------------------------------------------------
(* Statements of every kind.                                               *)
A == <<"a">>
B == <<"b">>
T == <<"T">>
Name(n) == TableRef(<<n>>)
Item(e) == SelectItem(e, None)
FromT(list, where) == SelectStmt(FALSE, list, <<Name(T)>>, where, None, None, None, None, None, None)
Less1 == BinaryExpr("<", Column("a"), Num(1))
JoinOf(type, on) == SelectStmt(FALSE, <<Item(ColumnRef(<< <<"*">> >>))>>,
                               <<JoinRef(type, AliasedRef(Name(A), B), Name(T), on)>>, None, None, None, None, None, None, None)

SelectStatements ==
    {FromT(<<Item(ColumnRef(<<T, <<"*">> >>)), SelectItem(Column("b"), <<A>>)>>, <<Less1>>),
     SelectStmt(TRUE, <<Item(Column("a"))>>, <<Name(A), TableRef(<<A, B>>)>>, None, None, None, None, None, None, None),
     SelectStmt(FALSE, <<Item(Column("a")), Item(FunctionCall(<<"COUNT">>, None, FALSE, TRUE)),
                         Item(FunctionCall(<<"COUNT">>, <<Column("b")>>, TRUE, FALSE))>>, <<Name(T)>>, None,
                <<Column("a"), Column("b")>>, <<Less1>>, None, None, None, None),
     SelectStmt(FALSE, <<Item(Column("a"))>>, <<Name(T)>>, None, None, None,
                <<SortKey(Column("a"), "DESC", "FIRST"), SortKey(Column("b"), "ASC", "LAST"), SortKey(Num(1), "ASC", "UNSPECIFIED")>>,
                <<Num(1)>>, <<Num(2)>>, None),
     SelectStmt(FALSE, <<Item(Column("a"))>>, <<AliasedRef(SubqueryRef(SelectOf(<<Num(1)>>)), B)>>, None, None, None, None, None, None,
                <<"UNION ALL", [SelectOf(<<Num(2)>>) EXCEPT !.setOp = <<"UNION", SelectOf(<<Null>>)>>]>>),
     SelectOf(<<ColumnRef(<<A, B, T>>), ColumnRef(<< <<"\"", "a", "\"">> >>), Quote(<<"i", "'", "t">>), Literal(Float64(<<20, 1>>)),
                Literal(Float64(<<1, 10>>)), Literal(Float64(<<3, 2>>)), Minus(Minus(Num(1)))>>)}
    \cup {JoinOf(type, <<Less1>>) : type \in {"INNER", "LEFT", "RIGHT", "FULL"}} \cup {JoinOf("CROSS", None)}

OtherStatements ==
    {InsertStmt(<<T>>, <<A, B>>, << <<Num(1), Null>>, << >> >>, FALSE),
     InsertStmt(<<A, T>>, None, <<SelectOf(<<Num(1)>>)>>, TRUE),
     UpdateStmt(<<T>>, <<UpdateAssignment(A, BinaryExpr("+", Column("a"), Num(1))), UpdateAssignment(B, Null)>>, <<Less1>>),
     DeleteStmt(<<T>>, <<Less1>>), DeleteStmt(<<T>>, None), DropTableStmt(<<T>>),
     CreateTableStmt(<<T>>, <<ColumnSpec(A, DataType("DECIMAL", <<5, 2>>), <<ColumnConstraint("PRIMARY_KEY", None)>>),
                              ColumnSpec(B, DataType("VARCHAR", <<7>>), <<ColumnConstraint("NOT_NULL", None),
                                                                          ColumnConstraint("DEFAULT", <<Quote(A)>>)>>)>>),
     CreateTableStmt(<<T>>, <<ColumnSpec(A, DataType("DECIMAL", <<5, 0>>), << >>), ColumnSpec(B, DataType("DECIMAL", <<18, 0>>), << >>)>>)}
    \cup {CreateTableStmt(<<T>>, <<ColumnSpec(A, DataType(id, << >>), << >>)>>) :
             id \in {PlainTypes[k] : k \in DOMAIN PlainTypes}}

Statements == SelectStatements \cup OtherStatements

Layouts == {"line", "rows", "tight", "comments"}
LayoutScripts ==
    {[how |-> how, items |-> << <<"sql", <<s>> >> >>, layout |-> layout, closed |-> closed] :
        how \in {"-c", "pipe"}, s \in Statements, layout \in Layouts, closed \in BOOLEAN}
-----------------------------------------------------------------------------
(* Texts one word away from a statement, short texts, and broken ones.     *)
Vocabulary == {<<"a">>, <<"NULL">>, <<"(">>, <<",">>, <<"NOT">>, <<"*">>, <<";">>}
Edits(w) ==
    LET Splice(k, middle) == SubSeq(w, 1, k - 1) \o middle \o SubSeq(w, k + 1, Len(w))
    IN UNION {{Splice(k, << >>), Splice(k, <<w[k], w[k]>>)} \cup {Splice(k, <<v>>) : v \in Vocabulary} : k \in 1..Len(w)}
EditedWords == UNION {Edits(RenderStatement(s)) : s \in Statements}
ShortWords ==
    { << <<"SELECT">>, <<"a">> >> \o w : w \in SeqOf(Vocabulary \cup {<<"1">>, <<"IS">>, <<")">>, <<"-">>, <<"LIKE">>, <<"BETWEEN">>, <<"AND">>}, 3)}
Broken ==
    {<<"SELECT", " ", "'", "a">>, <<"SELECT", " ", "\"", "a">>, <<"SELECT", " ", "1", "/", "*", "/", "*", "*", "/">>,
     <<"SELECT", " ", "a", "!", "b">>, <<"SELECT", " ", "1", "e", "+">>, <<"SELECT", " ", "1", "e">>, <<"SELECT", " ", "$", "1">>,
     <<"SELECT", " ", "$", "a">>, <<"SELECT", " ", "9">>, <<"-", "-", "a">>, <<"?">>, << >>, <<";", ";">>, <<"TABLE", ";">>,
     <<"select", " ", "abs", "(", "1", ")", "a", "from", " ", "t", ";">>, <<"SELECT", " ", "ALL", " ", "1">>,
     <<"CREATE", "TABLE", " ", "a">>, <<"SELECT", " ", "1", ";", "SELECT", "\n">>,
     <<"SELECT", " ", "a", " ", "FROM", " ", "a", " ", "LEFT", " ", "OUTER", " ", "JOIN", " ", "b", " ", "ON", " ", "1", " ", "INNER", " ", "JOIN", " ", "T", " ", "ON", " ", "2">>}

WordsScripts ==
    {[how |-> "-c", items |-> << <<"words", w>> >>, layout |-> "line", closed |-> TRUE] :
        w \in EditedWords \cup ShortWords \cup {<<b>> : b \in Broken}}
-----------------------------------------------------------------------------
(* Sessions.                                                               *)
One == <<"sql", <<SelectOf(<<Num(1)>>)>> >>
Two == <<"sql", <<SelectOf(<<Num(1), Null>>), DropTableStmt(<<T>>)>> >>
F == <<"A">>
G == <<"B">>
Loop == <<"E">>
MCLibrary ==
    (F :> <<One, <<"mode", "csv">>, Two>>) @@ (G :> << <<"read", F>>, <<"quit", "quit">>, One>>)
    @@ (Loop :> << <<"read", Loop>>, One>>)
MCFiles == [f \in DOMAIN MCLibrary |-> Lines(MCLibrary[f], "line", f # F)]

Typed(words, deed) == <<"command", words, deed>>
CommandItems ==
    {One, Two, <<"mode", "json">>, <<"mode", "list">>, <<"timing", FALSE>>, <<"timing", TRUE>>, <<"read", F>>, <<"read", G>>,
     <<"read", Loop>>, <<"read", T>>, <<"quit", "exit">>,
     Typed(<< <<".", "save">>, F >>, <<"save", F>>), Typed(<< <<".", "open">>, F >>, <<"open", F>>),
     Typed(<< <<".", "open">> >>, <<"complaint", "usage">>), Typed(<< <<".", "import">>, F >>, <<"complaint", "usage">>),
     Typed(<< <<".", "import">>, F, T >>, <<"import", F, T, FALSE>>),
     Typed(<< <<".", "import">>, <<"-", "t">>, F, T >>, <<"import", F, T, TRUE>>),
     Typed(<< <<".", "mode">>, <<"q">> >>, <<"complaint", "mode">>), Typed(<< <<".", "5">> >>, <<"complaint", "command">>),
     Typed(<< <<".", "schema">>, T >>, <<"shown", "schema">>), Typed(<< <<".", "help">> >>, <<"shown", "help">>)}
SessionScripts ==
    {[how |-> how, items |-> items, layout |-> "rows", closed |-> FALSE] :
        how \in {"terminal", "pipe"}, items \in {<<i, j, Two>> : i \in CommandItems, j \in CommandItems}}
    \cup {[how |-> "file", items |-> << <<"file", f>> >>, layout |-> "line", closed |-> TRUE] : f \in {F, G, Loop, T}}

Init ==
    /\ \/ script \in ChainScripts
       \/ script \in ValueScripts
       \/ script \in LayoutScripts
       \/ script \in WordsScripts
       \/ script \in SessionScripts
    /\ ShellInit
Spec == Init /\ [][Next]_vars /\ GoesOn
=============================================================================
