----------------------------- MODULE MCDatabase -----------------------------
(* Small instances of Database: a catalog of one or two tables of two      *)
(* columns, and the statements that exercise every path of the handlers.   *)
EXTENDS Database

Eq(c, v) == [col |-> c, val |-> v]
Const(v) == [val |-> v, ref |-> 0]
Ref(c) == [val |-> Null, ref |-> c]
Set(c, e) == [col |-> c, expr |-> e]

MixedSchemas == {<<"INT8", "INT64">>, <<"VARCHAR", "FLOAT64">>}

(* 300 does not fit an INT8; 3 halves are truncated by an integer column;  *)
(* a string is refused by every column but the VARCHAR.                    *)
MixedInserts ==
    {InsertStmt(<< >>, <<<<IntV(300), DblV(3)>>>>),
     InsertStmt(<< >>, <<<<Null, IntV(1)>>, <<IntV(1), StrV(1)>>>>),
     InsertStmt(<<2>>, <<<<IntV(2)>>>>),
     InsertStmt(<< >>, <<<<StrV(1), IntV(2)>>>>),
     InsertStmt(<< >>, <<<<IntV(1), StrV(1)>>>>),
     InsertStmt(<< >>, <<<<IntV(1), IntV(2)>>, <<IntV(1), Raises>>>>),
     InsertStmt(<<1, 0>>, <<<<IntV(1), IntV(1)>>>>)}

MixedUpdates ==
    {UpdateStmt(<<Set(1, Ref(2)), Set(2, Ref(1))>>, NoWhere),
     UpdateStmt(<<Set(2, Const(StrV(1)))>>, Eq(2, IntV(2))),
     UpdateStmt(<<Set(2, Const(Null)), Set(2, Const(Raises))>>, Eq(1, IntV(1))),
     UpdateStmt(<<Set(0, Const(Null))>>, NoWhere)}

MixedDeletes == {DeleteStmt(NoWhere), DeleteStmt(Eq(1, IntV(44))), DeleteStmt(Eq(2, Null))}

MixedLists == {<< >>, <<2, 1>>}

Csv == {[schema |-> <<"INT64", "VARCHAR">>, rows |-> <<<<IntV(7), Null>>>>]}

(* The clean instance: two tables of two columns, and only values that     *)
(* every column accepts.                                                   *)
CleanSchemas == {<<"INT8", "VARCHAR">>}

CleanInserts ==
    {InsertStmt(<< >>, <<<<IntV(300), StrV(1)>>>>),
     InsertStmt(<<2>>, <<<<DblV(3)>>, <<Raises>>>>)}

CleanUpdates ==
    {UpdateStmt(<<Set(2, Ref(1)), Set(1, Const(DblV(3)))>>, Eq(1, IntV(44)))}

CleanDeletes == {DeleteStmt(Eq(1, IntV(1))), DeleteStmt(NoWhere)}

CleanLists == {<< >>}

CleanCsv == {[schema |-> <<"INT64", "VARCHAR">>, rows |-> <<<<IntV(300), Null>>>>]}
=============================================================================
