---------------------------- MODULE MCPersistence ----------------------------
(* Small instances of Persistence: catalogs of two tables.                 *)
EXTENDS Persistence

TwoNames == {StrV(8), StrV(9)}

Table(schema, rows) == RebuiltTable(schema, rows)

(* A table with NULLs and strings, whose bitmaps have more than one word,  *)
(* an empty one, and what an INSERT that threw in its second column leaves *)
(* of a first row: the second and third column have no cell.               *)
SmallTables ==
    {Table(<<"INT64", "VARCHAR">>,
           <<<<IntV(2), StrV(1)>>, <<Null, Null>>, <<IntV(0), StrV(2)>>>>),
     Table(<<"FLOAT64">>, << >>),
     InsertRow(Table(<<"INT64", "INT64", "INT64">>, << >>), <<IntV(1), StrV(1), Null>>)}

Foreign ==
    {<< <<"magic", "other">> >>,
     << <<"magic", "LQDB">>, <<"version", 2>>, <<"word", 0>> >>}
=============================================================================
