------------------------------- MODULE MCCApi -------------------------------
(* Two threads, one database and two results of it; between them the rows  *)
(* have a value of every kind.                                             *)
EXTENDS CApi, TLC

Mixed == <<<<"int", 1>>, <<"double", -3>>, <<"bool", 1>>>>
Sparse == <<Null, <<"text", "a">>, <<"int", 0>>>>

MCRows == {Mixed, Sparse}
MCCsvRows == <<Sparse>>

CallSymmetry == Permutations(Callers) \cup Permutations(Results)

(* Bounds: messages are lent while no result is open and no file saved;    *)
(* two results are open while no file is saved and the table has at most   *)
(* one row, so that the second one has.                                    *)
Bounds ==
    /\ (\E t \in Callers, f \in Functions : told[t][f] # "")
          => file = NULL /\ \A r \in Results : results[r] = NULL
    /\ (\A r \in Results : results[r] # NULL)
          => file = NULL /\ \A d \in Dbs : dbs[d] # NULL => Len(dbs[d][2]) <= 1
=============================================================================
