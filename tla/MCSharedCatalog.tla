--------------------------- MODULE MCSharedCatalog ---------------------------
(* Two interchangeable threads on one table.                               *)
EXTENDS SharedCatalog

CatalogSymmetry == Permutations(Threads)

(* Bound of the run without a discipline: statements on rows run together, *)
(* no table is made, imported or dropped under one of them.  Without it    *)
(* the shortest loss is that of two imports that both found the name free. *)
RowsOnly ==
    \A p \in Threads : Writes(task[p].op) =>
        LET t == task[p].name
        IN /\ task[p].op # "import"
           /\ tables[t] # 0
           /\ task[p].obj = tables[t] \/ kept[t] # {}
=============================================================================
