------------------------------ MODULE RowStore ------------------------------
(***************************************************************************)
(* What the engine promises of its tables, with no columns in sight: a     *)
(* table is a schema and a sequence of rows.  CREATE, DROP and CSV import  *)
(* replace a table; INSERT appends whole rows, one at a time; UPDATE       *)
(* rewrites the matching rows and DELETE removes them, each in one step.   *)
(***************************************************************************)
EXTENDS Statements

CONSTANTS Names, SchemaInputs, UpdateInputs, DeleteInputs, CsvInputs

VARIABLE db  \* db[t]: the schema and rows of table t, Absent if there is none

Absent == [schema |-> << >>, rows |-> << >>]

(* A row as the typed columns give it back.                                *)
ReadBackRow(schema, row) == [c \in 1..Len(schema) |-> ReadBack(schema[c], row[c])]

Init == db = [t \in Names |-> Absent]

Create(t) ==
    \E schema \in SchemaInputs :
        db' = [db EXCEPT ![t] = [schema |-> schema, rows |-> << >>]]

Drop(t) == db' = [db EXCEPT ![t] = Absent]

Import(t) ==
    /\ db[t] = Absent
    /\ \E f \in CsvInputs :
        db' = [db EXCEPT ![t] =
                 [schema |-> f.schema,
                  rows |-> [r \in 1..Len(f.rows) |-> ReadBackRow(f.schema, f.rows[r])]]]

(* INSERT: one row of the schema's width more, at the end; the rows before *)
(* it are left as they are.                                                *)
AppendRow(t) ==
    /\ db[t] # Absent
    /\ Len(db'[t].rows) = Len(db[t].rows) + 1
    /\ \E row \in {db'[t].rows[Len(db[t].rows) + 1]} :
        /\ row \in [1..Len(db[t].schema) -> Values]
        /\ row = ReadBackRow(db[t].schema, row)
        /\ db' = [db EXCEPT ![t].rows = Append(@, row)]

(* UPDATE: the matching rows are rewritten, in place.                      *)
Update(t) ==
    \E s \in UpdateInputs :
        /\ db[t] # Absent
        /\ db' = [db EXCEPT ![t].rows =
                    [r \in 1..Len(@) |->
                        IF Matches(s.where, @[r])
                        THEN ReadBackRow(db[t].schema, UpdatedRow(s.sets, @[r]))
                        ELSE @[r]]]

(* DELETE: the matching rows are gone, the others keep their order.        *)
Delete(t) ==
    \E s \in DeleteInputs :
        /\ db[t] # Absent
        /\ LET n == Len(db[t].rows)
               keep == {r \in 1..n : ~ Matches(s.where, db[t].rows[r])}
           IN \E k \in 0..n : \E ix \in [1..k -> 1..n] :
                /\ Lists(ix, keep)
                /\ db' = [db EXCEPT ![t].rows = [i \in 1..k |-> db[t].rows[ix[i]]]]

Next == \E t \in Names :
    Create(t) \/ Drop(t) \/ Import(t) \/ AppendRow(t) \/ Update(t) \/ Delete(t)

Spec == Init /\ [][Next]_db
=============================================================================
