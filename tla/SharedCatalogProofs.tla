------------------------ MODULE SharedCatalogProofs ------------------------
(***************************************************************************)
(* What a catalog shared by threads guarantees under a discipline of its   *)
(* callers, for any number of threads, tables, rows and columns.           *)
(***************************************************************************)
EXTENDS SharedCatalog, FiniteSetTheorems, SequenceTheorems, TLAPS

LEMMA WidthNat == TableWidth \in Nat
  BY SharedAssumption

LEMMA Sizes ==
    /\ TableWidth \in Nat /\ 1 \in Columns
    /\ Cardinality(Names) \in Nat /\ Cardinality(Threads) \in Nat
    /\ Objects \subseteq Nat \ {0}
<1>1. IsFiniteSet(Names) /\ IsFiniteSet(Threads) /\ TableWidth \in Nat \ {0}
  BY SharedAssumption
<1>2. Cardinality(Names) \in Nat /\ Cardinality(Threads) \in Nat
  BY <1>1, FS_CardinalityType
<1> QED BY <1>1, <1>2 DEF Objects, Columns

(* Names and statements cannot refer to all objects, so registerTable      *)
(* always finds one that nobody holds.                                     *)
LEMMA FreshIsFresh ==
    ASSUME SharedTypeOK
    PROVE  /\ Fresh \in Objects /\ Fresh # 0
           /\ \A t \in Names : tables[t] # Fresh
           /\ \A p \in Threads : task[p].obj # Fresh
<1> DEFINE obj == [p \in Threads |-> task[p].obj]
           Held == {tables[t] : t \in Names}
           Busy == {obj[p] : p \in Threads}
<1>1. IsFiniteSet(Names) /\ IsFiniteSet(Threads)
  BY SharedAssumption
<1>2. tables \in Surjection(Names, Held) /\ obj \in Surjection(Threads, Busy)
  BY DEF SharedTypeOK, Surjection
<1>3. IsFiniteSet(Held) /\ Cardinality(Held) <= Cardinality(Names)
  BY <1>1, <1>2, FS_Surjection
<1>4. IsFiniteSet(Busy) /\ Cardinality(Busy) <= Cardinality(Threads)
  BY <1>1, <1>2, FS_Surjection
<1>5. \E o \in Objects : o \notin Held \cup Busy
  <2> SUFFICES ASSUME Objects \subseteq Held \cup Busy
               PROVE  FALSE
    OBVIOUS
  <2> HIDE DEF Held, Busy
  <2>1. IsFiniteSet(Held \cup Busy) /\ Cardinality(Held \cup Busy) <= Cardinality(Held) + Cardinality(Busy)
    <3>1. IsFiniteSet(Held \cap Busy) /\ Cardinality(Held \cap Busy) \in Nat
      BY <1>3, FS_Intersection, FS_CardinalityType
    <3>2. Cardinality(Held) \in Nat /\ Cardinality(Busy) \in Nat
      BY <1>3, <1>4, FS_CardinalityType
    <3>3. /\ IsFiniteSet(Held \cup Busy)
          /\ Cardinality(Held \cup Busy) = Cardinality(Held) + Cardinality(Busy) - Cardinality(Held \cap Busy)
      BY <1>3, <1>4, FS_Union
    <3> QED BY <3>1, <3>2, <3>3
  <2>2. Cardinality(Objects) <= Cardinality(Held \cup Busy)
    BY <2>1, FS_Subset
  <2> DEFINE n == Cardinality(Names) + 2 * Cardinality(Threads) + 1
  <2>3. n \in Nat /\ Objects = 1..n
    BY Sizes DEF Objects
  <2>4. Cardinality(Objects) = n
    <3> HIDE DEF n
    <3>1. 1 \in Int /\ n \in Int
      BY <2>3
    <3>2. Cardinality(1..n) = IF 1 > n THEN 0 ELSE n - 1 + 1
      BY <3>1, FS_Interval
    <3> QED BY <2>3, <3>2
  <2>5. Cardinality(Held) \in Nat /\ Cardinality(Busy) \in Nat /\ Cardinality(Held \cup Busy) \in Nat
    BY <1>3, <1>4, <2>1, FS_CardinalityType
  <2> QED BY <1>3, <1>4, <2>1, <2>2, <2>4, <2>5, Sizes
<1>6. PICK o \in Objects : o \notin Held \cup Busy
  BY <1>5
<1>7. /\ \A t \in Names : tables[t] # o
      /\ \A p \in Threads : task[p].obj # o
  BY <1>6
<1> QED BY <1>7, Sizes DEF Fresh

-----------------------------------------------------------------------------
(* Sequences that list a set without repetition.                           *)
LEMMA ListsLen ==
    ASSUME NEW R, NEW rows \in Seq(R), NEW S, Lists(rows, S)
    PROVE  Len(rows) = Cardinality(S)
<1>1. Len(rows) \in Nat /\ rows \in [1..Len(rows) -> S] /\ DOMAIN rows = 1..Len(rows)
  BY LenProperties DEF Lists, ToSet
<1>2. rows \in Bijection(1..Len(rows), S)
  BY <1>1 DEF Lists, ToSet, Bijection, Injection, Surjection, IsInjective
<1>3. ExistsBijection(1..Len(rows), S)
  BY <1>2 DEF ExistsBijection
<1> QED BY <1>1, <1>3, FS_CountingElements

LEMMA ListsAppend ==
    ASSUME NEW R, NEW rows \in Seq(R), NEW S, Lists(rows, S), NEW x \in R, x \notin S
    PROVE  Append(rows, x) \in Seq(R) /\ Lists(Append(rows, x), S \cup {x})
<1> DEFINE new == Append(rows, x)
           n == Len(rows)
<1>1. n \in Nat /\ DOMAIN rows = 1..n
  BY LenProperties
<1>2. /\ new \in Seq(R) /\ Len(new) = n + 1
      /\ \A i \in 1..n : new[i] = rows[i]
      /\ new[n + 1] = x
  BY AppendProperties
<1>3. DOMAIN new = 1..n + 1
  BY <1>2, LenProperties
<1> HIDE DEF new, n
<1>4. \A i \in 1..n : rows[i] \in S
  BY <1>1 DEF Lists, ToSet
<1>5. 1..n + 1 = (1..n) \cup {n + 1}
  BY <1>1
<1>6. ToSet(new) = S \cup {x}
  <2>1. ToSet(rows) = {rows[i] : i \in 1..n} /\ ToSet(rows) = S
    BY <1>1 DEF Lists, ToSet
  <2>2. ToSet(new) = {new[i] : i \in 1..n + 1}
    BY <1>3 DEF ToSet
  <2> QED BY <1>2, <1>5, <2>1, <2>2
<1>7. IsInjective(new)
  <2> SUFFICES ASSUME NEW i \in 1..n + 1, NEW j \in 1..n + 1, new[i] = new[j]
               PROVE  i = j
    BY <1>3 DEF IsInjective
  <2>1. CASE i \in 1..n /\ j \in 1..n
    BY <1>1, <1>2, <2>1 DEF Lists, IsInjective
  <2>2. CASE i = n + 1 \/ j = n + 1
    BY <1>2, <1>4, <1>5, <2>2
  <2> QED BY <1>5, <2>1, <2>2
<1> QED BY <1>2, <1>6, <1>7 DEF Lists, new

LEMMA ListsSmall ==
    /\ Lists(<< >>, {})
    /\ \A x : Lists(<<x>>, {x})
  BY DEF Lists, ToSet, IsInjective

-----------------------------------------------------------------------------
(* The invariant, action by action.  Most steps change the task of one     *)
(* thread and nothing else.                                                *)
LEMMA StatementTyped ==
    ASSUME NEW op \in {"idle", "insert", "update", "delete", "import"}, NEW t \in Names \cup {""},
           NEW o \in Objects \cup {0}, NEW arg \in RowIds \cup {0}
    PROVE  LET k == Statement(op, t, o, arg)
           IN /\ k \in TaskType /\ k.op = op /\ k.name = t /\ k.obj = o
              /\ k.arg = arg /\ k.at = 0 /\ k.acc = << >>
<1> DEFINE k == Statement(op, t, o, arg)
<1>1. << >> \in Seq(RowIds) /\ 0 \in Nat /\ << >> \in {<< >>}
  BY EmptySeq
<1>2. k \in StatementType
  BY <1>1, Zenon DEF Statement, StatementType
<1> QED BY <1>2 DEF TaskType, Statement

LEMMA IdleTask ==
    /\ Idle \in TaskType /\ Idle.op = "idle" /\ Idle.obj = 0
    /\ WellTyped(Idle) /\ WriterInv(Idle) /\ ScanInv(Idle)
    /\ \A k : Apart(k, Idle) /\ Apart(Idle, k)
<1>1. "idle" \in {"idle", "insert", "update", "delete", "import"} /\ "" \in Names \cup {""}
  OBVIOUS
<1>2. Idle \in TaskType /\ Idle.op = "idle" /\ Idle.obj = 0
  <2>1. 0 \in Objects \cup {0} /\ 0 \in RowIds \cup {0}
    OBVIOUS
  <2>2. Idle \in TaskType
    BY <1>1, <2>1, StatementTyped, Zenon DEF Idle
  <2> QED BY <2>2 DEF Idle, Statement
<1> QED BY <1>2 DEF WellTyped, WriterInv, ScanInv, Apart, Writes

LEMMA InitInv == SharedInit => SharedInv
<1> SUFFICES ASSUME SharedInit PROVE SharedInv
  OBVIOUS
<1>1. EmptyTable \in [Columns -> Seq(RowIds)]
  BY EmptySeq DEF EmptyTable
<1>2. SharedTypeOK
  BY <1>1, IdleTask DEF SharedInit, SharedTypeOK
<1>3. Owned
  BY IdleTask DEF SharedInit, Owned, OwnObject
<1>4. Serialized /\ TablesHoldRows
  BY IdleTask DEF SharedInit, Serialized, TablesHoldRows
<1>5. \A p \in Threads : WriterInv(task[p]) /\ ScanInv(task[p])
  BY IdleTask DEF SharedInit
<1> QED BY <1>2, <1>3, <1>4, <1>5 DEF SharedInv

(* Thread p goes from a task that does not insert to task k; an INSERT     *)
(* begins at the first column.                                             *)
LEMMA TaskStep ==
    ASSUME SharedInv, NEW p \in Threads, NEW k \in TaskType,
           task' = [task EXCEPT ![p] = k],
           UNCHANGED <<tables, heap, kept>>,
           used \subseteq used', used' \subseteq RowIds,
           WellTyped(k)', OwnObject(k),
           task[p].op # "insert", k.op = "insert" => k.at = 0,
           Discipline # "none" =>
              /\ \A q \in Threads \ {p} : Apart(k, task[q]) /\ Apart(task[q], k)
              /\ WriterInv(k),
           Discipline = "readers" => ScanInv(k)
    PROVE  SharedInv'
<1>1. task \in [Threads -> TaskType] /\ task' \in [Threads -> TaskType]
  BY DEF SharedInv, SharedTypeOK
<1>2. task'[p] = k /\ \A q \in Threads \ {p} : task'[q] = task[q]
  BY <1>1
<1>3. SharedTypeOK'
  <2>1. ASSUME NEW q \in Threads PROVE WellTyped(task[q])'
    BY <1>2 DEF SharedInv, SharedTypeOK, WellTyped
  <2>2. kept' \in [Names -> SUBSET used']
    BY DEF SharedInv, SharedTypeOK
  <2> QED BY <1>1, <2>1, <2>2 DEF SharedInv, SharedTypeOK
<1>4. Owned'
  BY <1>2 DEF SharedInv, Owned, OwnObject
<1>5. ASSUME Discipline # "none" PROVE Serialized'
  BY <1>2, <1>5 DEF SharedInv, Serialized, Apart
<1>6. ASSUME Discipline # "none" PROVE TablesHoldRows'
  <2>1. ASSUME NEW t \in Names, NEW c \in Columns
        PROVE  Landed(t, c)' = Landed(t, c)
    <3>1. c > 0
      BY Sizes DEF Columns
    <3>2. ASSUME NEW q \in Threads
          PROVE  /\ (/\ task[q].op = "insert" /\ task[q].name = t /\ c <= task[q].at)'
                       <=> (task[q].op = "insert" /\ task[q].name = t /\ c <= task[q].at)
                 /\ task[q].op = "insert" => task'[q].arg = task[q].arg
      BY <1>2, <3>1, Sizes DEF Columns
    <3> QED BY <3>2 DEF Landed
  <2> QED BY <1>6, <2>1 DEF SharedInv, TablesHoldRows
<1>7. ASSUME Discipline # "none" PROVE \A q \in Threads : WriterInv(task[q])'
  <2> SUFFICES ASSUME NEW q \in Threads PROVE WriterInv(task[q])'
    OBVIOUS
  <2> DEFINE j == task'[q]
  <2>1. WriterInv(j)
    BY <1>2, <1>7 DEF SharedInv
  <2> QED BY <2>1 DEF WriterInv, RowCount
<1>8. ASSUME Discipline = "readers" PROVE \A q \in Threads : ScanInv(task[q])'
  BY <1>2, <1>8 DEF SharedInv, ScanInv
<1> QED BY <1>3, <1>4, <1>5, <1>6, <1>7, <1>8 DEF SharedInv

(* A statement that may run is kept apart from the others as it begins.    *)
LEMMA MayRunApart ==
    ASSUME Discipline # "none", NEW p \in Threads, NEW op, NEW t, MayRun(p, op, t),
           NEW k, k.op = op, k.name = t, NEW q \in Threads \ {p}
    PROVE  Apart(k, task[q]) /\ Apart(task[q], k)
<1> SUFFICES ASSUME task[q].name = t
             PROVE  /\ ~ (Writes(op) /\ Writes(task[q].op))
                    /\ Discipline = "readers" => /\ ~ (op = "insert" /\ task[q].op = "select")
                                                 /\ ~ (task[q].op = "insert" /\ op = "select")
  BY DEF Apart
<1> QED BY DEF MayRun

LEMMA LookedUp ==
    ASSUME SharedInv, NEW t \in Names, NEW op \in {"insert", "update", "delete", "import"},
           NEW arg \in RowIds \cup {0}
    PROVE  LET k == Statement(op, t, tables[t], arg)
           IN /\ k \in TaskType /\ k.op = op /\ k.name = t /\ k.obj = tables[t]
              /\ k.arg = arg /\ k.at = 0 /\ k.acc = << >>
              /\ OwnObject(k)
<1> DEFINE k == Statement(op, t, tables[t], arg)
<1>1. tables[t] \in Objects \cup {0} /\ t \in Names \cup {""}
  BY DEF SharedInv, SharedTypeOK
<1>2. op \in {"idle", "insert", "update", "delete", "import"}
  OBVIOUS
<1>3. /\ k \in TaskType /\ k.op = op /\ k.name = t /\ k.obj = tables[t]
      /\ k.arg = arg /\ k.at = 0 /\ k.acc = << >>
  <2> DEFINE o == tables[t]
  <2>1. o \in Objects \cup {0}
    BY <1>1
  <2> HIDE DEF o
  <2>2. Statement(op, t, o, arg) \in TaskType
    BY <1>1, <1>2, <2>1, StatementTyped
  <2> QED BY <2>2 DEF o, Statement
<1> HIDE DEF k
<1>4. OwnObject(k)
  BY <1>3 DEF SharedInv, Owned, OwnObject
<1> QED BY <1>3, <1>4 DEF k

LEMMA BeginInsertInv ==
    ASSUME SharedInv, NEW p \in Threads, NEW t \in Names, NEW row \in RowIds, BeginInsert(p, t, row)
    PROVE  SharedInv'
<1> PICK k : k = Statement("insert", t, tables[t], row)
  OBVIOUS
<1>1. /\ k \in TaskType /\ k.op = "insert" /\ k.name = t /\ k.obj = tables[t]
      /\ k.arg = row /\ k.at = 0 /\ OwnObject(k)
  BY LookedUp
<1>2. /\ task' = [task EXCEPT ![p] = k] /\ task[p].op = "idle" /\ MayRun(p, "insert", t)
      /\ used' = used \cup {row} /\ UNCHANGED <<tables, heap, kept>>
      /\ tables[t] # 0 /\ row \notin used
  BY DEF BeginInsert, Start
<1>3. WellTyped(k)'
  BY <1>1, <1>2, SharedAssumption DEF WellTyped
<1>4. WriterInv(k)
  <2>1. row \notin kept[t]
    BY <1>2 DEF SharedInv, SharedTypeOK
  <2> QED BY <1>1, <2>1 DEF WriterInv
<1>5. Discipline # "none" => \A q \in Threads \ {p} : Apart(k, task[q]) /\ Apart(task[q], k)
  BY <1>1, <1>2, MayRunApart
<1>6. used \subseteq used' /\ used' \subseteq RowIds
  BY <1>2 DEF SharedInv, SharedTypeOK
<1>7. ScanInv(k)
  BY <1>1 DEF ScanInv
<1> QED BY <1>1, <1>2, <1>3, <1>4, <1>5, <1>6, <1>7, TaskStep

LEMMA BeginRewriteInv ==
    ASSUME SharedInv, NEW p \in Threads, NEW t \in Names, NEW op \in {"update", "delete"},
           NEW row \in RowIds \cup {0}, BeginRewrite(p, t, op, row)
    PROVE  SharedInv'
<1> PICK k : k = Statement(op, t, tables[t], row)
  OBVIOUS
<1>1. /\ k \in TaskType /\ k.op = op /\ k.name = t /\ k.obj = tables[t]
      /\ k.arg = row /\ k.at = 0 /\ k.acc = << >> /\ OwnObject(k)
  BY LookedUp
<1>2. /\ task' = [task EXCEPT ![p] = k] /\ task[p].op = "idle" /\ MayRun(p, op, t)
      /\ UNCHANGED used /\ UNCHANGED <<tables, heap, kept>> /\ tables[t] # 0
  BY DEF BeginRewrite, Start
<1>3. WellTyped(k)'
  BY <1>1, <1>2 DEF WellTyped
<1>4. WriterInv(k)
  <2>0. k.obj \in Objects /\ heap \in [Objects -> [Columns -> Seq(RowIds)]]
    BY <1>1, <1>2 DEF SharedInv, SharedTypeOK
  <2>1. heap[k.obj][1] \in Seq(RowIds)
    BY <2>0, Sizes
  <2>2. 0 <= RowCount(k.obj)
    BY <2>1, LenProperties DEF RowCount
  <2>3. RowsTo(heap[k.obj][1], 0) \ (IF k.op = "delete" THEN {k.arg} ELSE {}) = {}
    BY DEF RowsTo
  <2>4. Lists(k.acc, RowsTo(heap[k.obj][1], k.at) \ (IF k.op = "delete" THEN {k.arg} ELSE {}))
    BY <1>1, <2>3, ListsSmall
  <2> QED BY <1>1, <2>2, <2>4 DEF WriterInv
<1>5. Discipline # "none" => \A q \in Threads \ {p} : Apart(k, task[q]) /\ Apart(task[q], k)
  BY <1>1, <1>2, MayRunApart
<1>6. used \subseteq used' /\ used' \subseteq RowIds
  BY <1>2 DEF SharedInv, SharedTypeOK
<1>7. ScanInv(k)
  BY <1>1 DEF ScanInv
<1> QED BY <1>1, <1>2, <1>3, <1>4, <1>5, <1>6, <1>7, TaskStep

LEMMA BeginImportInv ==
    ASSUME SharedInv, NEW p \in Threads, NEW t \in Names, NEW row \in RowIds, BeginImport(p, t, row)
    PROVE  SharedInv'
<1> PICK k : k = Statement("import", t, tables[t], row)
  OBVIOUS
<1>1. /\ k \in TaskType /\ k.op = "import" /\ k.name = t /\ k.obj = tables[t]
      /\ k.arg = row /\ k.at = 0 /\ OwnObject(k)
  BY LookedUp
<1>2. /\ task' = [task EXCEPT ![p] = k] /\ task[p].op = "idle" /\ MayRun(p, "import", t)
      /\ used' = used \cup {row} /\ UNCHANGED <<tables, heap, kept>> /\ tables[t] = 0
  BY DEF BeginImport, Start
<1>3. WellTyped(k)'
  BY <1>1, <1>2 DEF WellTyped
<1>4. WriterInv(k)
  BY <1>1, <1>2 DEF WriterInv
<1>5. Discipline # "none" => \A q \in Threads \ {p} : Apart(k, task[q]) /\ Apart(task[q], k)
  BY <1>1, <1>2, MayRunApart
<1>6. used \subseteq used' /\ used' \subseteq RowIds
  BY <1>2 DEF SharedInv, SharedTypeOK
<1>7. ScanInv(k)
  BY <1>1 DEF ScanInv
<1> QED BY <1>1, <1>2, <1>3, <1>4, <1>5, <1>6, <1>7, TaskStep

(* The task of a thread, as a statement or as a query.                     *)
LEMMA TaskKinds ==
    ASSUME SharedInv, NEW p \in Threads
    PROVE  /\ task[p] \in TaskType /\ WellTyped(task[p]) /\ OwnObject(task[p])
           /\ task[p].op \in {"insert", "update", "delete", "import"} =>
                 task[p] \in StatementType /\ task[p].name \in Names
           /\ task[p].op \in {"insert", "update", "delete"} => task[p].obj \in Objects
           /\ task[p].op = "select" => task[p] \in QueryType
<1>1. task[p] \in TaskType /\ WellTyped(task[p]) /\ OwnObject(task[p])
  BY DEF SharedInv, SharedTypeOK, Owned
<1>2. task[p] \in StatementType \/ task[p] \in QueryType
  BY <1>1 DEF TaskType
<1> QED BY <1>1, <1>2 DEF StatementType, QueryType, WellTyped

(* The columns of the objects are sequences of rows.                       *)
LEMMA HeapColumn ==
    ASSUME SharedInv, NEW o \in Objects
    PROVE  /\ heap[o] \in [Columns -> Seq(RowIds)]
           /\ \A c \in Columns : heap[o][c] \in Seq(RowIds)
           /\ RowCount(o) \in Nat /\ heap[o][1] \in Seq(RowIds)
           /\ \A i \in 1..RowCount(o) : heap[o][1][i] \in RowIds
<1>1. heap[o] \in [Columns -> Seq(RowIds)]
  BY DEF SharedInv, SharedTypeOK
<1>2. heap[o][1] \in Seq(RowIds)
  BY <1>1, Sizes
<1> QED BY <1>1, <1>2, LenProperties, ElementOfSeq DEF RowCount

(* One more row of the table: the rows gone through are listed but for the *)
(* deleted one.                                                            *)
LEMMA RewriteLists ==
    ASSUME NEW R, NEW col \in Seq(R), IsInjective(col), NEW n \in Nat, n < Len(col),
           NEW acc \in Seq(R), NEW D, Lists(acc, RowsTo(col, n) \ D)
    PROVE  /\ col[n + 1] \in D => Lists(acc, RowsTo(col, n + 1) \ D)
           /\ col[n + 1] \notin D =>
                 /\ Append(acc, col[n + 1]) \in Seq(R)
                 /\ Lists(Append(acc, col[n + 1]), RowsTo(col, n + 1) \ D)
<1> DEFINE S == RowsTo(col, n)
           x == col[n + 1]
<1>1. Len(col) \in Nat /\ DOMAIN col = 1..Len(col)
  BY LenProperties
<1>2. n + 1 \in 1..Len(col) /\ \A i \in 1..n : i \in 1..Len(col) /\ i # n + 1
  BY <1>1
<1>3. x \in R
  BY <1>2, ElementOfSeq
<1>4. x \notin S
  BY <1>1, <1>2 DEF IsInjective, RowsTo
<1>5. RowsTo(col, n + 1) = S \cup {x}
  <2>1. 1..n + 1 = (1..n) \cup {n + 1}
    OBVIOUS
  <2> QED BY <2>1 DEF RowsTo
<1> HIDE DEF S, x
<1>6. CASE x \in D
  <2>1. (S \cup {x}) \ D = S \ D
    BY <1>6
  <2> QED BY <1>5, <1>6, <2>1 DEF S, x
<1>7. CASE x \notin D
  <2>1. (S \cup {x}) \ D = (S \ D) \cup {x} /\ x \notin S \ D
    BY <1>4, <1>7
  <2>2. Append(acc, x) \in Seq(R) /\ Lists(Append(acc, x), (S \ D) \cup {x})
    BY <1>3, <2>1, ListsAppend DEF S
  <2> QED BY <1>5, <1>7, <2>1, <2>2 DEF S, x
<1> QED BY <1>6, <1>7 DEF x

GoesOn(k, at, acc) == [k EXCEPT !.at = at, !.acc = acc]

LEMMA StatementGoesOn ==
    ASSUME NEW j \in StatementType, NEW at \in Nat, NEW acc \in Seq(RowIds)
    PROVE  LET k == GoesOn(j, at, acc)
           IN /\ k \in StatementType /\ k.op = j.op /\ k.name = j.name /\ k.obj = j.obj
              /\ k.arg = j.arg /\ k.at = at /\ k.acc = acc
<1> DEFINE m == [j EXCEPT !.at = at]
           k == GoesOn(j, at, acc)
<1>1. /\ m \in StatementType /\ m.op = j.op /\ m.name = j.name /\ m.obj = j.obj
      /\ m.arg = j.arg /\ m.at = at
  BY DEF StatementType
<1>2. k = [m EXCEPT !.acc = acc]
  BY DEF GoesOn
<1> HIDE DEF m, k
<1>3. /\ k \in StatementType /\ k.op = j.op /\ k.name = j.name /\ k.obj = j.obj
      /\ k.arg = j.arg /\ k.at = at /\ k.acc = acc
  BY <1>1, <1>2 DEF StatementType
<1> QED BY <1>3 DEF k

LEMMA RewriteRowInv ==
    ASSUME SharedInv, NEW p \in Threads, RewriteRow(p)
    PROVE  SharedInv'
<1> DEFINE j == task[p]
           col == heap[j.obj][1]
           row == col[j.at + 1]
           D == IF j.op = "delete" THEN {j.arg} ELSE {}
           acc == IF row \in D THEN j.acc ELSE Append(j.acc, row)
<1>1. /\ j.op \in {"update", "delete"} /\ j.at < RowCount(j.obj) /\ UNCHANGED used
      /\ UNCHANGED <<tables, heap, kept>>
  BY DEF RewriteRow
<1>2. /\ j \in StatementType /\ j.name \in Names /\ j.obj \in Objects /\ WellTyped(j) /\ OwnObject(j)
      /\ col \in Seq(RowIds) /\ j.at \in Nat /\ j.acc \in Seq(RowIds)
      /\ RowCount(j.obj) = Len(col) /\ Len(col) \in Nat
  <2>1. j \in StatementType /\ j.name \in Names /\ j.obj \in Objects /\ WellTyped(j) /\ OwnObject(j)
    BY <1>1, TaskKinds
  <2>2. j.at \in Nat /\ j.acc \in Seq(RowIds)
    BY <2>1 DEF StatementType
  <2>3. col \in Seq(RowIds)
    BY <2>1, HeapColumn
  <2> QED BY <2>1, <2>2, <2>3, LenProperties DEF RowCount
<1>3. acc \in Seq(RowIds)
  <2>1. row \in RowIds
    BY <1>1, <1>2, ElementOfSeq
  <2> QED BY <1>2, <2>1, AppendProperties
<1>4. task' = [task EXCEPT ![p] = GoesOn(j, j.at + 1, acc)]
  BY <1>1 DEF RewriteRow, GoesOn
<1> DEFINE at == j.at + 1
<1>a. at \in Nat
  BY <1>2
<1> PICK k : k = GoesOn(j, at, acc)
  OBVIOUS
<1> HIDE DEF j, acc, row, D, col, at
<1>5. /\ k \in StatementType /\ k.op = j.op /\ k.name = j.name /\ k.obj = j.obj /\ k.arg = j.arg
      /\ k.at = j.at + 1 /\ k.acc = acc
  <2>1. /\ k \in StatementType /\ k.op = j.op /\ k.name = j.name /\ k.obj = j.obj
        /\ k.arg = j.arg /\ k.at = at /\ k.acc = acc
    <3>1. j \in StatementType /\ at \in Nat /\ acc \in Seq(RowIds)
      BY <1>2, <1>3, <1>a
    <3>2. LET m == GoesOn(j, at, acc)
          IN /\ m \in StatementType /\ m.op = j.op /\ m.name = j.name /\ m.obj = j.obj
             /\ m.arg = j.arg /\ m.at = at /\ m.acc = acc
      BY ONLY <3>1, StatementGoesOn
    <3> QED BY <3>2
  <2> QED BY <2>1 DEF at
<1>6. WellTyped(k)' /\ OwnObject(k) /\ k \in TaskType
  BY <1>1, <1>2, <1>5 DEF WellTyped, OwnObject, TaskType
<1>7. ASSUME Discipline # "none"
      PROVE  /\ \A q \in Threads \ {p} : Apart(k, task[q]) /\ Apart(task[q], k)
             /\ WriterInv(k)
  <2>1. \A q \in Threads \ {p} : Apart(j, task[q]) /\ Apart(task[q], j)
    BY <1>7 DEF SharedInv, Serialized, j
  <2>2. \A q \in Threads \ {p} : Apart(k, task[q]) /\ Apart(task[q], k)
    BY <1>5, <2>1 DEF Apart
  <2>3. WriterInv(j)
    BY <1>7 DEF SharedInv, j
  <2>4. tables[j.name] = j.obj /\ Lists(j.acc, RowsTo(col, j.at) \ D)
    BY <1>1, <2>3 DEF WriterInv, Writes, col, D
  <2>5. IsInjective(col)
    BY <1>2, <1>7, <2>4, Sizes DEF SharedInv, TablesHoldRows, Lists, col
  <2>6. Lists(acc, RowsTo(col, j.at + 1) \ D)
    <3>1. j.at < Len(col)
      BY <1>1, <1>2
    <3>2. CASE row \in D
      BY <1>2, <2>4, <2>5, <3>1, <3>2, RewriteLists DEF acc, row
    <3>3. CASE row \notin D
      BY <1>2, <2>4, <2>5, <3>1, <3>3, RewriteLists DEF acc, row
    <3> QED BY <3>2, <3>3
  <2>7. Lists(k.acc, RowsTo(heap[k.obj][1], k.at) \ (IF k.op = "delete" THEN {k.arg} ELSE {}))
    BY <1>5, <2>6 DEF col, D
  <2>8. k.at <= RowCount(k.obj)
    BY <1>1, <1>2, <1>5
  <2> QED BY <1>1, <1>5, <2>2, <2>4, <2>7, <2>8 DEF WriterInv
<1>8. ScanInv(k)
  BY <1>1, <1>5 DEF ScanInv
<1>9. task[p].op # "insert" /\ k.op # "insert" /\ used' \subseteq RowIds
  BY <1>1, <1>5 DEF j, SharedInv, SharedTypeOK
<1> QED BY <1>1, <1>4, <1>6, <1>7, <1>8, <1>9, TaskStep DEF at

LEMMA EmptyColumns ==
    /\ EmptyTable \in [Columns -> Seq(RowIds)]
    /\ EmptyTable \in [Columns -> Seq(RowIds \cup {0})]
    /\ \A c \in Columns : EmptyTable[c] = << >>
  BY EmptySeq DEF EmptyTable

(* A query changes no table.                                               *)
LEMMA QueryStep ==
    ASSUME SharedInv, NEW p \in Threads, NEW k \in QueryType,
           task' = [task EXCEPT ![p] = k], UNCHANGED used, UNCHANGED <<tables, heap, kept>>,
           task[p].op # "insert", OwnObject(k),
           Discipline # "none" =>
              \A q \in Threads \ {p} : Apart(k, task[q]) /\ Apart(task[q], k),
           Discipline = "readers" => ScanInv(k)
    PROVE  SharedInv'
<1>1. k \in TaskType /\ k.op = "select" /\ k.name \in Names
  BY DEF TaskType, QueryType
<1>2. WellTyped(k)' /\ WriterInv(k)
  BY <1>1 DEF WellTyped, WriterInv, Writes
<1>3. used' \subseteq RowIds /\ used \subseteq used'
  BY DEF SharedInv, SharedTypeOK
<1> QED BY <1>1, <1>2, <1>3, TaskStep

LEMMA BeginSelectInv ==
    ASSUME SharedInv, NEW p \in Threads, NEW t \in Names, BeginSelect(p, t)
    PROVE  SharedInv'
<1> DEFINE o == tables[t]
           new == [op |-> "select", name |-> t, obj |-> o, arg |-> 0, at |-> TableWidth,
                   total |-> 0, acc |-> EmptyTable, base |-> heap[o]]
<1>1. /\ o # 0 /\ task[p].op = "idle" /\ MayRun(p, "select", t)
      /\ task' = [task EXCEPT ![p] = new]
      /\ UNCHANGED used /\ UNCHANGED <<tables, heap, kept>>
  BY DEF BeginSelect
<1>2. o \in Objects /\ heap[o] \in [Columns -> Seq(RowIds)]
  BY <1>1 DEF SharedInv, SharedTypeOK
<1> PICK k : k = new
  OBVIOUS
<1>3. /\ k.op = "select" /\ k.name = t /\ k.obj = o /\ k.at = TableWidth /\ k.acc = EmptyTable
      /\ k.base = heap[o]
  OBVIOUS
<1>4. k \in QueryType
  <2>1. TableWidth \in 0..TableWidth /\ 0 \in Nat /\ 0 \in {0} /\ "select" \in {"select"}
    BY Sizes
  <2> HIDE DEF o
  <2> QED BY <1>2, <2>1, EmptyColumns, Zenon DEF QueryType
<1>5. OwnObject(k)
  BY <1>3 DEF SharedInv, Owned, OwnObject
<1>6. Discipline # "none" => \A q \in Threads \ {p} : Apart(k, task[q]) /\ Apart(task[q], k)
  BY <1>1, <1>3, MayRunApart
<1> HIDE DEF new
<1>7. ASSUME Discipline = "readers" PROVE ScanInv(k)
  <2>1. \A q \in Threads : ~ (task[q].op = "insert" /\ task[q].name = t)
    BY <1>1, <1>3, <1>6, <1>7 DEF Apart
  <2>2. ASSUME NEW c \in Columns
        PROVE  Len(heap[o][c]) = Cardinality(kept[t])
    <3>1. Landed(t, c) = {}
      BY <2>1 DEF Landed
    <3>2. Lists(heap[o][c], kept[t] \cup Landed(t, c))
      BY <1>1, <1>7 DEF SharedInv, TablesHoldRows
    <3>3. Lists(heap[o][c], kept[t])
      BY <3>1, <3>2
    <3>4. heap[o][c] \in Seq(RowIds)
      BY <1>2
    <3> QED BY <3>3, <3>4, ListsLen
  <2>3. \A c \in Columns : Len(k.base[c]) = Len(k.base[1])
    BY <1>3, <2>2, Sizes
  <2> QED BY <1>3, <2>3 DEF ScanInv
<1> QED BY <1>1, <1>3, <1>4, <1>5, <1>6, <1>7, QueryStep

(* A query that goes on is apart from the others as before.                *)
LEMMA QueryGoesOn ==
    ASSUME SharedInv, NEW p \in Threads, task[p].op = "select", NEW k \in QueryType,
           k.name = task[p].name, k.obj = task[p].obj
    PROVE  /\ OwnObject(k)
           /\ Discipline # "none" =>
                 \A q \in Threads \ {p} : Apart(k, task[q]) /\ Apart(task[q], k)
<1>1. k.op = "select"
  BY DEF QueryType
<1>2. OwnObject(k)
  BY DEF SharedInv, Owned, OwnObject
<1>3. ASSUME Discipline # "none", NEW q \in Threads \ {p}
      PROVE  Apart(task[p], task[q]) /\ Apart(task[q], task[p])
  BY <1>3 DEF SharedInv, Serialized
<1> QED BY <1>1, <1>2, <1>3 DEF Apart

LEMMA QueryFields ==
    ASSUME NEW j \in QueryType
    PROVE  /\ j.op = "select" /\ j.obj \in Objects /\ j.at \in 0..TableWidth /\ j.total \in Nat
           /\ j.acc \in [Columns -> Seq(RowIds \cup {0})]
           /\ j.base \in [Columns -> Seq(RowIds)]
  BY DEF QueryType

Batch(k, total) == [k EXCEPT !.total = total, !.at = 0]

LEMMA BatchFields ==
    ASSUME NEW j \in QueryType, NEW total \in Nat
    PROVE  LET k == Batch(j, total)
           IN /\ k \in QueryType /\ k.name = j.name /\ k.obj = j.obj /\ k.at = 0
              /\ k.total = total /\ k.acc = j.acc /\ k.base = j.base
<1>1. 0 \in 0..TableWidth
  BY WidthNat
<1> QED BY <1>1 DEF QueryType, Batch

LEMMA ColumnFields ==
    ASSUME NEW j \in QueryType, NEW at \in 0..TableWidth, NEW acc \in [Columns -> Seq(RowIds \cup {0})]
    PROVE  LET k == GoesOn(j, at, acc)
           IN /\ k \in QueryType /\ k.name = j.name /\ k.obj = j.obj /\ k.at = at
              /\ k.total = j.total /\ k.acc = acc /\ k.base = j.base
  BY DEF QueryType, GoesOn

LEMMA ScanBatchInv ==
    ASSUME SharedInv, NEW p \in Threads, ScanBatch(p)
    PROVE  SharedInv'
<1> DEFINE j == task[p]
           n == RowCount(j.obj)
<1>1. /\ j.op = "select" /\ j.at = TableWidth /\ Len(j.acc[1]) < n
      /\ task' = [task EXCEPT ![p] = Batch(j, n)]
      /\ UNCHANGED used /\ UNCHANGED <<tables, heap, kept>>
  BY DEF ScanBatch, Batch
<1>2. j \in QueryType
  BY <1>1, TaskKinds
<1>3. j.obj \in Objects
  BY <1>2, QueryFields
<1>4. n \in Nat
  BY <1>3, HeapColumn
<1> PICK k : k = Batch(j, n)
  OBVIOUS
<1> HIDE DEF n
<1>5. /\ k \in QueryType /\ k.name = j.name /\ k.obj = j.obj /\ k.at = 0
      /\ k.total = n /\ k.acc = j.acc /\ k.base = j.base
  BY <1>2, <1>4, BatchFields
<1>6. ASSUME Discipline = "readers" PROVE ScanInv(k)
  <2>1. /\ j.base = heap[j.obj]
        /\ \A c \in Columns : Len(j.base[c]) = Len(j.base[1])
        /\ \/ j.acc = EmptyTable
           \/ \A c \in Columns : j.acc[c] = IF c <= j.at THEN j.base[c] ELSE << >>
    BY <1>1, <1>6 DEF SharedInv, ScanInv
  <2> HIDE DEF j
  <2>2. n = Len(j.base[1]) /\ n \in Nat
    BY <1>4, <2>1 DEF n, RowCount
  <2>3. j.acc = EmptyTable
    <3>1. CASE \A c \in Columns : j.acc[c] = IF c <= j.at THEN j.base[c] ELSE << >>
      <4>1. j.acc[1] = j.base[1]
        BY <1>1, <3>1, Sizes DEF Columns
      <4> QED BY <1>1, <2>2, <4>1
    <3> QED BY <2>1, <3>1
  <2>4. \A c \in Columns : k.acc[c] = IF c <= k.at THEN k.base[c] ELSE << >>
    BY <1>5, <2>3, EmptyColumns, Sizes DEF Columns
  <2> QED BY <1>5, <2>1, <2>2, <2>4 DEF ScanInv
<1> QED BY <1>1, <1>5, <1>6, QueryGoesOn, QueryStep

(* Copying the missing cells of a column that has not been read gives the  *)
(* column.                                                                 *)
Copied(done, col, total) ==
    done \o [r \in 1..total - Len(done) |-> IF Len(done) + r <= Len(col) THEN col[Len(done) + r] ELSE 0]

LEMMA CopyType ==
    ASSUME NEW done \in Seq(RowIds \cup {0}), NEW col \in Seq(RowIds), NEW total \in Nat
    PROVE  Copied(done, col, total) \in Seq(RowIds \cup {0})
<1> DEFINE n == total - Len(done)
           f == [r \in 1..n |-> IF Len(done) + r <= Len(col) THEN col[Len(done) + r] ELSE 0]
<1>1. Len(done) \in Nat /\ Len(col) \in Nat /\ n \in Int
  BY LenProperties
<1>2. ASSUME NEW r \in 1..n
      PROVE  f[r] \in RowIds \cup {0}
  <2>1. CASE Len(done) + r <= Len(col)
    <3>1. Len(done) + r \in 1..Len(col)
      BY <1>1, <2>1
    <3>2. col[Len(done) + r] \in RowIds
      BY <3>1, ElementOfSeq
    <3> QED BY <2>1, <3>2
  <2>2. CASE ~ (Len(done) + r <= Len(col))
    BY <2>2
  <2> QED BY <2>1, <2>2
<1>3. f \in [1..n -> RowIds \cup {0}]
  BY <1>2
<1> HIDE DEF f
<1>4. \E m \in Nat : 1..n = 1..m
  <2>1. CASE n \in Nat
    BY <2>1
  <2>2. CASE n \notin Nat
    <3>1. 1..n = 1..0
      BY <1>1, <2>2
    <3> QED BY <3>1
  <2> QED BY <2>1, <2>2
<1>5. f \in Seq(RowIds \cup {0})
  BY <1>3, <1>4, SeqDef
<1>6. done \o f \in Seq(RowIds \cup {0})
  BY <1>5, ConcatProperties
<1> QED BY <1>6 DEF f, Copied

LEMMA CopyWhole ==
    ASSUME NEW col \in Seq(RowIds)
    PROVE  Copied(<< >>, col, Len(col)) = col
<1> DEFINE f == [r \in 1..Len(col) - 0 |-> IF 0 + r <= Len(col) THEN col[0 + r] ELSE 0]
<1>1. Len(col) \in Nat /\ col = [r \in 1..Len(col) |-> col[r]] /\ Len(<< >>) = 0
  BY LenProperties, EmptySeq
<1>2. f = [r \in 1..Len(col) |-> col[r]]
  <2>1. Len(col) - 0 = Len(col) /\ \A r \in 1..Len(col) : r <= Len(col) /\ 0 + r = r
    BY <1>1
  <2> QED BY <2>1
<1>3. Copied(<< >>, col, Len(col)) = << >> \o f
  BY <1>1 DEF Copied
<1>4. << >> \o col = col
  BY ConcatEmptySeq
<1> HIDE DEF f
<1> QED BY <1>1, <1>2, <1>3, <1>4

LEMMA ScanColumnInv ==
    ASSUME SharedInv, NEW p \in Threads, ScanColumn(p)
    PROVE  SharedInv'
<1> DEFINE j == task[p]
           c == j.at + 1
           acc == [j.acc EXCEPT ![c] = Copied(j.acc[c], heap[j.obj][c], j.total)]
<1>1. /\ j.op = "select" /\ j.at < TableWidth
      /\ UNCHANGED used /\ UNCHANGED <<tables, heap, kept>>
  BY DEF ScanColumn
<1>2. j \in QueryType
  BY <1>1, TaskKinds
<1>3. /\ j.obj \in Objects /\ j.at \in 0..TableWidth /\ j.total \in Nat
      /\ j.acc \in [Columns -> Seq(RowIds \cup {0})] /\ j.base \in [Columns -> Seq(RowIds)]
  BY <1>2, QueryFields
<1>4. c \in Columns /\ c \in 0..TableWidth
  BY <1>1, <1>3, WidthNat DEF Columns
<1>5. heap[j.obj][c] \in Seq(RowIds)
  BY <1>3, <1>4, HeapColumn
<1>6. acc \in [Columns -> Seq(RowIds \cup {0})]
  BY <1>3, <1>4, <1>5, CopyType
<1>7. task' = [task EXCEPT ![p] = GoesOn(j, c, acc)]
  BY DEF ScanColumn, GoesOn, Copied
<1> PICK k : k = GoesOn(j, c, acc)
  OBVIOUS
<1> HIDE DEF acc, c
<1>8. /\ k \in QueryType /\ k.name = j.name /\ k.obj = j.obj /\ k.at = c
      /\ k.total = j.total /\ k.acc = acc /\ k.base = j.base
  BY <1>2, <1>4, <1>6, ColumnFields
<1>9. ASSUME Discipline = "readers" PROVE ScanInv(k)
  <2>1. ScanInv(j)
    BY <1>9 DEF SharedInv
  <2> HIDE DEF j
  <2>2. /\ j.base = heap[j.obj]
        /\ \A d \in Columns : Len(j.base[d]) = Len(j.base[1])
        /\ j.total = Len(j.base[1])
        /\ \A d \in Columns : j.acc[d] = IF d <= j.at THEN j.base[d] ELSE << >>
    BY <1>1, <1>3, <2>1, Sizes DEF ScanInv
  <2>3. j.acc[c] = << >>
    BY <1>3, <1>4, <2>2 DEF c
  <2>4. j.base[c] \in Seq(RowIds) /\ j.total = Len(j.base[c]) /\ heap[j.obj][c] = j.base[c]
    BY <1>3, <1>4, <2>2
  <2>5. Copied(j.acc[c], heap[j.obj][c], j.total) = j.base[c]
    BY <2>3, <2>4, CopyWhole
  <2>6. \A d \in Columns : acc[d] = IF d = c THEN j.base[c] ELSE j.acc[d]
    BY <1>3, <1>4, <2>5 DEF acc
  <2>7. ASSUME NEW d \in Columns
        PROVE  k.acc[d] = IF d <= k.at THEN k.base[d] ELSE << >>
    <3>1. d <= c <=> d = c \/ d <= j.at
      BY <1>3, Sizes DEF c, Columns
    <3> QED BY <1>8, <2>2, <2>6, <3>1
  <2> QED BY <1>8, <2>2, <2>7 DEF ScanInv
<1> QED BY <1>1, <1>7, <1>8, <1>9, QueryGoesOn, QueryStep DEF acc, c

LEMMA EndSelectInv ==
    ASSUME SharedInv, NEW p \in Threads, EndSelect(p)
    PROVE  SharedInv'
<1>1. /\ task' = [task EXCEPT ![p] = Idle] /\ UNCHANGED used /\ UNCHANGED <<tables, heap, kept>>
      /\ task[p].op = "select"
  BY DEF EndSelect, ScanEnds, Return
<1>2. used' \subseteq RowIds
  BY <1>1 DEF SharedInv, SharedTypeOK
<1>3. OwnObject(Idle)
  BY IdleTask DEF OwnObject
<1>4. WellTyped(Idle)'
  BY IdleTask DEF WellTyped
<1> QED BY <1>1, <1>2, <1>3, <1>4, IdleTask, TaskStep

(* Name t comes to stand for another object, or for none, and thread p     *)
(* returns.  No writer but p is at work on t, and nobody holds the object. *)
LEMMA NameStep ==
    ASSUME SharedInv, NEW p \in Threads, NEW t \in Names, NEW o \in Objects \cup {0},
           NEW K \in SUBSET used,
           tables' = [tables EXCEPT ![t] = o],
           kept' = [kept EXCEPT ![t] = K],
           task' = [task EXCEPT ![p] = Idle],
           UNCHANGED used,
           heap' \in [Objects -> [Columns -> Seq(RowIds)]],
           \A b \in Objects \ {o} : heap'[b] = heap[b],
           o # 0 => /\ \A u \in Names : tables[u] # o
                    /\ \A q \in Threads : task[q].obj # o
                    /\ Discipline # "none" => \A c \in Columns : Lists(heap'[o][c], K),
           o = 0 => K = {},
           task[p].op # "insert",
           Discipline # "none" =>
              \A q \in Threads \ {p} : task[q].name = t => ~ Writes(task[q].op)
    PROVE  SharedInv'
<1>1. /\ task \in [Threads -> TaskType] /\ task' \in [Threads -> TaskType]
      /\ tables \in [Names -> Objects \cup {0}] /\ tables' \in [Names -> Objects \cup {0}]
      /\ kept \in [Names -> SUBSET used] /\ kept' \in [Names -> SUBSET used']
  BY IdleTask DEF SharedInv, SharedTypeOK
<1>2. task'[p] = Idle /\ \A q \in Threads \ {p} : task'[q] = task[q]
  BY <1>1
<1>3. /\ tables'[t] = o /\ kept'[t] = K
      /\ \A u \in Names \ {t} : tables'[u] = tables[u] /\ kept'[u] = kept[u]
  BY <1>1
<1>4. SharedTypeOK'
  <2>1. ASSUME NEW q \in Threads PROVE WellTyped(task[q])'
    BY <1>2, IdleTask DEF SharedInv, SharedTypeOK, WellTyped
  <2> QED BY <1>1, <2>1 DEF SharedInv, SharedTypeOK
<1>5. Owned'
  <2>1. ASSUME NEW u \in Names, NEW v \in Names, tables'[u] = tables'[v]
        PROVE  tables'[u] = 0 \/ u = v
    BY <1>3, <2>1 DEF SharedInv, Owned
  <2>2. ASSUME NEW q \in Threads PROVE OwnObject(task[q])'
    BY <1>2, <1>3, IdleTask DEF SharedInv, Owned, OwnObject
  <2> QED BY <2>1, <2>2 DEF Owned
<1>6. ASSUME Discipline # "none" PROVE Serialized'
  <2> SUFFICES ASSUME NEW q \in Threads, NEW r \in Threads, q # r
               PROVE  Apart(task'[q], task'[r])
    BY DEF Serialized, Apart
  <2>1. CASE q = p \/ r = p
    BY <1>2, <2>1, IdleTask
  <2>2. CASE q # p /\ r # p
    BY <1>2, <1>6, <2>2 DEF SharedInv, Serialized
  <2> QED BY <2>1, <2>2
<1>7. ASSUME Discipline # "none" PROVE TablesHoldRows'
  <2>1. ASSUME NEW u \in Names \ {t}, NEW c \in Columns
        PROVE  Landed(u, c)' = Landed(u, c)
    BY <1>2, IdleTask DEF Landed
  <2>2. ASSUME NEW c \in Columns
        PROVE  Landed(t, c)' = {}
    <3>1. ASSUME NEW q \in Threads
          PROVE  ~ (task'[q].op = "insert" /\ task'[q].name = t)
      BY <1>2, <1>7, IdleTask DEF Writes
    <3> QED BY <3>1 DEF Landed
  <2>3. ASSUME NEW u \in Names \ {t}, tables[u] # 0
        PROVE  heap'[tables[u]] = heap[tables[u]]
    BY <1>1, <2>3
  <2>4. ASSUME NEW u \in Names \ {t}
        PROVE  IF tables'[u] = 0 THEN kept'[u] = {}
               ELSE \A c \in Columns : Lists(heap'[tables'[u]][c], kept'[u] \cup Landed(u, c)')
    <3>1. tables'[u] = tables[u] /\ kept'[u] = kept[u]
      BY <1>3
    <3>2. CASE tables[u] = 0
      BY <1>7, <3>1, <3>2 DEF SharedInv, TablesHoldRows
    <3>3. CASE tables[u] # 0
      <4>1. ASSUME NEW c \in Columns
            PROVE  Lists(heap[tables[u]][c], kept[u] \cup Landed(u, c))
        BY <1>7, <3>3 DEF SharedInv, TablesHoldRows
      <4> QED BY <2>1, <2>3, <3>1, <3>3, <4>1
    <3> QED BY <3>2, <3>3
  <2>5. IF tables'[t] = 0 THEN kept'[t] = {}
        ELSE \A c \in Columns : Lists(heap'[tables'[t]][c], kept'[t] \cup Landed(t, c)')
    <3>1. K \cup {} = K
      OBVIOUS
    <3> QED BY <1>3, <1>7, <2>2, <3>1
  <2> QED BY <2>4, <2>5 DEF TablesHoldRows
<1>8. ASSUME NEW q \in Threads \ {p}, task[q].obj \in Objects
      PROVE  heap'[task[q].obj] = heap[task[q].obj]
  <2>1. task[q].obj # 0
    BY <1>8, Sizes
  <2>2. task[q].obj # o
    BY <1>8, <2>1
  <2> QED BY <1>8, <2>2
<1>9. ASSUME Discipline # "none", NEW q \in Threads
      PROVE  WriterInv(task[q])'
  <2>1. CASE q = p
    BY <1>2, <2>1, IdleTask DEF WriterInv, Writes
  <2>2. CASE q # p
    <3>1. CASE Writes(task[q].op)
      <4>1. task[q].name \in Names \ {t}
        BY <1>9, <2>2, <3>1, TaskKinds DEF Writes, WellTyped
      <4>2. task[q].op \in {"update", "delete"} => heap'[task[q].obj] = heap[task[q].obj]
        BY <1>8, <2>2, TaskKinds
      <4>3. WriterInv(task[q])
        BY <1>9 DEF SharedInv
      <4> PICK j : j = task[q]
        OBVIOUS
      <4>4. /\ task'[q] = j /\ tables'[j.name] = tables[j.name] /\ kept'[j.name] = kept[j.name]
            /\ j.op \in {"update", "delete"} => heap'[j.obj] = heap[j.obj]
        BY <1>2, <1>3, <2>2, <4>1, <4>2
      <4>5. WriterInv(j)
        BY <4>3
      <4>6. WriterInv(j)'
        BY <4>4, <4>5 DEF WriterInv, RowCount
      <4> QED BY <4>4, <4>6 DEF WriterInv, RowCount
    <3>2. CASE ~ Writes(task[q].op)
      BY <1>2, <2>2, <3>2 DEF WriterInv, Writes
    <3> QED BY <3>1, <3>2
  <2> QED BY <2>1, <2>2
<1>10. ASSUME Discipline = "readers", NEW q \in Threads
       PROVE  ScanInv(task[q])'
  <2>1. CASE q = p \/ task[q].op # "select"
    BY <1>2, <2>1, IdleTask DEF ScanInv
  <2>2. CASE q # p /\ task[q].op = "select"
    <3>1. task[q].obj \in Objects
      BY <2>2, TaskKinds, QueryFields
    <3>2. ScanInv(task[q])
      BY <1>10 DEF SharedInv
    <3> QED BY <1>2, <1>8, <2>2, <3>1, <3>2 DEF ScanInv
  <2> QED BY <2>1, <2>2
<1> QED BY <1>4, <1>5, <1>6, <1>7, <1>9, <1>10 DEF SharedInv

(* registerTable of a new object whose columns list the rows K.            *)
LEMMA RegisterStep ==
    ASSUME SharedInv, NEW p \in Threads, NEW t \in Names, NEW K \in SUBSET used,
           NEW cols \in [Columns -> Seq(RowIds)],
           Discipline # "none" => \A c \in Columns : Lists(cols[c], K),
           Register(t, cols),
           kept' = [kept EXCEPT ![t] = K],
           task' = [task EXCEPT ![p] = Idle],
           UNCHANGED used,
           task[p].op # "insert",
           Discipline # "none" =>
              \A q \in Threads \ {p} : task[q].name = t => ~ Writes(task[q].op)
    PROVE  SharedInv'
<1> PICK o : o = Fresh
  OBVIOUS
<1>1. /\ o \in Objects /\ o # 0
      /\ \A u \in Names : tables[u] # o
      /\ \A q \in Threads : task[q].obj # o
  BY FreshIsFresh DEF SharedInv
<1>2. tables' = [tables EXCEPT ![t] = o] /\ heap' = [heap EXCEPT ![o] = cols]
  BY DEF Register
<1>3. /\ heap' \in [Objects -> [Columns -> Seq(RowIds)]] /\ heap'[o] = cols
      /\ \A b \in Objects \ {o} : heap'[b] = heap[b]
  BY <1>1, <1>2 DEF SharedInv, SharedTypeOK
<1> QED BY <1>1, <1>2, <1>3, NameStep

(* What makes a statement the only writer of its table.                    *)
LEMMA OnlyWriter ==
    ASSUME SharedInv, Discipline # "none", NEW p \in Threads, Writes(task[p].op),
           NEW q \in Threads \ {p}, task[q].name = task[p].name
    PROVE  ~ Writes(task[q].op)
  BY DEF SharedInv, Serialized, Apart

LEMMA CreateInv ==
    ASSUME SharedInv, NEW p \in Threads, NEW t \in Names, Create(p, t)
    PROVE  SharedInv'
<1>1. /\ task[p].op = "idle" /\ MayRun(p, "create", t) /\ Register(t, EmptyTable)
      /\ kept' = [kept EXCEPT ![t] = {}] /\ UNCHANGED task /\ UNCHANGED used
  BY DEF Create
<1>2. task' = [task EXCEPT ![p] = Idle]
  BY <1>1 DEF SharedInv, SharedTypeOK, WellTyped
<1>3. Discipline # "none" => \A q \in Threads \ {p} : task[q].name = t => ~ Writes(task[q].op)
  BY <1>1 DEF MayRun, Writes
<1>4. \A c \in Columns : Lists(EmptyTable[c], {})
  BY EmptyColumns, ListsSmall
<1> QED BY <1>1, <1>2, <1>3, <1>4, EmptyColumns, RegisterStep

LEMMA DropInv ==
    ASSUME SharedInv, NEW p \in Threads, NEW t \in Names, Drop(p, t)
    PROVE  SharedInv'
<1>1. /\ task[p].op = "idle" /\ MayRun(p, "create", t) /\ tables' = [tables EXCEPT ![t] = 0]
      /\ kept' = [kept EXCEPT ![t] = {}] /\ UNCHANGED task /\ UNCHANGED used /\ UNCHANGED heap
  BY DEF Drop
<1>2. task' = [task EXCEPT ![p] = Idle]
  BY <1>1 DEF SharedInv, SharedTypeOK, WellTyped
<1>3. Discipline # "none" => \A q \in Threads \ {p} : task[q].name = t => ~ Writes(task[q].op)
  BY <1>1 DEF MayRun, Writes
<1>4. heap' \in [Objects -> [Columns -> Seq(RowIds)]] /\ \A b \in Objects \ {0} : heap'[b] = heap[b]
  BY <1>1 DEF SharedInv, SharedTypeOK
<1>5. 0 \in Objects \cup {0} /\ {} \in SUBSET used
  OBVIOUS
<1> QED BY <1>1, <1>2, <1>3, <1>4, <1>5, NameStep

LEMMA ImportRegisterInv ==
    ASSUME SharedInv, NEW p \in Threads, ImportRegister(p)
    PROVE  SharedInv'
<1> DEFINE j == task[p]
           t == j.name
           row == j.arg
           K == kept[t] \cup {row}
           cols == TableOf(<<row>>)
<1>1. j.op = "import" /\ Register(t, cols) /\ task' = [task EXCEPT ![p] = Idle] /\ UNCHANGED used
  BY DEF ImportRegister, Return
<1>2. t \in Names /\ row \in used /\ row \in RowIds
  BY <1>1, TaskKinds DEF WellTyped, SharedInv, SharedTypeOK
<1>3. kept' = [kept EXCEPT ![t] = K]
  BY <1>1, <1>2 DEF ImportRegister, SharedInv, SharedTypeOK
<1>4. K \in SUBSET used
  BY <1>2 DEF SharedInv, SharedTypeOK
<1>5. Discipline # "none" => \A q \in Threads \ {p} : task[q].name = t => ~ Writes(task[q].op)
  BY <1>1, OnlyWriter DEF Writes
(* Nobody has made the table meanwhile, so the name was to have no row.    *)
<1>6. Discipline # "none" => K = {row}
  <2> SUFFICES ASSUME Discipline # "none" PROVE kept[t] = {}
    OBVIOUS
  <2>1. WriterInv(j)
    BY DEF SharedInv
  <2> HIDE DEF j
  <2>2. tables[t] = 0
    BY <1>1, <2>1 DEF WriterInv, Writes
  <2> QED BY <1>2, <2>2 DEF SharedInv, TablesHoldRows
<1> HIDE DEF j, t, row
<1>7. cols \in [Columns -> Seq(RowIds)] /\ \A c \in Columns : Lists(cols[c], {row})
  <2>1. <<row>> \in Seq(RowIds)
    BY <1>2
  <2> QED BY <2>1, ListsSmall DEF TableOf
<1>8. Discipline # "none" => \A c \in Columns : Lists(cols[c], K)
  BY <1>6, <1>7
<1>9. task[p].op # "insert"
  BY <1>1 DEF j
<1> HIDE DEF cols, K
<1> QED BY <1>1, <1>2, <1>3, <1>4, <1>5, <1>7, <1>8, <1>9, RegisterStep DEF j

LEMMA RewriteRegisterInv ==
    ASSUME SharedInv, NEW p \in Threads, RewriteRegister(p)
    PROVE  SharedInv'
<1> DEFINE j == task[p]
           t == j.name
           D == IF j.op = "delete" THEN {j.arg} ELSE {}
           K == kept[t] \ D
           cols == TableOf(j.acc)
<1>1. /\ j.op \in {"update", "delete"} /\ j.at >= RowCount(j.obj) /\ Register(t, cols)
      /\ task' = [task EXCEPT ![p] = Idle] /\ UNCHANGED used
  BY DEF RewriteRegister, Return
<1>2. /\ j \in StatementType /\ t \in Names /\ j.obj \in Objects
      /\ j.acc \in Seq(RowIds) /\ j.at \in Nat
  <2>1. j \in StatementType /\ t \in Names /\ j.obj \in Objects
    BY <1>1, TaskKinds
  <2> QED BY <2>1 DEF StatementType
<1>3. kept' = [kept EXCEPT ![t] = K]
  BY <1>1, <1>2 DEF RewriteRegister, SharedInv, SharedTypeOK
<1>4. K \in SUBSET used
  BY <1>2 DEF SharedInv, SharedTypeOK
<1>5. Discipline # "none" => \A q \in Threads \ {p} : task[q].name = t => ~ Writes(task[q].op)
  BY <1>1, OnlyWriter DEF Writes
<1>6. ASSUME Discipline # "none" PROVE Lists(j.acc, K)
  <2>1. WriterInv(j)
    BY <1>6 DEF SharedInv
  <2> HIDE DEF j
  <2>2. /\ tables[t] = j.obj /\ j.at <= RowCount(j.obj)
        /\ Lists(j.acc, RowsTo(heap[j.obj][1], j.at) \ D)
    BY <1>1, <2>1 DEF WriterInv, Writes
  <2>3. heap[j.obj][1] \in Seq(RowIds) /\ RowCount(j.obj) \in Nat
    BY <1>2, HeapColumn
  <2>4. j.at = RowCount(j.obj)
    BY <1>1, <1>2, <2>2, <2>3
  <2>5. RowsTo(heap[j.obj][1], j.at) = ToSet(heap[j.obj][1])
    BY <2>3, <2>4, LenProperties DEF RowsTo, ToSet, RowCount
  <2>6. Landed(t, 1) = {}
    BY <1>1, <1>5, <1>6 DEF Landed, Writes, j
  <2>7. tables[t] # 0
    BY <1>2, <2>2, Sizes
  <2>8. Lists(heap[j.obj][1], kept[t] \cup Landed(t, 1))
    BY <1>2, <1>6, <2>2, <2>7, Sizes DEF SharedInv, TablesHoldRows
  <2>9. ToSet(heap[j.obj][1]) = kept[t]
    BY <2>6, <2>8 DEF Lists
  <2> QED BY <2>2, <2>5, <2>9
<1>7. cols \in [Columns -> Seq(RowIds)] /\ (Discipline # "none" => \A c \in Columns : Lists(cols[c], K))
  BY <1>2, <1>6 DEF TableOf
<1>8. task[p].op # "insert"
  BY <1>1
<1> HIDE DEF t, K, cols
<1> QED BY <1>1, <1>2, <1>3, <1>4, <1>5, <1>7, <1>8, RegisterStep

(* The rows that are on their way into the table of an INSERT are its own. *)
LEMMA LandedOwn ==
    ASSUME SharedInv, Discipline # "none", NEW p \in Threads, task[p].op = "insert", NEW c \in Columns
    PROVE  Landed(task[p].name, c) = IF c <= task[p].at THEN {task[p].arg} ELSE {}
<1>1. \A q \in Threads : task[q].op = "insert" /\ task[q].name = task[p].name <=> q = p
  BY OnlyWriter DEF Writes
<1> QED BY <1>1 DEF Landed

(* One cell of thread p's INSERT.  Only p's own table holds the object it  *)
(* appends to, and nobody else who works on it is disturbed.               *)
LEMMA InsertCellInv ==
    ASSUME SharedInv, NEW p \in Threads, InsertCell(p)
    PROVE  SharedInv'
<1> PICK j : j = task[p]
  OBVIOUS
<1> DEFINE o == j.obj
           t == j.name
           c == j.at + 1
           col == Append(heap[o][c], j.arg)
           K == IF c < TableWidth THEN kept[t] ELSE kept[t] \cup {j.arg}
           next == IF c < TableWidth THEN [j EXCEPT !.at = c] ELSE Idle
<1>1. /\ j.op = "insert" /\ heap' = [heap EXCEPT ![o][c] = col]
      /\ UNCHANGED tables /\ UNCHANGED used
  BY DEF InsertCell
<1>2. /\ j \in StatementType /\ t \in Names /\ o \in Objects /\ o # 0 /\ j.at \in Nat /\ j.at < TableWidth
      /\ j.arg \in used /\ j.arg \in RowIds /\ WellTyped(j) /\ OwnObject(j)
  <2>1. j \in StatementType /\ t \in Names /\ o \in Objects /\ WellTyped(j) /\ OwnObject(j)
    BY <1>1, TaskKinds
  <2>2. j.at \in Nat
    BY <2>1 DEF StatementType
  <2>3. j.at < TableWidth /\ j.arg \in used
    BY <1>1, <2>1 DEF WellTyped
  <2>4. j.arg \in RowIds
    BY <2>3 DEF SharedInv, SharedTypeOK
  <2> QED BY <2>1, <2>2, <2>3, <2>4, Sizes
<1>3. c \in Columns
  BY <1>2, WidthNat DEF Columns
<1>4. heap[o][c] \in Seq(RowIds) /\ heap[o] \in [Columns -> Seq(RowIds)] /\ col \in Seq(RowIds)
  BY <1>2, <1>3, HeapColumn, AppendProperties
<1>5. /\ heap' \in [Objects -> [Columns -> Seq(RowIds)]]
      /\ heap'[o][c] = col
      /\ \A d \in Columns \ {c} : heap'[o][d] = heap[o][d]
      /\ \A b \in Objects \ {o} : heap'[b] = heap[b]
  <2>1. heap \in [Objects -> [Columns -> Seq(RowIds)]]
    BY DEF SharedInv, SharedTypeOK
  <2> HIDE DEF col, o, c
  <2> QED BY <1>1, <1>2, <1>3, <1>4, <2>1
<1>6. /\ task' = [task EXCEPT ![p] = next]
      /\ kept' = [kept EXCEPT ![t] = K]
  <2>1. kept \in [Names -> SUBSET used]
    BY DEF SharedInv, SharedTypeOK
  <2>2. CASE c < TableWidth
    BY <1>2, <2>1, <2>2 DEF InsertCell
  <2>3. CASE ~ (c < TableWidth)
    BY <1>2, <2>1, <2>3 DEF InsertCell, Return
  <2> QED BY <2>2, <2>3
<1> PICK k : k = next
  OBVIOUS
<1>7. /\ k \in TaskType /\ k.op \in {"insert", "idle"} /\ WellTyped(k)' /\ OwnObject(k)
      /\ k.op = "insert" => /\ c < TableWidth /\ k.name = t /\ k.arg = j.arg /\ k.at = c /\ k.obj = o
      /\ k.op = "idle" => ~ (c < TableWidth) /\ k = Idle
  <2>1. CASE c < TableWidth
    <3>1. k = [j EXCEPT !.at = c] /\ c \in Nat
      BY <1>2, <2>1
    <3> HIDE DEF next, c
    <3>2. /\ k \in StatementType /\ k.op = j.op /\ k.name = j.name /\ k.obj = j.obj
          /\ k.arg = j.arg /\ k.at = c
      BY <1>2, <3>1 DEF StatementType
    <3>3. k \in TaskType
      BY <3>2 DEF TaskType
    <3>4. WellTyped(k)' /\ OwnObject(k)
      BY <1>1, <1>2, <2>1, <3>2 DEF WellTyped, OwnObject
    <3> QED BY <1>1, <2>1, <3>2, <3>3, <3>4
  <2>2. CASE ~ (c < TableWidth)
    <3>1. k = Idle
      BY <2>2
    <3> HIDE DEF next, c
    <3>2. WellTyped(Idle)' /\ OwnObject(Idle)
      BY IdleTask DEF WellTyped, OwnObject
    <3> QED BY <2>2, <3>1, <3>2, IdleTask
  <2> QED BY <2>1, <2>2
<1>8. task'[p] = k /\ \A q \in Threads \ {p} : task'[q] = task[q]
  BY <1>6 DEF SharedInv, SharedTypeOK
<1>9. kept'[t] = K /\ \A u \in Names \ {t} : kept'[u] = kept[u]
  BY <1>2, <1>6 DEF SharedInv, SharedTypeOK
<1>10. SharedTypeOK'
  <2>1. kept' \in [Names -> SUBSET used']
    BY <1>1, <1>2, <1>6 DEF SharedInv, SharedTypeOK
  <2>2. task' \in [Threads -> TaskType]
    BY <1>6, <1>7 DEF SharedInv, SharedTypeOK
  <2>3. ASSUME NEW q \in Threads PROVE WellTyped(task[q])'
    <3>1. CASE q = p
      BY <1>7, <1>8, <3>1 DEF WellTyped
    <3>2. CASE q # p
      BY <1>1, <1>8, <3>2 DEF SharedInv, SharedTypeOK, WellTyped
    <3> QED BY <3>1, <3>2
  <2> QED BY <1>1, <1>5, <2>1, <2>2, <2>3 DEF SharedInv, SharedTypeOK
<1>11. Owned'
  <2>1. ASSUME NEW q \in Threads PROVE OwnObject(task[q])'
    <3>1. CASE q = p
      BY <1>1, <1>7, <1>8, <3>1 DEF OwnObject
    <3>2. CASE q # p
      BY <1>1, <1>8, <3>2 DEF SharedInv, Owned, OwnObject
    <3> QED BY <3>1, <3>2
  <2> QED BY <1>1, <2>1 DEF SharedInv, Owned
<1> HIDE DEF next, K, col
<1>12. ASSUME Discipline # "none" PROVE Serialized'
  <2>1. ASSUME NEW q \in Threads \ {p} PROVE Apart(k, task[q]) /\ Apart(task[q], k)
    <3>1. Apart(j, task[q]) /\ Apart(task[q], j)
      BY <1>12 DEF SharedInv, Serialized
    <3>2. CASE k.op = "insert"
      BY <1>1, <1>7, <3>1, <3>2 DEF Apart
    <3>3. CASE k.op = "idle"
      BY <1>7, <3>3, IdleTask
    <3> QED BY <1>7, <3>2, <3>3
  <2>2. ASSUME NEW q \in Threads, NEW r \in Threads, q # r
        PROVE  Apart(task'[q], task'[r])
    <3>1. CASE q # p /\ r # p
      BY <1>8, <1>12, <2>2, <3>1 DEF SharedInv, Serialized
    <3>2. CASE q = p \/ r = p
      BY <1>8, <2>1, <2>2, <3>2
    <3> QED BY <3>1, <3>2
  <2> QED BY <2>2 DEF Serialized, Apart
<1>13. ASSUME Discipline # "none"
       PROVE  tables[t] = o /\ j.arg \notin kept[t]
  BY <1>1, <1>13 DEF SharedInv, WriterInv, Writes
<1>14. ASSUME Discipline # "none" PROVE TablesHoldRows'
  <2>1. ASSUME NEW u \in Names \ {t}, NEW d \in Columns
        PROVE  Landed(u, d)' = Landed(u, d)
    BY <1>1, <1>7, <1>8 DEF Landed
  <2>2. ASSUME NEW u \in Names \ {t}
        PROVE  IF tables'[u] = 0 THEN kept'[u] = {}
               ELSE \A d \in Columns : Lists(heap'[tables'[u]][d], kept'[u] \cup Landed(u, d)')
    <3>1. tables'[u] = tables[u] /\ kept'[u] = kept[u]
      BY <1>1, <1>9
    <3>2. CASE tables[u] = 0
      BY <1>14, <3>1, <3>2 DEF SharedInv, TablesHoldRows
    <3>3. CASE tables[u] # 0
      <4>1. heap'[tables[u]] = heap[tables[u]]
        <5>1. tables[u] \in Objects
          BY <3>3 DEF SharedInv, SharedTypeOK
        <5>2. tables[u] # o
          BY <1>2, <3>3 DEF OwnObject
        <5> QED BY <1>5, <5>1, <5>2
      <4>2. ASSUME NEW d \in Columns
            PROVE  Lists(heap[tables[u]][d], kept[u] \cup Landed(u, d))
        BY <1>14, <3>3 DEF SharedInv, TablesHoldRows
      <4> QED BY <2>1, <3>1, <3>3, <4>1, <4>2
    <3> QED BY <3>2, <3>3
  <2>3. ASSUME NEW d \in Columns
        PROVE  Landed(t, d)' = IF k.op = "insert" /\ d <= c THEN {j.arg} ELSE {}
    <3>1. ASSUME NEW q \in Threads \ {p}
          PROVE  ~ (task'[q].op = "insert" /\ task'[q].name = t)
      BY <1>1, <1>8, <1>14, OnlyWriter DEF Writes
    <3> HIDE DEF t, c
    <3> QED BY <1>7, <1>8, <3>1 DEF Landed
  <2>4. ASSUME NEW d \in Columns
        PROVE  Lists(heap[o][d], kept[t] \cup (IF d <= j.at THEN {j.arg} ELSE {}))
    <3>1. Landed(t, d) = IF d <= j.at THEN {j.arg} ELSE {}
      BY <1>1, <1>14, LandedOwn
    <3>2. Lists(heap[o][d], kept[t] \cup Landed(t, d))
      BY <1>2, <1>13, <1>14 DEF SharedInv, TablesHoldRows
    <3> QED BY <3>1, <3>2
  <2>5. ASSUME NEW d \in Columns
        PROVE  Lists(heap'[o][d], kept'[t] \cup Landed(t, d)')
    <3>1. d \in Nat /\ d <= TableWidth /\ (d <= c <=> d = c \/ d <= j.at) /\ ~ (c <= j.at)
      BY <1>2, WidthNat DEF Columns
    <3>2. ~ (c < TableWidth) => d <= c
      BY <1>2, <3>1, WidthNat
    <3>3. kept'[t] \cup Landed(t, d)' = IF d <= c THEN kept[t] \cup {j.arg} ELSE kept[t]
      <4>1. CASE k.op = "insert"
        <5>1. kept'[t] = kept[t] /\ Landed(t, d)' = IF d <= c THEN {j.arg} ELSE {}
          BY <1>7, <1>9, <2>3, <4>1 DEF K
        <5> QED BY <5>1
      <4>2. CASE k.op = "idle"
        <5>1. kept'[t] = kept[t] \cup {j.arg} /\ Landed(t, d)' = {} /\ d <= c
          BY <1>7, <1>9, <2>3, <3>2, <4>2 DEF K
        <5> QED BY <5>1
      <4> QED BY <1>7, <4>1, <4>2
    <3>4. CASE d = c
      <4>1. Lists(heap[o][c], kept[t])
        <5>1. kept[t] \cup {} = kept[t]
          OBVIOUS
        <5> QED BY <1>3, <2>4, <3>1, <5>1
      <4>2. Lists(col, kept[t] \cup {j.arg})
        BY <1>2, <1>4, <1>13, <1>14, <4>1, ListsAppend DEF col
      <4> QED BY <1>5, <3>1, <3>3, <3>4, <4>2
    <3>5. CASE d # c
      <4>1. heap'[o][d] = heap[o][d]
        BY <1>5, <3>5
      <4>2. CASE d <= j.at
        BY <2>4, <3>1, <3>3, <4>1, <4>2
      <4>3. CASE ~ (d <= j.at)
        <5>1. kept[t] \cup {} = kept[t]
          OBVIOUS
        <5>2. Lists(heap[o][d], kept[t])
          BY <2>4, <4>3, <5>1
        <5> QED BY <3>1, <3>3, <3>5, <4>1, <4>3, <5>2
      <4> QED BY <4>2, <4>3
    <3> QED BY <3>4, <3>5
  <2>6. tables'[t] = o /\ o # 0
    BY <1>1, <1>2, <1>13, <1>14
  <2>7. IF tables'[t] = 0 THEN kept'[t] = {}
        ELSE \A d \in Columns : Lists(heap'[tables'[t]][d], kept'[t] \cup Landed(t, d)')
    BY <2>5, <2>6
  <2> QED BY <2>2, <2>7 DEF TablesHoldRows
<1>15. ASSUME Discipline # "none", NEW q \in Threads
       PROVE  WriterInv(task[q])'
  <2>1. CASE q = p
    <3>1. CASE k.op = "insert"
      <4>1. kept'[t] = kept[t]
        BY <1>7, <1>9, <3>1 DEF K
      <4>2. tables'[t] = o /\ j.arg \notin kept'[t]
        BY <1>1, <1>13, <1>15, <4>1
      <4> QED BY <1>7, <1>8, <2>1, <3>1, <4>2 DEF WriterInv
    <3>2. CASE k.op = "idle"
      BY <1>8, <2>1, <3>2 DEF WriterInv, Writes
    <3> QED BY <1>7, <3>1, <3>2
  <2>2. CASE q # p
    <3> PICK i : i = task[q]
      OBVIOUS
    <3>1. task'[q] = i /\ WriterInv(i)
      BY <1>8, <1>15, <2>2 DEF SharedInv
    <3>2. CASE Writes(i.op)
      <4>1. i.name \in Names /\ i.name # t
        <5>1. i.name # t
          BY <1>1, <1>15, <2>2, <3>2, OnlyWriter DEF Writes
        <5>2. i.op # "idle" /\ WellTyped(i)
          BY <3>2, TaskKinds DEF Writes
        <5> QED BY <5>1, <5>2 DEF WellTyped
      <4>2. kept'[i.name] = kept[i.name] /\ tables'[i.name] = tables[i.name]
        BY <1>1, <1>9, <4>1
      <4>3. i.op \in {"update", "delete"} => heap'[i.obj] = heap[i.obj]
        <5> SUFFICES ASSUME i.op \in {"update", "delete"}
                     PROVE  heap'[i.obj] = heap[i.obj]
          OBVIOUS
        <5>1. i.obj \in Objects /\ OwnObject(i)
          BY TaskKinds
        <5>2. i.obj # o
          BY <1>2, <1>13, <1>15, <4>1, <5>1 DEF OwnObject
        <5> QED BY <1>5, <5>1, <5>2
      <4>4. WriterInv(i)'
        BY <3>1, <4>2, <4>3 DEF WriterInv, RowCount
      <4> QED BY <3>1, <4>4 DEF WriterInv, RowCount
    <3>3. CASE ~ Writes(i.op)
      BY <3>1, <3>3 DEF WriterInv, Writes
    <3> QED BY <3>2, <3>3
  <2> QED BY <2>1, <2>2
<1>16. ASSUME Discipline = "readers", NEW q \in Threads
       PROVE  ScanInv(task[q])'
  <2>1. CASE q = p
    BY <1>7, <1>8, <2>1 DEF ScanInv
  <2>2. CASE q # p
    <3> PICK i : i = task[q]
      OBVIOUS
    <3>1. task'[q] = i /\ ScanInv(i)
      BY <1>8, <1>16, <2>2 DEF SharedInv
    <3>2. CASE i.op = "select"
      <4>1. i.obj \in Objects /\ OwnObject(i)
        BY <3>2, TaskKinds, QueryFields
      <4>2. i.name # t
        BY <1>1, <1>16, <2>2, <3>2 DEF SharedInv, Serialized, Apart
      <4>3. i.obj # o
        BY <1>2, <1>13, <1>16, <4>1, <4>2 DEF OwnObject
      <4>4. heap'[i.obj] = heap[i.obj]
        BY <1>5, <4>1, <4>3
      <4> QED BY <3>1, <4>4 DEF ScanInv
    <3>3. CASE i.op # "select"
      BY <3>1, <3>3 DEF ScanInv
    <3> QED BY <3>2, <3>3
  <2> QED BY <2>1, <2>2
<1> QED BY <1>10, <1>11, <1>12, <1>14, <1>15, <1>16 DEF SharedInv

LEMMA NextInv ==
    ASSUME SharedInv, [SharedNext]_sharedVars
    PROVE  SharedInv'
<1>1. CASE UNCHANGED sharedVars
  <2>1. UNCHANGED tables /\ UNCHANGED heap /\ UNCHANGED task /\ UNCHANGED used /\ UNCHANGED kept
    BY <1>1 DEF sharedVars
  <2>4. SharedTypeOK' /\ Owned'
    BY <2>1 DEF SharedInv, SharedTypeOK, WellTyped, Owned, OwnObject
  <2>2. Serialized => Serialized'
    BY <2>1 DEF Serialized, Apart
  <2>5. TablesHoldRows => TablesHoldRows'
    <3>1. \A t \in Names, c \in Columns : Landed(t, c)' = Landed(t, c)
      BY <2>1 DEF Landed
    <3> QED BY <2>1, <3>1 DEF TablesHoldRows
  <2>3. ASSUME NEW p \in Threads
        PROVE  /\ WriterInv(task[p]) => WriterInv(task[p])'
               /\ ScanInv(task[p]) => ScanInv(task[p])'
    BY <2>1 DEF WriterInv, RowCount, ScanInv
  <2> QED BY <2>2, <2>3, <2>4, <2>5 DEF SharedInv
<1>2. ASSUME NEW p \in Threads, NEW t \in Names,
             Create(p, t) \/ Drop(p, t) \/ BeginSelect(p, t) \/ BeginRewrite(p, t, "update", 0)
      PROVE  SharedInv'
  <2>1. 0 \in RowIds \cup {0} /\ "update" \in {"update", "delete"}
    OBVIOUS
  <2>2. CASE BeginRewrite(p, t, "update", 0)
    BY <2>1, <2>2, BeginRewriteInv
  <2> QED BY <1>2, <2>2, CreateInv, DropInv, BeginSelectInv
<1>3. ASSUME NEW p \in Threads, NEW t \in Names, NEW row \in RowIds,
             BeginInsert(p, t, row) \/ BeginRewrite(p, t, "delete", row) \/ BeginImport(p, t, row)
      PROVE  SharedInv'
  <2>1. row \in RowIds \cup {0} /\ "delete" \in {"update", "delete"}
    OBVIOUS
  <2>2. CASE BeginRewrite(p, t, "delete", row)
    BY <2>1, <2>2, BeginRewriteInv
  <2> QED BY <1>3, <2>2, BeginInsertInv, BeginImportInv
<1>4. ASSUME NEW p \in Threads,
             InsertCell(p) \/ RewriteRow(p) \/ RewriteRegister(p) \/ ImportRegister(p)
      PROVE  SharedInv'
  BY <1>4, InsertCellInv, RewriteRowInv, RewriteRegisterInv, ImportRegisterInv
<1>5. ASSUME NEW p \in Threads, ScanBatch(p) \/ ScanColumn(p) \/ EndSelect(p)
      PROVE  SharedInv'
  BY <1>5, ScanBatchInv, ScanColumnInv, EndSelectInv
<1> QED BY <1>1, <1>2, <1>3, <1>4, <1>5 DEF SharedNext

(* The invariant of statements on a shared catalog: the types whatever the *)
(* callers do, who owns which object, and, as far as the callers keep      *)
(* their statements apart, what every statement knows of its table.        *)
THEOREM Invariance == SharedSpec => []SharedInv
  BY InitInv, NextInv, PTL DEF SharedSpec

(* Callers that serialise the writers of a table lose no acknowledged row  *)
(* and get no deleted one back: while nobody writes it, every table holds  *)
(* exactly the rows of the statements that have returned, once each, in    *)
(* every column.                                                           *)
THEOREM SerializedWritersKeepRows ==
    ASSUME Discipline # "none"
    PROVE  SharedSpec => []AcknowledgedRowsKept
<1>1. SharedInv => AcknowledgedRowsKept
  <2> SUFFICES ASSUME SharedInv, NEW t \in Names, ~ Writing(t), tables[t] # 0, NEW c \in Columns
               PROVE  /\ ToSet(heap[tables[t]][c]) = kept[t]
                      /\ Len(heap[tables[t]][c]) = Cardinality(kept[t])
    BY DEF AcknowledgedRowsKept, SharedInv, TablesHoldRows
  <2>1. Landed(t, c) = {}
    BY DEF Writing, Writes, Landed
  <2>2. Lists(heap[tables[t]][c], kept[t] \cup Landed(t, c))
    BY DEF SharedInv, TablesHoldRows
  <2>3. Lists(heap[tables[t]][c], kept[t])
    BY <2>1, <2>2
  <2>4. heap[tables[t]][c] \in Seq(RowIds)
    <3>1. tables[t] \in Objects
      BY DEF SharedInv, SharedTypeOK
    <3> QED BY <3>1, HeapColumn
  <2> QED BY <2>3, <2>4, ListsLen DEF Lists
<1> QED BY <1>1, Invariance, PTL

(* Callers that also keep queries away from a table while rows are being   *)
(* inserted in it read it as it was when the query began, although it may  *)
(* have been updated, emptied, dropped or created anew meanwhile.          *)
THEOREM SelectsReadSnapshots ==
    ASSUME Discipline = "readers"
    PROVE  SharedSpec => []SelectReadsSnapshot
<1>1. SharedInv => SelectReadsSnapshot
  <2> SUFFICES ASSUME SharedInv, NEW p \in Threads, ScanEnds(p)
               PROVE  task[p].acc = task[p].base
    BY DEF SelectReadsSnapshot
  <2> DEFINE k == task[p]
  <2>1. k.op = "select" /\ k.at = TableWidth /\ Len(k.acc[1]) >= RowCount(k.obj)
    BY DEF ScanEnds
  <2>2. k \in QueryType /\ ScanInv(k)
    BY <2>1, TaskKinds DEF SharedInv
  <2>3. /\ k.acc \in [Columns -> Seq(RowIds \cup {0})] /\ k.base \in [Columns -> Seq(RowIds)]
        /\ k.obj \in Objects
    BY <2>2, QueryFields
  <2> HIDE DEF k
  <2>4. CASE k.acc = EmptyTable
    <3>1. Len(k.acc[1]) = 0
      BY <2>4, EmptyColumns, EmptySeq, Sizes
    <3>2. RowCount(k.obj) = Len(k.base[1]) /\ Len(k.base[1]) \in Nat
      BY <2>1, <2>2, <2>3, HeapColumn DEF ScanInv, RowCount
    <3>3. \A c \in Columns : Len(k.base[c]) = 0
      BY <2>1, <2>2, <3>1, <3>2 DEF ScanInv
    <3>4. \A c \in Columns : k.base[c] = << >>
      BY <2>3, <3>3, EmptySeq
    <3>5. \A c \in Columns : k.acc[c] = << >>
      BY <2>4, EmptyColumns
    <3>6. k.acc = k.base
      BY <2>3, <3>4, <3>5
    <3> QED BY <3>6 DEF k
  <2>5. CASE \A c \in Columns : k.acc[c] = IF c <= k.at THEN k.base[c] ELSE << >>
    <3>1. \A c \in Columns : k.acc[c] = k.base[c]
      BY <2>1, <2>5, WidthNat DEF Columns
    <3>2. k.acc = k.base
      BY <2>3, <3>1
    <3> QED BY <3>2 DEF k
  <2> QED BY <2>1, <2>2, <2>4, <2>5 DEF ScanInv
<1> QED BY <1>1, Invariance, PTL
=============================================================================
