# LiteQuery in TLA+

TLA+ modules, TLC configurations and TLAPS proofs for LiteQuery, an embeddable
in-memory columnar SQL engine. The modules are translated from the C++ source
(`src/`, `include/`); `PROJECT.json` maps every definition to the lines it
stands for.

## 1. The system

| Component | Source | State | Operations |
|---|---|---|---|
| column and table storage | `storage/column.h`, `storage/table.h` | one typed buffer and one validity bitmap per column; the row count is the length of the *first* column | `append` (converts, or throws), `valueAt` (narrows), `insertRow`, `bulkInsertColumns`, `getRow` |
| catalog | `catalog/catalog.h` | name to `shared_ptr<Table>`, a `shared_mutex` | `registerTable`, `dropTable`, `getTable`, `hasTable`, `tableNames`, `getSchema` |
| connection | `api/connection.cpp` | the catalog | `query` (parse, plan, run), `importCsv`, `saveDatabase`, `loadDatabase`, `explain` |
| evaluator | `execution/eval.cpp` | none | `evaluate`, `evaluatePredicate`, `likeMatch` |
| planner | `api/connection.cpp` | rewritten expressions owned for the time of a query | `buildTableRef`, `buildSelectCore`, `buildSelect` |
| operators | `execution/physical_plan.cpp` | a cursor each; sort, distinct, aggregate and join also hold rows | `next()`, pulled batch by batch by `drain` |
| fast aggregate | `execution/fast_aggregate.cpp` | none | `tryFastAggregate`, tried before the planner |
| persistence | `storage/persistence.cpp` | the file; the stream's buffer and error bits | `saveDatabase`, `loadDatabase` |
| CSV reader | `storage/csv_reader.cpp` | none between calls | `readCsv`, `readCsvString` |
| lexer | `parser/lexer.cpp` | a position, the tokens and errors so far | `tokenize` |
| parser, AST | `parser/parser.cpp`, `parser/ast.h` | a token position | `parseStatement` and the functions it calls |
| C API | `api/c_api.cpp` | handles; a cursor and a scratch text per result; an error text per function and thread | `lq_open`, `lq_query`, `lq_exec`, `lq_import_csv`, `lq_save`, `lq_load`, `lq_result_*` |
| shell | `tools/lq_shell.cpp` | the pending text, mode, timing, the files being read | lines, dot-commands, `.read` |
| bindings, bench, demo | `bindings/`, `bench/`, `examples/` | none | call the C API or the connection |

How they interact. A `Connection` parses a statement and calls one handler. The
handlers fetch a table from the catalog as a `shared_ptr` and hold no lock
afterwards. INSERT appends to the table it got; UPDATE and DELETE read it to the
end, build a new table of the rows and register that under the name; CSV import
builds a table and registers it. SELECT pulls batches through a tree of operators
whose leaves scan tables. Exceptions are caught in `Connection::query` and become
an error result; nothing is rolled back. Save and load go over all tables, item
by item, through `std::ofstream` and `std::ifstream`.

What is hard here:

* *Partial failure.* A row is appended column by column, and a column may refuse
  its value (`'x'` for an INT column): the row stays in the columns before it.
  Every later statement then works on columns of different lengths.
* *No locks between lookup and registration.* Two connections that hold the same
  catalog (`Connection::catalog()` hands it out; comments promise it works) can
  undo each other's statements.
* *Files.* A save truncates the old file, writes through a buffer that may fail
  at any time, and may be cut off by a crash; a load trusts counts it reads.
* *Tricky small algorithms.* The single-backtrack LIKE matcher, the CSV splitter
  with its flags, type inference, the fast aggregate path that must agree with
  the general one, precedence climbing with postfix operators, three-valued
  logic with short-circuits.
* *Text that means something by its position.* The shell splits lines into
  statements before anything has lexed them; what a line means depends on what
  earlier lines, possibly of another file, left pending.
* *Memory lent to callers.* The C API hands out pointers into buffers it goes on
  using, in a result or in a thread.

What makes each component correct, in short: buffers and bitmaps agree and no
cell is out of reach of the row count; UPDATE and DELETE are exact and all or
nothing; a table of columns behaves as a list of rows; no acknowledged row is
lost and queries see one state of a table; what is loaded is what was saved;
CSV fields come through unchanged and typed as documented; LIKE means LIKE; the
two aggregate paths agree; a statement is run as it was written, whatever its
layout, and constants have the value they mean; a result of the C API shows the
rows of its statement once each, whatever happens to the database meanwhile.

## 2. Modules

| Module | Models | Used by |
|---|---|---|
| `ColumnStore` | values, columns, tables: pure operators | `Statements`, `Persistence` |
| `Statements` | INSERT, UPDATE and DELETE statements as the parser delivers them, their expressions | `Database` |
| `Database` | a Connection running statements, row by row | `MCDatabase`, `DatabaseProofs` |
| `RowStore` | abstract: tables are lists of rows | refined by `Database` |
| `SharedCatalog` | several threads on one catalog | `MCSharedCatalog`, `MCThreads`, `SharedCatalogProofs` |
| `Persistence` | save, load, crash, restart | `MCPersistence`, `PersistenceProofs` |
| `Csv` | the CSV reader | `MCText` |
| `LikeMatch` | the LIKE matcher | `MCText`, `LikeMatchProofs` |
| `Pipeline` | the physical operators, pulled batch by batch | `Query` |
| `Query` | SELECT: the typed aggregate path, planning, draining the plan | `QueryMeaning` |
| `QueryMeaning` | abstract: the rows a SELECT means; the properties of `Query` | `MCQuery`, `QueryProofs` |
| `Lexer` | `tokenize`, one turn of its loop per step | `Parser`, `LexerProofs` |
| `Ast` | the nodes of the tree | `Parser` |
| `Parser` | the recursive-descent parser | `Evaluator` |
| `Fractions` | doubles as exact fractions | `Parser`, `Evaluator` |
| `Evaluator` | `evaluate` | `Shell` |
| `Shell` | the `lq` program: input, commands, statements through lexer, parser and evaluator | `FrontEndMeaning` |
| `FrontEndMeaning` | abstract: trees written out as text, what a script intends, what an expression means; the properties of `Shell` | `MCFrontEnd`, `MCText` |
| `CApi` | handles, results and lent texts, used by several threads | `MCCApi`, `MCThreads`, `CApiProofs` |
| `MCThreads`, `MCText` | independent parts of the system side by side, one run each (section 3) | |
| `ColumnStoreProofs`, `DatabaseProofs`, `PersistenceProofs`, `SharedCatalogProofs`, `QueryProofs`, `LikeMatchProofs`, `LexerProofs`, `CApiProofs` | theorems (section 4) | |

**ColumnStore.** A value is a record of its kind (`Int64`, `Double`, `String`,
`Null`), a number, and the kind it was converted from; doubles count in halves,
so that conversion of a double to an integer really truncates. A column is its type,
its buffer and its validity bits. `AppendValue` is `Column::append`, `ValueAt` is
`valueAt` with the narrowing of `makeIntValue`, `InsertRow` appends up to the
first column that refuses. `OutsideBitmap` says when `isValid` indexes a word the
bitmap does not have; with at most 64 rows (`MaxRowsAssumption`) that is a bitmap
without any word, so that the read goes through a null pointer: the process dies.

**Database.** `catalog` is `Catalog::tables_`; `op`, `target`, `stmt`, `pos`,
`acc` and `affected` are the locals of the running handler. CREATE, DROP, import
and SELECT are one step. `InsertStep`, `UpdateStep` and `DeleteStep` are one turn
of the handler's row loop each, `RewriteDone` the `registerTable(rebuiltTable(...))`
at the end. Every error exit ends the statement with `Error` and whatever the
tables have become by then. `SelectCrashes` and `RewriteCrashes` are the reads
outside a bitmap, after which a new process starts with an empty catalog.
Expressions are constants, columns, and expressions that throw; a WHERE clause
compares a column with a constant. CREATE has no case for an existing table
because `runCreate` has none.

**RowStore** says what `Database` promises as long as no column refuses a value:
a database maps names to a schema and a list of rows, and a statement either
creates, drops or imports a table, appends one row, or replaces the rows of one
table as a whole.

**SharedCatalog.** `tables` maps names to objects, `heap` holds the columns of the
objects, `task` the statement each thread is in with its shared pointer. A step is
one critical section of the catalog's mutex, the append to one column, or the copy
of one row or column. `Discipline` is what callers keep apart: nothing; writers of
one table, as `table.h` asks of them; also queries of a table and inserts into it.
Each `Connection` makes its own catalog, so sharing happens only through
`Connection::catalog()`; the module checks what the comments in `connection.h`,
`catalog.h` and `table.h` say about that.

**Persistence.** A file is a sequence of typed items (words, doubles, strings,
types; a number is the eight bytes it is stored as, read as a natural).
`EncodeCatalog` is what `saveDatabase` writes: header, and for each table its head
(`EncodeHead`) and its columns (`EncodeColumn`), whose validity bits are packed into
words of `WordBits` bits, the first row's lowest (`Word`). It is written item by item
into the stream's buffer, which is handed to the file whenever the stream likes and may
fail in doing so; after `SaveEnd` the destructor flushes what is left, unchecked.
The load loops read the items back, and `IsValid` shifts and masks the words again.
`assignRaw` does not test that there are as many words as the rows need: what it
reads behind them is any bit (`BitsOf`), or the end of the process. Where an item is not of
the sort the reader expects, the bytes decide what happens, and the model lets the load fail
or the process die (`Misread`). The process may crash anywhere. `snapshot` is a history
variable. Files that no save of this build wrote (`ForeignFiles`) are such that the
header check rejects them; a file with a good header and damaged contents is not
modelled, except for what crashes and failed flushes leave of a good one.

**Csv.** One action per branch of `parseGrid`'s loop, then inference and
conversion. Characters stand for their classes. The files come from a writer
(`WrittenGrid`, not part of LiteQuery) that follows RFC 4180 in several styles.
A conversion whose failure the code ignores yields `Uninitialized`.

**LikeMatch.** One action per branch of `likeMatch`; positions count from 1.

**Pipeline.** `plan` is the operator tree in postorder, `st` the members of every
operator. The call stack of `next()` is `at` (who runs; 0 is `drain`), `mode`
(called, or called back by a child), `from` and `batch` (which child returned
what). One action per operator and direction: `FilterNext` is the call,
`FilterTakes` what `Filter::next` does with its child's batch up to its next call
or its return. Sort, distinct, aggregate and join share `BuildNext` and
`BuildTakes`, which take all rows of the children before they give any; `Built`
is what each makes of them. `Raise` is an exception on its way to
`Connection::query`. Values are numbers, strings (from 100 on) and NULL.

**Query.** A statement is a record of its clauses; predicates are conjunctions of
comparisons. `BuildSelect` is `buildSelect`: names are resolved to column
positions as `evaluate` resolves them (`Resolve`), aggregate calls to slots behind
the group keys (`SubstAggs`). `FastAggregate` is `tryFastAggregate`: the gate
(`FastShape`), its own comparison, grouping, sort and window, and the read of an
empty integer buffer (`ReadsEmptyBuffer`), which is a null pointer: the process
dies. SUM, MIN and MAX of the typed path are doubles where the general path keeps
integers; the model compares them as numbers.

**QueryMeaning** defines the rows of a SELECT from `docs/sql-reference.md` and
SQL, over sets of pairs of row positions, without plans, batches, slots or column
positions of results (`Answer`), and which statements have a meaning at all
(`Meaningful`). What SQL leaves open is fixed as the code does it: rows that
compare equal keep the order of the tables, groups that of their first rows.

**Lexer.** `source`, `pos`, `tokens` and `errors` are the lexer's members. Text is
a sequence of symbols: single characters, and whole words where the code only
ever looks at a run of letters. One action per branch of the loop; blanks are
skipped at its start as in the code. A token is a view into the text.

**Parser.** One operator per parse function; it takes the index of the current
token and gives the index where it stopped and the node, or index 0 for a
`ParseError`, which no later `expect` or `match` can leave again. The code's
functions call each other; in the model all such calls go through `Parse`.

**Evaluator.** `Evaluate` follows `evaluate` node by node, operands in the order
the code evaluates them. Outcomes besides values are `Raise` (an exception),
`Trap` (the hardware's answer to `INT64_MIN % -1`) and `Opaque` (a power that is no
fraction: nothing is claimed). Integers wrap at `MaxInt`; compiled with
optimisation, overflow is undefined, and no property depends on its outcome.

**Shell.** `frames` are the inputs being read, the innermost first: standard input
or a file, and the files `.read` has opened; `pending` and `buffer` are `pending_`
and the rest of `runBuffer`'s argument. `phase` says which function runs. One
action per line read, dot-command, piece of the buffer, turn of the lexer and
statement. `log` holds what reached the connection and what was answered.
Statements other than SELECTs of constants only have their tree logged: what they
do is in `Database` and `Query`.

**FrontEndMeaning** writes trees as text with only the parentheses the precedence
table asks for (`RenderStatement`), in four layouts (`Layout`), and states what a
script of statements and commands is to do (`Intended`) and what an expression
means (`Meaning`: exact arithmetic, and AND, OR, NOT as minimum, maximum and
complement over false < unknown < true).

**CApi.** `dbs` and `results` are the handles, `err` the `thread_local` strings,
one per function and thread. Behind a handle is one table whose statements succeed
or fail; the API only passes on what the engine answers. `snapshot`, `seen`,
`ended`, `lent` and `told` are what the caller remembers: the rows of the
statement, the rows read so far, the texts it holds pointers to. A row is read
the way the header tells callers to, by the type of each column.

## 3. Runs

| Run | Checks | Instance | Shows |
|---|---|---|---|
| `database` | `IInv`, `NeverReadsPastBuffer`, `NoCellBeyondRowCount`, `UpdateIsPointwise`, `DeleteIsFilter`, `FailedRewriteChangesNothing`, `RewriteRepairs`, `StatementsFinish` | one table of two columns and up to 3 rows, values that are refused, narrowed and truncated, statements that throw in every place | whatever fails half way, buffers and bitmaps agree, columns are in staircase form, rewrites are exact and all or nothing and repair the table; every statement ends, on ragged tables too, unless the process dies |
| `database_clean` | `AllSameLength`, `QueriesReturn`, `ImplementsRowStore` | two tables of up to 2 rows, inputs every column accepts | the column store implements the row store; no crash |
| `database_crash` | `QueriesReturn` violated | as `database` | a first INSERT that fails in its second column makes the next SELECT read a bitmap without a word |
| `persistence` | `LoadsOnlySavedTables`, `SuccessfulLoadIsComplete`, `CompleteFileLoads`, `OperationsFinish` | two names; a table of three rows with NULLs, an empty one, a ragged one; bitmap words of two bits, so that three rows take two; files of other programs and of a later version | no cut-off file loads with success, no table of a rectangular snapshot comes back changed; saves and loads end, of ragged tables too |
| `persistence_unreported` | `SaveReportsFailure` violated | same | the flush in the destructor fails after the stream was tested |
| `query` | `TypeOK`, `AnswerCorrect`, `NoPullAfterEnd`, `QueryEnds` | about 560 statements over two tables, ten contents of the first (0 to 5 rows), batches of two rows | through either path a statement gives the rows it means, in order; it fails only without a meaning or where its WHERE compares a text with a number; it ends and never takes the process with it |
| `query_documented` | `AnswerCorrect` violated | the five statements `Disputed`, each of which violates it by itself | the typed aggregate path crashes, answers what the general path refuses, puts the key first and ignores NULLS LAST; a join by table names pairs every row with every row |
| `threads` | of `SharedCatalog`: `SharedInv`, `AcknowledgedRowsKept`, `SelectReadsSnapshot`; of `CApi`: `IInv`, `ReadsTheAnswer`, `GettersKeepContract`, `LentErrorsStay` | two threads, one table, three rows, `Discipline = "readers"`; two callers, a database, two results, rows with NULL and values of each type, tables of up to two rows | with that discipline rebuilding, dropping, importing and creating a table under a query is safe, and nothing is lost; results of the C API are independent of everything done after their statement, no row is skipped or repeated |
| `shared_catalog_lost` | `AcknowledgedRowsKept` violated | `Discipline = "none"`, no import, no table created or dropped under a writer (`RowsOnly`) | an UPDATE's rebuilt table discards a concurrent INSERT |
| `c_api_lent` | `LentTextsStay` violated | as in `threads` | a second `lq_result_get_text` on the same row overwrites the text of the first |
| `text` | of the front end: `GapsAreComments`, `StatementsRunAsWritten`, `NothingIgnored`, `AnswersMeanTheirExpressions`, `ShellEnds`; of `Csv`: `ReadsWhatWasWritten`, `NoUninitializedCell`, `InferenceIsTightest`; of `LikeMatch`: `IInv`, `VerdictIsLike`, `SearchAdvances`, `Terminates` | front end: all chains of three operators over eight binary, two unary and the postfix ones; every operator on 13 values, all kinds of statements in four layouts, texts one word away from them, short and broken texts, sessions of three items with files that read others and themselves. CSV: two records of one or two awkward fields, columns of three values of eight shapes, ragged records; four styles; with and without header. LIKE: texts and patterns of up to four characters over three, no `%` in a text | the text of a statement reaches the connection as the tree it was written for, in order and under the right settings; an accepted text has no ignored part; constants evaluate to what they mean; the shell ends. Every CSV field comes back as it was written, in the tightest type its column allows. One backtracking point is enough for LIKE |
| `front_end_documented` | `StatementsRunAsWritten` violated | the scripts of `text`, written with the parentheses the documented levels ask for (`OperandLevel = 5`) | `'b' + 1 IS NULL` is run as `'b' + (1 IS NULL)` |

Two runs each take parts of the system that share no state. In `threads` the
catalog steps only while no call of the C API has been made, and the other way
round (`ThreadsNext`); in `text` one of the three starts, and the other two stay where
they have ended (`TextNext`). The states are those of the parts by themselves,
added up and not multiplied; liveness is stated of each part with its own fairness.
Names are shared by their modules, which is why the specifications of these
parts are called `SharedSpec`, `LikeSpec` and `CsvSpec`.

Why the bounds are enough. In `Database` the interesting cases are a row refused
in its first or its last column, rows before and after it, and a rewrite of the
result: two columns and three rows have them all, and the theorems below cover
the rest. In `SharedCatalog` two threads show every race of two statements; a
third row is needed for one to be kept, one to be deleted and one to be in flight.
In `Persistence` two tables are needed for a cut between tables and for one
table's bytes to be read as another's. LIKE patterns of four characters hold two
`%` with a letter behind each, which is what a lost backtracking point takes.
A word of a bitmap has `WordBits` = 2 bits instead of 64, so that three rows fill one word
and begin the next, and words fit TLC's integers. In `Query`
a batch holds two rows instead of 1024 (`kDefaultBatchSize`), so that tables of up to five
rows give operators no batch, one, a full last one and a partial last one, and an
OFFSET or a filter can use up a whole batch; rows have NULLs as keys and as
arguments, duplicates and ties. Cells are integers and strings, for which
`rowKey` gives different texts for different values, and both sides of a UNION
have the same column types. In the front end chains of three operators show every
pair of levels on either side of a third; `MaxInt` is 7 in place of 2^63 - 1, so
that sums, products and negation overflow and the least integer can be written;
`MaxExponent` is 2 and `MaxOpen`, the number of inputs open at once, 3, enough
for a file that reads itself to run into it: it stands for the limit of the
operating system, as the code has none of its own. In the C API tables have at most
`MaxRows` = 2 rows, so that a cursor is before, on the first, on the last and past
the rows; two results and two callers show every pair that could share a buffer,
but there is one handle, so two handles that fail in one thread are not in the run.
The constraint `Bounds` of `MCCApi` explores error texts, a saved file and a second
result one at a time: no function touches two of them; and the second of two
results is one of at most one row. Threads, callers and results
are interchangeable in both modules and serve as symmetry sets.

Fairness. `Database`: a thread inside a statement takes its next step.
`Persistence`: saves, loads and the stream's destructor go on (a crash may still
come at any time). `LikeMatch` (`LikeFairness`): the loop runs. `Query`: a statement that runs
goes on; it is one thread. `FrontEndMeaning`: the program, one thread, goes on
until it has ended (`GoesOn`: weak fairness of its steps, stated without ENABLED,
which is the same because it has no deadlock before its end). Nothing is assumed of users: no
statement is ever forced to start.

Deadlock is checked in every run; a shell that has ended stutters.

### Findings

The violated runs are described in `PROJECT.json` with the comment each of them
contradicts. Met while modelling and not given a run of their own:
`Table` is documented as columns "all the same length" (`table.h:32`), which the
failed INSERT of `database_crash` breaks on its way; such a ragged table is saved
without an error into a file `loadDatabase` rejects or misreads, which is why
`CompleteFileLoads` speaks of rectangular tables only (and
`SuccessfulLoadIsComplete` too: a table with one more row in its first column is
read back shifted by the missing cells, and where the words of a later bitmap happen to
pass for cells and counts the load succeeds with another table); `persistence.h:28` says a
load replaces the catalog's contents while it only adds and replaces tables, as
`persistence.h:49` says; `csv_reader.h:48` says a ragged file throws, while short
records are padded and long ones cut, as the comment in `csv_reader.cpp` says;
`'%a' LIKE '%'` is false because a `%` of the text is compared before the `%` of
the pattern is recognised (`eval.cpp:120`), so the texts of `LikeMatch` have none, and `Meaning` claims nothing of such a text;
the evaluator's `Like` is the loop and answers false too;
a query that scans a table while another thread inserts into it can see a row in
some of its columns only (`SelectReadsSnapshot` fails with `Discipline =
"writers"`), although `catalog.h:13` says an INSERT takes an exclusive lock.

Of the two ways to compute an aggregate, which "must agree on results"
(`connection.cpp:693`), the typed one answers where the general one reports a
comparison of a number with a string (`CountByText`), reads the empty integer buffer
of a VARCHAR column that is compared with a number (`CountByNumber`,
`fast_aggregate.cpp:131`, where `connection.h:80` says "Never throws"), puts the group
key first and once wherever the SELECT list has it (`KeyAfterCall`), under the name
of the column rather than its alias, and ignores NULLS FIRST and NULLS LAST
(`CountNullsLast`). And with tables that have no alias the columns have bare names
(`connection.cpp:49`), so that `evaluate` (`eval.cpp:155`) takes `b.k` for the first
column `k`: `FROM a JOIN b ON a.k = b.k`, an example of `docs/sql-reference.md:110`,
pairs every row with every row (`JoinByTableName`). `query_documented` has these
five, and with `Disputed` replaced by any one of them `AnswerCorrect` fails as well.
`AnswerCorrect` itself makes no exception for any of them.

Without a run: an AND whose first comparison is NULL ends the typed path's look at
the row, while the general path goes on to a comparison that may fail. `GROUP BY e.id,
d.id` makes two keys named `id`, of which every reference finds the first; the
comment at `connection.cpp:43` says unqualified names of aliased tables resolve,
and they do not; DISTINCT and GROUP BY tell doubles apart by six decimals
(`physical_plan.cpp:194`). The statements of the run `query` stay clear of these.

Of the front end. The table of operators in `docs/sql-reference.md:136`, and the
comment at `parser.cpp:306`, put IS NULL, IN, BETWEEN and NOT LIKE with the
comparisons, below `+` and `*`; `parsePostfix` attaches them to the last operand,
so that `a + b IS NULL` is `a + (b IS NULL)`. `OperandLevel` is the least level of an
operand that is written without parentheses before a postfix operator: 5 is the
documents', of which `front_end_documented` shows the failure; 9, in `MCText.cfg`, is
that of `parsePostfix`, and with it `text` shows that the trees are otherwise those
written. A line that
has a `;` runs everything pending, also a statement that begins after the `;` and
goes on in the next line, which `docs/shell.md:37` does not say; a `;` in a text or
in a comment ends the statement; a comment after the last `;` of a line is run as
a statement and reported as an error; after a blank line dot-commands are no
longer recognised until a statement has run; `.quit` in a file ends that file only.
The scripts of the run do none of this. CAST and `table.*` are documented but the
one does not parse and the other does not evaluate; quoted identifiers keep their
quotes; `.5e3` is two tokens; locations of scanned tokens are one column late
(`lexer.h:18`). `evaluate` gives NULL for BETWEEN with a NULL bound where the other
bound decides (`eval.cpp:255`), of which `Meaning` claims nothing; and
`INT64_MIN % -1` (`eval.cpp:88`) ends the process, which `ShellEnds` allows and
nothing else.

Of the C API. `litequery.h:168` says a text lent by `lq_result_get_text` is valid until
the next row or until the result is freed, but a second `lq_result_get_text` on
the same row overwrites it (`c_api.cpp:282`): `c_api_lent`. What the code keeps, the
text lent last, is `ScratchInv`, a part of `IInv`. The header also says that handles are
independent, while error texts belong to the thread (`c_api.cpp:114`): a failure
through another handle in the same thread overwrites the message. `LentErrorsStay`
is about threads and functions, and the run has one handle.

Of the shared catalog. Without the discipline two imports that both find a name free
also lose a table (`connection.cpp:755`); it is the shortest way to lose
acknowledged rows, and `shared_catalog_lost` leaves it out by `RowsOnly` to show the
other.

## 4. Proofs

All proofs are by TLAPS, for every value of the constants that satisfies the named
assumptions (`InputsAssumption`, `MaxRowsAssumption`, `LikeAssumption`,
`CApiAssumption`, `SharedAssumption`, `PersistenceAssumption`), all of which TLC
evaluates in the runs. The inductive invariants `IInv` of `Database`, `LikeMatch` and
`CApi` and `SharedInv` of `SharedCatalog` are also checked by the runs; those of `Persistence` and `Pipeline`
hold on their runs' instances too (`INVARIANT IInv` in `MCPersistence.cfg`,
`INVARIANT CallInv` in `MCQuery.cfg`).

**Tables and statements** (`ColumnStoreProofs`, `DatabaseProofs`).

* `TableInvariance`: `Spec => []TableInv`. `NoCellBeyondRowCount` (each column is at
  most as long as the one before it) is what makes partial failure harmless to
  the row count, and it is inductive only together with the types, the
  bookkeeping of the running statement (`StatementInv`: the table exists while a
  handler works on it, the loop is within its rows, the rows collected have its
  width) and `NeverReadsPastBuffer` (as many cells as bits). `InsertRow` keeps the
  staircase because it stops at the first column that refuses: the lemmas of
  `ColumnStoreProofs` say what appending does to lengths, buffers and bits.
* `TypeCorrect`, `BufferSafety`, `StaircaseColumns` are its consequences;
  `RewriteAtomicity` and `RewriteRepairsTable` are action properties that follow
  step by step, the latter from what `RebuiltTable` returns.
* `CleanTablesRectangular` and `CleanQueriesReturn`: if no input is refused
  (`CleanInputs`, which the instance of `database_clean` satisfies), tables are
  rectangular and no statement crashes. The invariant is `CleanInv`, which adds to
  `TableInv` that all schemas are known ones and that what is left of a running
  INSERT fits its table. INSERT ... SELECT needs the lemma that a value read from a
  column of a type is accepted wherever a typical value of the type is.

**UPDATE and DELETE** (`DatabaseProofs`, second part).

* `Invariance`: `Spec => []IInv`. What a rewrite does to the table shows only at its
  end, so `IInv` adds to `TableInv` what the loop has collected on its way
  (`Collected`): for UPDATE every row visited, as it is to become; for DELETE the rows
  visited that do not match, listed in ascending order by an index function.
* `UpdateExact` and `DeleteExact`: `UpdateIsPointwise` and `DeleteIsFilter`, on ragged
  tables and with narrowing types too. The table is rebuilt from values that were
  read, so both rest on `RowReadsBack`: a value read from a column, appended to a
  column of the same type and read again is the same value, because narrowing twice
  is narrowing once and what a buffer holds is already of its column's kind
  (`BuffersTyped`).

**The row store** (`DatabaseProofs`, third part). `CatalogImplementsRows`: if no input is refused,
`Spec => ImplementsRowStore`. Every statement maps to one step of `RowStore` or to none,
INSERT to one per row: `InsertedRows` shows that appending a row leaves the others as
they are, `UpdateIsUpdate` and `DeleteIsDelete` use `Collected`, and `CleanInv` excludes
the failure half way in a row, which no row store knows.

**Save and load** (`PersistenceProofs`), for any names, tables of any number of columns
and rows, strings and 64-bit numbers, and bitmap words of any width.

* `Invariance`: `Spec => []IInv`. Three parts depend on each other. `FileInv`: whatever
  crashes, failed flushes and interrupted saves have happened, the file is one the header check
  rejects or a prefix of the encoding of `snapshot` with its tables in some order, and
  while a save runs, the buffer continues the file and, as long as no write has
  failed, what is still to be written continues the buffer. `AlignInv`: if the
  snapshot is rectangular, a load stands at the beginning of a table or of a column
  of that encoding (`TableAt`, `ColumnAt`), what it has read of the current
  table is the beginning of the saved one, and the tables before it are in the catalog as
  they were saved. `ReaderInv` holds for ragged snapshots too, where the reader may
  be anywhere: it says that what it has read is a well-formed part of a table, so
  that the catalog always can be saved again.
* Behind it are three facts about the format, each for all inputs.
  `Layout` and `TableLayout`: where each table and column lies in the flattened
  file. `HeadRead` and `ColumnRead`: at such a place the reader gets exactly what was
  saved, or the file ends within it; it never misreads. `BitmapRoundTrip`: the
  bits packed into words by `push` are the bits `isValid` finds in them.
* `TablesLoadAsSaved` and `SuccessMeansComplete`: `LoadsOnlySavedTables` and
  `SuccessfulLoadIsComplete`. The load loop reaches its end only where the encoding
  ends (`TableAt` of the table behind the last), so the file holds all of it.
* `WholeFileLoads`: `CompleteFileLoads`. On a whole file no read runs past the end.
* `SaveReportsFailure` is not a theorem: the run `persistence_unreported` refutes it.

**Threads** (`SharedCatalogProofs`), for any finite sets of threads and names, any rows and
any number of columns.

* `Invariance` holds for every `Discipline`. Without one it says that a table object
  belongs to one name. Where writes to a table are serialized it says in addition
  that a registered table holds, column by column and once each, the acknowledged
  rows and the rows that have landed in the column; that a writer's name still
  stands for the object it looked up; and what a rewrite has collected. Where
  queries are kept away from inserts it says what a scan has read.
* `SerializedWritersKeepRows` needs serialized writers (`Discipline # "none"`, the
  contract of `table.h:16`), imports included, which test a name, read a file and
  register the table in separate steps; `SelectsReadSnapshots` needs
  `Discipline = "readers"`. The runs show that both hypotheses are needed:
  `shared_catalog_lost`, and section 3 on `Discipline = "writers"`.

**The calls between operators** (`QueryProofs`), for any tables, any statements and any
batch size; no assumption about the statements is needed.

* `PlansAreTrees`: whatever clauses a statement has, `PlanOf` is a tree in
  postorder: every operator but the root is the child of exactly one other, so a
  batch has one place to go to. One lemma per way of building: a chain of
  operators over a tree (`ChainOverTree`), a join (`JoinIsTree`), two trees under an
  append, whose right one is shifted (`AppendOfTrees`).
* `CallInvariance`: `Spec => []CallInv`. `NoPullAfterEnd` looks at the operator that runs;
  that it has not ended follows only from what its caller remembers, so `CallInv` says
  of some branch of the tree (`IsPath`) that it is the stack of calls and that none of its
  operators has ended, and of every operator what it knows of children
  that have (`NodeInv`): filter, projection and limit have ended themselves or are
  about to; an append has turned to its right side; a sort, distinct, aggregate
  or join has built its result or is on its way through its right child.
  `AskKeeps` and `GiveKeeps` say once that a call and a return keep this for all other
  operators; each operator's lemma is about itself only.
* `EndedStaysEnded`: `Spec => []NoPullAfterEnd`.

**LIKE** (`LikeMatchProofs`).

* `LikeInBounds` and `LikeAdvances`, from a loop invariant on `ti`, `tstar` and `star`.
* `LikeDecides`: the loop answers yes exactly when the text is like the pattern, for
  texts of every length and alphabet without a `%` (`NoRunInTexts`: with one the
  answer may be wrong, section 3). `Places` gives for each prefix of the pattern the
  places of the text it can match up to. `IInv` says why one star is enough: before
  the first star there is one place (`SinglePlace`); behind the last star met the
  loop has come straight from the least place not yet given up, and from a place
  given up the match goes wrong before the next star (`Hopeless`, `BehindStar`).

**Lexer** (`LexerProofs`). `NothingIsSkipped`: `Tokenizing => []GapsAreComments`, where
`Tokenizing` is the lexer by itself, on any texts one after the other. Every turn of
the loop passes over a comment or makes a token of what follows the blanks
(`EveryTurn`, one lemma per branch), and each branch stays in the text because the
symbols it looks ahead at are none that the end of the text gives.

**C API** (`CApiProofs`), for any number of threads, handles, rows and columns.

* `Invariance`: with the types, `CursorInv` ties the cursor of a result to the rows
  the caller has seen of it, which is what `ReadsTheAnswer`, a statement about reads
  only, leaves open between them.
* `AnswersAreRead`, `GettersAnswer` and `ErrorsStay` follow from it. `LentTextsStay` is
  not a theorem: the run `c_api_lent` refutes it.

Induction over data is not available in the prover as a rule; where it is needed
(the solutions of recursive functions and facts about all their values, in
`LikeMatchProofs`, `LexerProofs` and `PersistenceProofs`, there for `FlattenSeq` and the
bits of a word) the proofs take the least counterexample (`Least`).

Only model-checked: liveness (`StatementsFinish`, `OperationsFinish`, `Terminates`,
`QueryEnds`, `ShellEnds`), because it needs fairness; `Csv`, and in `Query` the answers
(`AnswerCorrect`) and the length of batches (`TypeOK`), where what an inferred type, a group, a sum or a joined
row should be is a fold over all rows and a proof is an induction over them;
and the front end behind the lexer: `Parser`, `Evaluator`, `Fractions` and
`FrontEndMeaning` declare recursive operators, which the prover cannot handle.

## 5. Not modelled

In `Query`: nested expressions, OR, AVG, subqueries, chains of joins and of UNIONs,
names and types of result columns, `reset()`, EXPLAIN. The bindings, which call
the C API and free its handles; benchmarks and the demo. `Catalog::getSchema` and
node ids. In `Csv`: signs, exponents, overflow, header names. In `ColumnStore`:
values are small numbers, so overflow of 64-bit integers and rounding of doubles
are left out; narrowing to 8 to 32 bits is modelled. In the front end: source
locations and the wording of errors, the letters of keywords and names, rounding,
infinities, NaN and -0 of doubles, CAST (no text reaches it), how rows are drawn
in the modes of the shell, colours and prompts. In `CApi`: the functions that
only read a field of a result, null handles other than in `lq_query` (they return
at once), and failed allocations.

## 6. Plan

Done: storage, statements, row store, shared catalog, persistence, CSV, LIKE,
operators, planning and the typed aggregate path, the front end from the shell's
lines to values, the C API; the theorems of section 4.

Next, in this order:

1. Proofs: the batch bound of `Pipeline`.
2. `Query`: chains of UNIONs, a subquery in FROM, AVG.
