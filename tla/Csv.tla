-------------------------------- MODULE Csv --------------------------------
(***************************************************************************)
(* The CSV reader (src/storage/csv_reader.cpp): a text is split into       *)
(* records of fields character by character, a type is inferred for each   *)
(* column, and the fields are converted to it.                             *)
(*                                                                         *)
(* A character stands for its class.  Signs, exponents and integers wider  *)
(* than 64 bits are left out: a field parses as an integer, as a double    *)
(* only, or as neither.                                                    *)
(***************************************************************************)
EXTENDS Integers, Sequences, SequencesExt

CONSTANTS Grids,      \* records that some writer has put in a file
          Styles,     \* how the writer wrote them
          HasHeader,  \* values of CsvOptions::hasHeader
          InferRows   \* CsvOptions::inferRows: rows inference looks at, 0 for all

Chars == {"quote", "comma", "cr", "lf", "bom", "space", "digit", "dot", "letter"}
Fields == Seq(Chars)
Records == Seq(Fields)

ASSUME CsvAssumption ==
    /\ Grids \subseteq Seq(Records \ {<< >>}) \ {<< >>}
    /\ Styles \subseteq [quoteAll : BOOLEAN, crlf : BOOLEAN, bom : BOOLEAN, final : BOOLEAN]
    /\ HasHeader \subseteq BOOLEAN
    /\ InferRows \in Nat

VARIABLES grid, style, hasHeader,  \* what was written and how it is to be read
          content,                 \* the text of the file
          i,                       \* the next character
          rows, row, field,        \* the records, fields and characters read
          inQuotes, fieldStarted,
          stage,                   \* "parse", "build", "done" or "error"
          table                    \* the types and the columns of the Table

csvVars == <<grid, style, hasHeader, content, i, rows, row, field, inQuotes, fieldStarted,
          stage, table>>
input == <<grid, style, hasHeader, content>>

-----------------------------------------------------------------------------
(* A writer: RFC 4180 quoting, where a field needs it or throughout.       *)

NeedsQuotes(f) == ToSet(f) \cap {"quote", "comma", "cr", "lf"} # {}

Written(f, s) ==
    IF s.quoteAll \/ NeedsQuotes(f)
    THEN <<"quote">> \o FlattenSeq([k \in 1..Len(f) |->
                            IF f[k] = "quote" THEN <<"quote", "quote">> ELSE <<f[k]>>])
                     \o <<"quote">>
    ELSE f

Joined(seqs, sep) ==
    FlattenSeq([k \in 1..Len(seqs) |-> IF k = 1 THEN seqs[k] ELSE sep \o seqs[k]])

WrittenGrid(g, s) ==
    LET newline == IF s.crlf THEN <<"cr", "lf">> ELSE <<"lf">>
        Line(rec) == Joined([k \in 1..Len(rec) |-> Written(rec[k], s)], <<"comma">>)
    IN (IF s.bom THEN <<"bom">> ELSE << >>)
          \o Joined([k \in 1..Len(g) |-> Line(g[k])], newline)
          \o (IF s.final THEN newline ELSE << >>)

-----------------------------------------------------------------------------
(* parseGrid                                                               *)

NoTable == [types |-> << >>, columns |-> << >>]

(* A leading byte order mark is skipped.                                   *)
CsvInit ==
    /\ grid \in Grids
    /\ style \in Styles
    /\ hasHeader \in HasHeader
    /\ content = WrittenGrid(grid, style)
    /\ i = IF content # << >> /\ content[1] = "bom" THEN 2 ELSE 1
    /\ rows = << >>
    /\ row = << >>
    /\ field = << >>
    /\ inQuotes = FALSE
    /\ fieldStarted = FALSE
    /\ stage = "parse"
    /\ table = NoTable

AtChar(c) == stage = "parse" /\ i <= Len(content) /\ content[i] = c
NextIsQuote == i < Len(content) /\ content[i + 1] = "quote"

QuotedAt(c) == inQuotes /\ AtChar(c)
PlainAt(c) == ~ inQuotes /\ AtChar(c)

EscapedQuote ==
    /\ QuotedAt("quote") /\ NextIsQuote
    /\ field' = Append(field, "quote")
    /\ i' = i + 2
    /\ UNCHANGED <<input, rows, row, inQuotes, fieldStarted, stage, table>>

CloseQuote ==
    /\ QuotedAt("quote") /\ ~ NextIsQuote
    /\ inQuotes' = FALSE
    /\ i' = i + 1
    /\ UNCHANGED <<input, rows, row, field, fieldStarted, stage, table>>

QuotedChar ==
    /\ \E c \in Chars \ {"quote"} : QuotedAt(c) /\ field' = Append(field, c)
    /\ i' = i + 1
    /\ UNCHANGED <<input, rows, row, inQuotes, fieldStarted, stage, table>>

OpenQuote ==
    /\ PlainAt("quote")
    /\ inQuotes' = TRUE
    /\ fieldStarted' = TRUE
    /\ i' = i + 1
    /\ UNCHANGED <<input, rows, row, field, stage, table>>

Delimiter ==
    /\ PlainAt("comma")
    /\ row' = Append(row, field)
    /\ field' = << >>
    /\ fieldStarted' = TRUE
    /\ i' = i + 1
    /\ UNCHANGED <<input, rows, inQuotes, stage, table>>

CarriageReturn ==
    /\ PlainAt("cr")
    /\ i' = i + 1
    /\ UNCHANGED <<input, rows, row, field, inQuotes, fieldStarted, stage, table>>

LineFeed ==
    /\ PlainAt("lf")
    /\ rows' = Append(rows, Append(row, field))
    /\ row' = << >>
    /\ field' = << >>
    /\ fieldStarted' = FALSE
    /\ i' = i + 1
    /\ UNCHANGED <<input, inQuotes, stage, table>>

PlainChar ==
    /\ \E c \in Chars \ {"quote", "comma", "cr", "lf"} : PlainAt(c) /\ field' = Append(field, c)
    /\ fieldStarted' = TRUE
    /\ i' = i + 1
    /\ UNCHANGED <<input, rows, row, inQuotes, stage, table>>

(* Records of one empty field are dropped from the end.                    *)
WithoutTrailingBlanks(g) ==
    LET kept == {k \in 1..Len(g) : g[k] # << << >> >>}
    IN IF kept = {} THEN << >> ELSE SubSeq(g, 1, Max(kept))

(* Mutant of EndOfText: a last record without a newline counts only if its *)
(* last field has characters.                                              *)
EndOfTextBare ==
    /\ stage = "parse" /\ i > Len(content)
    /\ rows' = WithoutTrailingBlanks(
                  IF field # << >> THEN Append(rows, Append(row, field)) ELSE rows)
    /\ row' = << >>
    /\ field' = << >>
    /\ fieldStarted' = FALSE
    /\ stage' = "build"
    /\ UNCHANGED <<input, i, inQuotes, table>>

EndOfText ==
    /\ stage = "parse" /\ i > Len(content)
    /\ rows' = WithoutTrailingBlanks(
                  IF fieldStarted \/ field # << >> \/ row # << >>
                  THEN Append(rows, Append(row, field)) ELSE rows)
    /\ row' = << >>
    /\ field' = << >>
    /\ fieldStarted' = FALSE
    /\ stage' = "build"
    /\ UNCHANGED <<input, i, inQuotes, table>>

-----------------------------------------------------------------------------
(* Type inference and conversion                                           *)

Whitespace == {"space", "cr", "lf"}
IsBlank(s) == ToSet(s) \subseteq Whitespace

(* Spaces are trimmed at both ends, line ends are not.                     *)
TrimSpaces(s) ==
    LET solid == {k \in 1..Len(s) : s[k] # "space"}
    IN IF solid = {} THEN << >> ELSE SubSeq(s, Min(solid), Max(solid))

ParsesAsInt(s) == TrimSpaces(s) # << >> /\ ToSet(TrimSpaces(s)) = {"digit"}

(* std::stod skips white space of any kind before the number.              *)
ParsesAsDouble(s) ==
    LET t == TrimSpaces(s)
        solid == {k \in 1..Len(t) : t[k] \notin Whitespace}
        number == IF solid = {} THEN << >> ELSE SubSeq(t, Min(solid), Len(t))
    IN /\ "digit" \in ToSet(number)
       /\ ToSet(number) \subseteq {"digit", "dot"}
       /\ Len(SelectSeq(number, LAMBDA c : c = "dot")) <= 1

(* Mutant of Widen: once a column is Double every cell passes.             *)
WidenOnce(t, cell) ==
    IF t = "Int" /\ ParsesAsInt(cell) THEN "Int"
    ELSE IF t = "Double" \/ (t = "Int" /\ ParsesAsDouble(cell)) THEN "Double"
    ELSE "Text"

(* Mutant of Widen: an integer turns a column of doubles back.             *)
WidenBack(t, cell) ==
    IF t # "Text" /\ ParsesAsInt(cell) THEN "Int"
    ELSE IF t # "Text" /\ ParsesAsDouble(cell) THEN "Double"
    ELSE "Text"

Widen(t, cell) ==
    IF t = "Int" /\ ParsesAsInt(cell) THEN "Int"
    ELSE IF t # "Text" /\ ParsesAsDouble(cell) THEN "Double"
    ELSE "Text"

(* The cells of column c in the records from first to last that have one.  *)
CellsOf(c, first, last) ==
    LET present == SelectSeq(SubSeq(rows, first, last), LAMBDA rec : c <= Len(rec))
    IN [k \in 1..Len(present) |-> present[k][c]]

InferColumn(c, first) ==
    LET last == IF InferRows = 0 THEN Len(rows)
                ELSE Min({Len(rows), first - 1 + InferRows})
        cells == SelectSeq(CellsOf(c, first, last), LAMBDA s : ~ IsBlank(s))
    IN IF cells = << >> THEN "Text" ELSE FoldLeft(Widen, "Int", cells)

NullCell == <<"Null", << >> >>
Uninitialized == <<"Uninitialized", << >> >>

(* The result of the conversion is not tested: where it fails, the value   *)
(* is an uninitialized variable.                                           *)
CellToValue(cell, t) ==
    IF IsBlank(cell) THEN NullCell
    ELSE IF \/ t = "Int" /\ ~ ParsesAsInt(cell)
            \/ t = "Double" /\ ~ ParsesAsDouble(cell)
    THEN Uninitialized
    ELSE <<t, cell>>

(* readCsvString: the first record gives the width; shorter records are    *)
(* padded with NULLs, longer ones cut.                                     *)
DataStart == IF hasHeader THEN 2 ELSE 1

Build ==
    /\ stage = "build"
    /\ rows # << >>
    /\ LET types == [c \in 1..Len(rows[1]) |-> InferColumn(c, DataStart)]
           Value(rec, c) == IF c <= Len(rec) THEN CellToValue(rec[c], types[c]) ELSE NullCell
       IN table' = [types |-> types,
                    columns |-> [c \in 1..Len(types) |->
                        [k \in 1..Len(rows) - DataStart + 1 |-> Value(rows[DataStart - 1 + k], c)]]]
    /\ stage' = "done"
    /\ UNCHANGED <<input, i, rows, row, field, inQuotes, fieldStarted>>

(* CsvError: the text has no record.                                       *)
BuildFails ==
    /\ stage = "build"
    /\ rows = << >>
    /\ stage' = "error"
    /\ UNCHANGED <<input, i, rows, row, field, inQuotes, fieldStarted, table>>

CsvReturned == stage \in {"done", "error"} /\ UNCHANGED csvVars

CsvNext ==
    \/ EscapedQuote \/ CloseQuote \/ QuotedChar
    \/ OpenQuote \/ Delimiter \/ CarriageReturn \/ LineFeed \/ PlainChar
    \/ EndOfText
    \/ Build \/ BuildFails
    \/ CsvReturned

CsvSpec == CsvInit /\ [][CsvNext]_csvVars

-----------------------------------------------------------------------------
(* Properties                                                              *)

(* csv_reader.h: records are split "honoring RFC-4180 quoting": whatever   *)
(* was in the fields, delimiters, quotes and line ends included, whichever *)
(* line ending was used and whether or not the last line has one, the      *)
(* records read are the records written, up to blank lines at the end.     *)
ReadsWhatWasWritten ==
    stage # "parse" => rows = WithoutTrailingBlanks(grid)

(* The type inference has chosen is one every cell of the column converts  *)
(* to: no cell of the table is an uninitialized variable.                  *)
NoUninitializedCell ==
    \A c \in 1..Len(table.columns) : \A k \in 1..Len(table.columns[c]) :
        table.columns[c][k] # Uninitialized

(* csv_reader.h: "a column is INT64 if every non-empty value parses as an  *)
(* integer, else FLOAT64 if every non-empty value parses as a double, else *)
(* VARCHAR", in whatever order the values come; "Empty fields become NULL  *)
(* and never force a widening".                                            *)
InferenceIsTightest ==
    stage = "done" =>
        \A c \in 1..Len(table.types) :
            LET values == {cell \in ToSet(CellsOf(c, DataStart, Len(rows))) : ~ IsBlank(cell)}
            IN table.types[c] =
                 IF values = {} THEN "Text"
                 ELSE IF \A v \in values : ParsesAsInt(v) THEN "Int"
                 ELSE IF \A v \in values : ParsesAsDouble(v) THEN "Double"
                 ELSE "Text"
=============================================================================
