------------------------------- MODULE Lexer -------------------------------
(***************************************************************************)
(* src/parser/lexer.cpp: Lexer::tokenize as a machine that takes one turn  *)
(* of its main loop per step.  Text is a sequence of symbols: a symbol is  *)
(* one character, except that a keyword or a function name, which the code *)
(* looks at only as a whole run of letters, is one symbol too.  A token is *)
(* a view into the text, as in the code: symbols from .. to - 1.  Line and *)
(* column are left out: they only decorate error messages.                 *)
(***************************************************************************)
EXTENDS Integers, Sequences

VARIABLES
    source,     \* the text, Lexer::source_
    pos,        \* the next symbol to read, Lexer::pos_
    tokens,     \* LexResult::tokens
    errors      \* where the texts of LexResult::errors begin

lexVars == <<source, pos, tokens, errors>>

Digits == {"0", "1", "2", "3", "4", "5", "6", "7", "8", "9"}
Blank == {" ", "\n"}

(* The words tokenize has a kind of its own for.                           *)
Keywords ==
    {"SELECT", "FROM", "WHERE", "GROUP", "BY", "HAVING", "ORDER", "LIMIT", "OFFSET", "DISTINCT",
     "AS", "UNION", "ALL", "JOIN", "INNER", "LEFT", "RIGHT", "FULL", "OUTER", "CROSS", "ON",
     "CREATE", "TABLE", "DROP", "INSERT", "INTO", "VALUES", "DELETE", "UPDATE", "SET",
     "INT", "INTEGER", "BIGINT", "SMALLINT", "TINYINT", "FLOAT", "DOUBLE", "REAL", "BOOLEAN",
     "BOOL", "VARCHAR", "TEXT", "DATE", "TIMESTAMP", "DECIMAL", "NUMERIC", "BLOB",
     "NOT", "NULL", "PRIMARY", "KEY", "DEFAULT", "AND", "OR", "IN", "LIKE", "ILIKE", "BETWEEN",
     "IS", "EXISTS", "CASE", "WHEN", "THEN", "ELSE", "END", "ASC", "DESC", "NULLS", "FIRST",
     "LAST", "OVER", "PARTITION", "ROWS", "RANGE", "UNBOUNDED", "PRECEDING", "FOLLOWING",
     "CURRENT", "ROW", "TRUE", "FALSE"}

(* std::toupper, on the lower-case symbols the texts use.                  *)
UpperCase ==
    [select |-> "SELECT", from |-> "FROM", null |-> "NULL", table |-> "TABLE", abs |-> "ABS",
     a |-> "A", b |-> "B", e |-> "E", t |-> "T"]
Upper(c) == IF c \in DOMAIN UpperCase THEN UpperCase[c] ELSE c
Lower(c) == IF \E l \in DOMAIN UpperCase : UpperCase[l] = c
            THEN CHOOSE l \in DOMAIN UpperCase : UpperCase[l] = c ELSE c

(* The other runs of letters in the texts.                                 *)
Names ==
    {"ABS", "COALESCE", "LENGTH", "UPPER", "LOWER", "ROUND", "COUNT", "A", "B", "E", "T", "_",
     "help", "tables", "schema", "save", "open", "import", "mode", "csv", "json", "list", "timing",
     "off", "on", "read", "quit", "exit", "q"}
Words == Keywords \cup Names \cup DOMAIN UpperCase

(* The operators, each as the symbols that spell it, with its kind.        *)
SingleOperators ==
    {"(", ")", "[", "]", ",", ";", "*", "+", "%", "^", "=", "?", "<", ">", "-", "/", ":", "."}
LongOperators ==
    {<< <<"<", "=">>, "<=" >>, << <<"<", ">">>, "<>" >>, << <<">", "=">>, ">=" >>,
     << <<"!", "=">>, "<>" >>, << <<"|", "|">>, "||" >>, << <<"-", ">">>, "->" >>,
     << <<"-", ">", ">">>, "->>" >>, << <<":", ":">>, "::" >>}
Operators == {<< <<c>>, c >> : c \in SingleOperators} \cup LongOperators
-----------------------------------------------------------------------------
(* Lexer::peek, at an absolute position.                                   *)
SymbolAt(i) == IF i <= Len(source) THEN source[i] ELSE "EOT"

(* The first position at or after i whose symbol is not in S.              *)
RunEnd(i, S) ==
    CHOOSE j \in i..(Len(source) + 1) : SymbolAt(j) \notin S /\ \A k \in i..(j - 1) : source[k] \in S

(* Where the next token or comment begins: the loop skips blanks first.    *)
Start == RunEnd(pos, Blank)
More == Start <= Len(source)

(* The end of the text quoted with q whose first symbol is at i; a doubled *)
(* quote stands for itself.  0 if the quote is never closed.               *)
QuoteEnd(i, q) ==
    LET End[j \in Nat] ==
            IF j > Len(source) THEN 0
            ELSE IF source[j] # q THEN End[j + 1]
            ELSE IF SymbolAt(j + 1) = q THEN End[j + 2]
            ELSE j + 1
    IN End[i]

(* Mutant of CommentEnd: a comment within a comment is not counted.        *)
CommentEndFlat(i) ==
    LET ends == {j \in i..Len(source) - 1 : source[j] = "*" /\ source[j + 1] = "/"}
    IN IF ends = {} THEN 0 ELSE 2 + CHOOSE j \in ends : \A k \in ends : j <= k

(* The end of the block comment whose inside begins at i.  Comments nest.  *)
(* 0 if it is never closed.                                                *)
CommentEnd(i) ==
    LET Pair(j) == <<source[j], SymbolAt(j + 1)>>
        End[j \in Nat] == [depth \in Nat |->
            IF depth = 0 THEN j
            ELSE IF j > Len(source) THEN 0
            ELSE IF Pair(j) = <<"/", "*">> THEN End[j + 2][depth + 1]
            ELSE IF Pair(j) = <<"*", "/">> THEN End[j + 2][depth - 1]
            ELSE End[j + 1][depth]]
    IN End[i][1]

(* The number that begins at i: its end and its kind, "ERROR" for an       *)
(* exponent with a sign and no digit.  An e that no digit or sign follows  *)
(* is not part of the number.                                              *)
ScanNumber(i) ==
    LET whole == RunEnd(i, Digits)
        hasFraction == SymbolAt(whole) = "." /\ SymbolAt(whole + 1) \in Digits
        mantissa == IF hasFraction THEN RunEnd(whole + 1, Digits) ELSE whole
        hasExponent == SymbolAt(mantissa) \in {"e", "E"} /\ SymbolAt(mantissa + 1) \in Digits \cup {"+", "-"}
        digits == IF SymbolAt(mantissa + 1) \in {"+", "-"} THEN mantissa + 2 ELSE mantissa + 1
    IN IF ~hasExponent THEN [to |-> mantissa, kind |-> IF hasFraction THEN "LIT_FLOAT" ELSE "LIT_INTEGER"]
       ELSE IF SymbolAt(digits) \notin Digits THEN [to |-> digits, kind |-> "ERROR"]
       ELSE [to |-> RunEnd(digits, Digits), kind |-> "LIT_FLOAT"]

(* A keyword if the whole run is one, whatever its case; else a name.      *)
ClassifyKeyword(from, to) ==
    IF to = from + 1 /\ Upper(source[from]) \in Keywords THEN Upper(source[from]) ELSE "IDENT"

(* The longest operator that begins at i; none where the code reports a    *)
(* lone ! or |.                                                            *)
OperatorsAt(i) == {op \in Operators : \A k \in 1..Len(op[1]) : SymbolAt(i + k - 1) = op[1][k]}
Longest(ops) == CHOOSE op \in ops : \A other \in ops : Len(other[1]) <= Len(op[1])

CommentAt(i) == <<SymbolAt(i), SymbolAt(i + 1)>> \in {<<"-", "-">>, <<"/", "*">>}
NumberAt(i) == SymbolAt(i) \in Digits
DottedNumberAt(i) == SymbolAt(i) = "." /\ SymbolAt(i + 1) \in Digits
-----------------------------------------------------------------------------
Emit(kind, to) ==
    /\ pos' = to
    /\ tokens' = Append(tokens, [kind |-> kind, from |-> Start, to |-> to])
    /\ errors' = IF kind = "ERROR" THEN Append(errors, Start) ELSE errors
    /\ UNCHANGED source

(* The Lexer constructor, on a new text.                                   *)
LexStart(text) == source' = text /\ pos' = 1 /\ tokens' = << >> /\ errors' = << >>

LineComment ==
    /\ <<SymbolAt(Start), SymbolAt(Start + 1)>> = <<"-", "-">>
    /\ pos' = CHOOSE j \in Start..(Len(source) + 1) :
                  SymbolAt(j) \in {"\n", "EOT"} /\ \A k \in Start..(j - 1) : source[k] # "\n"
    /\ UNCHANGED <<source, tokens, errors>>

BlockComment ==
    /\ <<SymbolAt(Start), SymbolAt(Start + 1)>> = <<"/", "*">>
    /\ LET end == CommentEnd(Start + 2)
       IN /\ pos' = IF end = 0 THEN Len(source) + 1 ELSE end
          /\ errors' = IF end = 0 THEN Append(errors, Start) ELSE errors
    /\ UNCHANGED <<source, tokens>>

Operator ==
    /\ More /\ ~CommentAt(Start) /\ ~DottedNumberAt(Start)
    /\ OperatorsAt(Start) # {}
    /\ Emit(Longest(OperatorsAt(Start))[2], Start + Len(Longest(OperatorsAt(Start))[1]))

(* .5: digits only, no exponent.                                           *)
DottedNumber == More /\ DottedNumberAt(Start) /\ Emit("LIT_FLOAT", RunEnd(Start + 1, Digits))

Number == More /\ NumberAt(Start) /\ Emit(ScanNumber(Start).kind, ScanNumber(Start).to)

(* A text or, in double quotes, a name; open to the end it is an error.    *)
Quoted(q, kind) ==
    /\ SymbolAt(Start) = q
    /\ LET end == QuoteEnd(Start + 1, q)
       IN IF end = 0 THEN Emit("ERROR", Len(source) + 1) ELSE Emit(kind, end)

DollarParam ==
    /\ SymbolAt(Start) = "$"
    /\ IF SymbolAt(Start + 1) \in Digits THEN Emit("PARAM", RunEnd(Start + 1, Digits))
       ELSE Emit("ERROR", Start + 1)

IdentOrKeyword ==
    /\ SymbolAt(Start) \in Words
    /\ LET to == RunEnd(Start, Words \cup Digits) IN Emit(ClassifyKeyword(Start, to), to)

(* Mutant of Unexpected: an unknown symbol is passed over in silence.      *)
UnexpectedSkipped ==
    /\ More /\ OperatorsAt(Start) = {}
    /\ SymbolAt(Start) \notin Digits \cup Words \cup {"'", "\"", "$"}
    /\ pos' = Start + 1 /\ UNCHANGED <<source, tokens, errors>>

Unexpected ==
    /\ More /\ OperatorsAt(Start) = {}
    /\ SymbolAt(Start) \notin Digits \cup Words \cup {"'", "\"", "$"}
    /\ Emit("ERROR", Start + 1)

Finished == tokens # << >> /\ tokens[Len(tokens)].kind = "EOF"
EndOfFile == ~More /\ ~Finished /\ Emit("EOF", Start)

LexNext ==
    \/ LineComment \/ BlockComment \/ Operator \/ DottedNumber \/ Number
    \/ Quoted("'", "LIT_STRING") \/ Quoted("\"", "IDENT")
    \/ DollarParam \/ IdentOrKeyword \/ Unexpected \/ EndOfFile

(* The lexer by itself: tokenize on one text after the other.              *)
Tokenizing ==
    /\ source \in Seq(STRING) /\ pos = 1 /\ tokens = << >> /\ errors = << >>
    /\ [][LexNext \/ \E text \in Seq(STRING) : LexStart(text)]_lexVars
-----------------------------------------------------------------------------
(* Text leaves the scan only as a token, as a blank or inside a comment:   *)
(* whatever tokenize has passed over and made no token of is blank up to   *)
(* the sign that opens a comment; tokens follow one another in the text,   *)
(* and the scan never leaves it.                                           *)
GapsAreComments ==
    LET BlankUpTo(i, j) == \E k \in i..j : /\ \A m \in i..(k - 1) : source[m] \in Blank
                                           /\ k = j \/ CommentAt(k)
        EndOf(i) == IF i = 0 THEN 1 ELSE tokens[i].to
    IN /\ pos \in 1..(Len(source) + 1)
       /\ \A i \in 1..Len(tokens) : EndOf(i - 1) <= tokens[i].from /\ BlankUpTo(EndOf(i - 1), tokens[i].from)
       /\ EndOf(Len(tokens)) <= pos /\ BlankUpTo(EndOf(Len(tokens)), pos)
=============================================================================
