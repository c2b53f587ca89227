------------------------------- MODULE Shell -------------------------------
(***************************************************************************)
(* tools/lq_shell.cpp: the lq program from its first line of input to its  *)
(* end.  Lines go through feedLine, statements through runBuffer to        *)
(* Connection::query, whose lexer runs turn by turn (module Lexer) and     *)
(* whose parser runs in one step (module Parser).  A SELECT of constants   *)
(* is answered here (module Evaluator); what the other statements do is in *)
(* Database and Query.  Text is a sequence of symbols, as in Lexer.        *)
(***************************************************************************)
EXTENDS Evaluator, SequencesExt

CONSTANTS
    Files,      \* the files there are: name -> lines
    MaxOpen     \* how many inputs can be open at once

ASSUME MaxOpenAssumption == MaxOpen \in Nat

VARIABLES
    frames,     \* what is left of each input being read, the innermost first
    pending,    \* Shell::pending_
    buffer,     \* what runBuffer has not looked at yet
    phase,      \* "start", "read", "buffer", "lex", "parse"; "done" or "crashed"
    mode,       \* Shell::mode
    timing,     \* Shell::timing
    interactive,
    log         \* the calls on the connection and what the shell answers

shellVars == <<frames, pending, buffer, phase, mode, timing, interactive, log, lexVars>>

(* Shell::trim                                                             *)
Trim(text) ==
    LET solid == {i \in 1..Len(text) : text[i] \notin Blank}
    IN IF solid = {} THEN << >> ELSE SubSeq(text, Min(solid), Max(solid))

(* The n-th word operator>> reads from a line, empty if there is none.     *)
Word(line, n) ==
    LET starts == {i \in 1..Len(line) : line[i] \notin Blank /\ (i = 1 \/ line[i - 1] \in Blank)}
        first == CHOOSE i \in starts : Cardinality({j \in starts : j <= i}) = n
        last == CHOOSE i \in first..Len(line) :
                    /\ i = Len(line) \/ line[i + 1] \in Blank
                    /\ \A j \in first..i : line[j] \notin Blank
    IN IF n > Cardinality(starts) THEN << >> ELSE SubSeq(line, first, last)
-----------------------------------------------------------------------------
ShellInit ==
    /\ frames = << >> /\ pending = << >> /\ buffer = << >> /\ phase = "start"
    /\ mode = "table" /\ timing = TRUE /\ interactive = FALSE /\ log = << >>
    /\ source = << >> /\ pos = 1 /\ tokens = << >> /\ errors = << >>

(* main and repl: -c text, or lines from a terminal or a pipe, or a file.  *)
Main(how, text) ==
    /\ phase = "start"
    /\ frames' = CASE how = "-c" -> << >>
                   [] how \in {"terminal", "pipe"} -> <<text>>
                   [] how = "file" -> IF text \in DOMAIN Files THEN <<Files[text]>> ELSE << << >> >>
    /\ buffer' = IF how = "-c" THEN text ELSE << >>
    /\ phase' = IF how = "-c" THEN "buffer" ELSE "read"
    /\ interactive' = (how = "terminal")
    /\ log' = IF how = "file" /\ text \notin DOMAIN Files THEN << <<"complaint", "file">> >> ELSE << >>
    /\ UNCHANGED <<pending, mode, timing, lexVars>>

Line == Trim(Head(Head(frames)))
HasLine == phase = "read" /\ frames # << >> /\ Head(frames) # << >>
IsCommand == HasLine /\ pending = << >> /\ Line # << >> /\ Line[1] = "."
Command(names) == IsCommand /\ Word(Line, 1) \in {<<".", n>> : n \in names}
Arg(n) == Word(Line, n + 1)
NextLine == <<Tail(Head(frames))>> \o Tail(frames)
Say(entry) == log' = Append(log, entry)

(* feedLine, when the line is no command; a line with ; runs the buffer.   *)
FeedLine ==
    /\ HasLine /\ ~IsCommand
    /\ frames' = NextLine
    /\ LET text == pending \o Append(Head(Head(frames)), "\n")
           run == ";" \in Range(Head(Head(frames)))
       IN /\ pending' = IF run THEN << >> ELSE text
          /\ buffer' = IF run THEN text ELSE << >>
          /\ phase' = IF run THEN "buffer" ELSE "read"
    /\ UNCHANGED <<mode, timing, interactive, log, lexVars>>

(* The end of an input, and flushPending.                                  *)
EndOfInput ==
    /\ phase = "read" /\ frames # << >> /\ Head(frames) = << >>
    /\ pending' = << >>
    /\ IF Trim(pending) # << >>
       THEN buffer' = pending /\ phase' = "buffer" /\ UNCHANGED frames
       ELSE /\ frames' = Tail(frames)
            /\ phase' = IF Tail(frames) = << >> THEN "done" ELSE "read"
            /\ UNCHANGED buffer
    /\ UNCHANGED <<mode, timing, interactive, log, lexVars>>
-----------------------------------------------------------------------------
(* Mutant of Quit: it ends an input of its own, not the one it was read    *)
(* from, whose line is read again.                                         *)
QuitInner ==
    /\ Command({"quit", "exit", "q"})
    /\ frames' = <<<< >>>> \o frames
    /\ UNCHANGED <<pending, buffer, phase, mode, timing, interactive, log, lexVars>>

(* dotCommand.  .quit ends the innermost input only.                       *)
Quit ==
    /\ Command({"quit", "exit", "q"})
    /\ frames' = <<<< >>>> \o Tail(frames)
    /\ UNCHANGED <<pending, buffer, phase, mode, timing, interactive, log, lexVars>>

(* The commands that only print, and the complaint about any other.        *)
Known == {"quit", "exit", "q", "help", "tables", "schema", "save", "open", "import", "mode", "timing", "read"}

Help ==
    /\ Command({"help"}) /\ Say(<<"shown", "help">>)
    /\ frames' = NextLine
    /\ UNCHANGED <<pending, buffer, phase, mode, timing, interactive, lexVars>>

Show ==
    /\ Command({"tables", "schema"}) /\ Say(<<"shown", Word(Line, 1)[2]>>)
    /\ frames' = NextLine
    /\ UNCHANGED <<pending, buffer, phase, mode, timing, interactive, lexVars>>

UnknownCommand ==
    /\ IsCommand /\ ~Command(Known) /\ Say(<<"complaint", "command">>)
    /\ frames' = NextLine
    /\ UNCHANGED <<pending, buffer, phase, mode, timing, interactive, lexVars>>

SaveOrOpen ==
    /\ Command({"save", "open"})
    /\ IF Arg(1) = << >> THEN Say(<<"complaint", "usage">>) ELSE Say(<<Word(Line, 1)[2], Arg(1)>>)
    /\ frames' = NextLine
    /\ UNCHANGED <<pending, buffer, phase, mode, timing, interactive, lexVars>>

Import ==
    /\ Command({"import"})
    /\ LET tabs == Arg(1) = <<"-", "t">>
           file == Arg(IF tabs THEN 2 ELSE 1)
           table == Arg(IF tabs THEN 3 ELSE 2)
       IN IF file = << >> \/ table = << >> THEN Say(<<"complaint", "usage">>) ELSE Say(<<"import", file, table, tabs>>)
    /\ frames' = NextLine
    /\ UNCHANGED <<pending, buffer, phase, mode, timing, interactive, lexVars>>

SetMode ==
    /\ Command({"mode"})
    /\ IF \E m \in {"table", "csv", "json", "list"} : Arg(1) = <<m>>
       THEN mode' = Arg(1)[1] /\ UNCHANGED log
       ELSE UNCHANGED mode /\ Say(<<"complaint", "mode">>)
    /\ frames' = NextLine
    /\ UNCHANGED <<pending, buffer, phase, timing, interactive, lexVars>>

SetTiming ==
    /\ Command({"timing"})
    /\ timing' = (Arg(1) # <<"off">>)
    /\ frames' = NextLine
    /\ UNCHANGED <<pending, buffer, phase, mode, interactive, log, lexVars>>

(* .read: runFile reads the file before the next line here.  There is no   *)
(* limit to the nesting but the one the system sets on open files.         *)
Read ==
    /\ Command({"read"})
    /\ IF Arg(1) \in DOMAIN Files /\ Len(frames) < MaxOpen
       THEN frames' = <<Files[Arg(1)]>> \o NextLine /\ UNCHANGED log
       ELSE frames' = NextLine /\ Say(<<"complaint", "file">>)
    /\ UNCHANGED <<pending, buffer, phase, mode, timing, interactive, lexVars>>
-----------------------------------------------------------------------------
(* runBuffer: the text up to the next ; or, if there is none, the rest of  *)
(* it is a statement, unless it is blank.                                  *)
NextStatement ==
    /\ phase = "buffer"
    /\ LET ends == {i \in 1..Len(buffer) : buffer[i] = ";"}
           end == IF ends = {} THEN Len(buffer) ELSE Min(ends)
           statement == Trim(SubSeq(buffer, 1, end))
       IN /\ buffer' = SubSeq(buffer, end + 1, Len(buffer))
          /\ IF statement \notin {<< >>, <<";">>}
             THEN phase' = "lex" /\ LexStart(statement)
             ELSE /\ phase' = IF ends # {} THEN "buffer" ELSE IF frames = << >> THEN "done" ELSE "read"
                  /\ UNCHANGED lexVars
    /\ UNCHANGED <<frames, pending, mode, timing, interactive, log>>

(* Connection::query: tokenize, ...                                        *)
Tokenize ==
    /\ phase = "lex" /\ LexNext
    /\ phase' = IF tokens' # << >> /\ Last(tokens').kind = "EOF" THEN "parse" ELSE "lex"
    /\ UNCHANGED <<frames, pending, buffer, mode, timing, interactive, log>>

(* ... parseStatement and, for a SELECT of constants, the row it answers.  *)
IsConstant(stmt) ==
    /\ stmt.node = "Select" /\ ~stmt.distinct
    /\ Len(stmt.from \o stmt.where \o stmt.group \o stmt.having \o stmt.order \o stmt.limit \o stmt.setOp) = 0
    /\ \A i \in 1..Len(tokens) : Text(i) = << >> \/ Upper(Text(i)[1]) \notin Aggregates

Dual == [name \in {<< <<"__dual__">> >>} |-> Int64(0)]
AnswerOf(stmt) == [k \in 1..Len(stmt.list) |-> Evaluate(stmt.list[k].expr, Dual)]

(* How evaluating the items, from left to right, ends.                     *)
Ending(rows) ==
    LET stops == {k \in 1..Len(rows) : rows[k] \in {Raise, Trap}}
    IN IF stops = {} THEN << >> ELSE rows[Min(stops)]

(* printResult: rows in the current mode, and the time if somebody waits.  *)
PrintResult(stmt, rows) ==
    /\ phase' = IF Ending(rows) = Trap THEN "crashed" ELSE "buffer"
    /\ IF Ending(rows) # << >> THEN Say(<<"failed", stmt>>)
       ELSE Say(<<"ran", stmt, rows, mode, interactive /\ timing>>)

Answer(parsed) ==
    IF errors # << >> \/ parsed.at = 0 THEN phase' = "buffer" /\ Say(<<"rejected">>)
    ELSE PrintResult(parsed.node, IF IsConstant(parsed.node) THEN AnswerOf(parsed.node) ELSE << >>)

Query ==
    /\ phase = "parse" /\ Answer(ParseStatement)
    /\ UNCHANGED <<frames, pending, buffer, mode, timing, interactive, lexVars>>

ShellNext ==
    \/ FeedLine \/ EndOfInput
    \/ Quit \/ Help \/ Show \/ UnknownCommand \/ SaveOrOpen \/ Import \/ SetMode \/ SetTiming \/ Read
    \/ NextStatement \/ Tokenize \/ Query
=============================================================================
