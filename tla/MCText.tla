------------------------------- MODULE MCText -------------------------------
(***************************************************************************)
(* The three readers of text: the shell with lexer, parser and evaluator   *)
(* (MCFrontEnd), the CSV reader (Csv) and the matcher of LIKE (LikeMatch). *)
(* In a behaviour one of them is called, the other two have returned from  *)
(* an earlier call; none of them touches the state of another.             *)
(***************************************************************************)
EXTENDS MCFrontEnd, Csv, LikeMatch

-----------------------------------------------------------------------------
(* Small files: two records of awkward fields, and columns of up to three  *)
(* values of every type in every order.                                    *)
Awkward == {<< >>, <<"letter">>, <<"quote">>, <<"comma", "quote">>, <<"lf">>, <<"cr", "lf">>,
            <<"quote", "quote">>}

Values == {<< >>, <<"space">>, <<"digit">>, <<"space", "digit">>, <<"digit", "dot">>,
           <<"lf", "digit">>, <<"digit", "lf">>, <<"letter">>}

UpTo(S, n) == UNION {[1..k -> S] : k \in 1..n}

Columns == {[k \in 1..Len(s) |-> <<s[k]>>] : s \in UpTo(Values, 3)}

(* Records shorter and longer than the first one.                          *)
Ragged ==
    {<< <<a>>, <<b, c>>, <<d>> >> : a, b, c, d \in {<<"digit">>, <<"letter">>}} \cup
    {<< <<a, b>>, <<c>> >> : a, b, c \in {<< >>, <<"digit">>, <<"letter">>}}

SmallGrids == UpTo(UpTo(Awkward, 2), 2) \cup Columns \cup Ragged

Style(q, c, b, f) == [quoteAll |-> q, crlf |-> c, bom |-> b, final |-> f]
SmallStyles == {Style(FALSE, FALSE, FALSE, TRUE), Style(FALSE, TRUE, TRUE, FALSE),
                Style(TRUE, TRUE, FALSE, TRUE), Style(TRUE, FALSE, FALSE, FALSE)}
-----------------------------------------------------------------------------
(* Texts and patterns over two letters, one of them in both cases.         *)
Alphabet == {Small("a"), Capital("a"), Small("b")}
TwoLetters == {Small("a"), Small("b")}
-----------------------------------------------------------------------------
(* Calls that have returned: a script of nothing, an empty file, the empty *)
(* text matched with the empty pattern.                                    *)
ShellReturned ==
    /\ script = [how |-> "-c", items |-> << >>, layout |-> "line", closed |-> TRUE]
    /\ frames = << >> /\ pending = << >> /\ buffer = << >> /\ phase = "done"
    /\ mode = "table" /\ timing = TRUE /\ interactive = FALSE /\ log = << >>
    /\ source = << >> /\ pos = 1 /\ tokens = << >> /\ errors = << >>

ReaderReturned ==
    /\ grid = << >> /\ style = Style(FALSE, FALSE, FALSE, FALSE) /\ hasHeader = FALSE /\ content = << >>
    /\ i = 1 /\ rows = << >> /\ row = << >> /\ field = << >>
    /\ inQuotes = FALSE /\ fieldStarted = FALSE
    /\ stage = "error" /\ table = NoTable

MatcherReturned ==
    /\ text = << >> /\ pattern = << >> /\ ci = FALSE
    /\ ti = 1 /\ pi = 1 /\ star = 0 /\ tstar = 1 /\ verdict = "yes"

TextInit ==
    \/ Init /\ ReaderReturned /\ MatcherReturned
    \/ CsvInit /\ ShellReturned /\ MatcherReturned
    \/ LikeInit /\ ShellReturned /\ ReaderReturned

TextNext ==
    \/ Next /\ UNCHANGED <<csvVars, likeVars>>
    \/ CsvNext /\ UNCHANGED <<vars, likeVars>>
    \/ LikeNext /\ UNCHANGED <<vars, csvVars>>

TextSpec == TextInit /\ [][TextNext]_<<vars, csvVars, likeVars>> /\ GoesOn /\ LikeFairness
=============================================================================
