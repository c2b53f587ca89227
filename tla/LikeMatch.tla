------------------------------ MODULE LikeMatch ------------------------------
(***************************************************************************)
(* likeMatch (src/execution/eval.cpp): does a text match a LIKE pattern of *)
(* characters, "_" (any one character) and "%" (any run of characters)?    *)
(* The function keeps one backtracking point, the last "%" it met; the     *)
(* steps below are the turns of its loop, the positions count from 1.      *)
(*                                                                         *)
(* A character is a letter with its case; case-insensitive comparison      *)
(* looks at the letter alone.                                              *)
(***************************************************************************)
EXTENDS Integers, Sequences

CONSTANTS TextChars,  \* characters of a text
          Letters,    \* letters of a pattern, besides "_" and "%"
          MaxText,    \* longest text
          MaxPattern  \* longest pattern

Capital(c) == [letter |-> c, upper |-> TRUE]
Small(c) == [letter |-> c, upper |-> FALSE]
AnyOne == Small("_")    \* the characters of the two wildcards have no case
Run == Small("%")

PatternChars == Letters \cup {AnyOne, Run}

ASSUME LikeAssumption ==
    /\ TextChars \cup Letters \subseteq [letter : STRING, upper : BOOLEAN]
    /\ MaxText \in Nat
    /\ MaxPattern \in Nat

VARIABLES text, pattern, ci,  \* the arguments
          ti, pi,             \* where the loop is in the text and the pattern
          star, tstar,        \* the last "%" met (0: none) and where it stopped
          verdict             \* "running", then "yes" or "no"

likeVars == <<text, pattern, ci, ti, pi, star, tstar, verdict>>
args == <<text, pattern, ci>>

WordsUpTo(S, n) == UNION {[1..k -> S] : k \in 0..n}

LikeInit ==
    /\ text \in WordsUpTo(TextChars, MaxText)
    /\ pattern \in WordsUpTo(PatternChars, MaxPattern)
    /\ ci \in BOOLEAN
    /\ ti = 1
    /\ pi = 1
    /\ star = 0
    /\ tstar = 1
    /\ verdict = "running"

(* The characters are equal, or with insensitive their lower cases are.    *)
SameChar(a, b, insensitive) == IF insensitive THEN a.letter = b.letter ELSE a = b

(* A character q of the pattern stands for the character c of the text.    *)
Fits(q, c, insensitive) == q = AnyOne \/ SameChar(q, c, insensitive)

(* The tests of the loop's four branches.                                  *)
InText == verdict = "running" /\ ti <= Len(text)
InPattern == pi <= Len(pattern)
OneMatches == InPattern /\ Fits(pattern[pi], text[ti], ci)
AtStar == InPattern /\ pattern[pi] = Run

Advance ==
    /\ InText /\ OneMatches
    /\ ti' = ti + 1
    /\ pi' = pi + 1
    /\ UNCHANGED <<args, star, tstar, verdict>>

(* Mutant of MeetStar: star remembers the place behind the "%".            *)
MeetStarPast ==
    /\ InText /\ ~ OneMatches /\ AtStar
    /\ star' = pi + 1
    /\ pi' = pi + 1
    /\ tstar' = ti
    /\ UNCHANGED <<args, ti, verdict>>

MeetStar ==
    /\ InText /\ ~ OneMatches /\ AtStar
    /\ star' = pi
    /\ pi' = pi + 1
    /\ tstar' = ti
    /\ UNCHANGED <<args, ti, verdict>>

(* Mutant of Backtrack: the search goes on from the current character.     *)
BacktrackForward ==
    /\ InText /\ ~ OneMatches /\ ~ AtStar /\ star # 0
    /\ pi' = star + 1
    /\ tstar' = ti + 1
    /\ ti' = ti + 1
    /\ UNCHANGED <<args, star, verdict>>

(* Mutant of Backtrack: tstar is not incremented.                          *)
BacktrackInPlace ==
    /\ InText /\ ~ OneMatches /\ ~ AtStar /\ star # 0
    /\ pi' = star + 1
    /\ ti' = tstar
    /\ UNCHANGED <<args, star, tstar, verdict>>

Backtrack ==
    /\ InText /\ ~ OneMatches /\ ~ AtStar /\ star # 0
    /\ pi' = star + 1
    /\ tstar' = tstar + 1
    /\ ti' = tstar + 1
    /\ UNCHANGED <<args, star, verdict>>

Fail ==
    /\ InText /\ ~ OneMatches /\ ~ AtStar /\ star = 0
    /\ verdict' = "no"
    /\ UNCHANGED <<args, ti, pi, star, tstar>>

(* Past the end of the text: only "%" may be left of the pattern.          *)
SkipStar ==
    /\ verdict = "running" /\ ti > Len(text) /\ AtStar
    /\ pi' = pi + 1
    /\ UNCHANGED <<args, ti, star, tstar, verdict>>

Finish ==
    /\ verdict = "running" /\ ti > Len(text) /\ ~ AtStar
    /\ verdict' = IF pi = Len(pattern) + 1 THEN "yes" ELSE "no"
    /\ UNCHANGED <<args, ti, pi, star, tstar>>

(* The function has returned.                                              *)
Returned == verdict # "running" /\ UNCHANGED likeVars

LikeNext == Advance \/ MeetStar \/ Backtrack \/ Fail \/ SkipStar \/ Finish \/ Returned

LikeSpec == LikeInit /\ [][LikeNext]_likeVars

(* One thread runs the loop, and every turn of it ends.                    *)
LikeFairness == WF_likeVars(Advance \/ MeetStar \/ Backtrack \/ Fail \/ SkipStar \/ Finish)

FairLikeSpec == LikeSpec /\ LikeFairness

-----------------------------------------------------------------------------
(* What LIKE means                                                         *)

(* Where in the text t a match may be once the pattern's character q is    *)
(* behind it, if it may be at the places S before it.                      *)
Behind(q, S, t, insensitive) ==
    IF q = Run
    THEN {k \in 1..Len(t) + 1 : \E i \in S : i <= k}
    ELSE {k \in 2..Len(t) + 1 : /\ k - 1 \in S
                                /\ Fits(q, t[k - 1], insensitive)}

(* Where in t a match of the pattern p may be when it comes to the         *)
(* pattern's j-th character.                                               *)
Places(t, p, insensitive) ==
    LET at[j \in 1..Len(p) + 1] ==
            IF j = 1 THEN {1} ELSE Behind(p[j - 1], at[j - 1], t, insensitive)
    IN  at

(* The text matches the pattern: both may be used up together.             *)
Likes == Len(text) + 1 \in Places(text, pattern, ci)[Len(pattern) + 1]

-----------------------------------------------------------------------------
(* Properties                                                              *)

(* Positions stay inside the text and the pattern: the loop never indexes  *)
(* past the end of either string, and a backtrack always goes forward in   *)
(* the text.                                                               *)
TypeOK ==
    /\ ti \in 1..Len(text) + 1
    /\ pi \in 1..Len(pattern) + 1
    /\ star \in 0..Len(pattern)
    /\ tstar \in 1..Len(text) + 1
    /\ ci \in BOOLEAN
    /\ verdict \in {"running", "yes", "no"}

(* Every turn of the loop moves on: to a later "%", or to a later place    *)
(* for the run of the same "%", or further in the pattern from the same    *)
(* place, or to the verdict.  With the bounds of TypeOK the number of      *)
(* turns is bounded.                                                       *)
SearchAdvances ==
    [][\/ star' > star
       \/ star' = star /\ tstar' > tstar
       \/ star' = star /\ tstar' = tstar /\ pi' > pi
       \/ verdict' # "running"]_likeVars

(* "%" (any run) and "_" (one char): the verdict is the meaning of LIKE,   *)
(* although only the last "%" is ever reconsidered.                        *)
VerdictIsLike == verdict # "running" => (verdict = "yes" <=> Likes)

(* The segment of the pattern from the last "%" up to j holds no other.    *)
OneSegment(j) == \A x \in star + 1..j : pattern[x] # Run

(* The match that has the run of the last "%" end before place k of the    *)
(* text goes wrong inside the segment behind it: at a character that does  *)
(* not fit, or at the end of a pattern that leaves text over.              *)
Hopeless(k) ==
    \/ \E x \in star + 1..Len(pattern) :
          /\ OneSegment(x)
          /\ \/ k + (x - star) - 1 > Len(text)
             \/ ~ Fits(pattern[x], text[k + (x - star) - 1], ci)
    \/ OneSegment(Len(pattern)) /\ k + (Len(pattern) - star) <= Len(text)

(* Nothing is reconsidered yet, or no longer: there is one place the match *)
(* may be at.                                                              *)
SinglePlace ==
    /\ star = 0 \/ ti = Len(text) + 1
    /\ Places(text, pattern, ci)[pi] = {ti}

(* Behind a "%": the loop has come straight from where its run stopped,    *)
(* which may still be moved on to every later place, and the earlier       *)
(* places are hopeless.                                                    *)
BehindStar ==
    LET after == Places(text, pattern, ci)[star + 1] IN
    /\ star # 0
    /\ pattern[star] = Run
    /\ ti - tstar = pi - (star + 1)
    /\ OneSegment(pi - 1)
    /\ tstar..Len(text) + 1 \subseteq after
    /\ \A k \in after : k < tstar => Hopeless(k)

(* The inductive invariant: the place the loop is at is one a match may be *)
(* at, and no place it has given up leads to a match.                      *)
IInv ==
    /\ TypeOK
    /\ star < pi
    /\ tstar <= ti
    /\ verdict = "running" => /\ ti \in Places(text, pattern, ci)[pi]
                              /\ SinglePlace \/ BehindStar
    /\ VerdictIsLike

(* The backtracking search ends.                                           *)
Terminates == <>(verdict # "running")
=============================================================================
