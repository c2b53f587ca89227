--------------------------- MODULE LikeMatchProofs ---------------------------
(***************************************************************************)
(* The loop of likeMatch stays inside its two strings, keeps moving and    *)
(* decides what LIKE means, for every alphabet and every length.           *)
(***************************************************************************)
EXTENDS LikeMatch, NaturalsInduction, WellFoundedInduction, TLAPS

(* The arguments are strings, and the backtracking point lies before the   *)
(* place the loop has come to.                                             *)
LoopInv ==
    /\ TypeOK
    /\ Len(text) \in Nat
    /\ Len(pattern) \in Nat
    /\ star < pi
    /\ tstar <= ti

(* The arguments are sequences of their alphabets.                         *)
LEMMA WordIsSequence ==
    ASSUME NEW S, NEW n \in Nat, NEW w \in WordsUpTo(S, n)
    PROVE  w \in Seq(S)
<1>1. PICK k \in 0..n : w \in [1..k -> S]
  BY DEF WordsUpTo
<1> QED BY <1>1

(* The first turn finds both positions at the start of the strings.        *)
THEOREM LoopInit == LikeInit => LoopInv
<1> SUFFICES ASSUME LikeInit PROVE LoopInv
  OBVIOUS
<1>1. Len(text) \in Nat /\ Len(pattern) \in Nat
  BY WordIsSequence, LikeAssumption DEF LikeInit
<1> QED BY <1>1 DEF LikeInit, LoopInv, TypeOK

LEMMA LoopStep ==
    ASSUME LoopInv, [LikeNext]_likeVars
    PROVE  LoopInv'
<1> USE DEF LoopInv, TypeOK, args
<1>1. CASE Advance
  BY <1>1 DEF Advance, InText, OneMatches, InPattern
<1>2. CASE MeetStar
  BY <1>2 DEF MeetStar, InText, AtStar, InPattern
<1>3. CASE Backtrack
  BY <1>3 DEF Backtrack, InText
<1>4. CASE Fail
  BY <1>4 DEF Fail
<1>5. CASE SkipStar
  BY <1>5 DEF SkipStar, AtStar, InPattern
<1>6. CASE Finish
  BY <1>6 DEF Finish
<1>7. CASE UNCHANGED likeVars
  BY <1>7 DEF likeVars
<1> QED BY <1>1, <1>2, <1>3, <1>4, <1>5, <1>6, <1>7 DEF LikeNext, Returned

(* likeMatch never reads a character past the end of the text or of the    *)
(* pattern, and its positions never leave them.                            *)
THEOREM LikeInBounds == LikeSpec => []TypeOK
<1>1. LoopInv => TypeOK
  BY DEF LoopInv
<1> QED BY <1>1, LoopInit, LoopStep, PTL DEF LikeSpec

(* No turn of the loop repeats an earlier one: the triple of last "%", its *)
(* place in the text and the place in the pattern grows with every turn.   *)
THEOREM LikeAdvances == LikeSpec => SearchAdvances
<1>1. ASSUME LoopInv, [LikeNext]_likeVars
      PROVE  [\/ star' > star
              \/ star' = star /\ tstar' > tstar
              \/ star' = star /\ tstar' = tstar /\ pi' > pi
              \/ verdict' # "running"]_likeVars
  <2> USE <1>1 DEF LoopInv, TypeOK
  <2>1. CASE Advance
    BY <2>1 DEF Advance
  <2>2. CASE MeetStar
    BY <2>2 DEF MeetStar
  <2>3. CASE Backtrack
    BY <2>3 DEF Backtrack
  <2>4. CASE Fail \/ Finish
    BY <2>4 DEF Fail, Finish
  <2>5. CASE SkipStar
    BY <2>5 DEF SkipStar
  <2>6. CASE Returned \/ UNCHANGED likeVars
    BY <2>6 DEF Returned
  <2> QED BY <2>1, <2>2, <2>3, <2>4, <2>5, <2>6 DEF LikeNext
<1> QED BY <1>1, LoopInit, LoopStep, PTL DEF LikeSpec, SearchAdvances

-----------------------------------------------------------------------------
(* What LIKE means, place by place                                         *)

(* Every set of natural numbers that is not empty has a least member.      *)
LEMMA Least ==
    ASSUME NEW T, T \subseteq Nat, T # {}
    PROVE  \E m \in T : \A k \in T : m <= k
<1> DEFINE R == {ss \in Nat \X Nat : ss[1] < ss[2]}
<1>1. IsWellFoundedOn(R, Nat)
  BY NatLessThanWellFounded DEF OpToRel
<1>2. \A k, m \in Nat : k < m => <<k, m>> \in R
  OBVIOUS
<1> HIDE DEF R
<1>3. PICK m \in T : \A k \in T : ~ (<<k, m>> \in R)
  BY <1>1, WFMin
<1>4. ASSUME NEW k \in T PROVE m <= k
  <2>1. k \in Nat /\ m \in Nat
    OBVIOUS
  <2>2. ~ (<<k, m>> \in R)
    BY <1>3
  <2>3. ~ (k < m)
    BY <1>2, <2>1, <2>2
  <2> QED BY <2>1, <2>3
<1> QED BY <1>4

(* The equation that defines Places has a solution: the places before the  *)
(* first character are given, and the places before one character give     *)
(* those before the next.                                                  *)
LEMMA PlacesEquation ==
    ASSUME NEW t, NEW p, NEW c, Len(p) \in Nat
    PROVE  /\ Places(t, p, c)[1] = {1}
           /\ \A j \in 1..Len(p) :
                Places(t, p, c)[j + 1] = Behind(p[j], Places(t, p, c)[j], t, c)
<1> DEFINE Solves(f, m) == f = [j \in 1..m + 1 |->
                IF j = 1 THEN {1} ELSE Behind(p[j - 1], f[j - 1], t, c)]
<1>1. \A m \in Nat : \E f : Solves(f, m)
  <2> DEFINE T == {m \in Nat : ~ \E f : Solves(f, m)}
  <2> SUFFICES ASSUME T # {} PROVE FALSE
    OBVIOUS
  <2>1. T \subseteq Nat
    OBVIOUS
  <2>2. PICK m \in T : \A k \in T : m <= k
    <3> HIDE DEF T
    <3> QED BY Least, <2>1
  <2>3. CASE m = 0
    <3>1. Solves([j \in 1..1 |-> {1}], 0)
      OBVIOUS
    <3> QED BY <3>1, <2>3
  <2>4. CASE m # 0
    <3>1. m - 1 \in Nat /\ m - 1 \notin T
      <4> HIDE DEF T
      <4> QED BY <2>1, <2>2, <2>4
    <3>2. PICK g : Solves(g, m - 1)
      BY <3>1
    <3>3. Solves([j \in 1..m + 1 |-> IF j = m + 1 THEN Behind(p[m], g[m], t, c) ELSE g[j]], m)
      <4> DEFINE h == [j \in 1..m + 1 |-> IF j = m + 1 THEN Behind(p[m], g[m], t, c) ELSE g[j]]
      <4>1. \A j \in 1..m : g[j] = IF j = 1 THEN {1} ELSE Behind(p[j - 1], g[j - 1], t, c)
        <5>1. m \in Nat /\ (m - 1) + 1 = m
          BY <2>1
        <5> QED BY <3>2, <5>1
      <4>2. ASSUME NEW j \in 1..m + 1
            PROVE  h[j] = IF j = 1 THEN {1} ELSE Behind(p[j - 1], h[j - 1], t, c)
        <5>1. CASE j = m + 1
          BY <5>1, <2>4, <3>1
        <5>2. CASE j # m + 1
          <6>1. j \in 1..m /\ h[j] = g[j] /\ (j # 1 => h[j - 1] = g[j - 1])
            BY <5>2, <3>1
          <6> HIDE DEF h
          <6> QED BY <4>1, <6>1
        <5> QED BY <5>1, <5>2
      <4> QED BY <4>2
    <3> QED BY <3>3
  <2> QED BY <2>3, <2>4
<1> DEFINE f == CHOOSE f : Solves(f, Len(p))
<1>2. Places(t, p, c) = f
  BY DEF Places
<1>3. Solves(f, Len(p))
  BY <1>1
<1> HIDE DEF f
<1>4. f[1] = {1}
  BY <1>3
<1>5. ASSUME NEW j \in 1..Len(p)
      PROVE  f[j + 1] = Behind(p[j], f[j], t, c)
  <2>1. j + 1 \in 1..Len(p) + 1 /\ j + 1 # 1 /\ (j + 1) - 1 = j
    OBVIOUS
  <2> QED BY <1>3, <2>1
<1> QED BY <1>2, <1>4, <1>5

(* A match is always somewhere in the text, or behind its last character.  *)
LEMMA PlacesInText ==
    ASSUME NEW t, NEW p, NEW c, Len(p) \in Nat, Len(t) \in Nat,
           NEW j \in 1..Len(p) + 1
    PROVE  Places(t, p, c)[j] \subseteq 1..Len(t) + 1
<1> DEFINE P == Places(t, p, c)
<1>1. P[1] = {1} /\ \A x \in 1..Len(p) : P[x + 1] = Behind(p[x], P[x], t, c)
  BY PlacesEquation
<1> SUFFICES P[j] \subseteq 1..Len(t) + 1
  OBVIOUS
<1> HIDE DEF P
<1>2. CASE j = 1
  BY <1>1, <1>2
<1>3. CASE j # 1
  <2>1. j - 1 \in 1..Len(p) /\ (j - 1) + 1 = j
    BY <1>3
  <2>2. P[j] = Behind(p[j - 1], P[j - 1], t, c)
    BY <1>1, <2>1
  <2> QED BY <2>2 DEF Behind
<1> QED BY <1>2, <1>3

(* No match comes to a later character than to one it cannot come to.      *)
LEMMA NowhereAfter ==
    ASSUME NEW t, NEW p, NEW c, Len(p) \in Nat,
           NEW j \in 1..Len(p) + 1, Places(t, p, c)[j] = {}
    PROVE  \A k \in j..Len(p) + 1 : Places(t, p, c)[k] = {}
<1> DEFINE P == Places(t, p, c)
<1> DEFINE T == {k \in j..Len(p) + 1 : P[k] # {}}
<1> SUFFICES ASSUME T # {} PROVE FALSE
  OBVIOUS
<1>1. \A x \in 1..Len(p) : P[x + 1] = Behind(p[x], P[x], t, c)
  BY PlacesEquation
<1>2. P[j] = {}
  OBVIOUS
<1> HIDE DEF P
<1>3. T \subseteq Nat
  OBVIOUS
<1>4. PICK k \in T : \A l \in T : k <= l
  <2> HIDE DEF T
  <2> QED BY Least, <1>3
<1>5. k # j /\ k - 1 \in j..Len(p) /\ (k - 1) + 1 = k
  BY <1>2
<1>6. k - 1 \notin T
  <2> HIDE DEF T
  <2> QED BY <1>3, <1>4, <1>5
<1>7. P[k - 1] = {}
  BY <1>5, <1>6
<1>8. P[k] = Behind(p[k - 1], P[k - 1], t, c)
  BY <1>1, <1>5
<1> QED BY <1>7, <1>8 DEF Behind

(* Without a "%" in between, a match that comes to the j-th character came *)
(* to the s-th as many places before, and every character on the way fits. *)
LEMMA Straight ==
    ASSUME NEW t, NEW p, NEW c, Len(p) \in Nat, Len(t) \in Nat,
           NEW s \in 1..Len(p) + 1, NEW j \in s..Len(p) + 1,
           \A x \in s..j - 1 : p[x] # Run,
           NEW i \in Places(t, p, c)[j]
    PROVE  /\ i - (j - s) \in Places(t, p, c)[s]
           /\ \A x \in s..j - 1 : /\ i - (j - x) \in 1..Len(t)
                                  /\ Fits(p[x], t[i - (j - x)], c)
<1> DEFINE P == Places(t, p, c)
<1> DEFINE Came(k, l) == /\ l - (k - s) \in P[s]
                         /\ \A x \in s..k - 1 : /\ l - (k - x) \in 1..Len(t)
                                                /\ Fits(p[x], t[l - (k - x)], c)
<1> DEFINE T == {k \in s..j : \E l \in P[k] : ~ Came(k, l)}
<1>1. \A x \in 1..Len(p) : P[x + 1] = Behind(p[x], P[x], t, c)
  BY PlacesEquation
<1>2. \A x \in 1..Len(p) + 1 : P[x] \subseteq 1..Len(t) + 1
  BY PlacesInText
<1> HIDE DEF P
<1>3. T = {}
  <2> SUFFICES ASSUME T # {} PROVE FALSE
    OBVIOUS
  <2>1. T \subseteq Nat
    OBVIOUS
  <2>2. PICK k \in T : \A l \in T : k <= l
    <3> HIDE DEF T
    <3> QED BY Least, <2>1
  <2>3. PICK l \in P[k] : ~ Came(k, l)
    OBVIOUS
  <2>4. k \in s..j /\ l \in 1..Len(t) + 1
    BY <1>2
  <2>5. k # s
    BY <2>3, <2>4
  <2>6. k - 1 \in s..j - 1 /\ (k - 1) + 1 = k /\ k - 1 \in 1..Len(p)
    BY <2>4, <2>5
  <2>7. k - 1 \notin T
    <3> HIDE DEF T
    <3> QED BY <2>1, <2>2, <2>6
  <2>8. /\ l - 1 \in P[k - 1] /\ l - 1 \in 1..Len(t)
        /\ Fits(p[k - 1], t[l - 1], c)
    <3>1. l \in Behind(p[k - 1], P[k - 1], t, c) /\ p[k - 1] # Run
      BY <1>1, <2>3, <2>6
    <3> QED BY <3>1, <2>4 DEF Behind
  <2>9. Came(k - 1, l - 1)
    <3>1. k - 1 \in s..j
      BY <2>6
    <3> HIDE DEF Came
    <3> QED BY <2>7, <2>8, <3>1
  <2>10. Came(k, l)
    <3>1. l - (k - s) = (l - 1) - ((k - 1) - s)
      BY <2>4
    <3>2. ASSUME NEW x \in s..k - 1
          PROVE  /\ l - (k - x) \in 1..Len(t)
                 /\ Fits(p[x], t[l - (k - x)], c)
      <4>1. CASE x = k - 1
        <5>1. l - (k - x) = l - 1
          BY <2>4, <4>1
        <5> QED BY <5>1, <2>8, <4>1
      <4>2. CASE x # k - 1
        <5>1. x \in s..(k - 1) - 1 /\ l - (k - x) = (l - 1) - ((k - 1) - x)
          BY <2>4, <4>2
        <5> QED BY <5>1, <2>9
      <4> QED BY <4>1, <4>2
    <3> QED BY <3>1, <3>2, <2>9
  <2> QED BY <2>3, <2>10
<1>4. Came(j, i)
  <2>1. i \in P[j]
    BY DEF P
  <2> QED BY <1>3, <2>1
<1> QED BY <1>4 DEF P

-----------------------------------------------------------------------------
(* The arguments are strings, and the "%" of a pattern is not a character  *)
(* of the text: norm(pattern[pi]) == norm(text[ti]) is tested first.       *)
Strings ==
    /\ text \in Seq(TextChars)
    /\ pattern \in Seq(PatternChars)

NoRunInTexts == \A c \in TextChars : c.letter # "%"

MatchInv == Strings /\ IInv

LEMMA MatchInit ==
    ASSUME LikeInit PROVE MatchInv
<1>1. Strings
  BY WordIsSequence, LikeAssumption DEF LikeInit, Strings
<1>2. Len(text) \in Nat /\ Len(pattern) \in Nat
  BY <1>1 DEF Strings
<1>3. Places(text, pattern, ci)[1] = {1}
  BY <1>2, PlacesEquation
<1>4. SinglePlace
  BY <1>3 DEF LikeInit, SinglePlace
<1> QED BY <1>1, <1>2, <1>3, <1>4 DEF LikeInit, MatchInv, IInv, TypeOK, VerdictIsLike

(* A "%" of the pattern fits no character of the text.                     *)
LEMMA RunFitsNothing ==
    ASSUME Strings, NoRunInTexts, NEW x \in 1..Len(pattern), NEW y \in 1..Len(text),
           Fits(pattern[x], text[y], ci)
    PROVE  pattern[x] # Run
<1>1. text[y].letter # "%"
  BY DEF Strings, NoRunInTexts
<1>2. Run.letter = "%" /\ AnyOne # Run
  BY DEF Run, AnyOne, Small
<1> QED BY <1>1, <1>2 DEF Fits, SameChar

LEMMA AdvanceInv ==
    ASSUME MatchInv, NoRunInTexts, Advance
    PROVE  MatchInv'
<1> DEFINE P == Places(text, pattern, ci)
<1>1. Len(text) \in Nat /\ Len(pattern) \in Nat
  BY DEF MatchInv, Strings
<1>2. /\ ti \in 1..Len(text) /\ pi \in 1..Len(pattern)
      /\ Fits(pattern[pi], text[ti], ci)
      /\ ti \in P[pi]
      /\ SinglePlace \/ BehindStar
  BY <1>1 DEF MatchInv, IInv, TypeOK, Advance, InText, OneMatches, InPattern
<1>3. pattern[pi] # Run
  BY <1>2, RunFitsNothing DEF MatchInv
<1>4. P[pi + 1] = Behind(pattern[pi], P[pi], text, ci)
  BY <1>1, <1>2, PlacesEquation
<1>5. text' = text /\ pattern' = pattern /\ ci' = ci /\ ti' = ti + 1 /\ pi' = pi + 1
      /\ star' = star /\ tstar' = tstar /\ verdict' = verdict /\ verdict = "running"
  BY DEF Advance, args, InText
<1>6. Places(text, pattern, ci)' = P
  BY <1>5
<1> HIDE DEF P
<1>7. ti + 1 \in P[pi + 1]
  BY <1>1, <1>2, <1>3, <1>4 DEF Behind
<1>8. ASSUME SinglePlace PROVE SinglePlace'
  <2>1. star = 0 /\ P[pi] = {ti}
    BY <1>1, <1>2, <1>8 DEF SinglePlace, P
  <2>2. P[pi + 1] = {ti + 1}
    BY <1>1, <1>2, <1>3, <1>4, <2>1 DEF Behind
  <2> QED BY <1>5, <1>6, <2>1, <2>2 DEF SinglePlace
<1>9. ASSUME BehindStar PROVE BehindStar'
  <2>1. /\ star # 0 /\ pattern[star] = Run
        /\ ti - tstar = pi - (star + 1)
        /\ OneSegment(pi - 1)
        /\ tstar..Len(text) + 1 \subseteq P[star + 1]
        /\ \A k \in P[star + 1] : k < tstar => Hopeless(k)
    BY <1>9 DEF BehindStar, P
  <2>2. \A x \in star + 1..pi : pattern[x] # Run
    BY <1>2, <1>3, <2>1 DEF OneSegment, MatchInv, IInv, TypeOK
  <2>3. OneSegment(pi - 1)'
    BY <1>2, <1>5, <2>2 DEF OneSegment
  <2>4. (ti - tstar = pi - (star + 1))'
    BY <1>1, <1>2, <1>5, <2>1 DEF MatchInv, IInv, TypeOK
  <2>5. \A k : Hopeless(k)' <=> Hopeless(k)
    BY <1>5 DEF Hopeless, OneSegment
  <2> QED BY <1>5, <1>6, <2>1, <2>3, <2>4, <2>5 DEF BehindStar
<1>10. (SinglePlace \/ BehindStar)'
  BY <1>2, <1>8, <1>9
<1>11. TypeOK' /\ (star < pi)' /\ (tstar <= ti)'
  BY <1>1, <1>2, <1>5 DEF MatchInv, IInv, TypeOK
<1>12. Strings'
  BY <1>5 DEF MatchInv, Strings
<1> QED BY <1>5, <1>6, <1>7, <1>10, <1>11, <1>12 DEF MatchInv, IInv, VerdictIsLike

(* A match that comes to the end of the segment behind the last "%" comes  *)
(* straight from the end of that run, and its run was not hopeless.        *)
LEMMA SegmentStart ==
    ASSUME Strings, star \in 0..Len(pattern),
           NEW j \in star + 1..Len(pattern) + 1, OneSegment(j - 1),
           NEW i \in Places(text, pattern, ci)[j],
           j <= Len(pattern) => pattern[j] = Run,
           j = Len(pattern) + 1 => i = Len(text) + 1
    PROVE  /\ i - (j - (star + 1)) \in Places(text, pattern, ci)[star + 1]
           /\ \A x \in star + 1..j - 1 : i - (j - x) \in 1..Len(text)
           /\ ~ Hopeless(i - (j - (star + 1)))
<1> DEFINE P == Places(text, pattern, ci)
<1>1. Len(text) \in Nat /\ Len(pattern) \in Nat
  BY DEF Strings
<1>2. i \in 1..Len(text) + 1
  BY <1>1, PlacesInText
<1>3. /\ i - (j - (star + 1)) \in P[star + 1]
      /\ \A x \in star + 1..j - 1 : /\ i - (j - x) \in 1..Len(text)
                                     /\ Fits(pattern[x], text[i - (j - x)], ci)
  <2>1. star + 1 \in 1..Len(pattern) + 1 /\ j \in star + 1..Len(pattern) + 1
    BY <1>1
  <2>2. \A x \in star + 1..j - 1 : pattern[x] # Run
    BY DEF OneSegment
  <2> QED BY <1>1, <2>1, <2>2, Straight
<1> HIDE DEF P
<1>4. ASSUME NEW x \in star + 1..Len(pattern), OneSegment(x)
      PROVE  x <= j - 1
  BY <1>1, <1>4 DEF OneSegment
<1>5. ASSUME Hopeless(i - (j - (star + 1))) PROVE FALSE
  <2> DEFINE k == i - (j - (star + 1))
  <2>1. CASE \E x \in star + 1..Len(pattern) :
               /\ OneSegment(x)
               /\ \/ k + (x - star) - 1 > Len(text)
                  \/ ~ Fits(pattern[x], text[k + (x - star) - 1], ci)
    <3>1. PICK x \in star + 1..Len(pattern) :
               /\ OneSegment(x)
               /\ \/ k + (x - star) - 1 > Len(text)
                  \/ ~ Fits(pattern[x], text[k + (x - star) - 1], ci)
      BY <2>1
    <3>2. x \in star + 1..j - 1
      BY <1>1, <1>4, <3>1
    <3>3. k + (x - star) - 1 = i - (j - x)
      BY <1>1, <1>2
    <3> QED BY <1>1, <1>3, <3>1, <3>2, <3>3
  <2>2. CASE OneSegment(Len(pattern)) /\ k + (Len(pattern) - star) <= Len(text)
    <3>1. j = Len(pattern) + 1
      BY <1>1, <2>2 DEF OneSegment
    <3> QED BY <1>1, <2>2, <3>1
  <2> QED BY <1>5, <2>1, <2>2 DEF Hopeless
<1> QED BY <1>3, <1>5 DEF P

(* At a "%", no match is at an earlier place of the text than the loop.    *)
LEMMA LeastAtStar ==
    ASSUME MatchInv, verdict = "running", AtStar,
           NEW i \in Places(text, pattern, ci)[pi]
    PROVE  ti <= i
<1>1. Len(text) \in Nat /\ Len(pattern) \in Nat
  BY DEF MatchInv, Strings
<1>2. pi \in 1..Len(pattern) /\ pattern[pi] = Run
  BY <1>1 DEF MatchInv, IInv, TypeOK, AtStar, InPattern
<1>3. ti \in Int /\ tstar \in Int /\ star \in 0..Len(pattern) /\ star < pi
  BY DEF MatchInv, IInv, TypeOK
<1>4. i \in 1..Len(text) + 1
  BY <1>1, <1>2, PlacesInText
<1>5. CASE SinglePlace
  BY <1>3, <1>5 DEF SinglePlace
<1>6. CASE BehindStar
  <2> DEFINE k == i - (pi - (star + 1))
  <2>1. /\ ti - tstar = pi - (star + 1)
        /\ OneSegment(pi - 1)
        /\ \A l \in Places(text, pattern, ci)[star + 1] : l < tstar => Hopeless(l)
    BY <1>6 DEF BehindStar
  <2>2. PICK j : j = pi
    OBVIOUS
  <2>3. j \in star + 1..Len(pattern) + 1
    BY <1>1, <1>2, <1>3, <2>2
  <2>4. k \in Places(text, pattern, ci)[star + 1] /\ ~ Hopeless(k)
    BY <1>2, <1>3, <2>1, <2>2, <2>3, SegmentStart DEF MatchInv
  <2>5. ~ (k < tstar)
    BY <2>1, <2>4
  <2> QED BY <1>1, <1>2, <1>3, <1>4, <2>1, <2>5
<1> QED BY <1>5, <1>6 DEF MatchInv, IInv

LEMMA MeetStarInv ==
    ASSUME MatchInv, MeetStar
    PROVE  MatchInv'
<1> DEFINE P == Places(text, pattern, ci)
<1>1. Len(text) \in Nat /\ Len(pattern) \in Nat
  BY DEF MatchInv, Strings
<1>2. /\ ti \in 1..Len(text) /\ pi \in 1..Len(pattern)
      /\ pattern[pi] = Run /\ ti \in P[pi]
  BY <1>1 DEF MatchInv, IInv, TypeOK, MeetStar, InText, AtStar, InPattern
<1>3. P[pi + 1] = Behind(Run, P[pi], text, ci)
  BY <1>1, <1>2, PlacesEquation
<1>4. \A i \in P[pi] : ti <= i
  BY LeastAtStar DEF MeetStar, InText
<1>5. P[pi] \subseteq 1..Len(text) + 1
  BY <1>1, <1>2, PlacesInText
<1>6. text' = text /\ pattern' = pattern /\ ci' = ci /\ ti' = ti /\ pi' = pi + 1
      /\ star' = pi /\ tstar' = ti /\ verdict' = verdict /\ verdict = "running"
  BY DEF MeetStar, args, InText
<1>7. Places(text, pattern, ci)' = P
  BY <1>6
<1> HIDE DEF P
<1>8. P[pi + 1] = ti..Len(text) + 1
  BY <1>1, <1>2, <1>3, <1>4, <1>5 DEF Behind
<1>9. OneSegment(pi - 1)'
  BY <1>2, <1>6 DEF OneSegment
<1>10. \A k \in P[pi + 1] : ~ (k < ti)
  BY <1>1, <1>2, <1>8
<1>11. BehindStar'
  BY <1>1, <1>2, <1>6, <1>7, <1>8, <1>9, <1>10 DEF BehindStar
<1>12. ti \in P[pi + 1]
  BY <1>1, <1>2, <1>8
<1>13. TypeOK' /\ (star < pi)' /\ (tstar <= ti)'
  BY <1>1, <1>2, <1>6 DEF MatchInv, IInv, TypeOK
<1>14. Strings'
  BY <1>6 DEF MatchInv, Strings
<1> QED BY <1>6, <1>7, <1>11, <1>12, <1>13, <1>14 DEF MatchInv, IInv, VerdictIsLike

(* The place a backtrack gives up is hopeless: the character behind the    *)
(* segment matched so far does not fit, or the pattern is used up.         *)
LEMMA BacktrackInv ==
    ASSUME MatchInv, Backtrack
    PROVE  MatchInv'
<1> DEFINE P == Places(text, pattern, ci)
<1>1. Len(text) \in Nat /\ Len(pattern) \in Nat
  BY DEF MatchInv, Strings
<1>2. /\ ti \in 1..Len(text) /\ pi \in 1..Len(pattern) + 1
      /\ star \in 1..Len(pattern) /\ star < pi
      /\ tstar \in 1..Len(text) /\ tstar <= ti
      /\ pi <= Len(pattern) => pattern[pi] # Run /\ ~ Fits(pattern[pi], text[ti], ci)
  BY <1>1 DEF MatchInv, IInv, TypeOK, Backtrack, InText, OneMatches, AtStar, InPattern
<1>3. BehindStar
  <2>1. verdict = "running"
    BY DEF Backtrack, InText
  <2>2. ~ SinglePlace
    BY <1>1, <1>2 DEF SinglePlace
  <2> QED BY <2>1, <2>2 DEF MatchInv, IInv
<1>4. /\ star # 0 /\ pattern[star] = Run
      /\ ti - tstar = pi - (star + 1)
      /\ OneSegment(pi - 1)
      /\ tstar..Len(text) + 1 \subseteq P[star + 1]
      /\ \A k \in P[star + 1] : k < tstar => Hopeless(k)
  BY <1>3 DEF BehindStar
<1>5. Hopeless(tstar)
  <2>1. CASE pi <= Len(pattern)
    <3>1. \A x \in star + 1..pi : pattern[x] # Run
      BY <1>1, <1>2, <1>4, <2>1 DEF OneSegment
    <3>2. pi \in star + 1..Len(pattern) /\ tstar + (pi - star) - 1 = ti
      BY <1>1, <1>2, <1>4, <2>1
    <3>3. ~ Fits(pattern[pi], text[tstar + (pi - star) - 1], ci)
      BY <1>2, <2>1, <3>2
    <3> QED BY <3>1, <3>2, <3>3 DEF Hopeless, OneSegment
  <2>2. CASE pi = Len(pattern) + 1
    <3>1. \A x \in star + 1..Len(pattern) : pattern[x] # Run
      BY <1>1, <1>2, <1>4, <2>2 DEF OneSegment
    <3>2. tstar + (Len(pattern) - star) <= Len(text)
      BY <1>1, <1>2, <1>4, <2>2
    <3> QED BY <3>1, <3>2 DEF Hopeless, OneSegment
  <2> QED BY <1>1, <1>2, <2>1, <2>2
<1>6. text' = text /\ pattern' = pattern /\ ci' = ci /\ ti' = tstar + 1 /\ pi' = star + 1
      /\ star' = star /\ tstar' = tstar + 1 /\ verdict' = verdict /\ verdict = "running"
  BY DEF Backtrack, args, InText
<1>7. Places(text, pattern, ci)' = P
  BY <1>6
<1>8. P[star + 1] \subseteq 1..Len(text) + 1
  BY <1>1, <1>2, PlacesInText
<1> HIDE DEF P
<1>9. ASSUME NEW k \in P[star + 1], k < tstar + 1
      PROVE  Hopeless(k)
  <2>1. k = tstar \/ k < tstar
    BY <1>1, <1>2, <1>8, <1>9
  <2> QED BY <1>4, <1>5, <2>1
<1>10. \A k : Hopeless(k)' <=> Hopeless(k)
  BY <1>6 DEF Hopeless, OneSegment
<1>11. OneSegment(pi - 1)'
  BY <1>2, <1>6 DEF OneSegment
<1>12. tstar + 1 \in P[star + 1] /\ tstar + 1..Len(text) + 1 \subseteq P[star + 1]
  BY <1>1, <1>2, <1>4
<1>13. BehindStar'
  <2>1. star' # 0 /\ pattern'[star'] = Run /\ ti' - tstar' = pi' - (star' + 1)
    BY <1>1, <1>2, <1>4, <1>6
  <2>2. Places(text', pattern', ci')[star' + 1] = P[star + 1]
    BY <1>6, <1>7
  <2>3. \A k \in P[star + 1] : k < tstar' => Hopeless(k)'
    BY <1>6, <1>9, <1>10
  <2>4. tstar'..Len(text') + 1 \subseteq P[star + 1]
    BY <1>6, <1>12
  <2> QED BY <1>11, <2>1, <2>2, <2>3, <2>4 DEF BehindStar
<1>14. TypeOK' /\ (star < pi)' /\ (tstar <= ti)'
  BY <1>1, <1>2, <1>6 DEF MatchInv, IInv, TypeOK
<1>15. Strings'
  BY <1>6 DEF MatchInv, Strings
<1> QED BY <1>6, <1>7, <1>12, <1>13, <1>14, <1>15 DEF MatchInv, IInv, VerdictIsLike

(* Without a "%" to go back to there was one place a match may be at, and  *)
(* it cannot go on from there.                                             *)
LEMMA FailInv ==
    ASSUME MatchInv, Fail
    PROVE  MatchInv'
<1> DEFINE P == Places(text, pattern, ci)
<1>1. Len(text) \in Nat /\ Len(pattern) \in Nat
  BY DEF MatchInv, Strings
<1>2. /\ ti \in 1..Len(text) /\ pi \in 1..Len(pattern) + 1
      /\ pi <= Len(pattern) => pattern[pi] # Run /\ ~ Fits(pattern[pi], text[ti], ci)
  BY <1>1 DEF MatchInv, IInv, TypeOK, Fail, InText, OneMatches, AtStar, InPattern
<1>3. P[pi] = {ti}
  BY DEF MatchInv, IInv, Fail, InText, SinglePlace, BehindStar
<1>4. ~ Likes
  <2>1. CASE pi = Len(pattern) + 1
    BY <1>1, <1>2, <1>3, <2>1 DEF Likes
  <2>2. CASE pi <= Len(pattern)
    <3>1. P[pi + 1] = Behind(pattern[pi], P[pi], text, ci)
      BY <1>1, <1>2, <2>2, PlacesEquation
    <3>2. P[pi + 1] = {}
      <4> HIDE DEF P
      <4> QED BY <1>1, <1>2, <1>3, <2>2, <3>1 DEF Behind
    <3>3. pi + 1 \in 1..Len(pattern) + 1 /\ Len(pattern) + 1 \in pi + 1..Len(pattern) + 1
      BY <1>1, <1>2, <2>2
    <3>4. P[Len(pattern) + 1] = {}
      BY <1>1, <3>2, <3>3, NowhereAfter
    <3> QED BY <3>4 DEF Likes
  <2> QED BY <1>1, <1>2, <2>1, <2>2
<1>5. /\ text' = text /\ pattern' = pattern /\ ci' = ci /\ ti' = ti /\ pi' = pi
      /\ star' = star /\ tstar' = tstar /\ verdict' = "no"
  BY DEF Fail, args
<1>6. ~ Likes'
  BY <1>4, <1>5 DEF Likes
<1> QED BY <1>5, <1>6 DEF MatchInv, IInv, TypeOK, Strings, VerdictIsLike

(* Behind the text, a match that may be at a "%" is at the end.            *)
LEMMA SkipStarInv ==
    ASSUME MatchInv, SkipStar
    PROVE  MatchInv'
<1> DEFINE P == Places(text, pattern, ci)
<1>1. Len(text) \in Nat /\ Len(pattern) \in Nat
  BY DEF MatchInv, Strings
<1>2. /\ ti = Len(text) + 1 /\ pi \in 1..Len(pattern)
      /\ pattern[pi] = Run /\ ti \in P[pi]
  BY <1>1 DEF MatchInv, IInv, TypeOK, SkipStar, AtStar, InPattern
<1>3. P[pi + 1] = Behind(Run, P[pi], text, ci)
  BY <1>1, <1>2, PlacesEquation
<1>4. \A i \in P[pi] : ti <= i
  BY LeastAtStar DEF SkipStar
<1>5. P[pi] \subseteq 1..Len(text) + 1
  BY <1>1, <1>2, PlacesInText
<1>6. text' = text /\ pattern' = pattern /\ ci' = ci /\ ti' = ti /\ pi' = pi + 1
      /\ star' = star /\ tstar' = tstar /\ verdict' = verdict /\ verdict = "running"
  BY DEF SkipStar, args
<1>7. Places(text, pattern, ci)' = P
  BY <1>6
<1> HIDE DEF P
<1>8. P[pi + 1] = {ti}
  BY <1>1, <1>2, <1>3, <1>4, <1>5 DEF Behind
<1>9. SinglePlace'
  BY <1>2, <1>6, <1>7, <1>8 DEF SinglePlace
<1>10. TypeOK' /\ (star < pi)' /\ (tstar <= ti)'
  BY <1>1, <1>2, <1>6 DEF MatchInv, IInv, TypeOK
<1>11. Strings'
  BY <1>6 DEF MatchInv, Strings
<1> QED BY <1>6, <1>7, <1>8, <1>9, <1>10, <1>11 DEF MatchInv, IInv, VerdictIsLike

(* The text is used up and the pattern is not, and what is left of it does *)
(* not start with a "%": no match.  One would come to the end of the       *)
(* segment behind the last "%" from a place the loop has given up, or from *)
(* a later one than the loop's, which leaves too little text.              *)
LEMMA NothingLeft ==
    ASSUME MatchInv, verdict = "running", ti = Len(text) + 1, ~ AtStar,
           pi <= Len(pattern)
    PROVE  ~ Likes
<1> DEFINE P == Places(text, pattern, ci)
<1>1. Len(text) \in Nat /\ Len(pattern) \in Nat
  BY DEF MatchInv, Strings
<1>2. /\ pi \in 1..Len(pattern) /\ pattern[pi] # Run
      /\ star \in 0..Len(pattern) /\ star < pi /\ tstar \in 1..Len(text) + 1
  BY <1>1 DEF MatchInv, IInv, TypeOK, AtStar, InPattern
<1>3. CASE SinglePlace
  <2>1. P[pi] = {Len(text) + 1}
    BY <1>3 DEF SinglePlace
  <2>2. P[pi + 1] = Behind(pattern[pi], P[pi], text, ci)
    BY <1>1, <1>2, PlacesEquation
  <2>3. P[pi + 1] = {}
    <3> HIDE DEF P
    <3> QED BY <1>1, <1>2, <2>1, <2>2 DEF Behind
  <2>4. pi + 1 \in 1..Len(pattern) + 1 /\ Len(pattern) + 1 \in pi + 1..Len(pattern) + 1
    BY <1>1, <1>2
  <2>5. P[Len(pattern) + 1] = {}
    BY <1>1, <2>3, <2>4, NowhereAfter
  <2> QED BY <2>5 DEF Likes
<1>4. CASE BehindStar
  <2> DEFINE T == {x \in star + 1..Len(pattern) + 1 :
                     x <= Len(pattern) => pattern[x] = Run}
  <2> SUFFICES ASSUME Likes PROVE FALSE
    OBVIOUS
  <2>1. /\ ti - tstar = pi - (star + 1)
        /\ OneSegment(pi - 1)
        /\ \A k \in P[star + 1] : k < tstar => Hopeless(k)
    BY <1>4 DEF BehindStar
  <2>2. T \subseteq Nat /\ Len(pattern) + 1 \in T
    BY <1>1, <1>2
  <2>3. PICK j \in T : \A x \in T : j <= x
    <3> HIDE DEF T
    <3> QED BY Least, <2>2
  <2>4. j \in star + 1..Len(pattern) + 1 /\ (j <= Len(pattern) => pattern[j] = Run)
    OBVIOUS
  <2>5. ASSUME NEW x \in star + 1..j - 1 PROVE pattern[x] # Run
    <3>1. x \in star + 1..Len(pattern) /\ x < j
      BY <1>1, <1>2, <2>4
    <3>2. x \notin T
      <4> HIDE DEF T
      <4> QED BY <1>1, <1>2, <2>3, <2>4, <3>1
    <3> QED BY <1>1, <1>2, <3>1, <3>2
  <2>6. pi \in star + 1..j - 1
    BY <1>1, <1>2, <2>1, <2>4 DEF OneSegment
  <2>7. Len(text) + 1 \in P[Len(pattern) + 1]
    BY DEF Likes
  <2>8. P[j] # {}
    <3>1. j \in 1..Len(pattern) + 1 /\ Len(pattern) + 1 \in j..Len(pattern) + 1
      BY <1>1, <1>2, <2>4
    <3> QED BY <1>1, <2>7, <3>1, NowhereAfter
  <2>9. PICK i \in P[j] : j = Len(pattern) + 1 => i = Len(text) + 1
    BY <2>7, <2>8
  <2> DEFINE k == i - (j - (star + 1))
  <2>10. i \in 1..Len(text) + 1
    BY <1>1, <1>2, <2>4, PlacesInText
  <2>11. OneSegment(j - 1)
    BY <2>5 DEF OneSegment
  <2>12. /\ k \in P[star + 1]
         /\ \A x \in star + 1..j - 1 : i - (j - x) \in 1..Len(text)
         /\ ~ Hopeless(k)
    BY <1>2, <2>4, <2>9, <2>11, SegmentStart DEF MatchInv
  <2>13. i - (j - pi) <= Len(text)
    BY <1>1, <2>6, <2>12
  <2>14. ~ (k < tstar)
    BY <2>1, <2>12
  <2> QED BY <1>1, <1>2, <2>1, <2>4, <2>10, <2>13, <2>14
<1> QED BY <1>3, <1>4 DEF MatchInv, IInv

LEMMA FinishInv ==
    ASSUME MatchInv, Finish
    PROVE  MatchInv'
<1>1. Len(text) \in Nat /\ Len(pattern) \in Nat
  BY DEF MatchInv, Strings
<1>2. /\ ti = Len(text) + 1 /\ pi \in 1..Len(pattern) + 1
      /\ verdict = "running" /\ ~ AtStar
      /\ ti \in Places(text, pattern, ci)[pi]
  BY <1>1 DEF MatchInv, IInv, TypeOK, Finish
<1>3. Likes <=> pi = Len(pattern) + 1
  <2>1. CASE pi = Len(pattern) + 1
    BY <1>2, <2>1 DEF Likes
  <2>2. CASE pi <= Len(pattern)
    <3>1. ~ Likes
      BY <1>2, <2>2, NothingLeft
    <3> QED BY <1>1, <2>2, <3>1
  <2> QED BY <1>1, <1>2, <2>1, <2>2
<1>4. /\ text' = text /\ pattern' = pattern /\ ci' = ci /\ ti' = ti /\ pi' = pi
      /\ star' = star /\ tstar' = tstar
      /\ verdict' = IF pi = Len(pattern) + 1 THEN "yes" ELSE "no"
  BY DEF Finish, args
<1>5. Likes' <=> Likes
  BY <1>4 DEF Likes
<1>6. verdict' \in {"yes", "no"} /\ (verdict' = "yes" <=> pi = Len(pattern) + 1)
  BY <1>4
<1>7. VerdictIsLike'
  BY <1>3, <1>5, <1>6 DEF VerdictIsLike
<1> QED BY <1>4, <1>6, <1>7 DEF MatchInv, IInv, TypeOK, Strings

LEMMA MatchStep ==
    ASSUME MatchInv, NoRunInTexts, [LikeNext]_likeVars
    PROVE  MatchInv'
<1>1. CASE UNCHANGED likeVars
  <2>1. /\ text' = text /\ pattern' = pattern /\ ci' = ci /\ ti' = ti /\ pi' = pi
        /\ star' = star /\ tstar' = tstar /\ verdict' = verdict
    BY <1>1 DEF likeVars
  <2>2. /\ SinglePlace' <=> SinglePlace
        /\ BehindStar' <=> BehindStar
        /\ Likes' <=> Likes
    BY <2>1 DEF SinglePlace, BehindStar, Hopeless, OneSegment, Likes
  <2> QED BY <2>1, <2>2 DEF MatchInv, IInv, TypeOK, Strings, VerdictIsLike
<1> QED BY <1>1, AdvanceInv, MeetStarInv, BacktrackInv, FailInv, SkipStarInv, FinishInv
        DEF LikeNext, Returned

(* The loop's invariant for every text and pattern: it is where a match    *)
(* may be, and the places it has given up lead to none.                    *)
THEOREM LikeInvariance ==
    ASSUME NoRunInTexts
    PROVE  LikeSpec => []IInv
<1>1. MatchInv => IInv
  BY DEF MatchInv
<1>2. LikeInit => MatchInv
  BY MatchInit
<1>3. MatchInv /\ [LikeNext]_likeVars => MatchInv'
  BY MatchStep
<1> QED BY <1>1, <1>2, <1>3, PTL DEF LikeSpec

(* likeMatch answers as LIKE is meant, although it goes back to the last   *)
(* "%" only: for every text, every pattern and either kind of comparison,  *)
(* if no text holds a "%" (the loop compares before it looks for a "%" in  *)
(* the pattern, and a "%" in the text is taken for its equal there).       *)
THEOREM LikeDecides ==
    ASSUME NoRunInTexts
    PROVE  LikeSpec => []VerdictIsLike
<1>1. IInv => VerdictIsLike
  BY DEF IInv
<1> QED BY <1>1, LikeInvariance, PTL
=============================================================================
