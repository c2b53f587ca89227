---------------------------- MODULE LexerProofs ----------------------------
(***************************************************************************)
(* What the lexer passes over is blank or a comment, for every text.       *)
(*                                                                         *)
(* The ends of quoted texts and of comments are recursive functions.  That *)
(* their equations have solutions, and that the solutions stay within the  *)
(* text, is shown from the end of the text backwards, by the least         *)
(* distance from the end at which it could fail.                           *)
(***************************************************************************)
EXTENDS Lexer, NaturalsInduction, WellFoundedInduction, SequenceTheorems, TLAPS

TokenKinds == Keywords \cup {op[2] : op \in Operators} \cup
    {"LIT_INTEGER", "LIT_FLOAT", "LIT_STRING", "IDENT", "PARAM", "EOF", "ERROR"}
Token == [kind : TokenKinds, from : Nat, to : Nat]

(* Types of the lexer's members; the scan is in the text or at its end.    *)
LexTypes ==
    /\ source \in Seq(STRING)
    /\ tokens \in Seq(Token)
    /\ pos \in 1..Len(source) + 1

(* Every set of natural numbers that is not empty has a least member.      *)
LEMMA Least ==
    ASSUME NEW T, T \subseteq Nat, T # {}
    PROVE  \E m \in T : \A k \in T : m <= k
<1> DEFINE R == {ss \in Nat \X Nat : ss[1] < ss[2]}
<1>1. IsWellFoundedOn(R, Nat)
  BY NatLessThanWellFounded DEF OpToRel
<1>2. \A k, m \in Nat : k < m => <<k, m>> \in R
  OBVIOUS
<1> HIDE DEF R
<1>3. PICK m \in T : \A k \in T : ~ (<<k, m>> \in R)
  BY <1>1, WFMin
<1>4. ASSUME NEW k \in T PROVE m <= k
  <2>1. k \in Nat /\ m \in Nat
    OBVIOUS
  <2>2. ~ (<<k, m>> \in R)
    BY <1>3
  <2>3. ~ (k < m)
    BY <1>2, <2>1, <2>2
  <2> QED BY <2>1, <2>3
<1> QED BY <1>4

(* A run of symbols of S ends in the text or at its end.                   *)
LEMMA RunEnds ==
    ASSUME LexTypes, NEW i \in 1..Len(source) + 1, NEW S, "EOT" \notin S
    PROVE  /\ RunEnd(i, S) \in i..Len(source) + 1
           /\ \A k \in i..RunEnd(i, S) - 1 : source[k] \in S
<1> DEFINE n == Len(source)
           T == {j \in i..n + 1 : SymbolAt(j) \notin S}
           P(j) == SymbolAt(j) \notin S /\ \A k \in i..(j - 1) : source[k] \in S
<1>1. n \in Nat
  BY LenProperties DEF LexTypes
<1>2. n + 1 \in T /\ T \subseteq Nat
  BY <1>1 DEF SymbolAt
<1>3. PICK j \in T : \A k \in T : j <= k
  <2> HIDE DEF T
  <2> QED BY <1>2, Least
<1>4. j \in i..n + 1 /\ P(j)
  BY <1>1, <1>3 DEF SymbolAt
<1>5. RunEnd(i, S) = CHOOSE jj \in i..n + 1 : P(jj)
  BY DEF RunEnd
<1> HIDE DEF P
<1>6. RunEnd(i, S) \in i..n + 1 /\ P(RunEnd(i, S))
  BY <1>4, <1>5
<1> QED BY <1>6 DEF P

LEMMA StartAfterBlanks ==
    ASSUME LexTypes
    PROVE  /\ Start \in pos..Len(source) + 1
           /\ \A k \in pos..Start - 1 : source[k] \in Blank
  BY RunEnds DEF Start, Blank, LexTypes

(* A position whose symbol is not the end of the text lies in the text.    *)
LEMMA InText ==
    ASSUME LexTypes, NEW i \in Nat, SymbolAt(i) # "EOT"
    PROVE  i <= Len(source)
  BY DEF SymbolAt
(* The equation that defines the end of a quoted text has a solution, from *)
(* the end of the text backwards.                                          *)
QuoteTurn(f, q, j) ==
    IF j > Len(source) THEN 0
    ELSE IF source[j] # q THEN f[j + 1]
    ELSE IF SymbolAt(j + 1) = q THEN f[j + 2]
    ELSE j + 1

LEMMA QuoteSolution ==
    ASSUME LexTypes, NEW q
    PROVE  \E f : f = [j \in Nat |-> QuoteTurn(f, q, j)]
<1> DEFINE n == Len(source)
           Solves(f, m) == /\ f \in [Nat -> Nat]
                           /\ \A j \in Nat : j + m > n => f[j] = QuoteTurn(f, q, j)
           T == {m \in 0..n + 1 : ~ \E f : Solves(f, m)}
<1>1. n \in Nat /\ T \subseteq Nat
  BY LenProperties DEF LexTypes
<1>2. T = {}
  <2> SUFFICES ASSUME T # {} PROVE FALSE
    OBVIOUS
  <2>1. PICK m \in T : \A k \in T : m <= k
    <3> HIDE DEF T
    <3> QED BY <1>1, Least
  <2>2. CASE m = 0
    <3>1. Solves([j \in Nat |-> 0], 0)
      BY <1>1 DEF QuoteTurn
    <3> QED BY <2>1, <2>2, <3>1
  <2>3. CASE m # 0
    <3>1. m - 1 \in 0..n + 1 /\ m - 1 \notin T /\ n + 1 - m \in Nat
      <4>1. m \in 0..n + 1
        BY <2>1
      <4> HIDE DEF T
      <4> QED BY <1>1, <2>1, <2>3, <4>1
    <3>2. PICK g : Solves(g, m - 1)
      BY <3>1
    <3> DEFINE l == n + 1 - m
               h == [j \in Nat |-> IF j = l THEN QuoteTurn(g, q, l) ELSE g[j]]
    <3>3. h \in [Nat -> Nat] /\ \A j \in Nat : h[j] = IF j = l THEN QuoteTurn(g, q, l) ELSE g[j]
      <4>1. QuoteTurn(g, q, l) \in Nat
        <5> HIDE DEF l
        <5>1. l \in Nat /\ \A k \in Nat : g[k] \in Nat
          BY <3>1, <3>2 DEF l
        <5>2. l + 1 \in Nat /\ l + 2 \in Nat
          BY <5>1
        <5> QED BY <5>1, <5>2 DEF QuoteTurn
      <4> QED BY <3>2, <4>1
    <3> HIDE DEF h
    <3>4. \A j \in Nat : j + m > n => h[j] = QuoteTurn(h, q, j)
      <4> SUFFICES ASSUME NEW j \in Nat, j + m > n
                   PROVE  h[j] = QuoteTurn(h, q, j)
        OBVIOUS
      <4>1. m \in Nat /\ j >= l /\ l \in Nat
        BY <1>1, <2>1, <3>1
      <4>2. h[j] = QuoteTurn(g, q, j)
        <5>1. j # l => j + (m - 1) > n
          BY <1>1, <4>1
        <5> QED BY <3>2, <3>3, <5>1
      <4>3. h[j + 1] = g[j + 1] /\ h[j + 2] = g[j + 2]
        <5>1. j + 1 \in Nat /\ j + 2 \in Nat /\ j + 1 # l /\ j + 2 # l
          BY <4>1
        <5> QED BY <3>3, <5>1
      <4> QED BY <4>2, <4>3 DEF QuoteTurn
    <3>5. Solves(h, m)
      BY <3>3, <3>4
    <3> QED BY <2>1, <3>5
  <2> QED BY <2>2, <2>3
<1>3. PICK f : Solves(f, n + 1)
  <2>1. n + 1 \in 0..n + 1
    BY <1>1
  <2>2. n + 1 \notin T
    <3> HIDE DEF T
    <3> QED BY <1>2
  <2> HIDE DEF Solves
  <2> QED BY <2>1, <2>2
<1>4. f = [j \in Nat |-> QuoteTurn(f, q, j)]
  <2>1. \A j \in Nat : j + (n + 1) > n
    BY <1>1
  <2> QED BY <1>3, <2>1
<1> QED BY <1>4

(* A quoted text ends behind its closing quote, or is never closed.        *)
LEMMA QuoteEnds ==
    ASSUME LexTypes, NEW i \in 1..Len(source) + 1, NEW q, q # "EOT"
    PROVE  QuoteEnd(i, q) \in {0} \cup i..Len(source) + 1
<1> DEFINE n == Len(source)
           f == CHOOSE f : f = [j \in Nat |-> QuoteTurn(f, q, j)]
           T == {m \in 0..n : f[n + 1 - m] \notin {0} \cup (n + 1 - m)..n + 1}
<1>1. QuoteEnd(i, q) = f[i]
  BY DEF QuoteEnd, QuoteTurn
<1>2. f = [j \in Nat |-> QuoteTurn(f, q, j)]
  BY QuoteSolution
<1>3. n \in Nat /\ T \subseteq Nat
  BY LenProperties DEF LexTypes
<1> HIDE DEF f
<1>4. T = {}
  <2> SUFFICES ASSUME T # {} PROVE FALSE
    OBVIOUS
  <2>1. PICK m \in T : \A k \in T : m <= k
    <3> HIDE DEF T
    <3> QED BY <1>3, Least
  <2> DEFINE j == n + 1 - m
  <2>2. m \in 0..n /\ j \in 1..n + 1 /\ f[j] \notin {0} \cup j..n + 1
    BY <1>3, <2>1
  <2>3. ASSUME NEW l \in 1..n + 1, l > j PROVE f[l] \in {0} \cup l..n + 1
    <3>1. n + 1 - l \notin T
      <4> HIDE DEF T
      <4> QED BY <1>3, <2>1, <2>2, <2>3
    <3>2. n + 1 - l \in 0..n /\ n + 1 - (n + 1 - l) = l
      BY <1>3
    <3> QED BY <3>1, <3>2
  <2> HIDE DEF j, T
  <2>4. f[j] = QuoteTurn(f, q, j)
    BY <1>2, <2>2
  <2>5. SymbolAt(j + 1) = q => j + 1 <= n
    BY <2>2, InText
  <2>6. f[j] \in {0} \cup j..n + 1
    <3>1. CASE j > n
      BY <2>4, <3>1 DEF QuoteTurn
    <3>2. CASE j <= n /\ source[j] # q
      <4>1. f[j] = f[j + 1] /\ j + 1 \in 1..n + 1 /\ j + 1 > j
        BY <1>3, <2>2, <2>4, <3>2 DEF QuoteTurn
      <4> QED BY <1>3, <2>2, <2>3, <4>1
    <3>3. CASE j <= n /\ source[j] = q /\ SymbolAt(j + 1) = q
      <4>1. f[j] = f[j + 2] /\ j + 2 \in 1..n + 1 /\ j + 2 > j
        BY <1>3, <2>2, <2>4, <2>5, <3>3 DEF QuoteTurn
      <4> QED BY <1>3, <2>2, <2>3, <4>1
    <3>4. CASE j <= n /\ source[j] = q /\ SymbolAt(j + 1) # q
      BY <1>3, <2>2, <2>4, <3>4 DEF QuoteTurn
    <3> QED BY <1>3, <2>2, <3>1, <3>2, <3>3, <3>4
  <2> QED BY <2>2, <2>6
<1>5. n + 1 - i \in 0..n /\ n + 1 - (n + 1 - i) = i
  BY <1>3
<1>6. f[i] \in {0} \cup i..n + 1
  BY <1>4, <1>5
<1> QED BY <1>1, <1>6

(* The same for comments, at every depth of nesting.                       *)
CommentTurn(f, j, depth) ==
    IF depth = 0 THEN j
    ELSE IF j > Len(source) THEN 0
    ELSE IF <<source[j], SymbolAt(j + 1)>> = <<"/", "*">> THEN f[j + 2][depth + 1]
    ELSE IF <<source[j], SymbolAt(j + 1)>> = <<"*", "/">> THEN f[j + 2][depth - 1]
    ELSE f[j + 1][depth]

LEMMA CommentSolution ==
    ASSUME LexTypes
    PROVE  \E f : f = [j \in Nat |-> [depth \in Nat |-> CommentTurn(f, j, depth)]]
<1> DEFINE n == Len(source)
           Solves(f, m) == /\ f \in [Nat -> [Nat -> Nat]]
                           /\ \A j, d \in Nat : j + m > n => f[j][d] = CommentTurn(f, j, d)
           T == {m \in 0..n + 1 : ~ \E f : Solves(f, m)}
<1>1. n \in Nat /\ T \subseteq Nat
  BY LenProperties DEF LexTypes
<1>2. T = {}
  <2> SUFFICES ASSUME T # {} PROVE FALSE
    OBVIOUS
  <2>1. PICK m \in T : \A k \in T : m <= k
    <3> HIDE DEF T
    <3> QED BY <1>1, Least
  <2>2. CASE m = 0
    <3> DEFINE g == [j \in Nat |-> [d \in Nat |-> IF d = 0 THEN j ELSE 0]]
    <3>1. g \in [Nat -> [Nat -> Nat]] /\ \A j, d \in Nat : g[j][d] = IF d = 0 THEN j ELSE 0
      OBVIOUS
    <3> HIDE DEF g
    <3>2. \A j, d \in Nat : j + 0 > n => g[j][d] = CommentTurn(g, j, d)
      <4> TAKE j \in Nat, d \in Nat
      <4> HAVE j + 0 > n
      <4>1. g[j][d] = (IF d = 0 THEN j ELSE 0) /\ j > n
        BY <1>1, <3>1
      <4> QED BY <4>1 DEF CommentTurn
    <3>3. Solves(g, 0)
      BY <3>1, <3>2
    <3> QED BY <2>1, <2>2, <3>3
  <2>3. CASE m # 0
    <3>1. m - 1 \in 0..n + 1 /\ m - 1 \notin T /\ n + 1 - m \in Nat
      <4>1. m \in 0..n + 1
        BY <2>1
      <4> HIDE DEF T
      <4> QED BY <1>1, <2>1, <2>3, <4>1
    <3>2. PICK g : Solves(g, m - 1)
      BY <3>1
    <3> DEFINE l == n + 1 - m
               h == [j \in Nat |-> IF j = l THEN [d \in Nat |-> CommentTurn(g, l, d)] ELSE g[j]]
    <3>3. \A d \in Nat : CommentTurn(g, l, d) \in Nat
      <4> TAKE d \in Nat
      <4>1. \A k, e \in Nat : g[k][e] \in Nat
        BY <3>2
      <4>2. l \in Nat
        BY <3>1
      <4> HIDE DEF l
      <4>3. l + 1 \in Nat /\ l + 2 \in Nat /\ d + 1 \in Nat /\ (d # 0 => d - 1 \in Nat)
        BY <4>2
      <4> QED BY <4>1, <4>2, <4>3 DEF CommentTurn
    <3>4. h \in [Nat -> [Nat -> Nat]]
      BY <3>2, <3>3
    <3>5. \A j, d \in Nat : h[j][d] = IF j = l THEN CommentTurn(g, l, d) ELSE g[j][d]
      OBVIOUS
    <3> HIDE DEF h
    <3>6. \A j, d \in Nat : j + m > n => h[j][d] = CommentTurn(h, j, d)
      <4> SUFFICES ASSUME NEW j \in Nat, NEW d \in Nat, j + m > n
                   PROVE  h[j][d] = CommentTurn(h, j, d)
        OBVIOUS
      <4>1. m \in Nat /\ j >= l /\ l \in Nat
        BY <1>1, <2>1, <3>1
      <4>2. h[j][d] = CommentTurn(g, j, d)
        <5>1. j # l => j + (m - 1) > n
          BY <1>1, <4>1
        <5> QED BY <3>2, <3>5, <5>1
      <4>3. \A e \in Nat : h[j + 1][e] = g[j + 1][e] /\ h[j + 2][e] = g[j + 2][e]
        <5>1. j + 1 \in Nat /\ j + 2 \in Nat /\ j + 1 # l /\ j + 2 # l
          BY <4>1
        <5> QED BY <3>5, <5>1
      <4>4. d # 0 => d - 1 \in Nat
        OBVIOUS
      <4> QED BY <4>2, <4>3, <4>4 DEF CommentTurn
    <3>7. Solves(h, m)
      BY <3>4, <3>6
    <3> QED BY <2>1, <3>7
  <2> QED BY <2>2, <2>3
<1>3. PICK f : Solves(f, n + 1)
  <2>1. n + 1 \in 0..n + 1
    BY <1>1
  <2>2. n + 1 \notin T
    <3> HIDE DEF T
    <3> QED BY <1>2
  <2> HIDE DEF Solves
  <2> QED BY <2>1, <2>2
<1>4. \A j, d \in Nat : f[j][d] = CommentTurn(f, j, d)
  <2>1. \A j \in Nat : j + (n + 1) > n
    BY <1>1
  <2> QED BY <1>3, <2>1
<1>5. f = [j \in Nat |-> [depth \in Nat |-> CommentTurn(f, j, depth)]]
  BY <1>3, <1>4
<1> QED BY <1>5

LEMMA CommentEnds ==
    ASSUME LexTypes, NEW i \in 1..Len(source) + 1
    PROVE  CommentEnd(i) \in {0} \cup i..Len(source) + 1
<1> DEFINE n == Len(source)
           f == CHOOSE f : f = [j \in Nat |-> [depth \in Nat |-> CommentTurn(f, j, depth)]]
           T == {m \in 0..n : \E d \in Nat : f[n + 1 - m][d] \notin {0} \cup (n + 1 - m)..n + 1}
<1>1. CommentEnd(i) = f[i][1]
  BY DEF CommentEnd, CommentTurn
<1>2. f = [j \in Nat |-> [depth \in Nat |-> CommentTurn(f, j, depth)]]
  BY CommentSolution
<1>3. n \in Nat /\ T \subseteq Nat
  BY LenProperties DEF LexTypes
<1> HIDE DEF f
<1>4. T = {}
  <2> SUFFICES ASSUME T # {} PROVE FALSE
    OBVIOUS
  <2>1. PICK m \in T : \A k \in T : m <= k
    <3> HIDE DEF T
    <3> QED BY <1>3, Least
  <2> DEFINE j == n + 1 - m
  <2>2. PICK d \in Nat : f[j][d] \notin {0} \cup j..n + 1
    BY <1>3, <2>1
  <2>3. m \in 0..n /\ j \in 1..n + 1
    BY <1>3, <2>1
  <2>4. ASSUME NEW l \in 1..n + 1, l > j, NEW e \in Nat PROVE f[l][e] \in {0} \cup l..n + 1
    <3>1. n + 1 - l \notin T
      <4> HIDE DEF T
      <4> QED BY <1>3, <2>1, <2>3, <2>4
    <3>2. n + 1 - l \in 0..n /\ n + 1 - (n + 1 - l) = l
      BY <1>3
    <3> QED BY <3>1, <3>2
  <2> HIDE DEF j, T
  <2>5. f[j][d] = CommentTurn(f, j, d)
    <3>1. j \in Nat
      BY <2>3
    <3>2. f[j] = [depth \in Nat |-> CommentTurn(f, j, depth)]
      BY <1>2, <3>1
    <3> QED BY <3>2
  <2>6. \A s : SymbolAt(j + 1) = s /\ s # "EOT" => j + 1 <= n
    BY <2>3, InText
  <2>7. f[j][d] \in {0} \cup j..n + 1
    <3>1. CASE d = 0
      BY <2>3, <2>5, <3>1 DEF CommentTurn
    <3>2. CASE d # 0 /\ j > n
      BY <2>5, <3>2 DEF CommentTurn
    <3>3. CASE d # 0 /\ j <= n /\ <<source[j], SymbolAt(j + 1)>> = <<"/", "*">>
      <4>1. f[j][d] = f[j + 2][d + 1]
        BY <2>3, <2>5, <3>3 DEF CommentTurn
      <4>2. SymbolAt(j + 1) = "*"
        BY <3>3
      <4>3. j + 2 \in 1..n + 1 /\ j + 2 > j /\ d + 1 \in Nat
        BY <1>3, <2>3, <2>6, <4>2
      <4> QED BY <1>3, <2>3, <2>4, <4>1, <4>3
    <3>4. CASE d # 0 /\ j <= n /\ <<source[j], SymbolAt(j + 1)>> # <<"/", "*">>
                             /\ <<source[j], SymbolAt(j + 1)>> = <<"*", "/">>
      <4>1. f[j][d] = f[j + 2][d - 1]
        BY <2>3, <2>5, <3>4 DEF CommentTurn
      <4>2. SymbolAt(j + 1) = "/"
        BY <3>4
      <4>3. j + 2 \in 1..n + 1 /\ j + 2 > j /\ d - 1 \in Nat
        BY <1>3, <2>3, <2>6, <3>4, <4>2
      <4> QED BY <1>3, <2>3, <2>4, <4>1, <4>3
    <3>5. CASE d # 0 /\ j <= n /\ <<source[j], SymbolAt(j + 1)>> # <<"/", "*">>
                             /\ <<source[j], SymbolAt(j + 1)>> # <<"*", "/">>
      <4>1. f[j][d] = f[j + 1][d] /\ j + 1 \in 1..n + 1 /\ j + 1 > j
        BY <1>3, <2>3, <2>5, <3>5 DEF CommentTurn
      <4> QED BY <1>3, <2>3, <2>4, <4>1
    <3> QED BY <1>3, <2>3, <3>1, <3>2, <3>3, <3>4, <3>5
  <2> QED BY <2>2, <2>7
<1>5. n + 1 - i \in 0..n /\ n + 1 - (n + 1 - i) = i
  BY <1>3
<1>6. f[i][1] \in {0} \cup i..n + 1
  BY <1>4, <1>5
<1> QED BY <1>1, <1>6
-----------------------------------------------------------------------------
(* The turns of the loop                                                   *)

(* What every turn does: it passes over a comment, or makes a token of the *)
(* text behind the blanks; either way it stays in the text.                *)
Passes ==
    /\ CommentAt(Start)
    /\ pos' \in Start..Len(source) + 1
    /\ UNCHANGED <<source, tokens>>

Makes ==
    /\ pos' \in Start..Len(source) + 1
    /\ \E kind \in TokenKinds : tokens' = Append(tokens, [kind |-> kind, from |-> Start, to |-> pos'])
    /\ UNCHANGED source

LEMMA LiteralKinds ==
    {"LIT_INTEGER", "LIT_FLOAT", "LIT_STRING", "IDENT", "PARAM", "EOF", "ERROR"} \subseteq TokenKinds
  BY DEF TokenKinds

LEMMA EmitMakes ==
    ASSUME NEW kind \in TokenKinds, NEW to \in Start..Len(source) + 1, Emit(kind, to)
    PROVE  Makes
  BY DEF Emit, Makes

LEMMA LineCommentPasses == ASSUME LexTypes, LineComment PROVE Passes
<1> DEFINE n == Len(source)
           P(j) == SymbolAt(j) \in {"\n", "EOT"} /\ \A k \in Start..(j - 1) : source[k] # "\n"
           T == {j \in Start..n + 1 : SymbolAt(j) \in {"\n", "EOT"}}
<1>1. n \in Nat /\ Start \in 1..n + 1
  BY StartAfterBlanks, LenProperties DEF LexTypes
<1>2. n + 1 \in T /\ T \subseteq Nat
  BY <1>1 DEF SymbolAt
<1>3. PICK j \in T : \A k \in T : j <= k
  <2> HIDE DEF T
  <2> QED BY <1>2, Least
<1>4. j \in Start..n + 1 /\ P(j)
  BY <1>1, <1>3 DEF SymbolAt
<1>5. pos' = CHOOSE jj \in Start..n + 1 : P(jj)
  BY DEF LineComment
<1> HIDE DEF P
<1>6. pos' \in Start..n + 1
  BY <1>4, <1>5
<1>7. CommentAt(Start)
  BY DEF LineComment, CommentAt
<1> QED BY <1>6, <1>7 DEF LineComment, Passes

LEMMA BlockCommentPasses == ASSUME LexTypes, BlockComment PROVE Passes
<1> DEFINE n == Len(source)
<1>1. n \in Nat /\ Start \in 1..n + 1
  BY StartAfterBlanks, LenProperties DEF LexTypes
<1>2. CommentAt(Start) /\ SymbolAt(Start + 1) = "*"
  BY DEF BlockComment, CommentAt
<1>3. Start + 1 <= n
  BY <1>1, <1>2, InText
<1>4. Start + 2 \in 1..n + 1
  BY <1>1, <1>3
<1>5. CommentEnd(Start + 2) \in {0} \cup (Start + 2)..n + 1
  BY <1>4, CommentEnds
<1>6. pos' = IF CommentEnd(Start + 2) = 0 THEN n + 1 ELSE CommentEnd(Start + 2)
  BY DEF BlockComment
<1>7. pos' \in Start..n + 1
  BY <1>1, <1>4, <1>5, <1>6
<1> QED BY <1>2, <1>7 DEF BlockComment, Passes

(* The operators have one, two or three symbols.                           *)
LEMMA OperatorShape ==
    ASSUME NEW op \in Operators
    PROVE  Len(op[1]) \in 1..3 /\ op[2] \in TokenKinds /\ op[1][Len(op[1])] # "EOT"
<1>1. op[2] \in TokenKinds
  BY DEF TokenKinds
<1>2. \/ \E c : op = << <<c>>, c >> /\ c # "EOT"
      \/ \E c, d : op[1] = <<c, d>> /\ d \in {"=", ">", "|", ":"}
      \/ op[1] = <<"-", ">", ">">>
  <2>1. "EOT" \notin SingleOperators
    BY DEF SingleOperators
  <2>2. CASE op \in {<< <<c>>, c >> : c \in SingleOperators}
    BY <2>1, <2>2
  <2>3. CASE op \in LongOperators
    BY <2>3 DEF LongOperators
  <2> QED BY <2>2, <2>3 DEF Operators
<1>3. CASE \E c : op = << <<c>>, c >> /\ c # "EOT"
  <2>1. PICK c : op[1] = <<c>> /\ c # "EOT"
    BY <1>3
  <2> QED BY <1>1, <2>1
<1>4. CASE \E c, d : op[1] = <<c, d>> /\ d \in {"=", ">", "|", ":"}
  <2>1. PICK c, d : op[1] = <<c, d>> /\ d \in {"=", ">", "|", ":"}
    BY <1>4
  <2> QED BY <1>1, <2>1
<1>5. CASE op[1] = <<"-", ">", ">">>
  BY <1>1, <1>5
<1> QED BY <1>2, <1>3, <1>4, <1>5

LEMMA LongestExists ==
    ASSUME NEW i, OperatorsAt(i) # {}
    PROVE  Longest(OperatorsAt(i)) \in OperatorsAt(i)
<1> DEFINE ops == OperatorsAt(i)
<1>1. \A op \in ops : Len(op[1]) \in 1..3
  BY OperatorShape DEF OperatorsAt
<1>0. ops # {}
  OBVIOUS
<1> HIDE DEF ops
<1>2. \E op \in ops : \A other \in ops : Len(other[1]) <= Len(op[1])
  <2>1. CASE \E op \in ops : Len(op[1]) = 3
    <3>1. PICK op \in ops : Len(op[1]) = 3
      BY <2>1
    <3> WITNESS op \in ops
    <3> TAKE other \in ops
    <3>2. PICK a : a = Len(other[1])
      OBVIOUS
    <3>3. a \in 1..3
      BY <1>1, <3>2
    <3>4. a <= 3
      BY <3>3
    <3> QED BY <3>1, <3>2, <3>4
  <2>2. CASE (\A op \in ops : Len(op[1]) # 3) /\ \E op \in ops : Len(op[1]) = 2
    <3>1. PICK op \in ops : Len(op[1]) = 2
      BY <2>2
    <3>2. \A other \in ops : Len(other[1]) \in 1..3 /\ Len(other[1]) # 3
      BY <1>1, <2>2
    <3> WITNESS op \in ops
    <3> TAKE other \in ops
    <3>3. PICK a : a = Len(other[1])
      OBVIOUS
    <3>4. a \in 1..3 /\ a # 3
      BY <3>2, <3>3
    <3>5. a <= 2
      BY <3>4
    <3> QED BY <3>1, <3>3, <3>5
  <2>3. CASE (\A op \in ops : Len(op[1]) # 3) /\ (\A op \in ops : Len(op[1]) # 2)
    <3>1. \A op \in ops : Len(op[1]) = 1
      BY <1>1, <2>3
    <3> QED BY <1>0, <3>1
  <2> QED BY <2>1, <2>2, <2>3
<1>3. Longest(ops) \in ops
  BY <1>2 DEF Longest
<1> QED BY <1>3 DEF ops

LEMMA OperatorMakes == ASSUME LexTypes, Operator PROVE Makes
<1> DEFINE op == Longest(OperatorsAt(Start))
           n == Len(source)
<1>1. n \in Nat /\ Start \in 1..n + 1
  BY StartAfterBlanks, LenProperties DEF LexTypes
<1>2. op \in OperatorsAt(Start)
  BY LongestExists DEF Operator
<1>3. Emit(op[2], Start + Len(op[1]))
  BY DEF Operator
<1> HIDE DEF op
<1>4. op \in Operators /\ \A k \in 1..Len(op[1]) : SymbolAt(Start + k - 1) = op[1][k]
  BY <1>2 DEF OperatorsAt
<1>5. Len(op[1]) \in 1..3 /\ op[2] \in TokenKinds /\ op[1][Len(op[1])] # "EOT"
  BY <1>4, OperatorShape
<1>6. SymbolAt(Start + Len(op[1]) - 1) # "EOT" /\ Start + Len(op[1]) - 1 \in Nat
  <2>1. Len(op[1]) \in 1..Len(op[1])
    <3> DEFINE m == Len(op[1])
    <3>1. m \in 1..3
      BY <1>5
    <3> HIDE DEF m
    <3>2. m \in 1..m
      BY ONLY <3>1
    <3> QED BY <3>2 DEF m
  <2>2. SymbolAt(Start + Len(op[1]) - 1) = op[1][Len(op[1])]
    BY <1>4, <2>1
  <2>3. Start + Len(op[1]) - 1 \in Nat
    BY <1>1, <1>5
  <2> QED BY <1>5, <2>2, <2>3
<1>7. Start + Len(op[1]) - 1 <= n
  BY <1>6, InText
<1>8. Start + Len(op[1]) \in Start..n + 1
  BY <1>1, <1>5, <1>7
<1> QED BY <1>3, <1>5, <1>8, EmitMakes

LEMMA DottedNumberMakes == ASSUME LexTypes, DottedNumber PROVE Makes
<1>1. Len(source) \in Nat /\ Start \in 1..Len(source) + 1
  BY StartAfterBlanks, LenProperties DEF LexTypes
<1>2. SymbolAt(Start + 1) \in Digits /\ Emit("LIT_FLOAT", RunEnd(Start + 1, Digits))
  BY DEF DottedNumber, DottedNumberAt
<1>3. "EOT" \notin Digits
  BY DEF Digits
<1>4. Start + 1 <= Len(source)
  BY <1>1, <1>2, <1>3, InText
<1>5. RunEnd(Start + 1, Digits) \in Start..Len(source) + 1
  BY <1>1, <1>3, <1>4, RunEnds
<1> QED BY <1>2, <1>5, EmitMakes, LiteralKinds

LEMMA NumberMakes == ASSUME LexTypes, Number PROVE Makes
<1> DEFINE n == Len(source)
           whole == RunEnd(Start, Digits)
           hasFraction == SymbolAt(whole) = "." /\ SymbolAt(whole + 1) \in Digits
           mantissa == IF hasFraction THEN RunEnd(whole + 1, Digits) ELSE whole
           hasExponent == /\ SymbolAt(mantissa) \in {"e", "E"}
                          /\ SymbolAt(mantissa + 1) \in Digits \cup {"+", "-"}
           digits == IF SymbolAt(mantissa + 1) \in {"+", "-"} THEN mantissa + 2 ELSE mantissa + 1
           num == ScanNumber(Start)
<1>1. n \in Nat /\ Start \in 1..n + 1
  BY StartAfterBlanks, LenProperties DEF LexTypes
<1>2. "EOT" \notin Digits /\ "EOT" \notin {"+", "-"}
  BY DEF Digits
<1>3. Emit(num.kind, num.to)
  BY DEF Number
<1>4. num = IF ~ hasExponent
            THEN [to |-> mantissa, kind |-> IF hasFraction THEN "LIT_FLOAT" ELSE "LIT_INTEGER"]
            ELSE IF SymbolAt(digits) \notin Digits THEN [to |-> digits, kind |-> "ERROR"]
            ELSE [to |-> RunEnd(digits, Digits), kind |-> "LIT_FLOAT"]
  BY DEF ScanNumber
<1>5. whole \in Start..n + 1
  BY <1>1, <1>2, RunEnds
<1> HIDE DEF whole
<1>6. mantissa \in Start..n + 1
  <2>1. CASE hasFraction
    <3>1. whole + 1 <= n
      BY <1>1, <1>2, <1>5, <2>1, InText
    <3>2. whole + 1 \in 1..n + 1
      BY <1>1, <1>5, <3>1
    <3>3. RunEnd(whole + 1, Digits) \in (whole + 1)..n + 1
      BY <1>2, <3>2, RunEnds
    <3> QED BY <1>1, <1>5, <2>1, <3>3
  <2>2. CASE ~ hasFraction
    BY <1>5, <2>2
  <2> QED BY <2>1, <2>2
<1> HIDE DEF mantissa, hasFraction
<1>7. hasExponent => mantissa + 1 <= n
  BY <1>1, <1>2, <1>6, InText
<1>8. hasExponent => digits \in Start..n + 1
  BY <1>1, <1>6, <1>7
<1> HIDE DEF digits, hasExponent
<1>9. hasExponent => RunEnd(digits, Digits) \in Start..n + 1
  <2> HAVE hasExponent
  <2>1. digits \in 1..n + 1 /\ digits >= Start
    BY <1>1, <1>8
  <2>2. RunEnd(digits, Digits) \in digits..n + 1
    BY <1>2, <2>1, RunEnds
  <2> QED BY <1>1, <2>1, <2>2
<1>10. num.to \in Start..n + 1 /\ num.kind \in TokenKinds
  BY <1>4, <1>6, <1>8, <1>9, LiteralKinds
<1> QED BY <1>3, <1>10, EmitMakes

LEMMA QuotedMakes ==
    ASSUME LexTypes, NEW q, q # "EOT", NEW kind \in TokenKinds, Quoted(q, kind)
    PROVE  Makes
<1> DEFINE n == Len(source)
           end == QuoteEnd(Start + 1, q)
<1>1. n \in Nat /\ Start \in 1..n + 1
  BY StartAfterBlanks, LenProperties DEF LexTypes
<1>2. q # "EOT" /\ SymbolAt(Start) = q
  BY DEF Quoted
<1>3. Start <= n
  BY <1>1, <1>2, InText
<1>4. Start + 1 \in 1..n + 1
  BY <1>1, <1>3
<1>5. end \in {0} \cup (Start + 1)..n + 1
  BY <1>2, <1>4, QuoteEnds
<1>6. IF end = 0 THEN Emit("ERROR", n + 1) ELSE Emit(kind, end)
  BY DEF Quoted
<1> HIDE DEF end
<1>7. CASE end = 0
  <2>1. n + 1 \in Start..n + 1 /\ Emit("ERROR", n + 1)
    BY <1>1, <1>6, <1>7
  <2> QED BY <2>1, EmitMakes, LiteralKinds
<1>8. CASE end # 0
  <2>1. end \in Start..n + 1 /\ Emit(kind, end)
    BY <1>1, <1>5, <1>6, <1>8
  <2> QED BY <2>1, EmitMakes
<1> QED BY <1>7, <1>8

LEMMA DollarParamMakes == ASSUME LexTypes, DollarParam PROVE Makes
<1> DEFINE n == Len(source)
<1>1. n \in Nat /\ Start \in 1..n + 1
  BY StartAfterBlanks, LenProperties DEF LexTypes
<1>2. SymbolAt(Start) # "EOT" /\ "EOT" \notin Digits
  BY DEF DollarParam, Digits
<1>3. Start <= n
  BY <1>1, <1>2, InText
<1>4. CASE SymbolAt(Start + 1) \in Digits
  <2>1. Start + 1 \in 1..n + 1
    BY <1>1, <1>3
  <2>2. RunEnd(Start + 1, Digits) \in Start + 1..n + 1
    BY <1>2, <2>1, RunEnds
  <2>3. RunEnd(Start + 1, Digits) \in Start..n + 1
    BY <1>1, <2>2
  <2> QED BY <1>4, <2>3, EmitMakes, LiteralKinds DEF DollarParam
<1>5. CASE SymbolAt(Start + 1) \notin Digits
  <2>1. Start + 1 \in Start..n + 1
    BY <1>1, <1>3
  <2> QED BY <1>5, <2>1, EmitMakes, LiteralKinds DEF DollarParam
<1> QED BY <1>4, <1>5

LEMMA WordMakes == ASSUME LexTypes, IdentOrKeyword PROVE Makes
<1> DEFINE S == Words \cup Digits
           to == RunEnd(Start, S)
<1>1. Len(source) \in Nat /\ Start \in 1..Len(source) + 1
  BY StartAfterBlanks, LenProperties DEF LexTypes
<1>2. "EOT" \notin S
  BY DEF Words, Digits, Keywords, Names, UpperCase
<1>3. to \in Start..Len(source) + 1
  <2> HIDE DEF S
  <2> QED BY <1>1, <1>2, RunEnds
<1>4. Emit(ClassifyKeyword(Start, to), to)
  BY DEF IdentOrKeyword
<1>5. ClassifyKeyword(Start, to) \in TokenKinds
  BY DEF ClassifyKeyword, TokenKinds
<1> HIDE DEF to
<1> QED BY <1>3, <1>4, <1>5, EmitMakes

LEMMA UnexpectedMakes == ASSUME LexTypes, Unexpected PROVE Makes
<1>1. More /\ Emit("ERROR", Start + 1)
  BY Zenon DEF Unexpected
<1> HIDE DEF Unexpected
<1>2. Start \in 1..Len(source) + 1 /\ Start <= Len(source) /\ Len(source) \in Nat
  BY <1>1, StartAfterBlanks, LenProperties DEF LexTypes, More
<1>3. Start + 1 \in Start..Len(source) + 1
  BY <1>2
<1> QED BY <1>1, <1>3, EmitMakes, LiteralKinds

LEMMA EndOfFileMakes == ASSUME LexTypes, EndOfFile PROVE Makes
<1>1. Start \in Start..Len(source) + 1 /\ Emit("EOF", Start)
  BY StartAfterBlanks, LenProperties DEF LexTypes, EndOfFile
<1> QED BY <1>1, EmitMakes, LiteralKinds

LEMMA EveryTurn == ASSUME LexTypes, LexNext PROVE Passes \/ Makes
<1>1. CASE Quoted("'", "LIT_STRING")
  <2>1. "'" # "EOT" /\ "LIT_STRING" \in TokenKinds
    BY Zenon DEF TokenKinds
  <2> QED BY <1>1, <2>1, QuotedMakes
<1>2. CASE Quoted("\"", "IDENT")
  <2>1. "\"" # "EOT" /\ "IDENT" \in TokenKinds
    BY Zenon DEF TokenKinds
  <2>2. PICK q : q = "\""
    BY Zenon
  <2>3. q # "EOT" /\ Quoted(q, "IDENT")
    BY <1>2, <2>1, <2>2, Zenon
  <2> QED BY <2>1, <2>3, QuotedMakes
<1> QED BY <1>1, <1>2, LineCommentPasses, BlockCommentPasses, OperatorMakes, DottedNumberMakes,
           NumberMakes, DollarParamMakes, WordMakes, UnexpectedMakes, EndOfFileMakes,
           Zenon DEF LexNext
-----------------------------------------------------------------------------
(* The gaps                                                                *)

(* The parts of GapsAreComments.                                           *)
BlankUpTo(i, j) == \E k \in i..j : /\ \A m \in i..(k - 1) : source[m] \in Blank
                                   /\ k = j \/ CommentAt(k)
EndOf(i) == IF i = 0 THEN 1 ELSE tokens[i].to

LEMMA GapsParts ==
    GapsAreComments <=>
      /\ pos \in 1..(Len(source) + 1)
      /\ \A i \in 1..Len(tokens) : EndOf(i - 1) <= tokens[i].from /\ BlankUpTo(EndOf(i - 1), tokens[i].from)
      /\ EndOf(Len(tokens)) <= pos /\ BlankUpTo(EndOf(Len(tokens)), pos)
  BY DEF GapsAreComments, BlankUpTo, EndOf

(* A gap up to pos goes on to the next token or comment.                   *)
LEMMA GapToStart ==
    ASSUME LexTypes, NEW e \in Nat, BlankUpTo(e, pos), e <= pos
    PROVE  BlankUpTo(e, Start)
<1>1. /\ Start \in pos..Len(source) + 1 /\ pos \in Nat /\ Len(source) \in Nat
      /\ \A k \in pos..Start - 1 : source[k] \in Blank
  BY StartAfterBlanks, LenProperties DEF LexTypes
<1>2. PICK k \in e..pos : /\ \A m \in e..(k - 1) : source[m] \in Blank
                          /\ k = pos \/ CommentAt(k)
  BY DEF BlankUpTo
<1>3. CASE CommentAt(k)
  <2>1. k \in e..Start
    BY <1>1
  <2> QED BY <1>2, <1>3, <2>1 DEF BlankUpTo
<1>4. CASE k = pos
  <2>1. Start \in e..Start
    BY <1>1
  <2>2. \A m \in e..(Start - 1) : source[m] \in Blank
    BY <1>1, <1>2, <1>4
  <2> QED BY <2>1, <2>2 DEF BlankUpTo
<1> QED BY <1>2, <1>3, <1>4

(* A comment that begins where a gap ends is part of it.                   *)
LEMMA GapOverComment ==
    ASSUME LexTypes, NEW e \in Nat, BlankUpTo(e, Start), CommentAt(Start),
           NEW j \in Start..Len(source) + 1
    PROVE  BlankUpTo(e, j)
<1>1. Start \in Nat /\ Len(source) \in Nat
  BY StartAfterBlanks, LenProperties DEF LexTypes
<1>2. PICK k \in e..Start : /\ \A m \in e..(k - 1) : source[m] \in Blank
                            /\ k = Start \/ CommentAt(k)
  BY DEF BlankUpTo
<1>3. k \in e..j /\ CommentAt(k)
  BY <1>1, <1>2
<1> QED BY <1>2, <1>3 DEF BlankUpTo

(* The inductive invariant of Tokenizing.                                  *)
LexInv == LexTypes /\ GapsAreComments

LEMMA PassesKeepsGaps == ASSUME LexInv, Passes PROVE LexInv'
<1>1. LexTypes
  BY DEF LexInv
<1>2. /\ EndOf(Len(tokens)) <= pos /\ BlankUpTo(EndOf(Len(tokens)), pos)
      /\ \A i \in 1..Len(tokens) : EndOf(i - 1) <= tokens[i].from /\ BlankUpTo(EndOf(i - 1), tokens[i].from)
  BY GapsParts DEF LexInv
<1>3. PICK e : e = EndOf(Len(tokens))
  OBVIOUS
<1>4. e \in Nat
  <2>1. Len(tokens) \in Nat /\ \A i \in 1..Len(tokens) : tokens[i] \in Token
    BY <1>1, LenProperties, ElementOfSeq DEF LexTypes
  <2> QED BY <1>3, <2>1 DEF EndOf, Token
<1>5. /\ Start \in pos..Len(source) + 1 /\ pos \in 1..Len(source) + 1 /\ Len(source) \in Nat
      /\ pos' \in Start..Len(source) + 1 /\ CommentAt(Start)
  BY <1>1, StartAfterBlanks, LenProperties DEF LexTypes, Passes
<1>6. BlankUpTo(e, Start)
  BY <1>1, <1>2, <1>3, <1>4, GapToStart
<1>7. PICK p : p = pos'
  OBVIOUS
<1>8. BlankUpTo(e, p)
  BY <1>1, <1>4, <1>5, <1>6, <1>7, GapOverComment
<1>9. source' = source /\ tokens' = tokens
  BY DEF Passes
<1>10. /\ \A i, j : BlankUpTo(i, j)' <=> BlankUpTo(i, j)
       /\ \A i : EndOf(i)' = EndOf(i)
  BY <1>9 DEF BlankUpTo, EndOf, CommentAt, SymbolAt
<1>11. LexTypes'
  BY <1>1, <1>5, <1>9 DEF LexTypes
<1>12. GapsAreComments'
  <2>1. e <= p /\ p \in 1..Len(source) + 1
    BY <1>2, <1>3, <1>4, <1>5, <1>7
  <2>2. GapsAreComments' <=>
          /\ pos' \in 1..(Len(source') + 1)
          /\ \A i \in 1..Len(tokens') : /\ EndOf(i - 1)' <= tokens'[i].from
                                       /\ BlankUpTo(EndOf(i - 1), tokens[i].from)'
          /\ EndOf(Len(tokens))' <= pos' /\ BlankUpTo(EndOf(Len(tokens)), pos)'
    BY DEF GapsAreComments, BlankUpTo, EndOf
  <2> QED BY <1>2, <1>3, <1>7, <1>8, <1>9, <1>10, <2>1, <2>2
<1> QED BY <1>11, <1>12 DEF LexInv
LEMMA MakesKeepsGaps == ASSUME LexInv, Makes PROVE LexInv'
<1> DEFINE n == Len(tokens)
<1>1. LexTypes
  BY DEF LexInv
<1>2. /\ EndOf(n) <= pos /\ BlankUpTo(EndOf(n), pos)
      /\ \A i \in 1..n : EndOf(i - 1) <= tokens[i].from /\ BlankUpTo(EndOf(i - 1), tokens[i].from)
  BY GapsParts DEF LexInv
<1>3. n \in Nat /\ \A i \in 1..n : tokens[i] \in Token
  BY <1>1, LenProperties, ElementOfSeq DEF LexTypes
<1>4. PICK e : e = EndOf(n)
  OBVIOUS
<1>5. e \in Nat
  BY <1>3, <1>4 DEF EndOf, Token
<1>6. /\ Start \in pos..Len(source) + 1 /\ pos \in 1..Len(source) + 1 /\ Len(source) \in Nat
      /\ pos' \in Start..Len(source) + 1
  BY <1>1, StartAfterBlanks, LenProperties DEF LexTypes, Makes
<1>7. PICK from, to : from = Start /\ to = pos'
  OBVIOUS
<1>8. PICK kind \in TokenKinds : tokens' = Append(tokens, [kind |-> kind, from |-> from, to |-> to])
  BY <1>7 DEF Makes
<1>9. PICK tok : tok = [kind |-> kind, from |-> from, to |-> to]
  OBVIOUS
<1>10. tok \in Token /\ tok.from = from /\ tok.to = to /\ from \in Nat /\ to \in Nat
  BY <1>6, <1>7, <1>9 DEF Token
<1>11. /\ tokens' \in Seq(Token) /\ Len(tokens') = n + 1 /\ tokens'[n + 1] = tok
       /\ \A i \in 1..n : tokens'[i] = tokens[i]
  <2>1. tokens' = Append(tokens, tok) /\ tokens \in Seq(Token)
    BY <1>1, <1>8, <1>9 DEF LexTypes
  <2> QED BY <1>10, <2>1, AppendProperties
<1>12. source' = source
  BY DEF Makes
<1>13. \A i, j : BlankUpTo(i, j)' <=> BlankUpTo(i, j)
  BY <1>12 DEF BlankUpTo, CommentAt, SymbolAt
<1>14. /\ \A i \in 0..n : EndOf(i)' = EndOf(i)
       /\ \A k : k = n + 1 => EndOf(k)' = to
  BY <1>3, <1>10, <1>11 DEF EndOf
<1>15. e <= from /\ BlankUpTo(e, from)
  <2>1. BlankUpTo(e, Start)
    BY <1>1, <1>2, <1>4, <1>5, GapToStart
  <2> QED BY <1>2, <1>4, <1>5, <1>6, <1>7, <2>1
<1>16. BlankUpTo(to, to)
  <2>1. to \in to..to /\ \A m \in to..(to - 1) : source[m] \in Blank
    BY <1>10
  <2> QED BY <2>1 DEF BlankUpTo
<1>17. LexTypes'
  BY <1>1, <1>6, <1>11, <1>12 DEF LexTypes
<1>18. GapsAreComments'
  <2>1. GapsAreComments' <=>
          /\ pos' \in 1..(Len(source') + 1)
          /\ \A i \in 1..Len(tokens') : /\ EndOf(i - 1)' <= tokens'[i].from
                                       /\ BlankUpTo(EndOf(i - 1), tokens[i].from)'
          /\ EndOf(Len(tokens))' <= pos' /\ BlankUpTo(EndOf(Len(tokens)), pos)'
    BY DEF GapsAreComments, BlankUpTo, EndOf
  <2>2. pos' \in 1..(Len(source') + 1)
    BY <1>6, <1>12
  <2>3. ASSUME NEW i \in 1..n + 1
        PROVE  EndOf(i - 1)' <= tokens'[i].from /\ BlankUpTo(EndOf(i - 1), tokens[i].from)'
    <3>1. PICK a, b : a = EndOf(i - 1)' /\ b = tokens'[i].from
      OBVIOUS
    <3>2. i - 1 \in 0..n /\ a = EndOf(i - 1)
      BY <1>3, <1>14, <3>1
    <3>3. a <= b /\ BlankUpTo(a, b)
      <4>1. CASE i \in 1..n
        BY <1>2, <1>11, <3>1, <3>2, <4>1
      <4>2. CASE i = n + 1
        <5>1. i - 1 = n /\ b = from /\ a = e
          BY <1>3, <1>4, <1>10, <1>11, <3>1, <3>2, <4>2
        <5> QED BY <1>15, <5>1
      <4> QED BY <1>3, <4>1, <4>2
    <3>4. BlankUpTo(a, b)'
      BY <1>13, <3>3
    <3> QED BY <3>1, <3>3, <3>4 DEF BlankUpTo
  <2>4. EndOf(Len(tokens))' <= pos' /\ BlankUpTo(EndOf(Len(tokens)), pos)'
    <3>1. EndOf(Len(tokens))' = to
      <4>1. PICK k : k = Len(tokens')
        OBVIOUS
      <4>2. EndOf(k)' = to
        BY <1>11, <1>14, <4>1
      <4> QED BY <4>1, <4>2 DEF EndOf
    <3>2. BlankUpTo(to, to)'
      BY <1>13, <1>16
    <3>3. PICK a, b : a = EndOf(Len(tokens))' /\ b = pos'
      OBVIOUS
    <3>4. a <= b /\ BlankUpTo(a, b)'
      BY <1>7, <1>10, <3>1, <3>2, <3>3
    <3> QED BY <3>3, <3>4 DEF BlankUpTo
  <2> QED BY <1>11, <2>1, <2>2, <2>3, <2>4
<1> QED BY <1>17, <1>18 DEF LexInv

LEMMA StartHasNoGap ==
    ASSUME source' \in Seq(STRING), pos' = 1, tokens' = << >>
    PROVE  LexInv'
<1>1. Len(source') \in Nat /\ tokens' \in Seq(Token) /\ Len(tokens') = 0
  BY LenProperties, EmptySeq
<1>2. LexTypes'
  BY <1>1 DEF LexTypes
<1>3. 1 \in 1..1 /\ \A m \in 1..0 : source'[m] \in Blank
  OBVIOUS
<1>4. GapsAreComments'
  BY <1>1, <1>3 DEF GapsAreComments
<1> QED BY <1>2, <1>4 DEF LexInv

(* Whatever texts tokenize is given, one after the other: what it has      *)
(* passed over without making a token of it is blank up to the sign that   *)
(* opens a comment, tokens follow one another, and the scan never leaves   *)
(* the text, not in an unclosed quote or comment, a lone sign or an        *)
(* exponent without digits.                                                *)
THEOREM NothingIsSkipped == Tokenizing => []GapsAreComments
<1>1. (source \in Seq(STRING) /\ pos = 1 /\ tokens = << >>) => LexInv
  <2> SUFFICES ASSUME source \in Seq(STRING), pos = 1, tokens = << >>
               PROVE  LexInv
    OBVIOUS
  <2>1. Len(source) \in Nat /\ tokens \in Seq(Token) /\ Len(tokens) = 0
    BY LenProperties, EmptySeq
  <2>2. 1 \in 1..1 /\ \A m \in 1..0 : source[m] \in Blank
    OBVIOUS
  <2>3. GapsAreComments
    BY <2>1, <2>2 DEF GapsAreComments
  <2> QED BY <2>1, <2>3 DEF LexInv, LexTypes
<1>2. ASSUME LexInv, [LexNext \/ \E text \in Seq(STRING) : LexStart(text)]_lexVars
      PROVE  LexInv'
  <2>1. CASE UNCHANGED lexVars
    BY <1>2, <2>1 DEF LexInv, LexTypes, GapsAreComments, CommentAt, SymbolAt, lexVars
  <2>2. CASE LexNext
    BY <1>2, <2>2, EveryTurn, PassesKeepsGaps, MakesKeepsGaps DEF LexInv
  <2>3. CASE \E text \in Seq(STRING) : LexStart(text)
    BY <2>3, StartHasNoGap DEF LexStart
  <2> QED BY <1>2, <2>1, <2>2, <2>3
<1>3. LexInv => GapsAreComments
  BY DEF LexInv
<1> QED BY <1>1, <1>2, <1>3, PTL DEF Tokenizing
=============================================================================
