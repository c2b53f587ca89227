-------------------------- MODULE PersistenceProofs --------------------------
(***************************************************************************)
(* What loadDatabase registers is what saveDatabase wrote.                 *)
(***************************************************************************)
EXTENDS Persistence, ColumnStoreProofs, FiniteSetTheorems, NaturalsInduction, WellFoundedInduction

-----------------------------------------------------------------------------
(* Recursive functions                                                     *)

(* Every set of natural numbers that is not empty has a least member.      *)
LEMMA Least ==
    ASSUME NEW T, T \subseteq Nat, T # {}
    PROVE  \E m \in T : \A k \in T : m <= k
<1> DEFINE R == {ss \in Nat \X Nat : ss[1] < ss[2]}
<1>1. IsWellFoundedOn(R, Nat)
  BY NatLessThanWellFounded DEF OpToRel
<1>2. \A k, m \in Nat : k < m => <<k, m>> \in R
  OBVIOUS
<1> HIDE DEF R
<1>3. PICK m \in T : \A k \in T : ~ (<<k, m>> \in R)
  BY <1>1, WFMin
<1>4. ASSUME NEW k \in T PROVE m <= k
  <2>1. k \in Nat /\ m \in Nat
    OBVIOUS
  <2>2. ~ (<<k, m>> \in R)
    BY <1>3
  <2>3. ~ (k < m)
    BY <1>2, <2>1, <2>2
  <2> QED BY <2>1, <2>3
<1> QED BY <1>4

(* The values of f, of S, come from a by n steps.                          *)
Iterates(f, S, n, a, step) ==
    f \in [0..n -> S] /\ f[0] = a /\ \A k \in 1..n : f[k] = step[k][f[k - 1]]

(* Every number of steps can be taken.                                     *)
LEMMA Recursion ==
    ASSUME NEW S, NEW n \in Nat, NEW a \in S, NEW step \in [1..n -> [S -> S]]
    PROVE  \E f : Iterates(f, S, n, a, step)
<1> DEFINE Solves(f, m) == f[0] = a /\ \A k \in 1..m : f[k] = step[k][f[k - 1]]
           T == {m \in 0..n : ~ \E f \in [0..m -> S] : Solves(f, m)}
<1>1. SUFFICES T = {}
  <2>1. n \in 0..n /\ n \notin T
    <3>1. n \in 0..n
      OBVIOUS
    <3> HIDE DEF T
    <3> QED BY <1>1, <3>1
  <2>2. PICK f \in [0..n -> S] : Solves(f, n)
    BY <2>1
  <2>3. f[0] = a /\ \A k \in 1..n : f[k] = step[k][f[k - 1]]
    BY <2>2
  <2>4. Iterates(f, S, n, a, step)
    BY <2>2, <2>3 DEF Iterates
  <2> QED BY <2>4
<1>2. SUFFICES ASSUME T # {} PROVE FALSE
  OBVIOUS
<1>3. T \subseteq Nat
  OBVIOUS
<1>4. PICK m \in T : \A k \in T : m <= k
  <2> HIDE DEF T
  <2> QED BY Least, <1>2, <1>3
<1>5. CASE m = 0
  <2>1. [k \in 0..0 |-> a] \in [0..0 -> S] /\ Solves([k \in 0..0 |-> a], 0)
    OBVIOUS
  <2> QED BY <1>5, <2>1
<1>6. CASE m # 0
  <2>1. m - 1 \in 0..n /\ m - 1 \notin T /\ m \in 1..n
    <3>1. m - 1 \in 0..n /\ m \in 1..n /\ ~ (m <= m - 1)
      BY <1>6
    <3> HIDE DEF T
    <3> QED BY <1>4, <3>1
  <2>2. PICK g \in [0..m - 1 -> S] : Solves(g, m - 1)
    BY <2>1
  <2> DEFINE f == [k \in 0..m |-> IF k = m THEN step[m][g[m - 1]] ELSE g[k]]
  <2>3. f \in [0..m -> S]
    <3>1. step[m][g[m - 1]] \in S
      BY <2>1
    <3>2. \A k \in 0..m : k # m => g[k] \in S
      BY <2>1
    <3> QED BY <3>1, <3>2
  <2>4. f[0] = a
    BY <2>1, <2>2
  <2>5. ASSUME NEW k \in 1..m PROVE f[k] = step[k][f[k - 1]]
    <3>1. CASE k = m
      <4>1. f[m] = step[m][g[m - 1]] /\ f[m - 1] = g[m - 1]
        BY <2>1
      <4> QED BY <3>1, <4>1
    <3>2. CASE k # m
      <4>1. f[k] = g[k] /\ f[k - 1] = g[k - 1] /\ k \in 1..m - 1
        BY <2>1, <3>2
      <4> QED BY <2>2, <4>1
    <3> QED BY <3>1, <3>2
  <2> HIDE DEF f
  <2> QED BY <2>3, <2>4, <2>5
<1> QED BY <1>5, <1>6

(* The offsets of sequences that follow one another.                       *)
LEMMA Offsets ==
    ASSUME NEW I, NEW s \in Seq(Seq(I))
    PROVE  /\ Offset(s, 0) = 0
           /\ \A k \in 1..Len(s) : Offset(s, k) = Offset(s, k - 1) + Len(s[k])
           /\ \A k \in 0..Len(s) : Offset(s, k) \in Nat
<1> DEFINE n == Len(s)
           step == [k \in 1..n |-> [x \in Nat |-> x + Len(s[k])]]
           Solves(f) == f = [j \in 0..n |-> IF j = 0 THEN 0 ELSE f[j - 1] + Len(s[j])]
<1>1. n \in Nat
  BY LenProperties
<1>2. \A k \in 1..n : Len(s[k]) \in Nat
  BY ElementOfSeq, LenProperties
<1>3. step \in [1..n -> [Nat -> Nat]]
  BY <1>2
<1>4. \A k \in 1..n, x \in Nat : step[k][x] = x + Len(s[k])
  OBVIOUS
<1> HIDE DEF step, n
<1>5. PICK f : Iterates(f, Nat, n, 0, step)
  BY <1>1, <1>3, Recursion
<1>6. f \in [0..n -> Nat] /\ f[0] = 0 /\ \A k \in 1..n : f[k] = f[k - 1] + Len(s[k])
  <2>1. f \in [0..n -> Nat] /\ f[0] = 0 /\ \A k \in 1..n : f[k] = step[k][f[k - 1]]
    BY <1>5 DEF Iterates
  <2>2. \A k \in 1..n : f[k - 1] \in Nat
    BY <1>1, <2>1
  <2> QED BY <1>4, <2>1, <2>2
<1>7. Solves(f)
  BY <1>1, <1>6
<1> DEFINE g == CHOOSE g : Solves(g)
<1>8. \A k : Offset(s, k) = g[k]
  BY DEF Offset, n
<1>9. Solves(g)
  BY <1>7
<1> HIDE DEF g
<1>10. g[0] = 0 /\ \A k \in 1..n : g[k] = g[k - 1] + Len(s[k])
  <2>1. 0 \in 0..n /\ \A k \in 1..n : k \in 0..n /\ k # 0
    BY <1>1
  <2>2. \A j \in 0..n : g[j] = IF j = 0 THEN 0 ELSE g[j - 1] + Len(s[j])
    BY <1>9
  <2> QED BY <2>1, <2>2
<1>11. \A k \in 0..n : g[k] = f[k]
  <2> DEFINE T == {k \in 0..n : g[k] # f[k]}
  <2> SUFFICES ASSUME T # {} PROVE FALSE
    OBVIOUS
  <2>1. T \subseteq Nat
    BY <1>1
  <2>2. PICK k \in T : \A l \in T : k <= l
    <3> HIDE DEF T
    <3> QED BY Least, <2>1
  <2>3. k \in 1..n /\ k - 1 \in 0..n /\ ~ (k <= k - 1)
    BY <1>1, <1>6, <1>10
  <2>4. g[k - 1] = f[k - 1]
    BY <2>2, <2>3
  <2> QED BY <1>6, <1>10, <2>3, <2>4
<1> QED BY <1>6, <1>8, <1>10, <1>11 DEF n

(* Two sequences in a row hold the first and, behind it, the second.       *)
LEMMA HoldsConcat ==
    ASSUME NEW I, NEW a \in Seq(I), NEW b \in Seq(I)
    PROVE  /\ a \o b \in Seq(I)
           /\ Len(a \o b) = Len(a) + Len(b)
           /\ Holds(a \o b, 0, a)
           /\ Holds(a \o b, Len(a), b)
<1>1. Len(a) \in Nat /\ Len(b) \in Nat
  BY LenProperties
<1>2. a \o b \in Seq(I) /\ Len(a \o b) = Len(a) + Len(b)
  BY ConcatProperties
<1>3. /\ \A i \in 1..Len(a) : (a \o b)[i] = a[i]
      /\ \A i \in 1..Len(b) : (a \o b)[Len(a) + i] = b[i]
  BY <1>1, ConcatProperties
<1> QED BY <1>1, <1>2, <1>3 DEF Holds

(* What is held by a part is held by the whole.                            *)
LEMMA HoldsWithin ==
    ASSUME NEW file, NEW a, NEW b, NEW m \in Nat, NEW n \in Nat,
           Len(file) \in Nat, Len(a) \in Nat, Len(b) \in Nat, Holds(file, m, a), Holds(a, n, b)
    PROVE  Holds(file, m + n, b)
<1>0. /\ m + Len(a) <= Len(file) /\ \A i \in 1..Len(a) : file[m + i] = a[i]
      /\ n + Len(b) <= Len(a) /\ \A i \in 1..Len(b) : a[n + i] = b[i]
  BY DEF Holds
<1>1. m + n + Len(b) <= Len(file)
  BY <1>0
<1>2. ASSUME NEW i \in 1..Len(b) PROVE file[m + n + i] = b[i]
  <2>0. n + i \in 1..Len(a)
    <3>1. i \in Nat /\ 1 <= i /\ i <= Len(b) /\ n + Len(b) <= Len(a)
      BY <1>0
    <3> QED BY <3>1
  <2>1. n + i \in 1..Len(a) /\ a[n + i] = b[i]
    BY <1>0, <2>0
  <2>2. file[m + (n + i)] = a[n + i]
    BY <1>0, <2>1
  <2>3. m + (n + i) = m + n + i
    OBVIOUS
  <2> QED BY <2>1, <2>2, <2>3
<1> QED BY <1>1, <1>2 DEF Holds

(* Three sequences in a row.                                               *)
LEMMA ThreeParts ==
    ASSUME NEW I, NEW a \in Seq(I), NEW b \in Seq(I), NEW c \in Seq(I)
    PROVE  /\ a \o b \o c \in Seq(I)
           /\ Len(a \o b \o c) = Len(a) + Len(b) + Len(c)
           /\ Holds(a \o b \o c, 0, a)
           /\ Holds(a \o b \o c, Len(a), b)
           /\ Holds(a \o b \o c, Len(a) + Len(b), c)
<1> DEFINE ab == a \o b
           abc == ab \o c
<1>1. Len(a) \in Nat /\ Len(b) \in Nat /\ Len(c) \in Nat
  BY LenProperties
<1>2. ab \in Seq(I) /\ Len(ab) = Len(a) + Len(b) /\ Holds(ab, 0, a) /\ Holds(ab, Len(a), b)
  BY HoldsConcat
<1> HIDE DEF ab
<1>3. abc \in Seq(I) /\ Len(abc) = Len(ab) + Len(c) /\ Holds(abc, 0, ab) /\ Holds(abc, Len(ab), c)
  BY <1>2, HoldsConcat
<1>4. Len(ab) \in Nat /\ Len(abc) \in Nat
  BY <1>1, <1>2, <1>3
<1> HIDE DEF abc
<1>5. Holds(abc, 0 + 0, a)
  BY <1>1, <1>2, <1>3, <1>4, HoldsWithin
<1>6. Holds(abc, 0 + Len(a), b)
  BY <1>1, <1>2, <1>3, <1>4, HoldsWithin
<1>7. 0 + 0 = 0 /\ 0 + Len(a) = Len(a)
  BY <1>1
<1>8. /\ Len(abc) = Len(a) + Len(b) + Len(c)
      /\ Holds(abc, 0, a) /\ Holds(abc, Len(a), b) /\ Holds(abc, Len(a) + Len(b), c)
  BY <1>2, <1>3, <1>5, <1>6, <1>7
<1> QED BY <1>3, <1>8 DEF ab, abc

(* Sequences that follow one another in one sequence are found there at    *)
(* their offsets.                                                          *)
LEMMA Flattening ==
    ASSUME NEW I, NEW s \in Seq(Seq(I))
    PROVE  /\ FlattenSeq(s) \in Seq(I)
           /\ Len(FlattenSeq(s)) = Offset(s, Len(s))
           /\ \A k \in 1..Len(s) : Holds(FlattenSeq(s), Offset(s, k - 1), s[k])
<1> DEFINE n == Len(s)
<1>1. n \in Nat /\ \A k \in 1..n : s[k] \in Seq(I) /\ Len(s[k]) \in Nat
  BY LenProperties, ElementOfSeq
<1>2. /\ Offset(s, 0) = 0
      /\ \A k \in 1..n : Offset(s, k) = Offset(s, k - 1) + Len(s[k])
      /\ \A k \in 0..n : Offset(s, k) \in Nat
  BY Offsets
<1>3. CASE n = 0
  <2>1. FlattenSeq(s) = s /\ s = << >>
    BY <1>3, EmptySeq DEF FlattenSeq
  <2> QED BY <1>2, <1>3, <2>1, EmptySeq
<1>4. CASE n # 0
  <2> DEFINE step == [k \in 1..n - 1 |-> [x \in Seq(I) |-> x \o s[k + 1]]]
             Solves(f) == f = [i \in 1..n |-> IF i = 1 THEN s[1] ELSE f[i - 1] \o s[i]]
             g == CHOOSE f : Solves(f)
  <2>1. n - 1 \in Nat /\ s[1] \in Seq(I)
    BY <1>1, <1>4
  <2>2. step \in [1..n - 1 -> [Seq(I) -> Seq(I)]]
    <3>1. ASSUME NEW k \in 1..n - 1, NEW x \in Seq(I) PROVE x \o s[k + 1] \in Seq(I)
      <4>1. s[k + 1] \in Seq(I)
        BY <1>1
      <4> QED BY <4>1, ConcatProperties
    <3> QED BY <3>1
  <2>3. \A k \in 1..n - 1, x \in Seq(I) : step[k][x] = x \o s[k + 1]
    OBVIOUS
  <2>4. FlattenSeq(s) = g[n]
    BY <1>4 DEF FlattenSeq
  <2> HIDE DEF step, n
  <2>5. PICK h : Iterates(h, Seq(I), n - 1, s[1], step)
    BY <2>1, <2>2, Recursion
  <2>6. /\ h \in [0..n - 1 -> Seq(I)] /\ h[0] = s[1]
        /\ \A k \in 1..n - 1 : h[k] = h[k - 1] \o s[k + 1]
    <3>1. /\ h \in [0..n - 1 -> Seq(I)] /\ h[0] = s[1]
          /\ \A k \in 1..n - 1 : h[k] = step[k][h[k - 1]]
      BY <2>5 DEF Iterates
    <3>2. \A k \in 1..n - 1 : h[k - 1] \in Seq(I)
      BY <1>1, <3>1
    <3> QED BY <2>3, <3>1, <3>2
  <2> DEFINE f == [i \in 1..n |-> h[i - 1]]
  <2>7. Solves(f)
    <3>1. ASSUME NEW i \in 1..n PROVE f[i] = IF i = 1 THEN s[1] ELSE f[i - 1] \o s[i]
      <4>1. CASE i = 1
        BY <2>6, <4>1
      <4>2. CASE i # 1
        <5>1. i - 1 \in 1..n - 1 /\ i - 1 \in 1..n /\ (i - 1) + 1 = i
          BY <1>1, <4>2
        <5>2. f[i] = h[i - 1] /\ f[i - 1] = h[(i - 1) - 1]
          BY <5>1
        <5> QED BY <2>6, <4>2, <5>1, <5>2
      <4> QED BY <4>1, <4>2
    <3> HIDE DEF n
    <3> QED BY <3>1
  <2>8. Solves(g)
    BY <2>7
  <2> HIDE DEF g, f
  <2>9. g[1] = s[1] /\ \A i \in 2..n : g[i] = g[i - 1] \o s[i]
    <3>1. \A i \in 1..n : g[i] = IF i = 1 THEN s[1] ELSE g[i - 1] \o s[i]
      BY <2>8
    <3>2. 1 \in 1..n /\ \A i \in 2..n : i \in 1..n /\ i # 1
      BY <1>1, <1>4
    <3> QED BY <3>1, <3>2
  <2> DEFINE Right(i) == /\ g[i] \in Seq(I)
                         /\ Len(g[i]) = Offset(s, i)
                         /\ \A k \in 1..i : Holds(g[i], Offset(s, k - 1), s[k])
             T == {i \in 1..n : ~ Right(i)}
  <2>10. Right(1)
    <3>1. Offset(s, 1) = Len(s[1])
      BY <1>1, <1>2, <1>4
    <3>2. Holds(s[1], 0, s[1])
      BY <1>1, <1>4 DEF Holds
    <3> QED BY <1>2, <2>1, <2>9, <3>1, <3>2
  <2>11. ASSUME NEW i \in 2..n, Right(i - 1) PROVE Right(i)
    <3>1. i \in 1..n /\ i - 1 \in 0..n
      BY <1>1
    <3>2. /\ s[i] \in Seq(I) /\ Len(s[i]) \in Nat
          /\ Offset(s, i) = Offset(s, i - 1) + Len(s[i]) /\ Offset(s, i - 1) \in Nat
      BY <1>1, <1>2, <3>1
    <3>3. g[i] = g[i - 1] \o s[i]
      BY <2>9
    <3>4. g[i - 1] \in Seq(I) /\ Len(g[i - 1]) = Offset(s, i - 1)
      BY <2>11
    <3>5. /\ g[i] \in Seq(I) /\ Len(g[i]) = Offset(s, i)
          /\ Holds(g[i], 0, g[i - 1]) /\ Holds(g[i], Offset(s, i - 1), s[i])
      <4> DEFINE before == g[i - 1]
                 off == Offset(s, i - 1)
                 next == s[i]
      <4>1. before \in Seq(I) /\ next \in Seq(I) /\ Len(before) = off
        BY <3>2, <3>4
      <4>2. g[i] = before \o next /\ Offset(s, i) = off + Len(next)
        BY <3>2, <3>3
      <4> HIDE DEF before, off, next
      <4>3. /\ before \o next \in Seq(I) /\ Len(before \o next) = Len(before) + Len(next)
            /\ Holds(before \o next, 0, before) /\ Holds(before \o next, Len(before), next)
        BY <4>1, HoldsConcat
      <4>4. /\ g[i] \in Seq(I) /\ Len(g[i]) = Offset(s, i)
            /\ Holds(g[i], 0, before) /\ Holds(g[i], off, next)
        BY <4>1, <4>2, <4>3
      <4> QED BY <4>4 DEF before, off, next
    <3>6. ASSUME NEW k \in 1..i PROVE Holds(g[i], Offset(s, k - 1), s[k])
      <4>1. CASE k = i
        BY <3>5, <4>1
      <4>2. CASE k # i
        <5>1. k \in 1..i - 1 /\ k \in 1..n /\ k - 1 \in 0..n
          BY <1>1, <4>2
        <5>2. Holds(g[i - 1], Offset(s, k - 1), s[k])
          BY <2>11, <5>1
        <5>3. Len(s[k]) \in Nat /\ Offset(s, k - 1) \in Nat
          BY <1>1, <1>2, <5>1
        <5>4. Len(g[i]) \in Nat /\ Len(g[i - 1]) \in Nat
          BY <3>4, <3>5, LenProperties
        <5>5. Holds(g[i], 0 + Offset(s, k - 1), s[k])
          BY <3>5, <5>2, <5>3, <5>4, HoldsWithin
        <5> QED BY <5>3, <5>5
      <4> QED BY <4>1, <4>2
    <3> QED BY <3>5, <3>6
  <2>12. T = {}
    <3> SUFFICES ASSUME T # {} PROVE FALSE
      OBVIOUS
    <3> HIDE DEF Right
    <3>1. T \subseteq Nat
      BY <1>1
    <3>2. PICK i \in T : \A l \in T : i <= l
      <4> HIDE DEF T
      <4> QED BY Least, <3>1
    <3>3. i # 1
      BY <2>10
    <3>4. i \in 2..n /\ i - 1 \in 1..n /\ ~ (i <= i - 1)
      BY <1>1, <3>3
    <3>5. Right(i - 1)
      BY <3>2, <3>4
    <3> QED BY <2>11, <3>4, <3>5
  <2>13. Right(n)
    <3> HIDE DEF Right
    <3>1. n \in 1..n
      BY <1>1, <1>4
    <3> QED BY <2>12, <3>1
  <2> QED BY <2>4, <2>13 DEF n
<1> QED BY <1>3, <1>4

-----------------------------------------------------------------------------
(* Validity bitmaps                                                        *)

LEMMA Euclid ==
    ASSUME NEW n \in Nat, NEW b \in Nat \ {0}
    PROVE  n \div b \in Nat /\ n % b \in 0..b - 1 /\ n = b * (n \div b) + (n % b)
  OBVIOUS

LEMMA LowestBit ==
    ASSUME NEW x \in Nat, NEW bit \in 0..1
    PROVE  /\ 2 * x + bit \in Nat
           /\ (2 * x + bit) \div 2 = x
           /\ (2 * x + bit) % 2 = bit
  OBVIOUS

LEMMA FactorsOrdered ==
    ASSUME NEW b \in Nat \ {0}, NEW p \in Nat, NEW q \in Nat, b * p < b * q
    PROVE  p < q
  OBVIOUS

(* The words of a bitmap have a bit for every row.                         *)
LEMMA WordsCover ==
    ASSUME NEW n \in Nat
    PROVE  WordCount(n) \in Nat /\ n <= WordCount(n) * WordBits
<1>1. WordBits \in Nat \ {0} /\ n + WordBits - 1 \in Nat
  BY PersistenceAssumption
<1>2. /\ WordCount(n) \in Nat /\ (n + WordBits - 1) % WordBits \in 0..WordBits - 1
      /\ n + WordBits - 1 = WordBits * WordCount(n) + ((n + WordBits - 1) % WordBits)
  BY <1>1, Euclid DEF WordCount
<1> DEFINE x == WordBits * WordCount(n)
<1>3. x \in Int /\ WordCount(n) * WordBits = x
  BY <1>1, <1>2
<1>4. x >= n
  <2> HIDE DEF x
  <2>1. n + WordBits - 1 = x + ((n + WordBits - 1) % WordBits)
    BY <1>2 DEF x
  <2> QED BY <1>1, <1>2, <1>3, <2>1
<1> QED BY <1>2, <1>3, <1>4

(* The bits isValid finds in a word are the ones push put there.           *)
LEMMA WordRoundTrip ==
    ASSUME NEW valid \in Seq(BOOLEAN), NEW w \in Nat \ {0}
    PROVE  /\ Word(valid, w) \in Nat
           /\ \A k \in 1..WordBits :
                  LET i == (w - 1) * WordBits + k
                  IN BitAt(Word(valid, w), k) <=> i <= Len(valid) /\ valid[i]
<1> DEFINE n == WordBits
           Set(k) == LET i == (w - 1) * WordBits + k IN i <= Len(valid) /\ valid[i]
           Bit(k) == IF Set(k) THEN 1 ELSE 0
           Solves(f) == f = [k \in 1..n + 1 |-> IF k > n THEN 0 ELSE 2 * f[k + 1] + Bit(k)]
           from == CHOOSE f : Solves(f)
           word == from[1]
           Shifts(f) == f = [j \in 1..n |-> IF j = 1 THEN word ELSE f[j - 1] \div 2]
           shifted == CHOOSE f : Shifts(f)
<1>1. Word(valid, w) = word
  BY DEF Word
<1>2. \A k : BitAt(word, k) <=> shifted[k] % 2 = 1
  BY DEF BitAt
<1>3. n \in Nat \ {0}
  BY PersistenceAssumption
<1>4. \A k \in 1..n : Bit(k) \in 0..1 /\ (Bit(k) = 1 <=> Set(k))
  OBVIOUS
<1> HIDE DEF n, Set
<1> DEFINE step == [j \in 1..n |-> [x \in Nat |-> 2 * x + Bit(n + 1 - j)]]
<1>5. step \in [1..n -> [Nat -> Nat]]
  BY <1>3, <1>4
<1>6. \A j \in 1..n, x \in Nat : step[j][x] = 2 * x + Bit(n + 1 - j)
  OBVIOUS
<1> HIDE DEF step, Bit
<1>7. PICK h : Iterates(h, Nat, n, 0, step)
  BY <1>3, <1>5, Recursion
<1>8. h \in [0..n -> Nat] /\ h[0] = 0 /\ \A j \in 1..n : h[j] = 2 * h[j - 1] + Bit(n + 1 - j)
  <2>1. h \in [0..n -> Nat] /\ h[0] = 0 /\ \A j \in 1..n : h[j] = step[j][h[j - 1]]
    BY <1>7 DEF Iterates
  <2>2. \A j \in 1..n : h[j - 1] \in Nat
    BY <1>3, <2>1
  <2> QED BY <1>6, <2>1, <2>2
<1> DEFINE f == [k \in 1..n + 1 |-> h[n + 1 - k]]
<1>9. Solves(f)
  <2>1. ASSUME NEW k \in 1..n + 1
        PROVE  f[k] = IF k > n THEN 0 ELSE 2 * f[k + 1] + Bit(k)
    <3>1. CASE k > n
      BY <1>3, <1>8, <3>1
    <3>2. CASE ~ (k > n)
      <4>1. n + 1 - k \in 1..n /\ k + 1 \in 1..n + 1
        BY <1>3, <3>2
      <4>2. f[k] = h[n + 1 - k] /\ f[k + 1] = h[n + 1 - (k + 1)]
        BY <4>1
      <4>3. n + 1 - (k + 1) = (n + 1 - k) - 1 /\ n + 1 - (n + 1 - k) = k
        BY <1>3
      <4>4. h[n + 1 - k] = 2 * h[(n + 1 - k) - 1] + Bit(n + 1 - (n + 1 - k))
        BY <1>8, <4>1
      <4> QED BY <3>2, <4>2, <4>3, <4>4
    <3> QED BY <3>1, <3>2
  <2> QED BY <2>1
<1>10. Solves(from)
  <2> HIDE DEF f
  <2> QED BY <1>9
<1> HIDE DEF from
<1>11. from[n + 1] = 0 /\ \A k \in 1..n : from[k] = 2 * from[k + 1] + Bit(k)
  <2>1. \A k \in 1..n + 1 : from[k] = IF k > n THEN 0 ELSE 2 * from[k + 1] + Bit(k)
    BY <1>10
  <2>2. n + 1 \in 1..n + 1 /\ n + 1 > n /\ \A k \in 1..n : k \in 1..n + 1 /\ ~ (k > n)
    BY <1>3
  <2> QED BY <2>1, <2>2
<1>12. \A k \in 1..n + 1 : from[k] \in Nat
  <2> DEFINE T == {j \in 0..n : from[n + 1 - j] \notin Nat}
  <2>1. T = {}
    <3> SUFFICES ASSUME T # {} PROVE FALSE
      OBVIOUS
    <3>1. T \subseteq Nat
      BY <1>3
    <3>2. PICK j \in T : \A l \in T : j <= l
      <4> HIDE DEF T
      <4> QED BY Least, <3>1
    <3>3. j \in 1..n /\ j - 1 \in 0..n /\ ~ (j <= j - 1) /\ n + 1 - j \in 1..n
      BY <1>3, <1>11
    <3>4. from[n + 1 - (j - 1)] \in Nat
      BY <3>2, <3>3
    <3>5. n + 1 - (j - 1) = (n + 1 - j) + 1
      BY <1>3, <3>3
    <3>6. /\ from[(n + 1 - j) + 1] \in Nat /\ Bit(n + 1 - j) \in 0..1
          /\ from[n + 1 - j] = 2 * from[(n + 1 - j) + 1] + Bit(n + 1 - j)
      BY <1>4, <1>11, <3>3, <3>4, <3>5
    <3>7. from[n + 1 - j] \in Nat
      BY <3>6, LowestBit
    <3> QED BY <3>2, <3>7
  <2>2. ASSUME NEW k \in 1..n + 1 PROVE from[k] \in Nat
    <3>1. n + 1 - k \in 0..n /\ n + 1 - (n + 1 - k) = k
      BY <1>3
    <3>2. n + 1 - k \notin T
      <4> HIDE DEF T
      <4> QED BY <2>1
    <3> QED BY <3>1, <3>2
  <2> QED BY <2>2
<1>13. \A k \in 1..n : from[k] \div 2 = from[k + 1] /\ from[k] % 2 = Bit(k)
  <2> SUFFICES ASSUME NEW k \in 1..n
               PROVE  from[k] \div 2 = from[k + 1] /\ from[k] % 2 = Bit(k)
    OBVIOUS
  <2>1. k + 1 \in 1..n + 1
    BY <1>3
  <2>2. from[k + 1] \in Nat /\ Bit(k) \in 0..1 /\ from[k] = 2 * from[k + 1] + Bit(k)
    BY <1>4, <1>11, <1>12, <2>1
  <2> QED BY <2>2, LowestBit
<1> DEFINE g == [j \in 1..n |-> from[j]]
<1>14. Shifts(g)
  <2>1. ASSUME NEW j \in 1..n PROVE g[j] = IF j = 1 THEN word ELSE g[j - 1] \div 2
    <3>1. CASE j = 1
      BY <3>1
    <3>2. CASE j # 1
      <4>1. j - 1 \in 1..n /\ (j - 1) + 1 = j
        BY <1>3, <3>2
      <4>2. from[j - 1] \div 2 = from[j]
        BY <1>13, <4>1
      <4> QED BY <3>2, <4>1, <4>2
    <3> QED BY <3>1, <3>2
  <2> QED BY <2>1
<1>15. Shifts(shifted)
  <2> HIDE DEF g
  <2> QED BY <1>14
<1> HIDE DEF shifted
<1>16. \A j \in 1..n : shifted[j] = from[j]
  <2>1. \A j \in 1..n : shifted[j] = IF j = 1 THEN word ELSE shifted[j - 1] \div 2
    BY <1>15
  <2> DEFINE T == {j \in 1..n : shifted[j] # from[j]}
  <2> SUFFICES ASSUME T # {} PROVE FALSE
    OBVIOUS
  <2>2. T \subseteq Nat
    BY <1>3
  <2>3. PICK j \in T : \A l \in T : j <= l
    <3> HIDE DEF T
    <3> QED BY Least, <2>2
  <2>4. j # 1
    BY <2>1
  <2>5. j \in 1..n /\ j - 1 \in 1..n /\ ~ (j <= j - 1) /\ (j - 1) + 1 = j
    BY <1>3, <2>4
  <2>6. shifted[j - 1] = from[j - 1]
    BY <2>3, <2>5
  <2>7. shifted[j] = shifted[j - 1] \div 2
    BY <2>1, <2>4, <2>5
  <2>8. from[j - 1] \div 2 = from[j]
    BY <1>13, <2>5
  <2> QED BY <2>3, <2>6, <2>7, <2>8
<1>17. word \in Nat
  BY <1>3, <1>12
<1>18. \A k \in 1..n : BitAt(word, k) <=> Set(k)
  BY <1>2, <1>4, <1>13, <1>16
<1> HIDE DEF word
<1> QED BY <1>1, <1>17, <1>18 DEF Set, n

(* assignRaw of the words that push made gives the bits that were pushed.  *)
LEMMA BitmapRoundTrip ==
    ASSUME NEW valid \in Seq(BOOLEAN), NEW words,
           words = [w \in 1..WordCount(Len(valid)) |-> Word(valid, w)],
           NEW bits \in BitsOf(words, Len(valid))
    PROVE  bits = valid
<1> DEFINE n == Len(valid)
           q == WordCount(n)
           b == WordBits
<1>1. n \in Nat /\ q \in Nat /\ b \in Nat \ {0} /\ n <= q * b
  BY LenProperties, WordsCover, PersistenceAssumption
<1>2. Len(words) = q /\ \A w \in 1..q : words[w] = Word(valid, w)
  <2>1. words = [w \in 1..q |-> Word(valid, w)]
    OBVIOUS
  <2>2. \A w \in 1..q : Word(valid, w) \in Nat
    <3>1. \A w \in 1..q : w \in Nat \ {0}
      BY <1>1
    <3> HIDE DEF q
    <3> QED BY <3>1, WordRoundTrip
  <2> HIDE DEF q
  <2>3. words \in [1..q -> Nat]
    BY <2>1, <2>2
  <2>4. Len(words) = q
    BY <1>1, <2>3, FcnIsSeq
  <2> QED BY <2>1, <2>4
<1>3. bits \in [1..n -> BOOLEAN] /\ \A i \in 1..n : Covers(words, i) => bits[i] = IsValid(words, i)
  BY DEF BitsOf
<1>4. valid = [i \in 1..n |-> valid[i]] /\ \A i \in 1..n : valid[i] \in BOOLEAN
  BY <1>1, LenProperties, ElementOfSeq
<1> HIDE DEF n, q, b
<1>5. ASSUME NEW i \in 1..n PROVE bits[i] = valid[i]
  <2> DEFINE p == (i - 1) \div b
             r == (i - 1) % b
             x == b * p
             y == b * q
  <2>1. i - 1 \in Nat /\ i \in Nat
    BY <1>1
  <2>2. p \in Nat /\ r \in 0..b - 1 /\ i - 1 = x + r
    BY <1>1, <2>1, Euclid
  <2>3. x \in Nat /\ y \in Nat /\ y = q * b /\ x = ((p + 1) - 1) * b
    BY <1>1, <2>2
  <2>4. p + 1 \in 1..q
    <3>1. x < y
      <4> HIDE DEF x, y, r
      <4> QED BY <1>1, <2>1, <2>2, <2>3
    <3>2. p < q
      <4> HIDE DEF p
      <4> QED BY <1>1, <2>2, <3>1, FactorsOrdered
    <3> HIDE DEF p
    <3> QED BY <1>1, <2>2, <3>2
  <2>5. Covers(words, i)
    <3>1. i <= q * b
      <4> HIDE DEF y
      <4> QED BY <1>1, <2>1, <2>3
    <3> QED BY <1>2, <3>1 DEF Covers, b
  <2>6. IsValid(words, i) <=> BitAt(Word(valid, p + 1), r + 1)
    <3>1. words[p + 1] = Word(valid, p + 1)
      <4> HIDE DEF p
      <4> QED BY <1>2, <2>4
    <3> QED BY <3>1 DEF IsValid, b
  <2>7. r + 1 \in 1..b /\ p + 1 \in Nat \ {0}
    <3> HIDE DEF r, p
    <3> QED BY <1>1, <2>2
  <2>8. ((p + 1) - 1) * b + (r + 1) = i
    <3> HIDE DEF x, r
    <3>1. x + (r + 1) = i
      BY <1>1, <2>1, <2>2, <2>3
    <3> QED BY <2>3, <3>1
  <2>9. BitAt(Word(valid, p + 1), r + 1) <=> i <= Len(valid) /\ valid[i]
    <3> DEFINE v == p + 1
               k == r + 1
    <3>1. v \in Nat \ {0} /\ k \in 1..WordBits /\ (v - 1) * WordBits + k = i
      <4> HIDE DEF p, r
      <4> QED BY <2>7, <2>8 DEF b
    <3> HIDE DEF v, k
    <3>2. BitAt(Word(valid, v), k) <=>
              (v - 1) * WordBits + k <= Len(valid) /\ valid[(v - 1) * WordBits + k]
      BY <3>1, WordRoundTrip
    <3>3. BitAt(Word(valid, v), k) <=> i <= Len(valid) /\ valid[i]
      BY <3>1, <3>2
    <3> QED BY <3>3 DEF v, k
  <2>10. BitAt(Word(valid, p + 1), r + 1) <=> valid[i]
    BY <2>1, <1>1, <2>9 DEF n
  <2>11. IsValid(words, i) \in BOOLEAN
    BY DEF IsValid, BitAt
  <2>12. bits[i] <=> valid[i]
    BY <1>3, <2>5, <2>6, <2>10
  <2>13. bits[i] \in BOOLEAN /\ valid[i] \in BOOLEAN
    BY <1>3, <1>4
  <2> HIDE DEF p, r
  <2> QED BY <2>12, <2>13
<1> QED BY <1>3, <1>4, <1>5

-----------------------------------------------------------------------------
(* What the file consists of                                               *)

LEMMA CellItemType ==
    ASSUME NEW v \in [kind : Kinds, src : Kinds, num : Nat]
    PROVE  CellItem(v) \in Items
<1>1. CASE v.kind = "Int64"
  BY <1>1 DEF CellItem, Items
<1>2. CASE v.kind = "Double"
  BY <1>2 DEF CellItem, Items
<1>3. CASE v.kind = "String"
  <2>1. v \in Strings
    BY <1>3 DEF Strings
  <2> QED BY <1>3, <2>1 DEF CellItem, Items
<1> QED BY <1>1, <1>2, <1>3 DEF Kinds

(* A column in the file: the number of its words, the words, the cells.    *)
LEMMA ColumnItems ==
    ASSUME NEW col \in SavedColumns, Len(col.data) = Len(col.valid)
    PROVE  /\ EncodeColumn(col) \in Seq(Items)
           /\ Size(col) \in Nat /\ WordCount(Size(col)) \in Nat
           /\ Len(EncodeColumn(col)) = 1 + WordCount(Size(col)) + Size(col)
           /\ EncodeColumn(col)[1] = <<"word", WordCount(Size(col))>>
           /\ \A w \in 1..WordCount(Size(col)) :
                  EncodeColumn(col)[1 + w] = <<"word", Word(col.valid, w)>>
           /\ \A r \in 1..Size(col) :
                  EncodeColumn(col)[1 + WordCount(Size(col)) + r] = CellItem(col.data[r])
<1> DEFINE n == Size(col)
           q == WordCount(n)
           head == << <<"word", q>> >>
           words == BitmapWords(col.valid)
           cells == [i \in 1..n |-> CellItem(col.data[i])]
<1>1. col.valid \in Seq(BOOLEAN) /\ col.data \in Seq([kind : Kinds, src : Kinds, num : Nat])
  BY DEF SavedColumns
<1>2. n \in Nat /\ q \in Nat /\ Len(col.data) = n
  BY <1>1, LenProperties, WordsCover DEF Size
<1>3. \A w \in 1..q : <<"word", Word(col.valid, w)>> \in Items
  <2>1. \A w \in 1..q : w \in Nat \ {0}
    BY <1>2
  <2> HIDE DEF q
  <2>2. \A w \in 1..q : Word(col.valid, w) \in Nat
    BY <1>1, <2>1, WordRoundTrip
  <2> QED BY <2>2 DEF Items
<1>4. words = [w \in 1..q |-> <<"word", Word(col.valid, w)>>]
  BY DEF BitmapWords, Size
<1> HIDE DEF words, q
<1>5. words \in [1..q -> Items]
  BY <1>3, <1>4
<1>6. words \in Seq(Items) /\ Len(words) = q
  BY <1>2, <1>5, FcnIsSeq
<1>7. \A i \in 1..n : CellItem(col.data[i]) \in Items
  BY <1>1, <1>2, ElementOfSeq, CellItemType
<1>8. cells \in [1..n -> Items]
  BY <1>7
<1>9. cells \in Seq(Items) /\ Len(cells) = n
  <2> HIDE DEF cells, n
  <2> QED BY <1>2, <1>8, FcnIsSeq
<1>10. head \in Seq(Items) /\ Len(head) = 1 /\ head[1] = <<"word", q>>
  <2>1. <<"word", q>> \in Items
    BY <1>2 DEF Items
  <2> QED BY <2>1
<1>11. EncodeColumn(col) = head \o words \o cells
  BY <1>2, <1>6 DEF EncodeColumn, words
<1>12. /\ \A w \in 1..q : words[w] = <<"word", Word(col.valid, w)>>
       /\ \A r \in 1..n : cells[r] = CellItem(col.data[r])
  BY <1>4
<1> HIDE DEF head, cells, n
<1>13. Len(head) + Len(words) = 1 + q
  BY <1>6, <1>10
<1>14. /\ EncodeColumn(col) \in Seq(Items) /\ Len(EncodeColumn(col)) = 1 + q + n
       /\ \A i \in 1..1 : EncodeColumn(col)[i] = head[i]
       /\ \A w \in 1..q : EncodeColumn(col)[1 + w] = words[w]
       /\ \A r \in 1..n : EncodeColumn(col)[1 + q + r] = cells[r]
  <2> DEFINE x == head \o words \o cells
  <2>1. /\ x \in Seq(Items) /\ Len(x) = Len(head) + Len(words) + Len(cells)
        /\ Holds(x, 0, head) /\ Holds(x, Len(head), words)
        /\ Holds(x, Len(head) + Len(words), cells)
    <3>1. head \in Seq(Items) /\ words \in Seq(Items) /\ cells \in Seq(Items)
      BY <1>6, <1>9, <1>10
    <3> QED BY <3>1, ThreeParts
  <2> HIDE DEF x
  <2>2. EncodeColumn(col) = x
    BY <1>11 DEF x
  <2>3. x \in Seq(Items) /\ Len(x) = 1 + q + n
    BY <1>6, <1>9, <1>10, <1>13, <2>1
  <2>4. Holds(x, 0, head) /\ Holds(x, 1, words) /\ Holds(x, 1 + q, cells)
    BY <1>6, <1>10, <1>13, <2>1
  <2>5. \A i \in 1..1 : x[i] = head[i]
    <3>1. \A i \in 1..1 : x[0 + i] = head[i]
      BY <1>10, <2>4 DEF Holds
    <3> QED BY <3>1
  <2>6. \A w \in 1..q : x[1 + w] = words[w]
    BY <1>6, <2>4 DEF Holds
  <2>7. \A r \in 1..n : x[1 + q + r] = cells[r]
    BY <1>9, <2>4 DEF Holds
  <2> QED BY <2>2, <2>3, <2>5, <2>6, <2>7
<1>15. EncodeColumn(col)[1] = <<"word", q>>
  BY <1>10, <1>14
<1> QED BY <1>2, <1>12, <1>14, <1>15 DEF n, q

(* The head of a table in the file.                                        *)
LEMMA HeadItems ==
    ASSUME NEW t \in Strings, NEW tbl, Saved(tbl)
    PROVE  /\ EncodeHead(t, tbl) \in Seq(Items)
           /\ Len(tbl) \in Nat \ {0} /\ RowCount(tbl) \in Nat
           /\ Len(EncodeHead(t, tbl)) = Len(tbl) + 3
           /\ EncodeHead(t, tbl)[1] = <<"str", t>>
           /\ EncodeHead(t, tbl)[2] = <<"word", Len(tbl)>>
           /\ \A c \in 1..Len(tbl) : EncodeHead(t, tbl)[2 + c] = <<"type", tbl[c].type>>
           /\ EncodeHead(t, tbl)[3 + Len(tbl)] = <<"word", RowCount(tbl)>>
<1> DEFINE n == Len(tbl)
           front == << <<"str", t>>, <<"word", n>> >>
           types == [c \in 1..n |-> <<"type", tbl[c].type>>]
           rows == << <<"word", RowCount(tbl)>> >>
<1>1. tbl \in Seq(SavedColumns) /\ tbl # << >>
  BY DEF Saved
<1>2. n \in Nat \ {0} /\ \A c \in 1..n : tbl[c] \in SavedColumns
  BY <1>1, LenProperties, EmptySeq, ElementOfSeq
<1>3. RowCount(tbl) \in Nat
  <2>1. tbl[1].valid \in Seq(BOOLEAN)
    BY <1>2 DEF SavedColumns
  <2> QED BY <2>1, LenProperties DEF RowCount, Size
<1>4. front \in Seq(Items) /\ Len(front) = 2 /\ front[1] = <<"str", t>> /\ front[2] = <<"word", n>>
  <2>1. <<"str", t>> \in Items /\ <<"word", n>> \in Items
    BY <1>2 DEF Items
  <2> QED BY <2>1
<1>5. rows \in Seq(Items) /\ Len(rows) = 1 /\ rows[1] = <<"word", RowCount(tbl)>>
  <2>1. <<"word", RowCount(tbl)>> \in Items
    BY <1>3 DEF Items
  <2> QED BY <2>1
<1>6. types \in [1..n -> Items]
  <2>1. \A c \in 1..n : tbl[c].type \in Types
    BY <1>2 DEF SavedColumns
  <2>2. \A c \in 1..n : <<"type", tbl[c].type>> \in Items
    BY <2>1 DEF Items
  <2> QED BY <2>2
<1>7. types \in Seq(Items) /\ Len(types) = n
  <2> HIDE DEF types, n
  <2> QED BY <1>2, <1>6, FcnIsSeq
<1>8. \A c \in 1..n : types[c] = <<"type", tbl[c].type>>
  OBVIOUS
<1>9. EncodeHead(t, tbl) = front \o types \o rows
  BY DEF EncodeHead
<1> HIDE DEF front, types, rows, n
<1>10. Len(front) + Len(types) = 2 + n
  BY <1>4, <1>7
<1>11. /\ EncodeHead(t, tbl) \in Seq(Items) /\ Len(EncodeHead(t, tbl)) = 2 + n + 1
       /\ \A i \in 1..2 : EncodeHead(t, tbl)[i] = front[i]
       /\ \A c \in 1..n : EncodeHead(t, tbl)[2 + c] = types[c]
       /\ \A i \in 1..1 : EncodeHead(t, tbl)[2 + n + i] = rows[i]
  <2> DEFINE x == front \o types \o rows
  <2>1. /\ x \in Seq(Items) /\ Len(x) = Len(front) + Len(types) + Len(rows)
        /\ Holds(x, 0, front) /\ Holds(x, Len(front), types)
        /\ Holds(x, Len(front) + Len(types), rows)
    <3>1. front \in Seq(Items) /\ types \in Seq(Items) /\ rows \in Seq(Items)
      BY <1>4, <1>5, <1>7
    <3> QED BY <3>1, ThreeParts
  <2> HIDE DEF x
  <2>2. EncodeHead(t, tbl) = x
    BY <1>9 DEF x
  <2>3. x \in Seq(Items) /\ Len(x) = 2 + n + 1
    BY <1>4, <1>5, <1>7, <1>10, <2>1
  <2>4. Holds(x, 0, front) /\ Holds(x, 2, types) /\ Holds(x, 2 + n, rows)
    BY <1>4, <1>10, <2>1
  <2>5. \A i \in 1..2 : x[i] = front[i]
    <3>1. \A i \in 1..2 : x[0 + i] = front[i]
      BY <1>4, <2>4 DEF Holds
    <3> QED BY <3>1
  <2>6. \A c \in 1..n : x[2 + c] = types[c]
    BY <1>7, <2>4 DEF Holds
  <2>7. \A i \in 1..1 : x[2 + n + i] = rows[i]
    BY <1>5, <2>4 DEF Holds
  <2> QED BY <2>2, <2>3, <2>5, <2>6, <2>7
<1>12. EncodeHead(t, tbl)[1] = <<"str", t>> /\ EncodeHead(t, tbl)[2] = <<"word", n>>
  BY <1>4, <1>11
<1>13. EncodeHead(t, tbl)[2 + n + 1] = <<"word", RowCount(tbl)>>
  BY <1>5, <1>11
<1>14. 2 + n + 1 = n + 3 /\ 2 + n + 1 = 3 + n
  BY <1>2
<1> QED BY <1>2, <1>3, <1>8, <1>11, <1>12, <1>13, <1>14 DEF n

(* A table in the file: its head, then its columns.                        *)
LEMMA TableItems ==
    ASSUME NEW t \in Strings, NEW tbl, Saved(tbl)
    PROVE  /\ EncodeTable(t, tbl) \in Seq(Items)
           /\ EncodeColumns(tbl) \in Seq(Seq(Items))
           /\ Len(EncodeColumns(tbl)) = Len(tbl)
           /\ \A c \in 1..Len(tbl) : EncodeColumns(tbl)[c] = EncodeColumn(tbl[c])
           /\ Len(EncodeTable(t, tbl)) = Len(tbl) + 3 + Offset(EncodeColumns(tbl), Len(tbl))
           /\ Holds(EncodeTable(t, tbl), 0, EncodeHead(t, tbl))
           /\ \A c \in 1..Len(tbl) :
                  Holds(EncodeTable(t, tbl), Len(tbl) + 3 + Offset(EncodeColumns(tbl), c - 1),
                        EncodeColumn(tbl[c]))
<1> DEFINE n == Len(tbl)
           cols == EncodeColumns(tbl)
           head == EncodeHead(t, tbl)
           flat == FlattenSeq(cols)
<1>1. n \in Nat /\ head \in Seq(Items) /\ Len(head) = n + 3
  BY HeadItems
<1>2. \A c \in 1..n : tbl[c] \in SavedColumns /\ Len(tbl[c].data) = Len(tbl[c].valid)
  BY ElementOfSeq DEF Saved, BuffersAgree
<1>3. \A c \in 1..n : EncodeColumn(tbl[c]) \in Seq(Items)
  BY <1>2, ColumnItems
<1>4. cols \in [1..n -> Seq(Items)] /\ \A c \in 1..n : cols[c] = EncodeColumn(tbl[c])
  BY <1>3 DEF EncodeColumns
<1>5. EncodeTable(t, tbl) = head \o flat
  BY DEF EncodeTable
<1> HIDE DEF n, cols, head
<1>6. cols \in Seq(Seq(Items)) /\ Len(cols) = n
  BY <1>1, <1>4, FcnIsSeq
<1>7. /\ flat \in Seq(Items) /\ Len(flat) = Offset(cols, n)
      /\ \A c \in 1..n : Holds(flat, Offset(cols, c - 1), cols[c])
  <2>1. cols \in Seq(Seq(Items))
    BY <1>6
  <2>2. /\ flat \in Seq(Items) /\ Len(flat) = Offset(cols, Len(cols))
        /\ \A c \in 1..Len(cols) : Holds(flat, Offset(cols, c - 1), cols[c])
    BY <2>1, Flattening
  <2> HIDE DEF flat
  <2> QED BY <1>6, <2>2
<1> HIDE DEF flat
<1>8. /\ head \o flat \in Seq(Items) /\ Len(head \o flat) = Len(head) + Len(flat)
      /\ Holds(head \o flat, 0, head) /\ Holds(head \o flat, Len(head), flat)
  <2>1. head \in Seq(Items) /\ flat \in Seq(Items)
    BY <1>1, <1>7
  <2> QED BY <2>1, HoldsConcat
<1> DEFINE T == EncodeTable(t, tbl)
<1>9. T \in Seq(Items) /\ Holds(T, 0, head) /\ Holds(T, n + 3, flat)
  BY <1>1, <1>5, <1>8
<1>10. Len(T) = n + 3 + Offset(cols, n)
  BY <1>1, <1>5, <1>7, <1>8
<1> HIDE DEF T
<1>11. Len(T) \in Nat /\ Len(flat) \in Nat /\ n + 3 \in Nat
  BY <1>1, <1>7, <1>9, LenProperties
<1>12. ASSUME NEW c \in 1..n PROVE Holds(T, n + 3 + Offset(cols, c - 1), EncodeColumn(tbl[c]))
  <2>1. Offset(cols, c - 1) \in Nat
    <3>1. c - 1 \in 0..Len(cols)
      BY <1>1, <1>6
    <3>2. cols \in Seq(Seq(Items))
      BY <1>6
    <3> QED BY <3>1, <3>2, Offsets
  <2>2. Len(cols[c]) \in Nat
    BY <1>4, LenProperties
  <2>3. Holds(flat, Offset(cols, c - 1), cols[c])
    BY <1>7
  <2>4. Holds(T, n + 3 + Offset(cols, c - 1), cols[c])
    BY <1>9, <1>11, <2>1, <2>2, <2>3, HoldsWithin
  <2> QED BY <1>4, <2>4
<1> QED BY <1>4, <1>6, <1>9, <1>10, <1>12 DEF n, cols, head, T

(* An order lists every table that is stored, and no other.                *)
LEMMA OrderLists ==
    ASSUME NEW cat \in Catalogs, NEW names \in SetToSeqs(Stored(cat))
    PROVE  /\ names \in Seq(Strings)
           /\ Len(names) = Cardinality(Stored(cat))
           /\ \A k \in 1..Len(names) :
                  /\ names[k] \in Stored(cat) /\ names[k] \in Names /\ names[k] \in Strings
                  /\ Saved(cat[names[k]])
           /\ \A t \in Stored(cat) : \E k \in 1..Len(names) : names[k] = t
<1> DEFINE S == Stored(cat)
           n == Cardinality(S)
<1>1. S \subseteq Names /\ \A t \in S : Saved(cat[t])
  BY DEF Stored, Catalogs
<1>2. IsFiniteSet(Names) /\ Names \subseteq Strings
  BY PersistenceAssumption
<1>3. IsFiniteSet(S)
  BY <1>1, <1>2, FS_Subset
<1>4. n \in Nat
  BY <1>3, FS_CardinalityType
<1>5. names \in [1..n -> S] /\ \A i, j \in 1..n : i # j => names[i] # names[j]
  BY DEF SetToSeqs
<1> HIDE DEF S
<1>6. names \in Injection(1..n, S)
  BY <1>5 DEF Injection, IsInjective
<1>7. IsFiniteSet(1..n) /\ Cardinality(1..n) = n
  BY <1>4, FS_Interval
<1>8. names \in Surjection(1..n, S)
  BY <1>3, <1>6, <1>7, FS_Injection
<1>9. \A t \in S : \E k \in 1..n : names[k] = t
  BY <1>8 DEF Surjection
<1> HIDE DEF n
<1>10. names \in Seq(S) /\ Len(names) = n
  BY <1>4, <1>5, FcnIsSeq
<1>11. \A k \in 1..n : names[k] \in S /\ names[k] \in Names /\ names[k] \in Strings /\ Saved(cat[names[k]])
  BY <1>1, <1>2, <1>5
<1>12. names \in Seq(Strings)
  <2>1. names \in [1..n -> Strings]
    BY <1>5, <1>11
  <2> QED BY <1>4, <2>1, FcnIsSeq
<1> QED BY <1>9, <1>10, <1>11, <1>12 DEF n, S

(* The file: the header, then table after table.                           *)
LEMMA Layout ==
    ASSUME snapshot \in Catalogs, NEW names \in Orders
    PROVE  /\ EncodeCatalog(snapshot, names) \in Seq(Items)
           /\ Holds(EncodeCatalog(snapshot, names), 0,
                    << <<"magic", "LQDB">>, <<"version", Version>>, <<"word", Len(names)>> >>)
           /\ TableAt(snapshot, names, 1) = 4
           /\ TableAt(snapshot, names, Len(names) + 1) = Len(EncodeCatalog(snapshot, names)) + 1
           /\ \A k \in 1..Len(names) :
                  /\ TableAt(snapshot, names, k) \in Nat /\ TableAt(snapshot, names, k) - 1 \in Nat
                  /\ TableAt(snapshot, names, k + 1) =
                        TableAt(snapshot, names, k) + Len(EncodeTable(names[k], snapshot[names[k]]))
                  /\ Holds(EncodeCatalog(snapshot, names), TableAt(snapshot, names, k) - 1,
                           EncodeTable(names[k], snapshot[names[k]]))
<1> DEFINE n == Len(names)
           tabs == EncodeTables(snapshot, names)
           head == << <<"magic", "LQDB">>, <<"version", Version>>, <<"word", n>> >>
           flat == FlattenSeq(tabs)
           E == EncodeCatalog(snapshot, names)
<1>1. names \in SetToSeqs(Stored(snapshot))
  BY DEF Orders
<1>2. n \in Nat /\ \A k \in 1..n : names[k] \in Strings /\ Saved(snapshot[names[k]])
  BY <1>1, OrderLists, LenProperties
<1>3. \A k \in 1..n : EncodeTable(names[k], snapshot[names[k]]) \in Seq(Items)
  BY <1>2, TableItems
<1>4. /\ tabs \in [1..n -> Seq(Items)]
      /\ \A k \in 1..n : tabs[k] = EncodeTable(names[k], snapshot[names[k]])
  BY <1>3 DEF EncodeTables
<1>5. E = head \o flat
  BY DEF EncodeCatalog
<1>6. head \in Seq(Items) /\ Len(head) = 3
  <2>1. <<"magic", "LQDB">> \in Items /\ <<"version", Version>> \in Items /\ <<"word", n>> \in Items
    BY <1>2 DEF Items
  <2> QED BY <2>1
<1>7. \A k : TableAt(snapshot, names, k) = 4 + Offset(tabs, k - 1)
  BY DEF TableAt
<1> HIDE DEF n, tabs, head
<1>8. tabs \in Seq(Seq(Items)) /\ Len(tabs) = n
  BY <1>2, <1>4, FcnIsSeq
<1>9. /\ flat \in Seq(Items) /\ Len(flat) = Offset(tabs, n)
      /\ \A k \in 1..n : Holds(flat, Offset(tabs, k - 1), tabs[k])
  <2>1. tabs \in Seq(Seq(Items))
    BY <1>8
  <2>2. /\ flat \in Seq(Items) /\ Len(flat) = Offset(tabs, Len(tabs))
        /\ \A k \in 1..Len(tabs) : Holds(flat, Offset(tabs, k - 1), tabs[k])
    BY <2>1, Flattening
  <2> HIDE DEF flat
  <2> QED BY <1>8, <2>2
<1>10. /\ Offset(tabs, 0) = 0
       /\ \A k \in 1..n : Offset(tabs, k) = Offset(tabs, k - 1) + Len(tabs[k])
       /\ \A k \in 0..n : Offset(tabs, k) \in Nat
  <2>1. tabs \in Seq(Seq(Items))
    BY <1>8
  <2>2. /\ Offset(tabs, 0) = 0
        /\ \A k \in 1..Len(tabs) : Offset(tabs, k) = Offset(tabs, k - 1) + Len(tabs[k])
        /\ \A k \in 0..Len(tabs) : Offset(tabs, k) \in Nat
    BY <2>1, Offsets
  <2> QED BY <1>8, <2>2
<1> HIDE DEF flat
<1>11. /\ head \o flat \in Seq(Items) /\ Len(head \o flat) = Len(head) + Len(flat)
       /\ Holds(head \o flat, 0, head) /\ Holds(head \o flat, Len(head), flat)
  <2>1. head \in Seq(Items) /\ flat \in Seq(Items)
    BY <1>6, <1>9
  <2> QED BY <2>1, HoldsConcat
<1> HIDE DEF E
<1>12. E \in Seq(Items) /\ Holds(E, 0, head) /\ Holds(E, 3, flat) /\ Len(E) = 3 + Offset(tabs, n)
  BY <1>5, <1>6, <1>9, <1>11
<1>13. TableAt(snapshot, names, 1) = 4
  <2>1. TableAt(snapshot, names, 1) = 4 + Offset(tabs, 1 - 1)
    BY <1>7
  <2>2. 1 - 1 = 0
    OBVIOUS
  <2> QED BY <1>10, <2>1, <2>2
<1>14. TableAt(snapshot, names, n + 1) = Len(E) + 1
  <2>1. TableAt(snapshot, names, n + 1) = 4 + Offset(tabs, (n + 1) - 1)
    BY <1>7
  <2>2. (n + 1) - 1 = n /\ n \in 0..n
    BY <1>2
  <2> QED BY <1>10, <1>12, <2>1, <2>2
<1>15. ASSUME NEW k \in 1..n
       PROVE  /\ TableAt(snapshot, names, k) \in Nat /\ TableAt(snapshot, names, k) - 1 \in Nat
              /\ TableAt(snapshot, names, k + 1) =
                    TableAt(snapshot, names, k) + Len(EncodeTable(names[k], snapshot[names[k]]))
              /\ Holds(E, TableAt(snapshot, names, k) - 1, EncodeTable(names[k], snapshot[names[k]]))
  <2>1. k - 1 \in 0..n /\ (k + 1) - 1 = k
    BY <1>2
  <2>2. Offset(tabs, k - 1) \in Nat /\ Len(tabs[k]) \in Nat
    BY <1>4, <1>10, <2>1, LenProperties
  <2>3. TableAt(snapshot, names, k) = 4 + Offset(tabs, k - 1) /\ TableAt(snapshot, names, k + 1) = 4 + Offset(tabs, k)
    <3>1. TableAt(snapshot, names, k + 1) = 4 + Offset(tabs, (k + 1) - 1)
      BY <1>7
    <3> QED BY <1>7, <2>1, <3>1
  <2>4. TableAt(snapshot, names, k + 1) = TableAt(snapshot, names, k) + Len(tabs[k])
    <3>1. Offset(tabs, k) = Offset(tabs, k - 1) + Len(tabs[k])
      BY <1>10
    <3> QED BY <2>2, <2>3, <3>1
  <2>5. Len(E) \in Nat /\ Len(flat) \in Nat
    BY <1>9, <1>12, LenProperties
  <2>6. Holds(flat, Offset(tabs, k - 1), tabs[k])
    BY <1>9
  <2>7. Holds(E, 3 + Offset(tabs, k - 1), tabs[k])
    BY <1>12, <2>2, <2>5, <2>6, HoldsWithin
  <2>8. TableAt(snapshot, names, k) - 1 = 3 + Offset(tabs, k - 1)
    BY <2>2, <2>3
  <2>9. TableAt(snapshot, names, k) \in Nat /\ TableAt(snapshot, names, k) - 1 \in Nat
    BY <2>2, <2>3
  <2> QED BY <1>4, <2>4, <2>7, <2>8, <2>9
<1> QED BY <1>12, <1>13, <1>14, <1>15 DEF n, E, head

(* A table of the file: its head, then column after column.                *)
LEMMA TableLayout ==
    ASSUME snapshot \in Catalogs, NEW names \in Orders, NEW k \in 1..Len(names)
    PROVE  /\ Holds(EncodeCatalog(snapshot, names), TableAt(snapshot, names, k) - 1,
                    EncodeHead(names[k], snapshot[names[k]]))
           /\ ColumnAt(snapshot, names, k, 1) = TableAt(snapshot, names, k) + (Len(snapshot[names[k]]) + 3)
           /\ ColumnAt(snapshot, names, k, Len(snapshot[names[k]]) + 1) = TableAt(snapshot, names, k + 1)
           /\ \A c \in 1..Len(snapshot[names[k]]) :
                  /\ ColumnAt(snapshot, names, k, c) \in Nat /\ ColumnAt(snapshot, names, k, c) - 1 \in Nat
                  /\ ColumnAt(snapshot, names, k, c + 1) =
                        ColumnAt(snapshot, names, k, c) + Len(EncodeColumn(snapshot[names[k]][c]))
                  /\ Holds(EncodeCatalog(snapshot, names), ColumnAt(snapshot, names, k, c) - 1,
                           EncodeColumn(snapshot[names[k]][c]))
<1> DEFINE E == EncodeCatalog(snapshot, names)
           t == names[k]
           tbl == snapshot[t]
           n == Len(tbl)
           T == EncodeTable(t, tbl)
           cols == EncodeColumns(tbl)
           at == TableAt(snapshot, names, k)
<1>1. names \in SetToSeqs(Stored(snapshot))
  BY DEF Orders
<1>2. t \in Strings /\ Saved(tbl)
  BY <1>1, OrderLists
<1>3. /\ E \in Seq(Items) /\ at \in Nat /\ at - 1 \in Nat /\ Holds(E, at - 1, T)
      /\ TableAt(snapshot, names, k + 1) = at + Len(T)
  BY Layout
<1>4. n \in Nat
  BY <1>2, HeadItems
<1>5. EncodeHead(t, tbl) \in Seq(Items)
  BY <1>2, HeadItems
<1>6. /\ T \in Seq(Items) /\ cols \in Seq(Seq(Items)) /\ Len(cols) = n
      /\ \A c \in 1..n : cols[c] = EncodeColumn(tbl[c])
      /\ Len(T) = n + 3 + Offset(cols, n)
      /\ Holds(T, 0, EncodeHead(t, tbl))
      /\ \A c \in 1..n : Holds(T, n + 3 + Offset(cols, c - 1), EncodeColumn(tbl[c]))
  <2> HIDE DEF t, tbl
  <2> QED BY <1>2, TableItems
<1>7. \A c : ColumnAt(snapshot, names, k, c) = at + n + 3 + Offset(cols, c - 1)
  BY DEF ColumnAt
<1> HIDE DEF E, T, cols, n, tbl, t, at
<1>8. /\ Offset(cols, 0) = 0
      /\ \A c \in 1..n : Offset(cols, c) = Offset(cols, c - 1) + Len(cols[c])
      /\ \A c \in 0..n : Offset(cols, c) \in Nat
  <2>1. cols \in Seq(Seq(Items))
    BY <1>6
  <2>2. /\ Offset(cols, 0) = 0
        /\ \A c \in 1..Len(cols) : Offset(cols, c) = Offset(cols, c - 1) + Len(cols[c])
        /\ \A c \in 0..Len(cols) : Offset(cols, c) \in Nat
    BY <2>1, Offsets
  <2> QED BY <1>6, <2>2
<1>9. Len(E) \in Nat /\ Len(T) \in Nat /\ at \in Nat
  BY <1>3, <1>6, LenProperties
<1>10. Holds(E, at - 1, EncodeHead(t, tbl))
  <2>1. Len(EncodeHead(t, tbl)) \in Nat /\ 0 \in Nat
    BY <1>5, LenProperties
  <2>2. Holds(E, (at - 1) + 0, EncodeHead(t, tbl))
    BY <1>3, <1>6, <1>9, <2>1, HoldsWithin
  <2>3. (at - 1) + 0 = at - 1
    BY <1>9
  <2> QED BY <2>2, <2>3
<1>11. ColumnAt(snapshot, names, k, 1) = at + (n + 3)
  <2>1. ColumnAt(snapshot, names, k, 1) = at + n + 3 + Offset(cols, 1 - 1)
    BY <1>7
  <2>2. 1 - 1 = 0
    OBVIOUS
  <2> QED BY <1>4, <1>8, <1>9, <2>1, <2>2
<1>12. ColumnAt(snapshot, names, k, n + 1) = TableAt(snapshot, names, k + 1)
  <2>1. ColumnAt(snapshot, names, k, n + 1) = at + n + 3 + Offset(cols, (n + 1) - 1)
    BY <1>7
  <2>2. (n + 1) - 1 = n /\ n \in 0..n
    BY <1>4
  <2> QED BY <1>3, <1>4, <1>6, <1>8, <1>9, <2>1, <2>2
<1>13. ASSUME NEW c \in 1..n
       PROVE  /\ ColumnAt(snapshot, names, k, c) \in Nat /\ ColumnAt(snapshot, names, k, c) - 1 \in Nat
              /\ ColumnAt(snapshot, names, k, c + 1) = ColumnAt(snapshot, names, k, c) + Len(EncodeColumn(tbl[c]))
              /\ Holds(E, ColumnAt(snapshot, names, k, c) - 1, EncodeColumn(tbl[c]))
  <2> DEFINE o == Offset(cols, c - 1)
  <2>1. c - 1 \in 0..n /\ c \in 0..n /\ (c + 1) - 1 = c
    BY <1>4
  <2>2. o \in Nat /\ Offset(cols, c) = o + Len(cols[c])
    BY <1>8, <2>1
  <2>3. cols[c] = EncodeColumn(tbl[c]) /\ Len(cols[c]) \in Nat
    BY <1>6, ElementOfSeq, LenProperties
  <2>4. ColumnAt(snapshot, names, k, c) = at + n + 3 + o
    BY <1>7
  <2>5. ColumnAt(snapshot, names, k, c + 1) = at + n + 3 + Offset(cols, c)
    <3>1. ColumnAt(snapshot, names, k, c + 1) = at + n + 3 + Offset(cols, (c + 1) - 1)
      BY <1>7
    <3> QED BY <2>1, <3>1
  <2>6. Holds(T, n + 3 + o, cols[c])
    BY <1>6, <2>3
  <2> HIDE DEF o
  <2>7. n + 3 + o \in Nat
    BY <1>4, <2>2
  <2>8. Holds(E, (at - 1) + (n + 3 + o), cols[c])
    BY <1>3, <1>9, <2>3, <2>6, <2>7, HoldsWithin
  <2>9. (at - 1) + (n + 3 + o) = ColumnAt(snapshot, names, k, c) - 1
    BY <1>4, <1>9, <2>2, <2>4
  <2>10. ColumnAt(snapshot, names, k, c) \in Nat /\ ColumnAt(snapshot, names, k, c) - 1 \in Nat
    BY <1>3, <1>4, <1>9, <2>2, <2>4, <2>7, <2>9
  <2>11. ColumnAt(snapshot, names, k, c + 1) = ColumnAt(snapshot, names, k, c) + Len(cols[c])
    BY <1>4, <1>9, <2>2, <2>3, <2>4, <2>5
  <2> QED BY <2>3, <2>8, <2>9, <2>10, <2>11
<1> QED BY <1>10, <1>11, <1>12, <1>13 DEF E, t, tbl, n, at

-----------------------------------------------------------------------------
(* What the reader reads                                                   *)

(* An item of a sort holds what is written under that sort.                *)
LEMMA ItemTypes ==
    ASSUME NEW item \in Items
    PROVE  /\ item[1] = "word" \/ item[1] = "real" => item[2] \in Nat
           /\ item[1] = "str" => item[2] \in Strings
           /\ item[1] = "type" => item[2] \in Types
  BY DEF Items

(* The sorts the reader expects behind the header.                         *)
Sorts == {"word", "real", "str", "type"}

LEMMA TimesSeq ==
    ASSUME NEW n \in Nat, NEW sort \in Sorts
    PROVE  /\ Times(n, sort) \in Seq(Sorts)
           /\ Len(Times(n, sort)) = n
           /\ \A k \in 1..n : Times(n, sort)[k] = sort
<1>1. Times(n, sort) \in [1..n -> Sorts]
  BY DEF Times
<1>2. \A k \in 1..n : Times(n, sort)[k] = sort
  BY DEF Times
<1> QED BY <1>1, <1>2, FcnIsSeq

(* The sorts of a table's head, where its first two items can be read.     *)
LEMMA HeadSortsSeq ==
    ASSUME NEW i, Reads(i, <<"str", "word">>), Item(i + 1) \in Nat
    PROVE  /\ HeadSorts(i) \in Seq(Sorts)
           /\ Len(HeadSorts(i)) = Item(i + 1) + 3
           /\ HeadSorts(i)[1] = "str" /\ HeadSorts(i)[2] = "word"
           /\ \A c \in 1..Item(i + 1) : HeadSorts(i)[2 + c] = "type"
           /\ HeadSorts(i)[3 + Item(i + 1)] = "word"
<1> DEFINE n == Item(i + 1)
           front == <<"str", "word">>
           types == Times(n, "type")
           rest == Append(types, "word")
           s == front \o rest
<1>1. HeadSorts(i) = s
  BY DEF HeadSorts
<1>2. types \in Seq(Sorts) /\ Len(types) = n /\ \A c \in 1..n : types[c] = "type"
  <2>1. n \in Nat /\ "type" \in Sorts
    BY DEF Sorts
  <2> HIDE DEF n
  <2> QED BY <2>1, TimesSeq
<1> HIDE DEF types, n
<1>3. n \in Nat
  BY DEF n
<1>4. /\ rest \in Seq(Sorts) /\ Len(rest) = n + 1 /\ rest[n + 1] = "word"
      /\ \A c \in 1..n : rest[c] = "type"
  <2>1. "word" \in Sorts
    BY DEF Sorts
  <2> QED BY <1>2, <1>3, <2>1, AppendProperties
<1>5. front \in Seq(Sorts) /\ Len(front) = 2 /\ front[1] = "str" /\ front[2] = "word"
  BY DEF Sorts
<1> HIDE DEF front, rest
<1>6. /\ s \in Seq(Sorts) /\ Len(s) = Len(front) + Len(rest)
      /\ Holds(s, 0, front) /\ Holds(s, Len(front), rest)
  <2>1. front \in Seq(Sorts) /\ rest \in Seq(Sorts)
    BY <1>4, <1>5
  <2> QED BY <2>1, HoldsConcat
<1> HIDE DEF s
<1>7. s \in Seq(Sorts) /\ Len(s) = n + 3
  BY <1>3, <1>4, <1>5, <1>6
<1>8. \A j \in 1..2 : s[0 + j] = front[j]
  BY <1>5, <1>6 DEF Holds
<1>9. s[1] = "str" /\ s[2] = "word"
  <2>1. s[0 + 1] = front[1] /\ s[0 + 2] = front[2]
    BY <1>8
  <2> QED BY <1>5, <2>1
<1>10. \A j \in 1..n + 1 : s[2 + j] = rest[j]
  BY <1>4, <1>5, <1>6 DEF Holds
<1>11. \A c \in 1..n : s[2 + c] = "type"
  <2>1. \A c \in 1..n : c \in 1..n + 1
    BY <1>3
  <2> QED BY <1>4, <1>10, <2>1
<1>12. s[3 + n] = "word"
  <2>1. n + 1 \in 1..n + 1 /\ 2 + (n + 1) = 3 + n
    BY <1>3
  <2>2. s[2 + (n + 1)] = rest[n + 1]
    BY <1>10, <2>1
  <2> QED BY <1>4, <2>1, <2>2
<1> QED BY <1>1, <1>7, <1>9, <1>11, <1>12 DEF n

LEMMA CellSortType ==
    ASSUME NEW type \in Types
    PROVE  /\ KindOf(type) \in Kinds
           /\ CellSort(type) \in {"word", "real", "str"}
           /\ KindOf(type) = "Int64" => CellSort(type) = "word"
           /\ KindOf(type) = "Double" => CellSort(type) = "real"
           /\ KindOf(type) = "String" => CellSort(type) = "str"
<1>1. KindOf(type) \in Kinds
  BY DEF KindOf, Kinds, Types
<1> QED BY <1>1 DEF CellSort, Kinds

(* The sorts of a column with n words.                                     *)
SortsOfColumn(s, n, type, rows) ==
    /\ s \in Seq(Sorts)
    /\ Len(s) = 1 + n + rows
    /\ s[1] = "word"
    /\ \A w \in 1..n : s[1 + w] = "word"
    /\ \A r \in 1..rows : s[1 + n + r] = CellSort(type)

(* The sorts of a column, where the number of its words can be read.       *)
LEMMA ColumnSortsSeq ==
    ASSUME NEW i, Reads(i, <<"word">>), Item(i) \in Nat, NEW type \in Types, NEW rows \in Nat
    PROVE  SortsOfColumn(ColumnSorts(i, type, rows), Item(i), type, rows)
<1> DEFINE n == Item(i)
           front == <<"word">>
           words == Times(n, "word")
           cells == Times(rows, CellSort(type))
           rest == words \o cells
           s == front \o rest
<1>1. ColumnSorts(i, type, rows) = s
  BY DEF ColumnSorts
<1>2. n \in Nat
  OBVIOUS
<1> HIDE DEF n
<1>3. CellSort(type) \in Sorts
  BY CellSortType DEF Sorts
<1>4. words \in Seq(Sorts) /\ Len(words) = n /\ \A w \in 1..n : words[w] = "word"
  <2>1. "word" \in Sorts
    BY DEF Sorts
  <2> QED BY <1>2, <2>1, TimesSeq
<1>5. cells \in Seq(Sorts) /\ Len(cells) = rows /\ \A r \in 1..rows : cells[r] = CellSort(type)
  BY <1>3, TimesSeq
<1> HIDE DEF words, cells
<1>6. /\ rest \in Seq(Sorts) /\ Len(rest) = Len(words) + Len(cells)
      /\ Holds(rest, 0, words) /\ Holds(rest, Len(words), cells)
  <2>1. words \in Seq(Sorts) /\ cells \in Seq(Sorts)
    BY <1>4, <1>5
  <2> QED BY <2>1, HoldsConcat
<1>7. front \in Seq(Sorts) /\ Len(front) = 1 /\ front[1] = "word"
  BY DEF Sorts
<1> HIDE DEF front, rest
<1>8. /\ s \in Seq(Sorts) /\ Len(s) = Len(front) + Len(rest)
      /\ Holds(s, 0, front) /\ Holds(s, Len(front), rest)
  <2>1. front \in Seq(Sorts) /\ rest \in Seq(Sorts)
    BY <1>6, <1>7
  <2> QED BY <2>1, HoldsConcat
<1> HIDE DEF s
<1>9. s \in Seq(Sorts) /\ Len(s) = 1 + n + rows /\ Len(rest) = n + rows
  BY <1>2, <1>4, <1>5, <1>6, <1>7, <1>8
<1>10. s[1] = "word"
  <2>1. s[0 + 1] = front[1]
    BY <1>7, <1>8 DEF Holds
  <2> QED BY <1>7, <2>1
<1>11. \A j \in 1..n + rows : s[1 + j] = rest[j]
  BY <1>7, <1>8, <1>9 DEF Holds
<1>12. ASSUME NEW w \in 1..n PROVE s[1 + w] = "word"
  <2>1. w \in 1..n + rows /\ 0 + w = w
    BY <1>2
  <2>2. rest[0 + w] = words[w]
    BY <1>4, <1>6 DEF Holds
  <2> QED BY <1>4, <1>11, <2>1, <2>2
<1>13. ASSUME NEW r \in 1..rows PROVE s[1 + n + r] = CellSort(type)
  <2>1. n + r \in 1..n + rows /\ 1 + (n + r) = 1 + n + r
    BY <1>2
  <2>2. rest[n + r] = cells[r]
    BY <1>4, <1>5, <1>6 DEF Holds
  <2>3. s[1 + (n + r)] = rest[n + r]
    BY <1>11, <2>1
  <2> QED BY <1>5, <2>1, <2>2, <2>3
<1>14. SortsOfColumn(s, n, type, rows)
  BY <1>1, <1>9, <1>10, <1>12, <1>13 DEF SortsOfColumn
<1>15. SortsOfColumn(ColumnSorts(i, type, rows), n, type, rows)
  BY <1>1, <1>14
<1> QED BY <1>15 DEF n

(* The reader gets the sorts it expects.                                   *)
LEMMA ReadSorts ==
    ASSUME disk \in Seq(Items), NEW i \in Nat \ {0}, NEW sorts, Len(sorts) \in Nat,
           Reads(i, sorts), NEW k \in 1..Len(sorts)
    PROVE  /\ i + (k - 1) \in 1..Len(disk)
           /\ disk[i + (k - 1)] \in Items
           /\ disk[i + (k - 1)][1] = sorts[k]
<1>1. Len(disk) \in Nat
  BY LenProperties
<1>2. i + (k - 1) \in 1..Len(disk)
  BY <1>1 DEF Reads
<1>3. disk[i + (k - 1)] \in Items
  BY <1>2, ElementOfSeq
<1> QED BY <1>1, <1>2, <1>3 DEF Reads, Agree, Sort

(* The head of a table that could be read is of the right types, wherever  *)
(* the reader is.                                                          *)
LEMMA HeadTyped ==
    ASSUME disk \in Seq(Items), NEW i \in Nat \ {0}, Reads(i, HeadSorts(i))
    PROVE  /\ Reads(i, <<"str", "word">>)
           /\ Item(i) \in Strings /\ Item(i + 1) \in Nat
           /\ Len(HeadSorts(i)) = Item(i + 1) + 3
           /\ i + Item(i + 1) + 2 <= Len(disk)
           /\ \A c \in 1..Item(i + 1) : Item(i + 1 + c) \in Types
           /\ Item(i + 2 + Item(i + 1)) \in Nat
<1> DEFINE two == <<"str", "word">>
<1>1. Len(two) = 2 /\ two[1] = "str" /\ two[2] = "word"
  OBVIOUS
<1>2. Reads(i, two)
  <2> SUFFICES ASSUME ~ Reads(i, two) PROVE FALSE
    OBVIOUS
  <2>1. HeadSorts(i) = two \o << >>
    BY DEF HeadSorts
  <2>2. two \o << >> = two
    OBVIOUS
  <2> HIDE DEF two
  <2> QED BY <2>1, <2>2
<1> HIDE DEF two
<1>3. /\ disk[i + (1 - 1)] \in Items /\ disk[i + (1 - 1)][1] = "str"
      /\ disk[i + (2 - 1)] \in Items /\ disk[i + (2 - 1)][1] = "word"
  <2>1. Len(two) \in Nat /\ 1 \in 1..Len(two) /\ 2 \in 1..Len(two)
    BY <1>1
  <2>2. disk[i + (1 - 1)] \in Items /\ disk[i + (1 - 1)][1] = two[1]
    BY <1>2, <2>1, ReadSorts
  <2>3. disk[i + (2 - 1)] \in Items /\ disk[i + (2 - 1)][1] = two[2]
    BY <1>2, <2>1, ReadSorts
  <2> QED BY <1>1, <2>2, <2>3
<1>4. i + (1 - 1) = i /\ i + (2 - 1) = i + 1
  OBVIOUS
<1>5. Item(i) \in Strings /\ Item(i + 1) \in Nat
  BY <1>3, <1>4, ItemTypes DEF Item
<1> DEFINE n == Item(i + 1)
           s == HeadSorts(i)
<1>6. /\ Len(s) = n + 3 /\ s[3 + n] = "word"
      /\ \A c \in 1..n : s[2 + c] = "type"
  BY <1>2, <1>5, HeadSortsSeq DEF two
<1>7. n \in Nat
  BY <1>5
<1>8. Reads(i, s)
  OBVIOUS
<1> HIDE DEF n, s
<1>9. Len(s) \in Nat
  BY <1>6, <1>7
<1>10. i + n + 2 <= Len(disk)
  <2>1. i + (Len(s) - 1) <= Len(disk)
    BY <1>8 DEF Reads
  <2> QED BY <1>6, <1>7, <2>1
<1>11. ASSUME NEW c \in 1..n PROVE Item(i + 1 + c) \in Types
  <2>1. 2 + c \in 1..Len(s) /\ i + ((2 + c) - 1) = i + 1 + c
    BY <1>6, <1>7
  <2>2. disk[i + ((2 + c) - 1)] \in Items /\ disk[i + ((2 + c) - 1)][1] = s[2 + c]
    BY <1>8, <1>9, <2>1, ReadSorts
  <2>3. disk[i + 1 + c] \in Items /\ disk[i + 1 + c][1] = "type"
    BY <1>6, <2>1, <2>2
  <2> QED BY <2>3, ItemTypes DEF Item
<1>12. Item(i + 2 + n) \in Nat
  <2>1. 3 + n \in 1..Len(s) /\ i + ((3 + n) - 1) = i + 2 + n
    BY <1>6, <1>7
  <2>2. disk[i + ((3 + n) - 1)] \in Items /\ disk[i + ((3 + n) - 1)][1] = s[3 + n]
    BY <1>8, <1>9, <2>1, ReadSorts
  <2>3. disk[i + 2 + n] \in Items /\ disk[i + 2 + n][1] = "word"
    BY <1>6, <2>1, <2>2
  <2> QED BY <2>3, ItemTypes DEF Item
<1> QED BY <1>2, <1>5, <1>6, <1>10, <1>11, <1>12 DEF n, s, two

(* A column that could be read is of the right types, wherever the reader  *)
(* is.                                                                     *)
LEMMA ColumnTyped ==
    ASSUME disk \in Seq(Items), NEW i \in Nat \ {0}, NEW type \in Types, NEW rows \in Nat,
           Reads(i, ColumnSorts(i, type, rows))
    PROVE  /\ Reads(i, <<"word">>) /\ Item(i) \in Nat
           /\ Len(ColumnSorts(i, type, rows)) = 1 + Item(i) + rows
           /\ i + Item(i) + rows <= Len(disk)
           /\ \A r \in 1..rows :
                  /\ Cell(type, Item(i + Item(i) + r)) \in [kind : Kinds, src : Kinds, num : Nat]
                  /\ Storable(type, Cell(type, Item(i + Item(i) + r)))
<1> DEFINE one == <<"word">>
           s == ColumnSorts(i, type, rows)
           n == Item(i)
<1>1. Len(one) = 1 /\ one[1] = "word"
  OBVIOUS
<1>2. Reads(i, one)
  <2> SUFFICES ASSUME ~ Reads(i, one) PROVE FALSE
    OBVIOUS
  <2>1. s = one \o << >>
    BY DEF ColumnSorts
  <2>2. one \o << >> = one
    OBVIOUS
  <2> HIDE DEF one, s
  <2>3. Reads(i, s)
    BY DEF s
  <2> QED BY <2>1, <2>2, <2>3
<1> HIDE DEF one
<1>3. disk[i + (1 - 1)] \in Items /\ disk[i + (1 - 1)][1] = "word"
  <2>1. Len(one) \in Nat /\ 1 \in 1..Len(one)
    BY <1>1
  <2>2. disk[i + (1 - 1)] \in Items /\ disk[i + (1 - 1)][1] = one[1]
    BY <1>2, <2>1, ReadSorts
  <2> QED BY <1>1, <2>2
<1>4. i + (1 - 1) = i
  OBVIOUS
<1>5. n \in Nat
  BY <1>3, <1>4, ItemTypes DEF Item
<1>6. Len(s) = 1 + n + rows /\ \A r \in 1..rows : s[1 + n + r] = CellSort(type)
  <2>1. SortsOfColumn(s, n, type, rows)
    BY <1>2, <1>5, ColumnSortsSeq DEF one
  <2> HIDE DEF n, s
  <2> QED BY <2>1 DEF SortsOfColumn
<1>7. Reads(i, s)
  OBVIOUS
<1> HIDE DEF n, s
<1>8. Len(s) \in Nat
  BY <1>5, <1>6
<1>9. i + n + rows <= Len(disk)
  <2>1. i + (Len(s) - 1) <= Len(disk)
    BY <1>7 DEF Reads
  <2> QED BY <1>5, <1>6, <2>1
<1>10. ASSUME NEW r \in 1..rows
       PROVE  /\ Cell(type, Item(i + n + r)) \in [kind : Kinds, src : Kinds, num : Nat]
              /\ Storable(type, Cell(type, Item(i + n + r)))
  <2> DEFINE x == Item(i + n + r)
  <2>1. 1 + n + r \in 1..Len(s) /\ i + ((1 + n + r) - 1) = i + n + r
    BY <1>5, <1>6
  <2>2. disk[i + ((1 + n + r) - 1)] \in Items /\ disk[i + ((1 + n + r) - 1)][1] = s[1 + n + r]
    BY <1>7, <1>8, <2>1, ReadSorts
  <2>3. disk[i + n + r] \in Items /\ disk[i + n + r][1] = CellSort(type)
    BY <1>6, <2>1, <2>2
  <2>4. /\ CellSort(type) = "word" \/ CellSort(type) = "real" => x \in Nat
        /\ CellSort(type) = "str" => x \in Strings
    BY <2>3, ItemTypes DEF Item
  <2> HIDE DEF x
  <2>5. CASE KindOf(type) = "Int64"
    <3>1. x \in Nat /\ Cell(type, x) = IntV(x)
      BY <2>4, <2>5, CellSortType DEF Cell
    <3> QED BY <2>5, <3>1 DEF IntV, Storable, Kinds, x
  <2>6. CASE KindOf(type) = "Double"
    <3>1. x \in Nat /\ Cell(type, x) = DblV(x)
      BY <2>4, <2>6, CellSortType DEF Cell
    <3> QED BY <2>6, <3>1 DEF DblV, Storable, Kinds, x
  <2>7. CASE KindOf(type) = "String"
    <3>1. x \in Strings /\ Cell(type, x) = x
      BY <2>4, <2>7, CellSortType DEF Cell
    <3> QED BY <2>7, <3>1 DEF Strings, Storable, Kinds, x
  <2> QED BY <2>5, <2>6, <2>7, CellSortType DEF Kinds
<1> QED BY <1>2, <1>5, <1>6, <1>9, <1>10 DEF n, s, one

(* As far as a file that was cut off goes, it holds what the whole one     *)
(* holds there.                                                            *)
LEMMA PrefixItems ==
    ASSUME NEW file, Len(file) \in Nat, Len(disk) \in Nat, Holds(file, 0, disk),
           NEW n \in Nat, NEW s, Len(s) \in Nat, Holds(file, n, s),
           NEW j \in 1..Len(s), n + j <= Len(disk)
    PROVE  disk[n + j] = s[j]
<1>1. n + j \in 1..Len(disk) /\ 0 + (n + j) = n + j
  OBVIOUS
<1>2. file[0 + (n + j)] = disk[n + j]
  BY <1>1 DEF Holds
<1>3. file[n + j] = s[j]
  BY DEF Holds
<1> QED BY <1>1, <1>2, <1>3

(* The file is the beginning of the snapshot's encoding.                   *)
Prefix(names) == Holds(EncodeCatalog(snapshot, names), 0, disk)

(* At the beginning of a table, the reader gets the head that was saved,   *)
(* or the file ends within it.                                             *)
LEMMA HeadRead ==
    ASSUME snapshot \in Catalogs, disk \in Seq(Items), NEW names \in Orders, Prefix(names),
           NEW k \in 1..Len(names), NEW i, i = TableAt(snapshot, names, k),
           NEW tbl, tbl = snapshot[names[k]]
    PROVE  /\ Agree(i, HeadSorts(i))
           /\ Len(HeadSorts(i)) \in Nat /\ Len(HeadSorts(i)) <= Len(tbl) + 3
           /\ Reads(i, HeadSorts(i)) =>
                 /\ Len(HeadSorts(i)) = Len(tbl) + 3
                 /\ Item(i) = names[k]
                 /\ Item(i + 1) = Len(tbl)
                 /\ \A c \in 1..Len(tbl) : Item(i + 1 + c) = tbl[c].type
                 /\ Item(i + 2 + Len(tbl)) = RowCount(tbl)
<1> DEFINE E == EncodeCatalog(snapshot, names)
           t == names[k]
           h == EncodeHead(t, tbl)
           n == Len(tbl)
<1>1. t \in Strings /\ Saved(tbl)
  BY OrderLists DEF Orders
<1>2. /\ h \in Seq(Items) /\ n \in Nat /\ Len(h) = n + 3
      /\ h[1] = <<"str", t>> /\ h[2] = <<"word", n>>
      /\ \A c \in 1..n : h[2 + c] = <<"type", tbl[c].type>>
      /\ h[3 + n] = <<"word", RowCount(tbl)>>
  <2>1. h \in Seq(Items) /\ n \in Nat /\ Len(h) = n + 3
    BY <1>1, HeadItems
  <2>2. h[1] = <<"str", t>> /\ h[2] = <<"word", n>>
    BY <1>1, HeadItems
  <2>3. \A c \in 1..n : h[2 + c] = <<"type", tbl[c].type>>
    BY <1>1, HeadItems
  <2>4. h[3 + n] = <<"word", RowCount(tbl)>>
    BY <1>1, HeadItems
  <2> QED BY <2>1, <2>2, <2>3, <2>4
<1>3. E \in Seq(Items) /\ i \in Nat /\ i - 1 \in Nat
  BY Layout
<1>4. Holds(E, i - 1, h)
  BY TableLayout
<1>5. Holds(E, 0, disk)
  BY DEF Prefix
<1>6. Len(E) \in Nat /\ Len(disk) \in Nat
  BY <1>3, LenProperties
<1> HIDE DEF E, h, n, t
<1>7. \A j \in 1..n + 3 : i + (j - 1) <= Len(disk) => disk[i + (j - 1)] = h[j]
  <2> SUFFICES ASSUME NEW j \in 1..n + 3, i + (j - 1) <= Len(disk)
               PROVE  disk[i + (j - 1)] = h[j]
    OBVIOUS
  <2>1. (i - 1) + j = i + (j - 1)
    BY <1>2, <1>3
  <2>2. j \in 1..Len(h) /\ Len(h) \in Nat /\ (i - 1) + j <= Len(disk)
    BY <1>2, <2>1
  <2>3. PICK m \in Nat : m = i - 1
    BY <1>3
  <2>4. Holds(E, m, h) /\ m + j <= Len(disk)
    BY <1>4, <2>2, <2>3
  <2>5. disk[m + j] = h[j]
    BY <1>5, <1>6, <2>2, <2>4, PrefixItems
  <2> QED BY <2>1, <2>3, <2>5
<1> DEFINE two == <<"str", "word">>
<1>8. Len(two) = 2 /\ two[1] = "str" /\ two[2] = "word"
  OBVIOUS
<1>9. ASSUME NEW j \in 1..2, i + (j - 1) <= Len(disk) PROVE Sort(i + (j - 1)) = two[j]
  <2>1. j \in 1..n + 3
    BY <1>2
  <2>2. disk[i + (j - 1)] = h[j]
    BY <1>7, <1>9, <2>1
  <2>3. h[j][1] = two[j]
    BY <1>2, <1>8
  <2> QED BY <2>2, <2>3 DEF Sort
<1>10. Agree(i, two)
  BY <1>8, <1>9 DEF Agree
<1>11. CASE i + 1 <= Len(disk)
  <2>1. Reads(i, two)
    BY <1>3, <1>6, <1>8, <1>10, <1>11 DEF Reads
  <2>2. Item(i) = t /\ Item(i + 1) = n
    <3>1. 1 \in 1..n + 3 /\ 2 \in 1..n + 3 /\ i + (1 - 1) = i /\ i + (2 - 1) = i + 1
      BY <1>2, <1>3
    <3>2. i <= Len(disk)
      BY <1>3, <1>6, <1>11
    <3>3. disk[i] = h[1] /\ disk[i + 1] = h[2]
      BY <1>7, <1>11, <3>1, <3>2
    <3> QED BY <1>2, <3>3 DEF Item
  <2> DEFINE s == HeadSorts(i)
  <2>3. /\ Len(s) = n + 3 /\ s[1] = "str" /\ s[2] = "word"
        /\ \A c \in 1..n : s[2 + c] = "type"
        /\ s[3 + n] = "word"
    <3>1. Item(i + 1) \in Nat
      BY <1>2, <2>2
    <3>2. /\ Len(s) = Item(i + 1) + 3 /\ s[1] = "str" /\ s[2] = "word"
          /\ \A c \in 1..Item(i + 1) : s[2 + c] = "type"
          /\ s[3 + Item(i + 1)] = "word"
      BY <2>1, <3>1, HeadSortsSeq
    <3> HIDE DEF s
    <3> QED BY <2>2, <3>2
  <2> HIDE DEF s
  <2>4. \A j \in 1..n + 3 : h[j][1] = s[j]
    <3>1. ASSUME NEW j \in 1..n + 3 PROVE h[j][1] = s[j]
      <4>1. CASE j \in 1..2
        BY <1>2, <2>3, <4>1
      <4>2. CASE j = 3 + n
        BY <1>2, <2>3, <4>2
      <4>3. CASE j \notin 1..2 /\ j # 3 + n
        <5>1. PICK c \in 1..n : j = 2 + c
          <6>1. j - 2 \in 1..n /\ j = 2 + (j - 2)
            BY <1>2, <4>3
          <6> QED BY <6>1
        <5>2. h[2 + c] = <<"type", tbl[c].type>> /\ s[2 + c] = "type"
          BY <1>2, <2>3
        <5> QED BY <5>1, <5>2
      <4> QED BY <4>1, <4>2, <4>3
    <3> QED BY <3>1
  <2>5. Agree(i, s)
    <3>1. \A j \in 1..n + 3 : i + (j - 1) <= Len(disk) => Sort(i + (j - 1)) = s[j]
      BY <1>7, <2>4 DEF Sort
    <3> QED BY <2>3, <3>1 DEF Agree
  <2>6. ASSUME Reads(i, s)
        PROVE  /\ \A c \in 1..n : Item(i + 1 + c) = tbl[c].type
               /\ Item(i + 2 + n) = RowCount(tbl)
    <3>1. i + ((n + 3) - 1) <= Len(disk)
      BY <2>3, <2>6 DEF Reads
    <3>2. ASSUME NEW c \in 1..n PROVE Item(i + 1 + c) = tbl[c].type
      <4>1. /\ 2 + c \in 1..n + 3 /\ i + ((2 + c) - 1) <= Len(disk)
            /\ i + ((2 + c) - 1) = i + 1 + c
        <5>1. i \in Nat /\ n \in Nat /\ Len(disk) \in Nat /\ c \in Nat /\ 1 <= c /\ c <= n
          BY <1>2, <1>3, <1>6
        <5>2. i + ((2 + c) - 1) <= i + ((n + 3) - 1) /\ i + ((2 + c) - 1) = i + 1 + c
          BY <5>1
        <5>3. 2 + c \in 1..n + 3
          BY <5>1
        <5> QED BY <3>1, <5>1, <5>2, <5>3
      <4>2. disk[i + ((2 + c) - 1)] = h[2 + c]
        BY <1>7, <4>1
      <4>3. disk[i + 1 + c] = <<"type", tbl[c].type>>
        BY <1>2, <4>1, <4>2
      <4> QED BY <4>3 DEF Item
    <3>3. Item(i + 2 + n) = RowCount(tbl)
      <4>1. /\ 3 + n \in 1..n + 3 /\ i + ((3 + n) - 1) <= Len(disk)
            /\ i + ((3 + n) - 1) = i + 2 + n
        <5>1. i \in Nat /\ n \in Nat /\ Len(disk) \in Nat
          BY <1>2, <1>3, <1>6
        <5> QED BY <3>1, <5>1
      <4>2. disk[i + ((3 + n) - 1)] = h[3 + n]
        BY <1>7, <4>1
      <4>3. disk[i + 2 + n] = <<"word", RowCount(tbl)>>
        BY <1>2, <4>1, <4>2
      <4> QED BY <4>3 DEF Item
    <3> QED BY <3>2, <3>3
  <2>7. Len(s) \in Nat /\ Len(s) <= n + 3
    BY <1>2, <2>3
  <2> QED BY <2>2, <2>3, <2>5, <2>6, <2>7 DEF s, n, t
<1>12. CASE ~ (i + 1 <= Len(disk))
  <2>1. ~ Reads(i, two)
    BY <1>3, <1>6, <1>8, <1>12 DEF Reads
  <2>2. HeadSorts(i) = two
    <3>1. HeadSorts(i) = two \o << >>
      BY <2>1 DEF HeadSorts
    <3>2. two \o << >> = two
      OBVIOUS
    <3> HIDE DEF two
    <3> QED BY <3>1, <3>2
  <2>3. Len(two) <= n + 3 /\ Len(two) \in Nat
    BY <1>2, <1>8
  <2> HIDE DEF two
  <2> QED BY <1>10, <2>1, <2>2, <2>3 DEF n
<1> QED BY <1>11, <1>12, <1>3, <1>6

(* A cell is read back as it was written.                                  *)
LEMMA CellRoundTrip ==
    ASSUME NEW type \in Types, NEW v \in [kind : Kinds, src : Kinds, num : Nat], Storable(type, v)
    PROVE  /\ CellItem(v)[1] = CellSort(type)
           /\ Cell(type, CellItem(v)[2]) = v
<1>1. v.kind = KindOf(type) /\ (v.kind = "String" \/ v.src = v.kind)
  BY DEF Storable
<1>2. v = [kind |-> v.kind, src |-> v.src, num |-> v.num]
  OBVIOUS
<1>3. CASE v.kind = "Int64"
  <2>1. CellItem(v) = <<"word", v.num>> /\ CellSort(type) = "word"
    BY <1>1, <1>3, CellSortType DEF CellItem
  <2>2. Cell(type, v.num) = IntV(v.num)
    BY <1>1, <1>3 DEF Cell
  <2>3. IntV(v.num) = v
    BY <1>1, <1>2, <1>3 DEF IntV
  <2> QED BY <2>1, <2>2, <2>3
<1>4. CASE v.kind = "Double"
  <2>1. CellItem(v) = <<"real", v.num>> /\ CellSort(type) = "real"
    BY <1>1, <1>4, CellSortType DEF CellItem
  <2>2. Cell(type, v.num) = DblV(v.num)
    BY <1>1, <1>4 DEF Cell
  <2>3. DblV(v.num) = v
    BY <1>1, <1>2, <1>4 DEF DblV
  <2> QED BY <2>1, <2>2, <2>3
<1>5. CASE v.kind = "String"
  <2>1. CellItem(v) = <<"str", v>> /\ CellSort(type) = "str"
    BY <1>1, <1>5, CellSortType DEF CellItem
  <2>2. Cell(type, v) = v
    BY <1>1, <1>5 DEF Cell
  <2> QED BY <2>1, <2>2
<1> QED BY <1>3, <1>4, <1>5 DEF Kinds

(* At the beginning of a column with as many rows as its table, the reader *)
(* gets the column that was saved, or the file ends within it.             *)
LEMMA ColumnRead ==
    ASSUME snapshot \in Catalogs, disk \in Seq(Items), NEW names \in Orders, Prefix(names),
           NEW k \in 1..Len(names), NEW c \in 1..Len(snapshot[names[k]]),
           NEW i, i = ColumnAt(snapshot, names, k, c), NEW col, col = snapshot[names[k]][c]
    PROVE  /\ Agree(i, ColumnSorts(i, col.type, Size(col)))
           /\ Len(ColumnSorts(i, col.type, Size(col))) \in Nat
           /\ Len(ColumnSorts(i, col.type, Size(col))) <= Len(EncodeColumn(col))
           /\ Reads(i, ColumnSorts(i, col.type, Size(col))) =>
                 /\ Len(ColumnSorts(i, col.type, Size(col))) = Len(EncodeColumn(col))
                 /\ Item(i) = WordCount(Size(col))
                 /\ \A w \in 1..WordCount(Size(col)) : Item(i + w) = Word(col.valid, w)
                 /\ \A r \in 1..Size(col) :
                        Cell(col.type, Item(i + WordCount(Size(col)) + r)) = col.data[r]
<1> DEFINE E == EncodeCatalog(snapshot, names)
           h == EncodeColumn(col)
           n == Size(col)
           q == WordCount(n)
           s == ColumnSorts(i, col.type, n)
<1>1. Saved(snapshot[names[k]])
  BY OrderLists DEF Orders
<1>2. /\ col \in SavedColumns /\ Len(col.data) = Len(col.valid)
      /\ \A r \in 1..Len(col.data) : Storable(col.type, col.data[r])
  BY <1>1, ElementOfSeq DEF Saved, BuffersAgree, BuffersTyped
<1>3. /\ h \in Seq(Items) /\ n \in Nat /\ q \in Nat /\ Len(h) = 1 + q + n
      /\ h[1] = <<"word", q>>
      /\ \A w \in 1..q : h[1 + w] = <<"word", Word(col.valid, w)>>
      /\ \A r \in 1..n : h[1 + q + r] = CellItem(col.data[r])
  BY <1>2, ColumnItems
<1>4. col.type \in Types /\ \A r \in 1..n : /\ col.data[r] \in [kind : Kinds, src : Kinds, num : Nat]
                                            /\ Storable(col.type, col.data[r])
  BY <1>2, ElementOfSeq DEF SavedColumns, Size
<1>5. \A r \in 1..n : /\ CellItem(col.data[r])[1] = CellSort(col.type)
                      /\ Cell(col.type, CellItem(col.data[r])[2]) = col.data[r]
  BY <1>4, CellRoundTrip
<1>6. E \in Seq(Items) /\ i \in Nat /\ i - 1 \in Nat
  BY Layout, TableLayout
<1>7. Holds(E, i - 1, h)
  BY TableLayout
<1>8. Holds(E, 0, disk)
  BY DEF Prefix
<1>9. Len(E) \in Nat /\ Len(disk) \in Nat
  BY <1>6, LenProperties
<1> HIDE DEF E, h, q, n
<1>10. \A j \in 1..1 + q + n : i + (j - 1) <= Len(disk) => disk[i + (j - 1)] = h[j]
  <2> SUFFICES ASSUME NEW j \in 1..1 + q + n, i + (j - 1) <= Len(disk)
               PROVE  disk[i + (j - 1)] = h[j]
    OBVIOUS
  <2>1. (i - 1) + j = i + (j - 1)
    BY <1>3, <1>6
  <2>2. j \in 1..Len(h) /\ Len(h) \in Nat /\ (i - 1) + j <= Len(disk)
    BY <1>3, <2>1
  <2>3. PICK m \in Nat : m = i - 1
    BY <1>6
  <2>4. Holds(E, m, h) /\ m + j <= Len(disk)
    BY <1>7, <2>2, <2>3
  <2>5. disk[m + j] = h[j]
    BY <1>8, <1>9, <2>2, <2>4, PrefixItems
  <2> QED BY <2>1, <2>3, <2>5
<1> DEFINE one == <<"word">>
<1>11. Len(one) = 1 /\ one[1] = "word"
  OBVIOUS
<1>12. i <= Len(disk) => disk[i] = <<"word", q>>
  <2>1. 1 \in 1..1 + q + n /\ i + (1 - 1) = i
    BY <1>3, <1>6
  <2> QED BY <1>3, <1>10, <2>1
<1>13. Agree(i, one)
  <2>1. ASSUME NEW j \in 1..1, i + (j - 1) <= Len(disk) PROVE Sort(i + (j - 1)) = one[j]
    <3>1. i + (j - 1) = i /\ j = 1
      BY <1>6
    <3> QED BY <1>11, <1>12, <2>1, <3>1 DEF Sort
  <2> QED BY <1>11, <2>1 DEF Agree
<1>14. CASE i <= Len(disk)
  <2>1. Reads(i, one)
    BY <1>6, <1>9, <1>11, <1>13, <1>14 DEF Reads
  <2>2. Item(i) = q
    BY <1>12, <1>14 DEF Item
  <2>3. /\ Len(s) = 1 + q + n /\ s[1] = "word"
        /\ \A w \in 1..q : s[1 + w] = "word"
        /\ \A r \in 1..n : s[1 + q + r] = CellSort(col.type)
    <3>1. /\ q \in Nat /\ Item(i) = q /\ Reads(i, <<"word">>) /\ n \in Nat
          /\ col.type \in Types /\ s = ColumnSorts(i, col.type, n)
      BY <1>3, <1>4, <2>1, <2>2
    <3>2. SortsOfColumn(s, Item(i), col.type, n)
      BY <3>1, ColumnSortsSeq
    <3>3. SortsOfColumn(s, q, col.type, n)
      BY <3>1, <3>2
    <3> HIDE DEF s
    <3> QED BY <3>3 DEF SortsOfColumn
  <2> HIDE DEF s
  <2>4. \A j \in 1..1 + q + n : h[j][1] = s[j]
    <3>1. ASSUME NEW j \in 1..1 + q + n PROVE h[j][1] = s[j]
      <4>1. CASE j = 1
        BY <1>3, <2>3, <4>1
      <4>2. CASE j \in 2..1 + q
        <5>1. PICK w \in 1..q : j = 1 + w
          <6>1. j - 1 \in 1..q /\ j = 1 + (j - 1)
            BY <1>3, <4>2
          <6> QED BY <6>1
        <5>2. h[1 + w] = <<"word", Word(col.valid, w)>> /\ s[1 + w] = "word"
          BY <1>3, <2>3
        <5> QED BY <5>1, <5>2
      <4>3. CASE j > 1 + q
        <5>1. PICK r \in 1..n : j = 1 + q + r
          <6>1. j - (1 + q) \in 1..n /\ j = 1 + q + (j - (1 + q))
            BY <1>3, <4>3
          <6> QED BY <6>1
        <5>2. h[1 + q + r] = CellItem(col.data[r]) /\ s[1 + q + r] = CellSort(col.type)
          BY <1>3, <2>3
        <5>3. CellItem(col.data[r])[1] = CellSort(col.type)
          BY <1>5
        <5> QED BY <5>1, <5>2, <5>3
      <4> QED BY <1>3, <4>1, <4>2, <4>3
    <3> QED BY <3>1
  <2>5. Agree(i, s)
    <3>1. \A j \in 1..1 + q + n : i + (j - 1) <= Len(disk) => Sort(i + (j - 1)) = s[j]
      BY <1>10, <2>4 DEF Sort
    <3> QED BY <2>3, <3>1 DEF Agree
  <2>6. ASSUME Reads(i, s)
        PROVE  /\ \A w \in 1..q : Item(i + w) = Word(col.valid, w)
               /\ \A r \in 1..n : Cell(col.type, Item(i + q + r)) = col.data[r]
    <3>1. i + ((1 + q + n) - 1) <= Len(disk)
      BY <2>3, <2>6 DEF Reads
    <3>2. ASSUME NEW w \in 1..q PROVE Item(i + w) = Word(col.valid, w)
      <4>1. /\ 1 + w \in 1..1 + q + n /\ i + ((1 + w) - 1) <= Len(disk)
            /\ i + ((1 + w) - 1) = i + w
        <5>1. i \in Nat /\ q \in Nat /\ n \in Nat /\ Len(disk) \in Nat /\ w \in Nat /\ 1 <= w /\ w <= q
          BY <1>3, <1>6, <1>9
        <5>2. i + ((1 + w) - 1) <= i + ((1 + q + n) - 1) /\ i + ((1 + w) - 1) = i + w
          BY <5>1
        <5>3. 1 + w \in 1..1 + q + n
          BY <5>1
        <5> QED BY <3>1, <5>1, <5>2, <5>3
      <4>2. disk[i + ((1 + w) - 1)] = h[1 + w]
        BY <1>10, <4>1
      <4>3. disk[i + w] = <<"word", Word(col.valid, w)>>
        BY <1>3, <4>1, <4>2
      <4> QED BY <4>3 DEF Item
    <3>3. ASSUME NEW r \in 1..n PROVE Cell(col.type, Item(i + q + r)) = col.data[r]
      <4>1. /\ 1 + q + r \in 1..1 + q + n /\ i + ((1 + q + r) - 1) <= Len(disk)
            /\ i + ((1 + q + r) - 1) = i + q + r
        <5>1. i \in Nat /\ q \in Nat /\ n \in Nat /\ Len(disk) \in Nat /\ r \in Nat /\ r <= n
          BY <1>3, <1>6, <1>9
        <5>2. i + ((1 + q + r) - 1) <= i + ((1 + q + n) - 1)
          BY <5>1
        <5>3. 1 + q + r \in 1..1 + q + n /\ i + ((1 + q + r) - 1) = i + q + r
          BY <5>1
        <5>4. i + ((1 + q + n) - 1) \in Nat /\ i + ((1 + q + r) - 1) \in Nat
          BY <5>1
        <5>5. i + ((1 + q + r) - 1) <= Len(disk)
          BY <3>1, <5>1, <5>2, <5>4
        <5> QED BY <5>3, <5>5
      <4>2. disk[i + ((1 + q + r) - 1)] = h[1 + q + r]
        BY <1>10, <4>1
      <4>3. disk[i + q + r] = CellItem(col.data[r])
        BY <1>3, <4>1, <4>2
      <4> QED BY <1>5, <4>3 DEF Item
    <3> QED BY <3>2, <3>3
  <2>7. Len(s) \in Nat /\ Len(s) <= Len(h)
    BY <1>3, <2>3
  <2> QED BY <1>3, <2>2, <2>3, <2>5, <2>6, <2>7 DEF s, n, q, h
<1>15. CASE ~ (i <= Len(disk))
  <2>1. ~ Reads(i, one)
    BY <1>6, <1>9, <1>11, <1>15 DEF Reads
  <2>2. s = one
    <3>1. s = one \o << >>
      BY <2>1 DEF ColumnSorts
    <3>2. one \o << >> = one
      OBVIOUS
    <3> HIDE DEF one, s
    <3> QED BY <3>1, <3>2
  <2>3. Len(one) <= Len(h) /\ Len(one) \in Nat
    BY <1>3, <1>11
  <2> HIDE DEF one, s
  <2>4. Agree(i, s) /\ Len(s) \in Nat /\ Len(s) <= Len(h) /\ ~ Reads(i, s)
    BY <1>13, <2>1, <2>2, <2>3
  <2> QED BY <2>4 DEF s, h, n
<1> QED BY <1>14, <1>15, <1>6, <1>9

-----------------------------------------------------------------------------
(* The invariant: at the beginning, and while nothing is loaded            *)

LEMMA BetweenTyped ==
    ASSUME NEW a \in Nat \ {0}, NEW l \in Int
    PROVE  /\ Between(a, l) \in Readers
           /\ Between(a, l).at = a /\ Between(a, l).left = l
           /\ Between(a, l).name = Null
           /\ Between(a, l).cols = << >> /\ Between(a, l).schema = << >>
  BY DEF Between, Readers

LEMMA NoReaderTyped ==
    /\ NoReader \in Readers
    /\ NoReader.at = 1 /\ NoReader.cols = << >> /\ NoReader.schema = << >>
    /\ NoReader.name = Null
<1>1. 1 \in Nat \ {0} /\ 0 \in Int
  OBVIOUS
<1> QED BY <1>1, BetweenTyped DEF NoReader

LEMMA EmptyCatalog == [t \in Names |-> NoTable] \in Catalogs
<1>1. Stored([t \in Names |-> NoTable]) = {}
  BY DEF Stored
<1> QED BY <1>1 DEF Catalogs, NoTable

(* Where there is no reader, nothing is claimed of it.                     *)
LEMMA Quiet ==
    ASSUME rd = NoReader
    PROVE  ReaderInv /\ AlignInv
<1>1. /\ rd.at = 1 /\ rd.cols = << >> /\ rd.schema = << >>
  BY NoReaderTyped
<1>2. BuffersAgree(rd.cols) /\ BuffersTyped(rd.cols)
  BY <1>1 DEF BuffersAgree, BuffersTyped
<1> QED BY <1>1, <1>2, NoReaderTyped DEF ReaderInv, AlignInv

LEMMA QuietNext ==
    ASSUME rd' = NoReader
    PROVE  ReaderInv' /\ AlignInv'
<1>1. /\ rd'.at = 1 /\ rd'.cols = << >> /\ rd'.schema = << >>
  BY NoReaderTyped
<1>2. BuffersAgree(rd'.cols) /\ BuffersTyped(rd'.cols)
  BY <1>1 DEF BuffersAgree, BuffersTyped
<1> QED BY <1>1, <1>2, NoReaderTyped DEF ReaderInv, AlignInv

LEMMA InitInv == Init => IInv
<1> SUFFICES ASSUME Init PROVE IInv
  OBVIOUS
<1>1. CatalogInv
  BY EmptyCatalog DEF Init, CatalogInv
<1>2. StreamInv
  BY DEF Init, StreamInv
<1>3. FileInv
  BY NoReaderTyped DEF Init, FileInv
<1> QED BY <1>1, <1>2, <1>3, Quiet DEF Init, IInv

(* What a step that leaves the snapshot alone leaves alone.                *)
LEMMA SnapshotKept ==
    ASSUME snapshot' = snapshot
    PROVE  /\ Orders' = Orders
           /\ CleanSnapshot' <=> CleanSnapshot
  BY DEF Orders, CleanSnapshot

(* The file an order of the tables gives.                                  *)
LEMMA FileTyped ==
    ASSUME IInv, NEW names \in Orders
    PROVE  EncodeCatalog(snapshot, names) \in Seq(Items) /\ Len(EncodeCatalog(snapshot, names)) \in Nat
<1>1. snapshot \in Catalogs
  BY DEF IInv, CatalogInv
<1>2. EncodeCatalog(snapshot, names) \in Seq(Items)
  BY <1>1, Layout
<1> QED BY <1>2, LenProperties

(* While nobody writes to it, a file stays the beginning of what was to be *)
(* saved.                                                                  *)
LEMMA FileKept ==
    ASSUME IInv, UNCHANGED <<disk, snapshot>>, buffer' = << >>, op' \notin {"save", "close"},
           rd'.at = 1 \/ OwnFile
    PROVE  FileInv'
<1>1. CASE OwnFile
  <2>1. PICK names \in Orders : BeingWritten(names)
    BY <1>1 DEF OwnFile
  <2> DEFINE E == EncodeCatalog(snapshot, names)
  <2>2. Holds(E, 0, disk)
    BY <2>1 DEF BeingWritten
  <2>3. Len(E) \in Nat /\ Len(disk) \in Nat
    BY <1>1, FileTyped, LenProperties DEF OwnFile
  <2> HIDE DEF E
  <2>4. Holds(E, Len(disk), << >>)
    BY <2>2, <2>3 DEF Holds
  <2>5. BeingWritten(names)'
    BY <2>2, <2>4 DEF BeingWritten, E
  <2>6. names \in Orders'
    BY SnapshotKept
  <2>7. disk' \in Seq(Items)
    BY <1>1 DEF OwnFile
  <2> QED BY <2>5, <2>6, <2>7 DEF FileInv, OwnFile
<1>2. CASE ~ OwnFile
  <2>1. disk \in {NoFile} \cup ForeignFiles
    BY <1>2 DEF IInv, FileInv
  <2>2. rd'.at = 1
    BY <1>2
  <2> QED BY <2>1, <2>2 DEF FileInv
<1> QED BY <1>1, <1>2

(* A step after which there is neither a reader nor a writer.              *)
LEMMA BecomesIdle ==
    ASSUME IInv, UNCHANGED <<disk, snapshot>>, op' \notin {"save", "close"}, rd' = NoReader,
           buffer' = << >>, pending' \in Seq(Items), catalog' \in Catalogs
    PROVE  IInv'
<1>1. FileInv'
  <2>1. rd'.at = 1
    BY NoReaderTyped
  <2> QED BY <2>1, FileKept
<1>2. CatalogInv'
  BY DEF IInv, CatalogInv
<1>3. StreamInv'
  BY DEF StreamInv
<1> QED BY <1>1, <1>2, <1>3, QuietNext DEF IInv

LEMMA CrashInv ==
    ASSUME IInv, Crash
    PROVE  IInv'
  BY BecomesIdle, EmptyCatalog DEF Crash

LEMMA LoadEndsInv ==
    ASSUME IInv, op \notin {"save", "close"}, NEW r, LoadEnds(r), UNCHANGED catalog
    PROVE  IInv'
  BY BecomesIdle DEF LoadEnds, IInv, StreamInv, CatalogInv

LEMMA CatalogPut ==
    ASSUME NEW cat \in Catalogs, NEW t, NEW tbl, tbl = NoTable \/ Saved(tbl)
    PROVE  [cat EXCEPT ![t] = tbl] \in Catalogs
<1> DEFINE new == [cat EXCEPT ![t] = tbl]
<1>1. cat \in [Names -> Seq(SavedColumns)] /\ \A u \in Stored(cat) : Saved(cat[u])
  BY DEF Catalogs
<1>2. tbl \in Seq(SavedColumns)
  <2>1. NoTable \in Seq(SavedColumns)
    BY DEF NoTable
  <2> QED BY <2>1 DEF Saved
<1>3. new \in [Names -> Seq(SavedColumns)]
  BY <1>1, <1>2
<1>4. ASSUME NEW u \in Stored(new) PROVE Saved(new[u])
  <2>1. u \in Names /\ new[u] # NoTable
    BY DEF Stored
  <2>2. CASE u = t
    <3>1. new[u] = tbl
      BY <1>1, <2>1, <2>2
    <3> HIDE DEF new
    <3> QED BY <2>1, <3>1
  <2>3. CASE u # t
    <3>1. new[u] = cat[u]
      BY <1>1, <2>1, <2>3
    <3> HIDE DEF new
    <3>2. u \in Stored(cat)
      BY <2>1, <3>1 DEF Stored
    <3> QED BY <1>1, <3>1, <3>2
  <2> QED BY <2>2, <2>3
<1> HIDE DEF new
<1>5. new \in Catalogs
  BY <1>3, <1>4 DEF Catalogs
<1> QED BY <1>5 DEF new

(* Between operations, a step that only changes the catalog.               *)
LEMMA IdleInv ==
    ASSUME IInv, op = "idle", op' = "idle",
           UNCHANGED <<disk, pending, buffer, rd, snapshot>>, catalog' \in Catalogs
    PROVE  IInv'
<1>1. rd' = NoReader
  BY DEF IInv, ReaderInv
<1>2. buffer' = << >> /\ pending' \in Seq(Items)
  BY DEF IInv, StreamInv
<1> QED BY <1>1, <1>2, BecomesIdle

LEMMA RegisterInv ==
    ASSUME IInv, NEW t \in Names, NEW tbl \in TableInputs, Register(t, tbl)
    PROVE  IInv'
<1>1. catalog \in Catalogs /\ Saved(tbl)
  BY PersistenceAssumption DEF IInv, CatalogInv
<1>2. catalog' \in Catalogs
  BY <1>1, CatalogPut DEF Register
<1> QED BY <1>2, IdleInv DEF Register

LEMMA DropInv ==
    ASSUME IInv, NEW t \in Names, Drop(t)
    PROVE  IInv'
<1>1. catalog \in Catalogs
  BY DEF IInv, CatalogInv
<1>2. catalog' \in Catalogs
  BY <1>1, CatalogPut DEF Drop
<1> QED BY <1>2, IdleInv DEF Drop

LEMMA SaveOpenFailsInv ==
    ASSUME IInv, SaveOpenFails
    PROVE  IInv'
<1>1. catalog' \in Catalogs
  BY DEF IInv, CatalogInv, SaveOpenFails
<1> QED BY <1>1, IdleInv DEF SaveOpenFails

LEMMA RestartInv ==
    ASSUME IInv, Restart
    PROVE  IInv'
<1>1. catalog' \in Catalogs /\ buffer' = << >> /\ pending' \in Seq(Items) /\ rd' = NoReader
  BY DEF IInv, CatalogInv, StreamInv, ReaderInv, Restart
<1> QED BY <1>1, BecomesIdle DEF Restart

(* What any catalog is encoded to is a sequence of items.                  *)
LEMMA EncodedTyped ==
    ASSUME NEW cat \in Catalogs, NEW names \in SetToSeqs(Stored(cat))
    PROVE  EncodeCatalog(cat, names) \in Seq(Items)
<1> DEFINE n == Len(names)
           tabs == EncodeTables(cat, names)
           head == << <<"magic", "LQDB">>, <<"version", Version>>, <<"word", n>> >>
           flat == FlattenSeq(tabs)
<1>1. n \in Nat /\ \A k \in 1..n : names[k] \in Strings /\ Saved(cat[names[k]])
  BY OrderLists, LenProperties
<1>2. \A k \in 1..n : EncodeTable(names[k], cat[names[k]]) \in Seq(Items)
  BY <1>1, TableItems
<1>3. tabs \in [1..n -> Seq(Items)]
  BY <1>2 DEF EncodeTables
<1>4. head \in Seq(Items)
  <2>1. <<"magic", "LQDB">> \in Items /\ <<"version", Version>> \in Items /\ <<"word", n>> \in Items
    BY <1>1 DEF Items
  <2> QED BY <2>1
<1>5. EncodeCatalog(cat, names) = head \o flat
  BY DEF EncodeCatalog
<1> HIDE DEF n, tabs, head
<1>6. tabs \in Seq(Seq(Items))
  BY <1>1, <1>3, FcnIsSeq
<1>7. flat \in Seq(Items)
  BY <1>6, Flattening
<1> HIDE DEF flat
<1> QED BY <1>4, <1>5, <1>7, ConcatProperties

LEMMA SaveOpenInv ==
    ASSUME IInv, NEW names \in SetToSeqs(Stored(catalog)), SaveOpen(names)
    PROVE  IInv'
<1> DEFINE E == EncodeCatalog(catalog, names)
<1>1. catalog \in Catalogs
  BY DEF IInv, CatalogInv
<1>2. E \in Seq(Items) /\ Len(E) \in Nat
  BY <1>1, EncodedTyped, LenProperties
<1>3. /\ op = "idle" /\ disk' = << >> /\ op' = "save" /\ pending' = E
      /\ UNCHANGED <<catalog, buffer, bad, rd>> /\ snapshot' = catalog
  BY DEF SaveOpen
<1>4. buffer = << >> /\ rd = NoReader
  BY <1>3 DEF IInv, StreamInv, ReaderInv
<1>5. CatalogInv'
  BY <1>1, <1>3 DEF CatalogInv
<1>6. StreamInv'
  BY <1>2, <1>3, <1>4 DEF StreamInv
<1>7. FileInv'
  <2>1. names \in Orders'
    BY <1>3 DEF Orders
  <2>2. EncodeCatalog(snapshot', names) = E
    BY <1>3
  <2> HIDE DEF E
  <2>3. Holds(E, 0, << >>) /\ Holds(E, 0, E)
    BY <1>2 DEF Holds
  <2>4. BeingWritten(names)'
    <3>1. Len(disk') = 0 /\ Len(buffer') = 0 /\ 0 + 0 = 0
      BY <1>3, <1>4
    <3>2. Holds(E, 0, disk') /\ Holds(E, Len(disk'), buffer')
      BY <1>3, <1>4, <2>3, <3>1
    <3>3. Holds(E, Len(disk') + Len(buffer'), pending')
      BY <1>3, <2>3, <3>1
    <3> QED BY <2>2, <3>2, <3>3 DEF BeingWritten
  <2>5. disk' \in Seq(Items)
    BY <1>3
  <2> QED BY <2>1, <2>4, <2>5 DEF FileInv, OwnFile
<1>8. rd' = NoReader
  BY <1>3, <1>4
<1> QED BY <1>5, <1>6, <1>7, <1>8, QuietNext DEF IInv

-----------------------------------------------------------------------------
(* The invariant: saveDatabase                                             *)

LEMMA HoldsTail ==
    ASSUME NEW I, NEW file, Len(file) \in Nat, NEW n \in Nat, NEW s \in Seq(I), s # << >>,
           Holds(file, n, s)
    PROVE  /\ Tail(s) \in Seq(I) /\ Head(s) \in I
           /\ n + 1 <= Len(file) /\ file[n + 1] = Head(s)
           /\ Holds(file, n + 1, Tail(s))
<1>1. Len(s) \in Nat \ {0} /\ Head(s) = s[1] /\ s[1] \in I
  BY LenProperties, EmptySeq, ElementOfSeq
<1>2. /\ Tail(s) \in Seq(I) /\ Len(Tail(s)) = Len(s) - 1
      /\ \A i \in 1..Len(Tail(s)) : Tail(s)[i] = s[i + 1]
  BY HeadTailProperties
<1>3. n + Len(s) <= Len(file) /\ \A i \in 1..Len(s) : file[n + i] = s[i]
  BY DEF Holds
<1>4. n + 1 <= Len(file) /\ file[n + 1] = s[1]
  BY <1>1, <1>3
<1>5. ASSUME NEW i \in 1..Len(Tail(s)) PROVE file[n + 1 + i] = Tail(s)[i]
  <2>1. i + 1 \in 1..Len(s) /\ n + (i + 1) = n + 1 + i
    BY <1>1, <1>2
  <2> QED BY <1>2, <1>3, <2>1
<1>6. n + 1 + Len(Tail(s)) <= Len(file)
  BY <1>1, <1>2, <1>3
<1>7. Holds(file, n + 1, Tail(s))
  BY <1>5, <1>6 DEF Holds
<1> QED BY <1>1, <1>2, <1>4, <1>7

LEMMA HoldsAppend ==
    ASSUME NEW I, NEW file, Len(file) \in Nat, NEW n \in Nat, NEW s \in Seq(I), NEW x \in I,
           Holds(file, n, s), n + Len(s) + 1 <= Len(file), file[n + Len(s) + 1] = x,
           NEW longer, longer = Append(s, x)
    PROVE  /\ longer \in Seq(I) /\ Len(longer) = Len(s) + 1
           /\ Holds(file, n, longer)
<1>1. Len(s) \in Nat
  BY LenProperties
<1>2. /\ Append(s, x) \in Seq(I) /\ Len(Append(s, x)) = Len(s) + 1
      /\ \A i \in 1..Len(s) : Append(s, x)[i] = s[i]
      /\ Append(s, x)[Len(s) + 1] = x
  BY AppendProperties
<1>3. \A i \in 1..Len(s) : file[n + i] = s[i]
  BY DEF Holds
<1>4. ASSUME NEW i \in 1..Len(s) + 1 PROVE file[n + i] = Append(s, x)[i]
  <2>1. CASE i = Len(s) + 1
    <3>1. n + i = n + Len(s) + 1
      BY <1>1, <2>1
    <3> QED BY <1>2, <2>1, <3>1
  <2>2. CASE i # Len(s) + 1
    <3>1. i \in 1..Len(s)
      BY <1>1, <2>2
    <3> QED BY <1>2, <1>3, <3>1
  <2> QED BY <2>1, <2>2
<1>5. n + (Len(s) + 1) <= Len(file)
  BY <1>1
<1> HIDE <1>3
<1>6. Holds(file, n, Append(s, x))
  BY <1>2, <1>4, <1>5 DEF Holds
<1> QED BY <1>2, <1>6

(* During a save, the file is on its way to be the snapshot.               *)
LEMMA Writing ==
    ASSUME IInv, op \in {"save", "close"}
    PROVE  /\ rd = NoReader
           /\ disk \in Seq(Items) /\ buffer \in Seq(Items) /\ pending \in Seq(Items)
           /\ \E names \in Orders : BeingWritten(names)
<1>1. rd = NoReader
  BY DEF IInv, ReaderInv
<1>2. buffer \in Seq(Items) /\ pending \in Seq(Items)
  BY DEF IInv, StreamInv
<1>3. OwnFile
  BY DEF IInv, FileInv
<1> QED BY <1>1, <1>2, <1>3 DEF OwnFile

(* A step of a save.                                                       *)
LEMMA Written ==
    ASSUME IInv, op \in {"save", "close"}, op' \in {"save", "close"},
           UNCHANGED <<catalog, rd, snapshot>>,
           disk' \in Seq(Items), buffer' \in Seq(Items), pending' \in Seq(Items),
           NEW names \in Orders, BeingWritten(names)'
    PROVE  IInv'
<1>1. rd' = NoReader
  BY Writing
<1>2. CatalogInv'
  BY DEF IInv, CatalogInv
<1>3. StreamInv'
  BY DEF StreamInv
<1>4. names \in Orders'
  BY SnapshotKept
<1>5. FileInv'
  BY <1>4 DEF FileInv, OwnFile
<1> QED BY <1>1, <1>2, <1>3, <1>5, QuietNext DEF IInv

LEMMA SaveWriteInv ==
    ASSUME IInv, SaveWrite
    PROVE  IInv'
<1>1. /\ op = "save" /\ pending # << >> /\ pending' = Tail(pending)
      /\ buffer' = IF bad THEN buffer ELSE Append(buffer, Head(pending))
      /\ UNCHANGED <<catalog, disk, op, bad, rd, snapshot>>
  BY DEF SaveWrite
<1>2. disk \in Seq(Items) /\ buffer \in Seq(Items) /\ pending \in Seq(Items)
  BY <1>1, Writing
<1>3. PICK names \in Orders : BeingWritten(names)
  BY <1>1, Writing
<1> DEFINE E == EncodeCatalog(snapshot, names)
           d == Len(disk)
           b == Len(buffer)
<1>4. Len(E) \in Nat /\ d \in Nat /\ b \in Nat
  BY <1>2, FileTyped, LenProperties
<1>5. Holds(E, 0, disk) /\ Holds(E, d, buffer) /\ (~ bad => Holds(E, d + b, pending))
  BY <1>1, <1>3 DEF BeingWritten
<1>6. EncodeCatalog(snapshot', names) = E
  BY <1>1
<1> HIDE DEF E
<1>7. pending' \in Seq(Items) /\ Head(pending) \in Items
  BY <1>1, <1>2, HeadTailProperties
<1>8. CASE bad
  <2>1. BeingWritten(names)'
    BY <1>1, <1>5, <1>6, <1>8 DEF BeingWritten
  <2>2. buffer' \in Seq(Items)
    BY <1>1, <1>2, <1>8
  <2> QED BY <1>1, <1>2, <1>7, <2>1, <2>2, Written
<1>9. CASE ~ bad
  <2> DEFINE x == Head(pending)
  <2>1. buffer' = Append(buffer, x)
    BY <1>1, <1>9
  <2>2. d + b \in Nat
    BY <1>4
  <2>3. /\ d + b + 1 <= Len(E) /\ E[d + b + 1] = x
        /\ Holds(E, d + b + 1, Tail(pending))
    BY <1>1, <1>2, <1>4, <1>5, <1>9, <2>2, HoldsTail
  <2> HIDE DEF x
  <2>4. x \in Items
    BY <1>7 DEF x
  <2>5. buffer' \in Seq(Items) /\ Len(buffer') = b + 1 /\ Holds(E, d, buffer')
    <3>1. d + Len(buffer) + 1 <= Len(E) /\ E[d + Len(buffer) + 1] = x
      BY <2>3
    <3>2. Len(E) \in Nat /\ d \in Nat /\ Holds(E, d, buffer) /\ buffer \in Seq(Items)
      BY <1>2, <1>4, <1>5
    <3>3. buffer' \in Seq(Items) /\ Len(buffer') = b + 1
      BY <1>2, <2>1, <2>4, AppendProperties
    <3> HIDE DEF d
    <3>4. Holds(E, d, buffer')
      BY <2>1, <2>4, <3>1, <3>2, HoldsAppend
    <3> QED BY <3>3, <3>4
  <2>6. BeingWritten(names)'
    <3>1. Len(disk') + Len(buffer') = d + b + 1
      BY <1>1, <1>4, <2>5
    <3>2. Holds(E, Len(disk') + Len(buffer'), pending')
      BY <1>1, <2>3, <3>1
    <3>3. Holds(E, 0, disk') /\ Holds(E, Len(disk'), buffer')
      BY <1>1, <1>5, <2>5
    <3> QED BY <1>6, <3>2, <3>3 DEF BeingWritten
  <2> QED BY <1>1, <1>2, <1>7, <2>5, <2>6, Written
<1> QED BY <1>8, <1>9

LEMMA FlushInv ==
    ASSUME IInv, Flush
    PROVE  IInv'
<1>1. /\ op \in {"save", "close"} /\ (op = "save" => ~ bad) /\ buffer # << >>
      /\ disk' = Append(disk, Head(buffer)) /\ buffer' = Tail(buffer)
      /\ UNCHANGED <<catalog, op, pending, bad, rd, snapshot>>
  BY DEF Flush
<1>2. disk \in Seq(Items) /\ buffer \in Seq(Items) /\ pending \in Seq(Items)
  BY <1>1, Writing
<1>3. PICK names \in Orders : BeingWritten(names)
  BY <1>1, Writing
<1> DEFINE E == EncodeCatalog(snapshot, names)
           d == Len(disk)
           b == Len(buffer)
           x == Head(buffer)
<1>4. Len(E) \in Nat /\ d \in Nat /\ b \in Nat
  BY <1>2, FileTyped, LenProperties
<1>5. /\ Holds(E, 0, disk) /\ Holds(E, d, buffer)
      /\ op = "save" /\ ~ bad => Holds(E, d + b, pending)
  BY <1>3 DEF BeingWritten
<1>6. EncodeCatalog(snapshot', names) = E
  BY <1>1
<1> HIDE DEF E
<1>7. /\ Tail(buffer) \in Seq(Items) /\ x \in Items
      /\ d + 1 <= Len(E) /\ E[d + 1] = x
      /\ Holds(E, d + 1, Tail(buffer))
  BY <1>1, <1>2, <1>4, <1>5, HoldsTail
<1>8. Len(Tail(buffer)) = b - 1
  BY <1>1, <1>2, HeadTailProperties
<1>9. disk' = Append(disk, x)
  BY <1>1
<1> HIDE DEF x
<1>10. disk' \in Seq(Items) /\ Len(disk') = d + 1 /\ Holds(E, 0, disk')
  <2>1. 0 + d + 1 <= Len(E) /\ E[0 + d + 1] = x
    <3>1. 0 + d + 1 = d + 1
      BY <1>4
    <3> QED BY <1>7, <3>1
  <2>2. /\ Len(E) \in Nat /\ 0 \in Nat /\ x \in Items /\ disk \in Seq(Items)
        /\ Holds(E, 0, disk)
    BY <1>2, <1>4, <1>5, <1>7
  <2>3. disk' \in Seq(Items) /\ Len(disk') = d + 1
    BY <1>2, <1>7, <1>9, AppendProperties
  <2>4. Holds(E, 0, disk')
    <3> HIDE DEF d
    <3> QED BY <1>9, <2>1, <2>2, HoldsAppend DEF d
  <2> QED BY <2>3, <2>4
<1>11. BeingWritten(names)'
  <2>1. Holds(E, Len(disk'), buffer')
    BY <1>1, <1>7, <1>10
  <2>2. Len(disk') + Len(buffer') = d + b
    BY <1>1, <1>4, <1>8, <1>10
  <2>3. op' = "save" /\ ~ bad' => Holds(E, Len(disk') + Len(buffer'), pending')
    BY <1>1, <1>5, <2>2
  <2> QED BY <1>6, <1>10, <2>1, <2>3 DEF BeingWritten
<1> QED BY <1>1, <1>2, <1>7, <1>10, <1>11, Written

LEMMA FlushFailsInv ==
    ASSUME IInv, FlushFails
    PROVE  IInv'
<1>1. /\ op = "save" /\ bad' = TRUE
      /\ UNCHANGED <<catalog, disk, op, pending, buffer, rd, snapshot>>
  BY DEF FlushFails
<1>2. disk' \in Seq(Items) /\ buffer' \in Seq(Items) /\ pending' \in Seq(Items)
  BY <1>1, Writing
<1>3. PICK names \in Orders : BeingWritten(names)
  BY <1>1, Writing
<1>4. BeingWritten(names)'
  BY <1>1, <1>3 DEF BeingWritten
<1> QED BY <1>1, <1>2, <1>4, Written

LEMMA SaveEndInv ==
    ASSUME IInv, SaveEnd
    PROVE  IInv'
<1>1. /\ op = "save" /\ op' = "close"
      /\ UNCHANGED <<catalog, disk, pending, buffer, bad, rd, snapshot>>
  BY DEF SaveEnd
<1>2. disk' \in Seq(Items) /\ buffer' \in Seq(Items) /\ pending' \in Seq(Items)
  BY <1>1, Writing
<1>3. PICK names \in Orders : BeingWritten(names)
  BY <1>1, Writing
<1>4. BeingWritten(names)'
  BY <1>1, <1>3 DEF BeingWritten
<1> QED BY <1>1, <1>2, <1>4, Written

LEMMA CloseInv ==
    ASSUME IInv, Close \/ CloseFails
    PROVE  IInv'
<1>1. /\ op = "close" /\ op' = "idle" /\ buffer' = << >>
      /\ UNCHANGED <<catalog, disk, pending, rd, snapshot>>
  BY DEF Close, CloseFails
<1>2. rd' = NoReader /\ pending' \in Seq(Items)
  BY <1>1, Writing
<1>3. catalog' \in Catalogs
  BY <1>1 DEF IInv, CatalogInv
<1> QED BY <1>1, <1>2, <1>3, BecomesIdle

-----------------------------------------------------------------------------
(* The invariant: loadDatabase                                             *)

LEMMA LoadOpenInv ==
    ASSUME IInv, LoadOpen
    PROVE  IInv'
<1>1. CASE disk = NoFile
  <2>1. op \notin {"save", "close"} /\ LoadEnds(Error) /\ UNCHANGED catalog
    BY <1>1 DEF LoadOpen, LoadFails
  <2> QED BY <2>1, LoadEndsInv
<1>2. CASE disk # NoFile
  <2>1. op = "idle" /\ op' = "load" /\ UNCHANGED <<catalog, disk, pending, buffer, bad, rd, snapshot>>
    BY <1>2 DEF LoadOpen
  <2>2. catalog' \in Catalogs /\ buffer' = << >> /\ pending' \in Seq(Items) /\ rd' = NoReader
    BY <2>1 DEF IInv, CatalogInv, StreamInv, ReaderInv
  <2> QED BY <2>1, <2>2, BecomesIdle
<1> QED BY <1>1, <1>2

LEMMA MisreadInv ==
    ASSUME IInv, op = "load", LoadFails \/ Crash
    PROVE  IInv'
<1>1. CASE LoadFails
  BY <1>1, LoadEndsInv DEF LoadFails
<1>2. CASE Crash
  BY <1>2, CrashInv
<1> QED BY <1>1, <1>2

(* A load that goes on.                                                    *)
LEMMA LoadGoesOn ==
    ASSUME IInv, op = "load", OwnFile, UNCHANGED <<disk, op, pending, buffer, snapshot>>,
           catalog' \in Catalogs, ReaderInv', AlignInv'
    PROVE  IInv'
<1>1. CatalogInv'
  BY DEF IInv, CatalogInv
<1>2. StreamInv'
  BY DEF IInv, StreamInv
<1>3. buffer' = << >> /\ op' \notin {"save", "close"}
  BY DEF IInv, StreamInv
<1>4. FileInv'
  BY <1>3, FileKept
<1> QED BY <1>1, <1>2, <1>4 DEF IInv

(* Beyond the header, the reader is in a file that saveDatabase wrote.     *)
LEMMA Reading ==
    ASSUME IInv, rd.at > 1
    PROVE  /\ OwnFile /\ disk \in Seq(Items) /\ Len(disk) \in Nat /\ rd.at \in Nat \ {0}
           /\ snapshot \in Catalogs /\ catalog \in Catalogs
           /\ \E names \in Orders : Prefix(names)
<1>1. rd.at \in Nat \ {0}
  BY DEF IInv, ReaderInv, Readers
<1>2. OwnFile
  BY <1>1 DEF IInv, FileInv
<1>3. disk \in Seq(Items) /\ Len(disk) \in Nat
  BY <1>2, LenProperties DEF OwnFile
<1>4. \E names \in Orders : Prefix(names)
  BY <1>2 DEF OwnFile, BeingWritten, Prefix
<1> QED BY <1>1, <1>2, <1>3, <1>4 DEF IInv, CatalogInv

(* The header of a file that saveDatabase wrote.                           *)
LEMMA HeaderRead ==
    ASSUME snapshot \in Catalogs, disk \in Seq(Items), NEW names \in Orders, Prefix(names)
    PROVE  /\ Agree(1, <<"magic", "version", "word">>)
           /\ Len(disk) >= 3 => Item(1) = "LQDB" /\ Item(2) = Version /\ Item(3) = Len(names)
<1> DEFINE E == EncodeCatalog(snapshot, names)
           h == << <<"magic", "LQDB">>, <<"version", Version>>, <<"word", Len(names)>> >>
<1>1. E \in Seq(Items) /\ Holds(E, 0, h)
  BY Layout
<1>2. Holds(E, 0, disk) /\ Len(E) \in Nat /\ Len(disk) \in Nat
  BY <1>1, LenProperties DEF Prefix
<1>3. /\ Len(h) = 3 /\ h[1] = <<"magic", "LQDB">> /\ h[2] = <<"version", Version>>
      /\ h[3] = <<"word", Len(names)>>
  OBVIOUS
<1> HIDE DEF E, h
<1>4. \A j \in 1..3 : j <= Len(disk) => disk[j] = h[j]
  <2> SUFFICES ASSUME NEW j \in 1..3, j <= Len(disk) PROVE disk[j] = h[j]
    OBVIOUS
  <2>1. 0 + j <= Len(disk) /\ 0 + j = j /\ j \in 1..Len(h) /\ Len(h) \in Nat /\ 0 \in Nat
    BY <1>3
  <2>2. disk[0 + j] = h[j]
    BY <1>1, <1>2, <2>1, PrefixItems
  <2> QED BY <2>1, <2>2
<1> DEFINE s == <<"magic", "version", "word">>
<1>5. Len(s) = 3 /\ s[1] = "magic" /\ s[2] = "version" /\ s[3] = "word"
  OBVIOUS
<1>6. \A j \in 1..3 : h[j][1] = s[j]
  BY <1>3, <1>5
<1>7. Agree(1, s)
  <2> HIDE DEF s
  <2>1. \A j \in 1..3 : 1 + (j - 1) = j
    OBVIOUS
  <2>2. \A j \in 1..3 : 1 + (j - 1) <= Len(disk) => Sort(1 + (j - 1)) = s[j]
    BY <1>4, <1>6, <2>1 DEF Sort
  <2> QED BY <1>5, <2>2 DEF Agree
<1>8. ASSUME Len(disk) >= 3 PROVE Item(1) = "LQDB" /\ Item(2) = Version /\ Item(3) = Len(names)
  <2>1. 1 <= Len(disk) /\ 2 <= Len(disk) /\ 3 <= Len(disk)
    BY <1>2, <1>8
  <2>2. disk[1] = h[1] /\ disk[2] = h[2] /\ disk[3] = h[3]
    BY <1>4, <2>1
  <2> QED BY <1>3, <2>2 DEF Item
<1> QED BY <1>7, <1>8

LEMMA LoadHeaderInv ==
    ASSUME IInv, LoadHeader
    PROVE  IInv'
<1> DEFINE s == <<"magic", "version", "word">>
           ok == Reads(1, s) /\ Item(1) = "LQDB" /\ Item(2) <= Version
<1>1. op = "load" /\ rd.at = 1 /\ rd = NoReader
  BY DEF LoadHeader, IInv, ReaderInv
<1>2. CASE ~ ok
  <2>1. LoadFails
    BY <1>2 DEF LoadHeader
  <2> QED BY <1>1, <2>1, MisreadInv
<1>3. CASE ok
  <2>1. LoadContinues(Between(4, Item(3)))
    BY <1>3 DEF LoadHeader
  <2>2. /\ Len(s) = 3 /\ s[1] = "magic" /\ s[2] = "version" /\ s[3] = "word"
    OBVIOUS
  <2>3. 1 + (Len(s) - 1) <= Len(disk)
    BY <1>3 DEF Reads
  <2>4. \A j \in 1..3 : 1 + (j - 1) <= Len(disk) => Sort(1 + (j - 1)) = s[j]
    BY <1>3, <2>2 DEF Reads, Agree
  <2> HIDE DEF s
  <2>5. OwnFile
    <3> SUFFICES ASSUME ~ OwnFile PROVE FALSE
      OBVIOUS
    <3>1. disk \in {NoFile} \cup ForeignFiles
      BY DEF IInv, FileInv
    <3>2. 1 + (3 - 1) <= Len(disk)
      BY <2>2, <2>3
    <3>3. CASE disk = NoFile
      <4>1. Len(NoFile) = 1
        BY DEF NoFile
      <4> QED BY <3>2, <3>3, <4>1
    <3>4. CASE disk \in ForeignFiles
      <4>1. Len(disk) \in Nat /\ ~ Accepted(disk)
        BY <3>4, PersistenceAssumption
      <4>2. Len(disk) >= 3 /\ 1 + (1 - 1) <= Len(disk) /\ 1 + (2 - 1) <= Len(disk)
        BY <3>2, <4>1
      <4>3. Sort(1 + (1 - 1)) = "magic" /\ Sort(1 + (2 - 1)) = "version"
        BY <2>2, <2>4, <4>2
      <4>4. Sort(1) = "magic" /\ Sort(2) = "version"
        BY <4>3
      <4> QED BY <1>3, <4>1, <4>2, <4>4 DEF Accepted, Sort, Item
    <3> QED BY <3>1, <3>3, <3>4
  <2>6. disk \in Seq(Items) /\ Len(disk) \in Nat
    BY <2>5, LenProperties DEF OwnFile
  <2>7. 3 <= Len(disk) /\ Item(3) \in Nat
    <3>1. 1 + (3 - 1) <= Len(disk) /\ 3 <= Len(disk) /\ 1 + (3 - 1) = 3
      BY <2>2, <2>3, <2>6
    <3>2. Sort(1 + (3 - 1)) = "word"
      BY <2>2, <2>4, <3>1
    <3>3. disk[3] \in Items /\ disk[3][1] = "word"
      <4>1. 3 \in 1..Len(disk)
        BY <2>6, <3>1
      <4> QED BY <2>6, <3>1, <3>2, <4>1, ElementOfSeq DEF Sort
    <3> QED BY <3>1, <3>3, ItemTypes DEF Item
  <2>8. /\ rd' = Between(4, Item(3))
        /\ UNCHANGED <<catalog, disk, op, pending, buffer, snapshot>>
    BY <1>1, <2>1 DEF LoadContinues
  <2>9. /\ rd'.at = 4 /\ rd'.left = Item(3) /\ rd'.name = Null /\ rd'.cols = << >>
        /\ rd'.schema = << >>
        /\ rd' \in Readers
    <3>1. 4 \in Nat \ {0} /\ Item(3) \in Int
      BY <2>7
    <3> QED BY <2>8, <3>1, BetweenTyped
  <2>10. ReaderInv'
    <3>1. BuffersAgree(rd'.cols) /\ BuffersTyped(rd'.cols)
      BY <2>9 DEF BuffersAgree, BuffersTyped
    <3>2. op' = "load" /\ disk' = disk
      BY <1>1, <2>8
    <3>3. rd'.at - 1 <= Len(disk')
      BY <2>6, <2>7, <2>9, <3>2
    <3> QED BY <2>9, <3>1, <3>2, <3>3 DEF ReaderInv
  <2>11. AlignInv'
    <3>1. SUFFICES ASSUME NEW names \in Orders, Prefix(names) PROVE Aligned(names)'
      BY <2>8, SnapshotKept DEF AlignInv, Prefix
    <3>2. snapshot \in Catalogs
      BY DEF IInv, CatalogInv
    <3>3. Item(3) = Len(names)
      BY <2>6, <2>7, <3>1, <3>2, HeaderRead
    <3>4. TableAt(snapshot, names, 1) = 4
      BY <3>1, <3>2, Layout
    <3>5. Len(names) \in Nat
      BY <2>7, <3>3
    <3>6. AlignedAt(names, 1)'
      <4>1. TableAt(snapshot', names, 1) = 4
        BY <2>8, <3>4
      <4>2. rd'.left = Len(names) + 1 - 1
        BY <2>9, <3>3, <3>5
      <4> QED BY <2>9, <4>1, <4>2 DEF AlignedAt
    <3>7. 1 \in 1..Len(names) + 1
      BY <3>5
    <3> QED BY <3>6, <3>7 DEF Aligned
  <2>12. catalog' \in Catalogs
    BY <2>8 DEF IInv, CatalogInv
  <2> QED BY <1>1, <2>5, <2>8, <2>10, <2>11, <2>12, LoadGoesOn
<1> QED BY <1>2, <1>3

(* The head of a table has been read.                                      *)
LEMMA HeadReadInv ==
    ASSUME IInv, op = "load", rd.at > 1, rd.name = Null, rd.left > 0,
           NEW i, i = rd.at, NEW n, n = Item(i + 1), Reads(i, HeadSorts(i)),
           LoadContinues([rd EXCEPT
               !.at = i + Len(HeadSorts(i)),
               !.name = Item(i),
               !.schema = [c \in 1..n |-> Item(i + 1 + c)],
               !.rows = Item(i + 2 + n)])
    PROVE  IInv'
<1> DEFINE schema == [c \in 1..n |-> Item(i + 1 + c)]
<1>1. /\ OwnFile /\ disk \in Seq(Items) /\ Len(disk) \in Nat /\ i \in Nat \ {0}
      /\ snapshot \in Catalogs /\ catalog \in Catalogs
  BY Reading
<1>2. /\ Item(i) \in Strings /\ n \in Nat /\ Len(HeadSorts(i)) = n + 3
      /\ i + n + 2 <= Len(disk)
      /\ \A c \in 1..n : Item(i + 1 + c) \in Types
      /\ Item(i + 2 + n) \in Nat
  BY <1>1, HeadTyped
<1>3. rd \in Readers /\ rd.cols = << >>
  BY DEF IInv, ReaderInv
<1>4. schema \in Seq(Types) /\ Len(schema) = n /\ \A c \in 1..n : schema[c] = Item(i + 1 + c)
  <2>1. schema \in [1..n -> Types]
    BY <1>2
  <2>2. \A c \in 1..n : schema[c] = Item(i + 1 + c)
    OBVIOUS
  <2> HIDE DEF schema
  <2> QED BY <1>2, <2>1, <2>2, FcnIsSeq
<1>5. /\ rd' = [rd EXCEPT !.at = i + Len(HeadSorts(i)), !.name = Item(i), !.schema = schema,
                          !.rows = Item(i + 2 + n)]
      /\ UNCHANGED <<catalog, disk, op, pending, buffer, snapshot>>
  BY DEF LoadContinues
<1> HIDE DEF schema
<1>6. i + Len(HeadSorts(i)) = i + n + 3 /\ i + n + 3 \in Nat \ {0}
  <2>1. i \in Nat \ {0} /\ n \in Nat /\ Len(HeadSorts(i)) = n + 3
    BY <1>1, <1>2
  <2> QED BY <2>1
<1>7. /\ rd'.at = i + n + 3 /\ rd'.name = Item(i) /\ rd'.schema = schema
      /\ rd'.rows = Item(i + 2 + n) /\ rd'.left = rd.left /\ rd'.cols = << >>
  BY <1>3, <1>5, <1>6 DEF Readers
<1>8. rd' \in Readers
  <2>1. Item(i) \in Strings \cup {Null}
    BY <1>2
  <2> QED BY <1>2, <1>3, <1>4, <1>5, <1>6, <2>1 DEF Readers
<1>9. rd'.name # Null
  BY <1>2, <1>7 DEF Strings, Null
<1>10. ReaderInv'
  <2>1. BuffersAgree(rd'.cols) /\ BuffersTyped(rd'.cols)
    BY <1>7 DEF BuffersAgree, BuffersTyped
  <2>2. op' = "load" /\ disk' = disk
    BY <1>5
  <2>3. rd'.at - 1 <= Len(disk') /\ rd'.at # 1
    BY <1>1, <1>2, <1>7, <2>2
  <2>4. Len(rd'.cols) = 0 /\ Len(rd'.schema) \in Nat
    BY <1>2, <1>4, <1>7
  <2> QED BY <1>7, <1>8, <1>9, <2>1, <2>2, <2>3, <2>4 DEF ReaderInv
<1>11. AlignInv'
  <2>1. SUFFICES ASSUME CleanSnapshot, NEW names \in Orders, Prefix(names) PROVE Aligned(names)'
    BY <1>5, SnapshotKept DEF AlignInv, Prefix
  <2>2. Aligned(names)
    BY <2>1 DEF IInv, AlignInv, Prefix
  <2>3. PICK k \in 1..Len(names) + 1 : AlignedAt(names, k)
    BY <2>2 DEF Aligned
  <2>4. Len(names) \in Nat
    BY <1>1, <2>1, OrderLists, LenProperties DEF Orders
  <2>5. /\ rd.left = Len(names) + 1 - k
        /\ \A j \in 1..k - 1 : catalog[names[j]] = snapshot[names[j]]
        /\ i = TableAt(snapshot, names, k)
    BY <2>3 DEF AlignedAt
  <2>6. k \in 1..Len(names)
    BY <2>4, <2>5
  <2> DEFINE tbl == snapshot[names[k]]
  <2>7. /\ Item(i) = names[k] /\ n = Len(tbl)
        /\ \A c \in 1..Len(tbl) : Item(i + 1 + c) = tbl[c].type
        /\ Item(i + 2 + Len(tbl)) = RowCount(tbl)
    <3>1. /\ snapshot \in Catalogs /\ disk \in Seq(Items) /\ Prefix(names)
          /\ Reads(i, HeadSorts(i)) /\ i = TableAt(snapshot, names, k)
      BY <1>1, <2>1, <2>5
    <3>2. Item(i) = names[k] /\ Item(i + 1) = Len(tbl)
      BY <2>6, <3>1, HeadRead
    <3>3. \A c \in 1..Len(tbl) : Item(i + 1 + c) = tbl[c].type
      BY <2>6, <3>1, HeadRead
    <3>4. Item(i + 2 + Len(tbl)) = RowCount(tbl)
      BY <2>6, <3>1, HeadRead
    <3> QED BY <3>2, <3>3, <3>4
  <2>8. ColumnAt(snapshot, names, k, 1) = i + (Len(tbl) + 3)
    BY <1>1, <2>1, <2>5, <2>6, TableLayout
  <2>9. rd'.schema = SchemaOf(tbl)
    <3> HIDE DEF tbl
    <3>1. schema = [c \in 1..n |-> Item(i + 1 + c)]
      BY DEF schema
    <3>2. SchemaOf(tbl) = [c \in 1..n |-> tbl[c].type]
      BY <2>7 DEF SchemaOf
    <3>3. \A c \in 1..n : Item(i + 1 + c) = tbl[c].type
      BY <2>7
    <3> QED BY <1>7, <3>1, <3>2, <3>3
  <2>10. rd'.at = ColumnAt(snapshot, names, k, Len(rd'.cols) + 1)
    <3>1. Len(rd'.cols) + 1 = 1
      BY <1>7
    <3>2. i + (Len(tbl) + 3) = i + n + 3
      <4>1. i \in Nat /\ n \in Nat /\ Len(tbl) = n
        BY <1>1, <1>2, <2>7
      <4> HIDE DEF tbl
      <4> QED BY <4>1
    <3> QED BY <1>7, <2>8, <3>1, <3>2
  <2>11. AlignedAt(names, k)'
    <3>1. rd'.left = Len(names) + 1 - k /\ k <= Len(names) /\ rd'.name = names[k]
      BY <1>7, <2>5, <2>6, <2>7
    <3>2. \A j \in 1..k - 1 : catalog'[names[j]] = snapshot'[names[j]]
      BY <1>5, <2>5
    <3>3. rd'.rows = RowCount(tbl)
      BY <1>7, <2>7
    <3>4. rd'.at = ColumnAt(snapshot', names, k, Len(rd'.cols) + 1)
      BY <1>5, <2>10
    <3>5. \A c \in 1..Len(rd'.cols) : rd'.cols[c] = tbl[c]
      BY <1>7
    <3>6. snapshot' = snapshot
      BY <1>5
    <3> QED BY <1>9, <2>9, <3>1, <3>2, <3>3, <3>4, <3>5, <3>6 DEF AlignedAt
  <2> QED BY <2>11 DEF Aligned
<1>12. catalog' \in Catalogs
  BY <1>1, <1>5
<1> QED BY <1>1, <1>5, <1>10, <1>11, <1>12, LoadGoesOn

LEMMA LoadTableInv ==
    ASSUME IInv, LoadTable
    PROVE  IInv'
<1> DEFINE i == rd.at
           s == HeadSorts(i)
           n == Item(i + 1)
<1>1. op = "load" /\ rd.at > 1 /\ rd.name = Null /\ rd.left > 0
  BY DEF LoadTable, BetweenTables
<1>2. CASE /\ Reads(i, s)
           /\ LoadContinues([rd EXCEPT
                  !.at = i + Len(s),
                  !.name = Item(i),
                  !.schema = [c \in 1..n |-> Item(i + 1 + c)],
                  !.rows = Item(i + 2 + n)])
  BY <1>1, <1>2, HeadReadInv
<1>3. CASE LoadFails \/ Crash
  BY <1>1, <1>3, MisreadInv
<1> QED BY <1>2, <1>3 DEF LoadTable, Misread

(* A column has been read into col.                                        *)
ReadsColumn(i, type, n, words, cells, valid, col) ==
    /\ op = "load" /\ rd.at > 1 /\ rd.name # Null /\ Len(rd.cols) < Len(rd.schema)
    /\ i = rd.at
    /\ type = rd.schema[Len(rd.cols) + 1]
    /\ n = Item(i)
    /\ words = [w \in 1..n |-> Item(i + w)]
    /\ cells = [r \in 1..rd.rows |-> Cell(type, Item(i + n + r))]
    /\ valid \in BitsOf(words, rd.rows)
    /\ col = [type |-> type, data |-> cells, valid |-> valid]
    /\ Reads(i, ColumnSorts(i, type, rd.rows))
    /\ LoadContinues([rd EXCEPT
           !.at = i + Len(ColumnSorts(i, type, rd.rows)),
           !.cols = Append(rd.cols, col)])

LEMMA ColumnReadInv ==
    ASSUME IInv, NEW i, NEW type, NEW n, NEW words, NEW cells, NEW valid, NEW col,
           ReadsColumn(i, type, n, words, cells, valid, col)
    PROVE  IInv'
<1>0. SUFFICES
        ASSUME op = "load", rd.at > 1, rd.name # Null, Len(rd.cols) < Len(rd.schema),
               i = rd.at, type = rd.schema[Len(rd.cols) + 1],
               n = Item(i), words = [w \in 1..n |-> Item(i + w)],
               cells = [r \in 1..rd.rows |-> Cell(type, Item(i + n + r))],
               valid \in BitsOf(words, rd.rows),
               col = [type |-> type, data |-> cells, valid |-> valid],
               Reads(i, ColumnSorts(i, type, rd.rows)),
               LoadContinues([rd EXCEPT
                   !.at = i + Len(ColumnSorts(i, type, rd.rows)),
                   !.cols = Append(rd.cols, col)])
        PROVE  IInv'
  BY Zenon DEF ReadsColumn
<1> DEFINE m == Len(rd.cols)
           rows == rd.rows
           s == ColumnSorts(i, type, rows)
<1>1. /\ OwnFile /\ disk \in Seq(Items) /\ Len(disk) \in Nat /\ i \in Nat \ {0}
      /\ snapshot \in Catalogs /\ catalog \in Catalogs
  BY <1>0, Reading
<1>2. /\ rd \in Readers /\ rows \in Nat /\ rd.cols \in Seq(SavedColumns) /\ m \in Nat
      /\ rd.schema \in Seq(Types) /\ Len(rd.schema) \in Nat
  BY LenProperties DEF IInv, ReaderInv, Readers
<1>3. m + 1 \in 1..Len(rd.schema) /\ type \in Types
  <2>1. m < Len(rd.schema) /\ type = rd.schema[m + 1]
    BY <1>0
  <2> HIDE DEF m
  <2>2. m + 1 \in 1..Len(rd.schema)
    BY <1>2, <2>1
  <2>3. rd.schema[m + 1] \in Types
    BY <1>2, <2>2, ElementOfSeq
  <2> QED BY <2>1, <2>2, <2>3
<1>4. /\ n \in Nat /\ Len(s) = 1 + n + rows /\ i + n + rows <= Len(disk)
      /\ \A r \in 1..rows :
             /\ Cell(type, Item(i + n + r)) \in [kind : Kinds, src : Kinds, num : Nat]
             /\ Storable(type, Cell(type, Item(i + n + r)))
  BY <1>0, <1>1, <1>2, <1>3, ColumnTyped
<1>5. /\ cells \in Seq([kind : Kinds, src : Kinds, num : Nat]) /\ Len(cells) = rows
      /\ \A r \in 1..rows : Storable(type, cells[r])
  <2>1. cells \in [1..rows -> [kind : Kinds, src : Kinds, num : Nat]]
    BY <1>0, <1>4
  <2>2. \A r \in 1..rows : Storable(type, cells[r])
    BY <1>0, <1>4
  <2>3. rows \in Nat
    BY <1>2
  <2> DEFINE values == [kind : Kinds, src : Kinds, num : Nat]
  <2>4. cells \in [1..rows -> values]
    BY <2>1
  <2> HIDE DEF values, rows
  <2>5. cells \in Seq(values) /\ Len(cells) = rows
    BY <2>3, <2>4, FcnIsSeq
  <2> QED BY <2>2, <2>5 DEF values
<1>6. valid \in Seq(BOOLEAN) /\ Len(valid) = rows
  <2>1. valid \in [1..rows -> BOOLEAN]
    BY <1>0 DEF BitsOf
  <2> QED BY <1>2, <2>1, FcnIsSeq
<1>7. col \in SavedColumns /\ col.type = type /\ col.data = cells /\ col.valid = valid
  BY <1>0, <1>3, <1>5, <1>6 DEF SavedColumns
<1>8. /\ rd' = [rd EXCEPT !.at = i + Len(s), !.cols = Append(rd.cols, col)]
      /\ UNCHANGED <<catalog, disk, op, pending, buffer, snapshot>>
  BY <1>0, <1>2 DEF LoadContinues, Readers
<1> HIDE DEF s, rows, m
<1>9. /\ Append(rd.cols, col) \in Seq(SavedColumns) /\ Len(Append(rd.cols, col)) = m + 1
      /\ \A c \in 1..m : Append(rd.cols, col)[c] = rd.cols[c]
      /\ Append(rd.cols, col)[m + 1] = col
  BY <1>2, <1>7, AppendProperties DEF m
<1>10. i + Len(s) = i + n + rows + 1 /\ i + Len(s) \in Nat \ {0}
  <2>1. i \in Nat /\ n \in Nat /\ rows \in Nat /\ Len(s) = 1 + n + rows
    BY <1>1, <1>2, <1>4
  <2> QED BY <2>1
<1>11. /\ rd'.at = i + Len(s) /\ rd'.cols = Append(rd.cols, col) /\ rd'.name = rd.name
       /\ rd'.schema = rd.schema /\ rd'.rows = rows /\ rd'.left = rd.left
  BY <1>2, <1>8 DEF Readers, rows
<1>12. rd' \in Readers
  BY <1>2, <1>8, <1>9, <1>10 DEF Readers
<1>13. /\ Len(rd'.cols) = m + 1 /\ rd'.cols[m + 1] = col
       /\ \A c \in 1..m : rd'.cols[c] = rd.cols[c]
       /\ \A c \in 1..m + 1 : c \in 1..m \/ c = m + 1
  BY <1>2, <1>9, <1>11
<1>14. ReaderInv'
  <2>1. /\ \A c \in 1..m : Len(rd.cols[c].data) = Len(rd.cols[c].valid)
        /\ \A c \in 1..m : \A r \in 1..Len(rd.cols[c].data) :
               Storable(rd.cols[c].type, rd.cols[c].data[r])
        /\ \A c \in 1..m : rd.cols[c].type = rd.schema[c] /\ Size(rd.cols[c]) = rows
    BY DEF IInv, ReaderInv, BuffersAgree, BuffersTyped, m, rows
  <2>2. BuffersAgree(rd'.cols)
    <3>1. Len(col.data) = Len(col.valid)
      BY <1>5, <1>6, <1>7
    <3> QED BY <1>13, <2>1, <3>1 DEF BuffersAgree
  <2>3. BuffersTyped(rd'.cols)
    <3>1. \A r \in 1..Len(col.data) : Storable(col.type, col.data[r])
      BY <1>5, <1>7
    <3> QED BY <1>13, <2>1, <3>1 DEF BuffersTyped
  <2>4. \A c \in 1..Len(rd'.cols) : rd'.cols[c].type = rd'.schema[c] /\ Size(rd'.cols[c]) = rd'.rows
    <3>1. col.type = rd.schema[m + 1] /\ Size(col) = rows
      BY <1>0, <1>6, <1>7 DEF Size, m
    <3> QED BY <1>11, <1>13, <2>1, <3>1
  <2>5. op' = "load" /\ disk' = disk
    BY <1>0, <1>8
  <2>6. rd'.at - 1 <= Len(disk') /\ rd'.at # 1
    <3>1. i \in Nat \ {0} /\ n \in Nat /\ rows \in Nat /\ i + n + rows <= Len(disk) /\ Len(disk) \in Nat
      BY <1>1, <1>2, <1>4 DEF rows
    <3>2. i > 1 /\ rd'.at = i + n + rows + 1
      BY <1>0, <1>10, <1>11
    <3> QED BY <2>5, <3>1, <3>2
  <2>7. Len(rd'.cols) <= Len(rd'.schema)
    BY <1>2, <1>3, <1>11, <1>13
  <2>8. rd'.name # Null
    BY <1>0, <1>11
  <2> QED BY <1>12, <2>2, <2>3, <2>4, <2>5, <2>6, <2>7, <2>8 DEF ReaderInv
<1>15. AlignInv'
  <2>1. SUFFICES ASSUME CleanSnapshot, NEW names \in Orders, Prefix(names) PROVE Aligned(names)'
    BY <1>8, SnapshotKept DEF AlignInv, Prefix
  <2>2. Aligned(names)
    BY <1>0, <2>1 DEF IInv, AlignInv, Prefix
  <2>3. PICK k \in 1..Len(names) + 1 : AlignedAt(names, k)
    BY <2>2 DEF Aligned
  <2> DEFINE tbl == snapshot[names[k]]
             old == tbl[m + 1]
  <2>4. /\ rd.left = Len(names) + 1 - k
        /\ \A j \in 1..k - 1 : catalog[names[j]] = snapshot[names[j]]
        /\ k <= Len(names) /\ rd.name = names[k]
        /\ rd.schema = SchemaOf(tbl) /\ rows = RowCount(tbl)
        /\ \A c \in 1..m : rd.cols[c] = tbl[c]
        /\ i = ColumnAt(snapshot, names, k, m + 1)
    BY <1>0, <2>3 DEF AlignedAt, m, rows
  <2>5. Len(names) \in Nat
    BY <1>1, <2>1, OrderLists, LenProperties DEF Orders
  <2>6. k \in 1..Len(names)
    BY <2>4, <2>5
  <2>7. names[k] \in Stored(snapshot) /\ Saved(tbl)
    BY <1>1, <2>1, <2>6, OrderLists DEF Orders
  <2>8. tbl \in Seq(SavedColumns) /\ Len(tbl) \in Nat
    BY <2>7, LenProperties DEF Saved
  <2>9. m + 1 \in 1..Len(tbl) /\ type = old.type
    <3>1. Len(SchemaOf(tbl)) = Len(tbl)
      BY <2>8 DEF SchemaOf
    <3>2. m + 1 \in 1..Len(tbl)
      BY <1>3, <2>4, <3>1
    <3>3. SchemaOf(tbl)[m + 1] = old.type
      BY <3>2 DEF SchemaOf
    <3> QED BY <1>0, <2>4, <3>2, <3>3 DEF m
  <2>10. old \in SavedColumns /\ Len(old.data) = Len(old.valid)
    BY <2>7, <2>8, <2>9, ElementOfSeq DEF Saved, BuffersAgree
  <2>11. Size(old) = rows
    BY <2>1, <2>4, <2>7, <2>9 DEF CleanSnapshot, Rectangular
  <2> HIDE DEF tbl, old
  <2>12. /\ Len(s) = Len(EncodeColumn(old))
         /\ n = WordCount(rows)
         /\ \A w \in 1..WordCount(rows) : Item(i + w) = Word(old.valid, w)
         /\ \A r \in 1..rows : Cell(type, Item(i + n + r)) = old.data[r]
    <3>1. /\ snapshot \in Catalogs /\ disk \in Seq(Items) /\ Prefix(names)
          /\ m + 1 \in 1..Len(snapshot[names[k]]) /\ i = ColumnAt(snapshot, names, k, m + 1)
          /\ old = snapshot[names[k]][m + 1]
      BY <1>1, <2>1, <2>4, <2>9 DEF tbl, old
    <3>2. Reads(i, ColumnSorts(i, old.type, Size(old)))
      BY <1>0, <2>9, <2>11 DEF rows
    <3>3. Len(ColumnSorts(i, old.type, Size(old))) = Len(EncodeColumn(old))
      BY <2>6, <3>1, <3>2, ColumnRead
    <3>4. Item(i) = WordCount(Size(old))
      BY <2>6, <3>1, <3>2, ColumnRead
    <3>5. \A w \in 1..WordCount(Size(old)) : Item(i + w) = Word(old.valid, w)
      BY <2>6, <3>1, <3>2, ColumnRead
    <3>6. \A r \in 1..Size(old) :
              Cell(old.type, Item(i + WordCount(Size(old)) + r)) = old.data[r]
      BY <2>6, <3>1, <3>2, ColumnRead
    <3>7. Len(s) = Len(EncodeColumn(old))
      BY <2>9, <2>11, <3>3 DEF s
    <3>8. n = WordCount(rows)
      BY <1>0, <2>11, <3>4
    <3> QED BY <2>9, <2>11, <3>5, <3>6, <3>7, <3>8
  <2>13. valid = old.valid
    <3>1. old.valid \in Seq(BOOLEAN) /\ Len(old.valid) = rows
      BY <2>10, <2>11 DEF SavedColumns, Size
    <3>2. words = [w \in 1..WordCount(Len(old.valid)) |-> Word(old.valid, w)]
      BY <1>0, <2>12, <3>1
    <3>3. valid \in BitsOf(words, Len(old.valid))
      BY <1>0, <3>1 DEF rows
    <3> QED BY <3>1, <3>2, <3>3, BitmapRoundTrip
  <2>14. cells = old.data
    <3>1. old.data \in Seq([kind : Kinds, src : Kinds, num : Nat]) /\ Len(old.data) = rows
      BY <2>10, <2>11 DEF SavedColumns, Size
    <3>2. old.data = [r \in 1..rows |-> old.data[r]]
      BY <3>1, LenProperties
    <3>3. cells = [r \in 1..rows |-> Cell(type, Item(i + n + r))]
      BY <1>0 DEF rows
    <3> QED BY <2>12, <3>2, <3>3
  <2>15. col = old
    <3>1. old = [type |-> old.type, data |-> old.data, valid |-> old.valid]
      BY <2>10 DEF SavedColumns
    <3> QED BY <1>0, <2>9, <2>13, <2>14, <3>1
  <2>16. i + Len(s) = ColumnAt(snapshot, names, k, (m + 1) + 1)
    <3>1. /\ ColumnAt(snapshot, names, k, (m + 1) + 1) =
                 ColumnAt(snapshot, names, k, m + 1) + Len(EncodeColumn(snapshot[names[k]][m + 1]))
      BY <1>1, <2>1, <2>6, <2>9, TableLayout DEF tbl
    <3> QED BY <2>4, <2>12, <3>1 DEF tbl, old
  <2>17. AlignedAt(names, k)'
    <3>1. /\ rd'.left = Len(names) + 1 - k /\ k <= Len(names) /\ rd'.name = names[k]
          /\ rd'.schema = SchemaOf(tbl) /\ rd'.rows = RowCount(tbl) /\ rd'.name # Null
      BY <1>0, <1>11, <2>4
    <3>2. \A j \in 1..k - 1 : catalog'[names[j]] = snapshot'[names[j]]
      BY <1>8, <2>4
    <3>3. \A c \in 1..Len(rd'.cols) : rd'.cols[c] = tbl[c]
      BY <1>13, <2>4, <2>15 DEF old
    <3>4. rd'.at = ColumnAt(snapshot', names, k, Len(rd'.cols) + 1)
      BY <1>8, <1>11, <1>13, <2>16
    <3>5. snapshot'[names[k]] = tbl
      BY <1>8 DEF tbl
    <3> QED BY <3>1, <3>2, <3>3, <3>4, <3>5 DEF AlignedAt
  <2> QED BY <2>17 DEF Aligned
<1>16. catalog' \in Catalogs
  BY <1>1, <1>8
<1> QED BY <1>0, <1>1, <1>8, <1>14, <1>15, <1>16, LoadGoesOn

LEMMA LoadColumnInv ==
    ASSUME IInv, LoadColumn
    PROVE  IInv'
<1> DEFINE i == rd.at
           type == rd.schema[Len(rd.cols) + 1]
           sorts == ColumnSorts(i, type, rd.rows)
           count == Item(i)
           words == [w \in 1..count |-> Item(i + w)]
           cells == [r \in 1..rd.rows |-> Cell(type, Item(i + count + r))]
           after(valid) == [rd EXCEPT
               !.at = i + Len(sorts),
               !.cols = Append(rd.cols, [type |-> type, data |-> cells, valid |-> valid])]
<1>1. ReadingTable /\ Len(rd.cols) < Len(rd.schema)
  BY Zenon DEF LoadColumn
<1>2. op = "load" /\ rd.at > 1 /\ rd.name # Null
  BY <1>1 DEF ReadingTable
<1>3. \/ Reads(i, sorts) /\ \E valid \in BitsOf(words, rd.rows) : LoadContinues(after(valid))
      \/ LoadFails \/ Crash
  BY Zenon DEF LoadColumn, Misread
<1>4. CASE LoadFails \/ Crash
  BY <1>2, <1>4, MisreadInv
<1>5. ASSUME Reads(i, sorts), NEW valid \in BitsOf(words, rd.rows), LoadContinues(after(valid))
      PROVE  IInv'
  <2> DEFINE col == [type |-> type, data |-> cells, valid |-> valid]
  <2>1. /\ i = rd.at /\ type = rd.schema[Len(rd.cols) + 1] /\ count = Item(i)
        /\ words = [w \in 1..count |-> Item(i + w)]
        /\ cells = [r \in 1..rd.rows |-> Cell(type, Item(i + count + r))]
        /\ col = [type |-> type, data |-> cells, valid |-> valid]
    OBVIOUS
  <2>2. LoadContinues([rd EXCEPT !.at = i + Len(ColumnSorts(i, type, rd.rows)),
                                 !.cols = Append(rd.cols, col)])
    BY <1>5
  <2>3. Reads(i, ColumnSorts(i, type, rd.rows)) /\ valid \in BitsOf(words, rd.rows)
    BY <1>5
  <2> HIDE DEF i, type, count, words, cells, col, sorts, after
  <2>4. ReadsColumn(i, type, count, words, cells, valid, col)
    BY <1>1, <1>2, <2>1, <2>2, <2>3, Zenon DEF ReadsColumn
  <2> QED BY <2>4, ColumnReadInv
<1> QED BY <1>3, <1>4, <1>5, Zenon

(* The columns read are those of the table that was saved.                 *)
LEMMA TableRead ==
    ASSUME IInv, rd.at > 1, rd.name # Null, Len(rd.cols) = Len(rd.schema),
           CleanSnapshot, NEW names \in Orders, Prefix(names), NEW k \in 1..Len(names) + 1,
           AlignedAt(names, k)
    PROVE  /\ k \in 1..Len(names) /\ rd.name = names[k] /\ names[k] \in Stored(snapshot)
           /\ rd.cols = snapshot[names[k]]
           /\ rd.at = TableAt(snapshot, names, k + 1)
<1>1. snapshot \in Catalogs
  BY Reading
<1>2. Len(names) \in Nat
  BY <1>1, OrderLists, LenProperties DEF Orders
<1> DEFINE tbl == snapshot[names[k]]
<1>3. /\ k <= Len(names) /\ rd.name = names[k] /\ rd.schema = SchemaOf(tbl)
      /\ \A c \in 1..Len(rd.cols) : rd.cols[c] = tbl[c]
      /\ rd.at = ColumnAt(snapshot, names, k, Len(rd.cols) + 1)
  BY DEF AlignedAt
<1>4. k \in 1..Len(names)
  BY <1>2, <1>3
<1>5. names[k] \in Stored(snapshot) /\ Saved(tbl)
  BY <1>1, <1>4, OrderLists DEF Orders
<1>6. tbl \in Seq(SavedColumns) /\ Len(tbl) \in Nat
  BY <1>5, LenProperties DEF Saved
<1>7. Len(SchemaOf(tbl)) = Len(tbl)
  BY <1>6 DEF SchemaOf
<1>8. rd.cols \in Seq(SavedColumns) /\ Len(rd.cols) = Len(tbl)
  BY <1>3, <1>7 DEF IInv, ReaderInv, Readers
<1>9. rd.cols = tbl
  <2>1. /\ rd.cols = [c \in 1..Len(rd.cols) |-> rd.cols[c]]
        /\ tbl = [c \in 1..Len(tbl) |-> tbl[c]]
    BY <1>6, <1>8, LenProperties
  <2> HIDE DEF tbl
  <2> QED BY <1>3, <1>8, <2>1
<1>10. ColumnAt(snapshot, names, k, Len(tbl) + 1) = TableAt(snapshot, names, k + 1)
  BY <1>1, <1>4, TableLayout
<1>11. rd.at = TableAt(snapshot, names, k + 1)
  BY <1>3, <1>8, <1>10
<1> QED BY <1>3, <1>4, <1>5, <1>9, <1>11

LEMMA LoadRegisterInv ==
    ASSUME IInv, LoadRegister
    PROVE  IInv'
<1>1. /\ op = "load" /\ rd.at > 1 /\ rd.name # Null /\ Len(rd.cols) = Len(rd.schema)
      /\ catalog' = [catalog EXCEPT ![rd.name] = rd.cols]
      /\ rd' = Between(rd.at, rd.left - 1)
      /\ UNCHANGED <<disk, op, pending, buffer, snapshot>>
  BY DEF LoadRegister, ReadingTable
<1>2. /\ OwnFile /\ disk \in Seq(Items) /\ Len(disk) \in Nat /\ rd.at \in Nat \ {0}
      /\ snapshot \in Catalogs /\ catalog \in Catalogs
  BY <1>1, Reading
<1>3. /\ rd.left \in Int /\ rd.cols \in Seq(SavedColumns) /\ rd.at - 1 <= Len(disk)
      /\ BuffersAgree(rd.cols) /\ BuffersTyped(rd.cols)
  BY <1>1 DEF IInv, ReaderInv, Readers
<1>4. catalog' \in Catalogs
  <2>1. rd.cols = NoTable \/ Saved(rd.cols)
    BY <1>3 DEF NoTable, Saved
  <2> QED BY <1>1, <1>2, <2>1, CatalogPut
<1>5. /\ rd' \in Readers /\ rd'.at = rd.at /\ rd'.left = rd.left - 1
      /\ rd'.name = Null /\ rd'.cols = << >> /\ rd'.schema = << >>
  <2>1. rd.left - 1 \in Int
    BY <1>3
  <2> QED BY <1>1, <1>2, <2>1, BetweenTyped
<1>6. ReaderInv'
  <2>1. BuffersAgree(rd'.cols) /\ BuffersTyped(rd'.cols)
    BY <1>5 DEF BuffersAgree, BuffersTyped
  <2>2. op' = "load" /\ rd'.at # 1 /\ rd'.at - 1 <= Len(disk')
    BY <1>1, <1>2, <1>3, <1>5
  <2>3. Len(rd'.cols) = 0 /\ Len(rd'.schema) = 0
    BY <1>5
  <2> QED BY <1>5, <2>1, <2>2, <2>3 DEF ReaderInv
<1>7. AlignInv'
  <2>1. SUFFICES ASSUME CleanSnapshot, NEW names \in Orders, Prefix(names) PROVE Aligned(names)'
    BY <1>1, SnapshotKept DEF AlignInv, Prefix
  <2>2. Aligned(names)
    BY <1>1, <2>1 DEF IInv, AlignInv, Prefix
  <2>3. PICK k \in 1..Len(names) + 1 : AlignedAt(names, k)
    BY <2>2 DEF Aligned
  <2>4. /\ k \in 1..Len(names) /\ rd.name = names[k] /\ names[k] \in Stored(snapshot)
        /\ rd.cols = snapshot[names[k]]
        /\ rd.at = TableAt(snapshot, names, k + 1)
    BY <1>1, <2>1, <2>3, TableRead
  <2>5. Len(names) \in Nat
    BY <1>2, <2>1, OrderLists, LenProperties DEF Orders
  <2>6. k \in Nat /\ k + 1 \in 1..Len(names) + 1
    BY <2>4, <2>5
  <2>7. rd.left = Len(names) + 1 - k /\ \A j \in 1..k - 1 : catalog[names[j]] = snapshot[names[j]]
    BY <2>3 DEF AlignedAt
  <2>8. catalog'[names[k]] = snapshot[names[k]]
    BY <1>1, <1>2, <2>4 DEF Catalogs, Stored
  <2>9. \A j \in 1..k - 1 : catalog'[names[j]] = snapshot[names[j]]
    <3>1. TAKE j \in 1..k - 1
    <3>2. CASE names[j] = names[k]
      BY <2>8, <3>2
    <3>3. CASE names[j] # names[k]
      <4>1. catalog'[names[j]] = catalog[names[j]]
        <5>1. names[j] \in Names
          <6>1. j \in 1..Len(names)
            BY <2>4, <2>5
          <6> QED BY <1>2, <2>1, <6>1, OrderLists DEF Orders
        <5> QED BY <1>1, <1>2, <2>4, <3>3, <5>1 DEF Catalogs
      <4> QED BY <2>7, <4>1
    <3> QED BY <3>2, <3>3
  <2>10. AlignedAt(names, k + 1)'
    <3>1. rd'.left = Len(names) + 1 - (k + 1)
      BY <1>5, <2>5, <2>6, <2>7
    <3>2. \A j \in 1..(k + 1) - 1 : catalog'[names[j]] = snapshot'[names[j]]
      <4>1. \A j \in 1..(k + 1) - 1 : j \in 1..k - 1 \/ j = k
        BY <2>6
      <4> QED BY <1>1, <2>8, <2>9, <4>1
    <3>3. rd'.at = TableAt(snapshot', names, k + 1) /\ rd'.name = Null
      BY <1>1, <1>5, <2>4
    <3> QED BY <3>1, <3>2, <3>3 DEF AlignedAt
  <2> QED BY <2>6, <2>10 DEF Aligned
<1> QED BY <1>1, <1>2, <1>4, <1>6, <1>7, LoadGoesOn

LEMMA LoadDoneInv ==
    ASSUME IInv, LoadDone
    PROVE  IInv'
  BY LoadEndsInv DEF LoadDone, BetweenTables

LEMMA StutterInv ==
    ASSUME IInv, UNCHANGED vars
    PROVE  IInv'
<1>1. UNCHANGED <<catalog, disk, op, pending, buffer, bad, rd, snapshot>>
  BY DEF vars
<1>2. CatalogInv' /\ StreamInv'
  BY <1>1 DEF IInv, CatalogInv, StreamInv
<1>3. Orders' = Orders /\ (CleanSnapshot' <=> CleanSnapshot)
  BY <1>1, SnapshotKept
<1>4. FileInv'
  BY <1>1, <1>3 DEF IInv, FileInv, OwnFile, BeingWritten
<1>5. ReaderInv'
  BY <1>1 DEF IInv, ReaderInv
<1>6. AlignInv'
  BY <1>1, <1>3 DEF IInv, AlignInv, Aligned, AlignedAt
<1> QED BY <1>2, <1>4, <1>5, <1>6 DEF IInv

LEMMA NextInv ==
    ASSUME IInv, [Next]_vars
    PROVE  IInv'
<1>1. CASE UNCHANGED vars
  BY <1>1, StutterInv
<1>2. CASE \E t \in Names, tbl \in TableInputs : Register(t, tbl)
  BY <1>2, RegisterInv
<1>3. CASE \E t \in Names : Drop(t)
  BY <1>3, DropInv
<1>4. CASE \E names \in SetToSeqs(Stored(catalog)) : SaveOpen(names)
  BY <1>4, SaveOpenInv
<1>5. CASE SaveOpenFails
  BY <1>5, SaveOpenFailsInv
<1>6. CASE SaveWrite
  BY <1>6, SaveWriteInv
<1>7. CASE Flush
  BY <1>7, FlushInv
<1>8. CASE FlushFails
  BY <1>8, FlushFailsInv
<1>9. CASE SaveEnd
  BY <1>9, SaveEndInv
<1>10. CASE Close \/ CloseFails
  BY <1>10, CloseInv
<1>11. CASE LoadOpen
  BY <1>11, LoadOpenInv
<1>12. CASE LoadHeader
  BY <1>12, LoadHeaderInv
<1>13. CASE LoadTable
  BY <1>13, LoadTableInv
<1>14. CASE LoadColumn
  BY <1>14, LoadColumnInv
<1>15. CASE LoadRegister
  BY <1>15, LoadRegisterInv
<1>16. CASE LoadDone
  BY <1>16, LoadDoneInv
<1>17. CASE Crash
  BY <1>17, CrashInv
<1>18. CASE Restart
  BY <1>18, RestartInv
<1> QED BY <1>1, <1>2, <1>3, <1>4, <1>5, <1>6, <1>7, <1>8, <1>9, <1>10, <1>11, <1>12, <1>13,
           <1>14, <1>15, <1>16, <1>17, <1>18 DEF Next

(* The inductive invariant: whatever saves, loads, crashes and failed      *)
(* writes have done to it, the file is either one loadDatabase rejects or  *)
(* the beginning of the encoding of one catalog, and a load in progress    *)
(* stands at the beginning of a table or of a column of it.                *)
THEOREM Invariance == Spec => []IInv
<1>1. Init => IInv
  BY InitInv
<1>2. IInv /\ [Next]_vars => IInv'
  BY NextInv
<1> QED BY <1>1, <1>2, PTL DEF Spec

-----------------------------------------------------------------------------
(* What a step of loadDatabase does                                        *)

(* Only registerTable changes the catalog.                                 *)
LEMMA LoadKeepsCatalog ==
    ASSUME [Next]_vars, op = "load", op' # "crashed", ~ LoadRegister
    PROVE  catalog' = catalog
<1>1. CASE UNCHANGED vars
  BY <1>1 DEF vars
<1>2. CASE \E t \in Names, tbl \in TableInputs : Register(t, tbl)
  BY <1>2 DEF Register
<1>3. CASE \E t \in Names : Drop(t)
  BY <1>3 DEF Drop
<1>4. CASE \E names \in SetToSeqs(Stored(catalog)) : SaveOpen(names)
  BY <1>4 DEF SaveOpen
<1>5. CASE SaveOpenFails \/ SaveWrite \/ Flush \/ FlushFails \/ SaveEnd \/ Close \/ CloseFails
  BY <1>5 DEF SaveOpenFails, SaveWrite, Flush, FlushFails, SaveEnd, Close, CloseFails
<1>6. CASE LoadOpen \/ LoadDone
  BY <1>6 DEF LoadOpen, LoadDone
<1>7. ~ Crash
  BY DEF Crash
<1>8. LoadFails => catalog' = catalog
  BY DEF LoadFails
<1>9. \A r : LoadContinues(r) => catalog' = catalog
  BY DEF LoadContinues
<1>10. CASE LoadHeader
  BY <1>8, <1>9, <1>10, Zenon DEF LoadHeader
<1>11. CASE LoadTable
  BY <1>7, <1>8, <1>9, <1>11, Zenon DEF LoadTable, Misread
<1>12. CASE LoadColumn
  BY <1>7, <1>8, <1>9, <1>12, Zenon DEF LoadColumn, Misread
<1>13. CASE Restart
  BY <1>13 DEF Restart
<1> QED BY <1>1, <1>2, <1>3, <1>4, <1>5, <1>6, <1>7, <1>10, <1>11, <1>12, <1>13, Zenon DEF Next

(* How a load returns: at its end, or in a step that gives up.             *)
LEMMA LoadReturnsBy ==
    ASSUME [Next]_vars, op = "load", op' = "idle"
    PROVE  LoadDone \/ (LoadFails /\ (LoadHeader \/ LoadTable \/ LoadColumn))
<1>1. CASE UNCHANGED vars
  BY <1>1 DEF vars
<1>2. CASE \E t \in Names, tbl \in TableInputs : Register(t, tbl)
  BY <1>2 DEF Register
<1>3. CASE \E t \in Names : Drop(t)
  BY <1>3 DEF Drop
<1>4. CASE \E names \in SetToSeqs(Stored(catalog)) : SaveOpen(names)
  BY <1>4 DEF SaveOpen
<1>5. CASE SaveOpenFails \/ SaveWrite \/ Flush \/ FlushFails \/ SaveEnd \/ Close \/ CloseFails
  BY <1>5 DEF SaveOpenFails, SaveWrite, Flush, FlushFails, SaveEnd, Close, CloseFails
<1>6. CASE LoadOpen
  BY <1>6 DEF LoadOpen
<1>7. ~ Crash
  BY DEF Crash
<1>8. \A r : ~ LoadContinues(r)
  BY DEF LoadContinues
<1>9. CASE LoadHeader
  BY <1>8, <1>9, Zenon DEF LoadHeader
<1>10. CASE LoadTable
  BY <1>7, <1>8, <1>10, Zenon DEF LoadTable, Misread
<1>11. CASE LoadColumn
  BY <1>7, <1>8, <1>11, Zenon DEF LoadColumn, Misread
<1>12. CASE LoadRegister
  BY <1>12 DEF LoadRegister
<1>13. CASE Restart
  BY <1>13 DEF Restart
<1> QED BY <1>1, <1>2, <1>3, <1>4, <1>5, <1>6, <1>7, <1>9, <1>10, <1>11, <1>12, <1>13, Zenon
        DEF Next

-----------------------------------------------------------------------------
(* A table is registered as it was saved                                   *)

LEMMA RegistersSaved ==
    ASSUME IInv, LoadRegister, CleanSnapshot, NEW t \in Names, catalog'[t] # catalog[t]
    PROVE  snapshot[t] # NoTable /\ catalog'[t] = snapshot[t]
<1>1. /\ rd.at > 1 /\ rd.name # Null /\ Len(rd.cols) = Len(rd.schema)
      /\ catalog' = [catalog EXCEPT ![rd.name] = rd.cols]
  BY DEF LoadRegister, ReadingTable
<1>2. catalog \in Catalogs
  BY <1>1, Reading
<1>3. PICK names \in Orders : Prefix(names)
  BY <1>1, Reading
<1>4. PICK k \in 1..Len(names) + 1 : AlignedAt(names, k)
  BY <1>1, <1>3 DEF IInv, AlignInv, Aligned, Prefix
<1>5. /\ rd.name = names[k] /\ names[k] \in Stored(snapshot)
      /\ rd.cols = snapshot[names[k]]
  BY <1>1, <1>3, <1>4, TableRead
<1>6. t = rd.name /\ catalog'[t] = rd.cols
  BY <1>1, <1>2 DEF Catalogs
<1> QED BY <1>5, <1>6 DEF Stored

(* loadDatabase registers a table only as it was saved, whatever crashes,  *)
(* failed flushes and earlier saves have left of the file.                 *)
THEOREM TablesLoadAsSaved == Spec => LoadsOnlySavedTables
<1> DEFINE Step == op = "load" /\ op' # "crashed" /\ CleanSnapshot =>
                       \A t \in Names : catalog'[t] # catalog[t] =>
                           snapshot[t] # NoTable /\ catalog'[t] = snapshot[t]
<1>1. IInv /\ [Next]_vars => Step
  BY LoadKeepsCatalog, RegistersSaved
<1>2. IInv /\ [Next]_vars => [Step]_vars
  BY <1>1
<1> QED BY <1>2, Invariance, PTL DEF Spec, LoadsOnlySavedTables

-----------------------------------------------------------------------------
(* A load that succeeds is a load of the whole file                        *)

LEMMA WholeFile ==
    ASSUME snapshot \in Catalogs, disk \in Seq(Items), NEW names \in Orders, Prefix(names),
           Len(EncodeCatalog(snapshot, names)) <= Len(disk)
    PROVE  disk = EncodeCatalog(snapshot, names)
<1> DEFINE file == EncodeCatalog(snapshot, names)
<1>1. file \in Seq(Items)
  BY Layout
<1> HIDE DEF file
<1>2. Len(file) \in Nat /\ Len(disk) \in Nat
  BY <1>1, LenProperties
<1>3. 0 + Len(disk) <= Len(file) /\ \A i \in 1..Len(disk) : file[0 + i] = disk[i]
  BY DEF Prefix, Holds, file
<1>4. Len(disk) = Len(file)
  BY <1>2, <1>3 DEF file
<1>5. \A i \in 1..Len(disk) : file[i] = disk[i]
  BY <1>2, <1>3
<1>6. disk = [i \in 1..Len(disk) |-> disk[i]] /\ file = [i \in 1..Len(file) |-> file[i]]
  BY <1>1, LenProperties
<1>7. disk = file
  BY <1>4, <1>5, <1>6
<1> QED BY <1>7 DEF file

LEMMA DoneIsComplete ==
    ASSUME IInv, LoadDone, CleanSnapshot
    PROVE  FileComplete /\ \A t \in Stored(snapshot) : catalog'[t] = snapshot[t]
<1>1. rd.at > 1 /\ rd.name = Null /\ rd.left = 0 /\ catalog' = catalog
  BY DEF LoadDone, BetweenTables
<1>2. /\ disk \in Seq(Items) /\ Len(disk) \in Nat /\ rd.at \in Nat \ {0} /\ snapshot \in Catalogs
  BY <1>1, Reading
<1>3. PICK names \in Orders : Prefix(names)
  BY <1>1, Reading
<1>4. PICK k \in 1..Len(names) + 1 : AlignedAt(names, k)
  BY <1>1, <1>3 DEF IInv, AlignInv, Aligned, Prefix
<1>5. Len(names) \in Nat
  BY <1>2, OrderLists, LenProperties DEF Orders
<1>6. /\ rd.left = Len(names) + 1 - k /\ rd.at = TableAt(snapshot, names, k)
      /\ \A j \in 1..k - 1 : catalog[names[j]] = snapshot[names[j]]
  BY <1>1, <1>4 DEF AlignedAt
<1>7. k = Len(names) + 1 /\ 1..k - 1 = 1..Len(names)
  BY <1>1, <1>5, <1>6
<1>8. FileComplete
  <2> DEFINE len == Len(EncodeCatalog(snapshot, names))
  <2>1. rd.at = len + 1
    BY <1>2, <1>6, <1>7, Layout
  <2>2. len \in Nat
    BY <1>2, Layout, LenProperties
  <2> HIDE DEF len
  <2>3. len <= Len(disk)
    <3>1. rd.at - 1 <= Len(disk)
      BY <1>1 DEF IInv, ReaderInv
    <3> QED BY <1>2, <2>1, <2>2, <3>1
  <2>4. disk = EncodeCatalog(snapshot, names)
    BY <1>2, <1>3, <2>3, WholeFile DEF len
  <2> QED BY <2>4 DEF FileComplete, Orders
<1>9. ASSUME NEW t \in Stored(snapshot) PROVE catalog'[t] = snapshot[t]
  <2>1. PICK j \in 1..Len(names) : names[j] = t
    BY <1>2, OrderLists DEF Orders
  <2> QED BY <1>1, <1>6, <1>7, <2>1
<1> QED BY <1>8, <1>9

(* A load that reports success has read the whole file and has every table *)
(* of the snapshot in the catalog: no prefix of a file passes for a        *)
(* smaller one.                                                            *)
THEOREM SuccessMeansComplete == Spec => SuccessfulLoadIsComplete
<1> DEFINE Step == LoadReturns(TRUE) /\ CleanSnapshot =>
                       FileComplete /\ \A t \in Stored(snapshot) : catalog'[t] = snapshot[t]
<1>1. LoadFails => ~ result'.ok
  BY DEF LoadFails, LoadEnds, Error
<1>2. IInv /\ [Next]_vars => Step
  <2>1. SUFFICES ASSUME IInv, [Next]_vars, LoadReturns(TRUE), CleanSnapshot
                 PROVE  FileComplete /\ \A t \in Stored(snapshot) : catalog'[t] = snapshot[t]
    OBVIOUS
  <2>2. op = "load" /\ op' = "idle" /\ result'.ok
    BY <2>1 DEF LoadReturns
  <2>3. LoadDone
    BY <1>1, <2>1, <2>2, LoadReturnsBy
  <2> QED BY <2>1, <2>3, DoneIsComplete
<1>3. IInv /\ [Next]_vars => [Step]_vars
  BY <1>2
<1> QED BY <1>3, Invariance, PTL DEF Spec, SuccessfulLoadIsComplete

-----------------------------------------------------------------------------
(* A load of a whole file does not fail                                    *)

LEMMA WholeHeaderReads ==
    ASSUME snapshot \in Catalogs, NEW names \in Orders, disk = EncodeCatalog(snapshot, names),
           Prefix(names), LoadHeader
    PROVE  ~ LoadFails
<1>1. disk \in Seq(Items) /\ Len(disk) \in Nat
  BY Layout, LenProperties
<1>2. Len(disk) >= 3
  <2>1. Holds(disk, 0, << <<"magic", "LQDB">>, <<"version", Version>>, <<"word", Len(names)>> >>)
    BY Layout
  <2> QED BY <1>1, <2>1 DEF Holds
<1>3. /\ Agree(1, <<"magic", "version", "word">>)
      /\ Item(1) = "LQDB" /\ Item(2) = Version
  BY <1>1, <1>2, HeaderRead
<1>4. Reads(1, <<"magic", "version", "word">>) /\ Item(2) <= Version
  BY <1>1, <1>2, <1>3 DEF Reads, Version
<1>5. op = "load" /\ LoadContinues(Between(4, Item(3)))
  BY <1>3, <1>4, Zenon DEF LoadHeader
<1> QED BY <1>5 DEF LoadContinues, LoadFails, LoadEnds

LEMMA WholeTableReads ==
    ASSUME IInv, CleanSnapshot, NEW names \in Orders, disk = EncodeCatalog(snapshot, names),
           Prefix(names), LoadTable
    PROVE  ~ LoadFails
<1> DEFINE i == rd.at
           sorts == HeadSorts(i)
<1>1. op = "load" /\ rd.at > 1 /\ rd.name = Null /\ rd.left > 0
  BY Zenon DEF LoadTable, BetweenTables
<1>2. /\ disk \in Seq(Items) /\ Len(disk) \in Nat /\ i \in Nat \ {0} /\ snapshot \in Catalogs
  BY <1>1, Reading
<1>3. PICK k \in 1..Len(names) + 1 : AlignedAt(names, k)
  BY <1>1 DEF IInv, AlignInv, Aligned, Prefix
<1>4. Len(names) \in Nat
  BY <1>2, OrderLists, LenProperties DEF Orders
<1>5. rd.left = Len(names) + 1 - k /\ i = TableAt(snapshot, names, k)
  BY <1>1, <1>3 DEF AlignedAt
<1>6. k \in 1..Len(names)
  BY <1>1, <1>4, <1>5
<1> DEFINE tbl == snapshot[names[k]]
<1>7. Agree(i, sorts) /\ Len(sorts) \in Nat /\ Len(sorts) <= Len(tbl) + 3
  BY <1>2, <1>5, <1>6, HeadRead
<1>8. /\ Len(tbl) \in Nat /\ (i - 1) + (Len(tbl) + 3) <= Len(disk)
  <2>1. names[k] \in Strings /\ Saved(tbl)
    BY <1>2, <1>6, OrderLists DEF Orders
  <2>2. Len(tbl) \in Nat /\ Len(EncodeHead(names[k], tbl)) = Len(tbl) + 3
    BY <2>1, HeadItems
  <2>3. Holds(disk, i - 1, EncodeHead(names[k], tbl))
    BY <1>2, <1>5, <1>6, TableLayout
  <2> QED BY <2>2, <2>3 DEF Holds
<1> HIDE DEF i, sorts, tbl
<1>9. i + Len(sorts) - 1 <= Len(disk)
  BY <1>2, <1>7, <1>8
<1>10. ~ EndsEarly(i, sorts)
  BY <1>2, <1>7, <1>9 DEF EndsEarly
<1>11. ~ Misread(i, sorts)
  BY <1>7 DEF Misread
<1>12. \E r : LoadContinues(r)
  BY <1>10, <1>11, Zenon DEF LoadTable, i, sorts
<1> QED BY <1>1, <1>12 DEF LoadContinues, LoadFails, LoadEnds

LEMMA WholeColumnReads ==
    ASSUME IInv, CleanSnapshot, NEW names \in Orders, disk = EncodeCatalog(snapshot, names),
           Prefix(names), LoadColumn
    PROVE  ~ LoadFails
<1> DEFINE i == rd.at
           c == Len(rd.cols) + 1
           type == rd.schema[c]
           sorts == ColumnSorts(i, type, rd.rows)
<1>1. ReadingTable /\ Len(rd.cols) < Len(rd.schema)
  BY Zenon DEF LoadColumn
<1>2. op = "load" /\ rd.at > 1 /\ rd.name # Null
  BY <1>1 DEF ReadingTable
<1>3. /\ disk \in Seq(Items) /\ Len(disk) \in Nat /\ i \in Nat \ {0} /\ snapshot \in Catalogs
  BY <1>2, Reading
<1>4. PICK k \in 1..Len(names) + 1 : AlignedAt(names, k)
  BY <1>2 DEF IInv, AlignInv, Aligned, Prefix
<1>5. Len(names) \in Nat
  BY <1>3, OrderLists, LenProperties DEF Orders
<1> DEFINE tbl == snapshot[names[k]]
           col == tbl[c]
<1>6. /\ k <= Len(names) /\ rd.schema = SchemaOf(tbl) /\ rd.rows = RowCount(tbl)
      /\ i = ColumnAt(snapshot, names, k, c)
  BY <1>2, <1>4 DEF AlignedAt
<1>7. k \in 1..Len(names)
  BY <1>5, <1>6
<1>8. names[k] \in Stored(snapshot) /\ Saved(tbl)
  BY <1>3, <1>7, OrderLists DEF Orders
<1>9. tbl \in Seq(SavedColumns) /\ Len(tbl) \in Nat /\ Len(SchemaOf(tbl)) = Len(tbl)
  BY <1>8, LenProperties DEF Saved, SchemaOf
<1>10. Len(rd.cols) \in Nat
  BY LenProperties DEF IInv, ReaderInv, Readers
<1>11. c \in 1..Len(tbl)
  BY <1>1, <1>6, <1>9, <1>10
<1>12. type = col.type /\ rd.rows = Size(col)
  <2>1. type = col.type
    BY <1>6, <1>11 DEF SchemaOf
  <2>2. Size(col) = RowCount(tbl)
    BY <1>8, <1>11 DEF CleanSnapshot, Rectangular
  <2> QED BY <1>6, <2>1, <2>2
<1>13. /\ Agree(i, ColumnSorts(i, col.type, Size(col)))
       /\ Len(ColumnSorts(i, col.type, Size(col))) \in Nat
       /\ Len(ColumnSorts(i, col.type, Size(col))) <= Len(EncodeColumn(col))
  BY <1>3, <1>6, <1>7, <1>11, ColumnRead
<1>14. (i - 1) + Len(EncodeColumn(col)) <= Len(disk)
  <2>1. Holds(disk, i - 1, EncodeColumn(col))
    BY <1>3, <1>6, <1>7, <1>11, TableLayout
  <2> QED BY <2>1 DEF Holds
<1>15. Len(EncodeColumn(col)) \in Nat
  <2>1. col \in SavedColumns /\ Len(col.data) = Len(col.valid)
    BY <1>8, <1>9, <1>11, ElementOfSeq DEF Saved, BuffersAgree
  <2> QED BY <2>1, ColumnItems, LenProperties
<1>16. Agree(i, sorts) /\ Len(sorts) \in Nat /\ Len(sorts) <= Len(EncodeColumn(col))
  BY <1>12, <1>13
<1> HIDE DEF i, type, sorts, tbl, col
<1>17. i + Len(sorts) - 1 <= Len(disk)
  BY <1>3, <1>14, <1>15, <1>16
<1>18. ~ EndsEarly(i, sorts)
  BY <1>3, <1>16, <1>17 DEF EndsEarly
<1>19. ~ Misread(i, sorts)
  BY <1>16 DEF Misread
<1>20. (\E r : LoadContinues(r)) \/ Crash
  BY <1>18, <1>19, Zenon DEF LoadColumn, i, type, sorts
<1> QED BY <1>2, <1>20 DEF LoadContinues, Crash, LoadFails, LoadEnds

(* Connection: "Save the whole database ... and load it back": a load of a *)
(* file that holds the whole snapshot never reports an error, if its       *)
(* tables are rectangular.                                                 *)
THEOREM WholeFileLoads == Spec => CompleteFileLoads
<1> DEFINE Step == FileComplete /\ CleanSnapshot => ~ LoadReturns(FALSE)
<1>1. LoadDone => result'.ok
  BY DEF LoadDone, LoadEnds, Ok
<1>2. IInv /\ [Next]_vars => Step
  <2>1. SUFFICES ASSUME IInv, [Next]_vars, FileComplete, CleanSnapshot, LoadReturns(FALSE)
                 PROVE  FALSE
    BY Zenon
  <2>2. op = "load" /\ op' = "idle" /\ ~ result'.ok
    BY <2>1 DEF LoadReturns
  <2>3. LoadFails /\ (LoadHeader \/ LoadTable \/ LoadColumn)
    BY <1>1, <2>1, <2>2, LoadReturnsBy
  <2>4. PICK names \in Orders : disk = EncodeCatalog(snapshot, names)
    BY <2>1 DEF FileComplete, Orders
  <2>5. snapshot \in Catalogs
    BY <2>1 DEF IInv, CatalogInv
  <2>6. Prefix(names)
    <3>1. Len(disk) \in Nat
      BY <2>4, <2>5, Layout, LenProperties
    <3>2. 0 + Len(disk) <= Len(disk) /\ \A i \in 1..Len(disk) : disk[0 + i] = disk[i]
      BY <3>1
    <3> QED BY <2>4, <3>2 DEF Prefix, Holds
  <2> QED BY <2>1, <2>3, <2>4, <2>5, <2>6, WholeHeaderReads, WholeTableReads, WholeColumnReads
<1>3. IInv /\ [Next]_vars => [Step]_vars
  BY <1>2, Zenon
<1> QED BY <1>3, Invariance, PTL DEF Spec, CompleteFileLoads
=============================================================================
