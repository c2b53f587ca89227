----------------------------- MODULE Fractions -----------------------------
(***************************************************************************)
(* A double, as the fraction <<numerator, denominator>> it stands for, in  *)
(* lowest terms.  Rounding, infinities, NaN and -0 are left out.           *)
(***************************************************************************)
EXTENDS Integers

Magnitude(n) == IF n < 0 THEN -n ELSE n

RECURSIVE GCD(_, _)
GCD(m, n) == IF n = 0 THEN m ELSE GCD(n, m % n)

Fraction(n, d) ==
    LET common == GCD(Magnitude(n), Magnitude(d))
        sign == IF d < 0 THEN -1 ELSE 1
    IN <<sign * (n \div common), sign * (d \div common)>>

Whole(n) == <<n, 1>>
Plus(p, q) == Fraction(p[1] * q[2] + q[1] * p[2], p[2] * q[2])
Negative(p) == <<-p[1], p[2]>>
Times(p, q) == Fraction(p[1] * q[1], p[2] * q[2])
Over(p, q) == Fraction(p[1] * q[2], p[2] * q[1])
Below(p, q) == p[1] * q[2] < q[1] * p[2]
IsZero(p) == p[1] = 0

(* Division of integers that truncates towards zero, as C's / and %.       *)
Quotient(a, b) == LET q == Magnitude(a) \div Magnitude(b) IN IF (a < 0) = (b < 0) THEN q ELSE -q
Remainder(a, b) == a - b * Quotient(a, b)
=============================================================================
