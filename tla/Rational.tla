------------------------------ MODULE Rational ------------------------------
(* Exact arithmetic on normalised fractions <<n, d>>, d > 0, in place of the *)
(* real_t of the scalar transport: its budget identities hold "to rounding"  *)
(* in the code and exactly here.                                             *)
EXTENDS Integers, Functions

\* Euclid's remainders: gcd[b][a] is the greatest common divisor of a and b.
gcd[b \in Nat] == [a \in Nat |-> IF b = 0 THEN a ELSE gcd[a % b][b]]

Magnitude(n) == IF n < 0 THEN -n ELSE n

\* The fraction n / d, for any d # 0.
Q(n, d) ==
  LET sign == IF d < 0 THEN -1 ELSE 1
      g    == gcd[Magnitude(d)][Magnitude(n)]
  IN  <<(sign * n) \div g, (sign * d) \div g>>

\* The fractions in lowest terms, which every operation yields.
Fractions == {r \in Int \X (Nat \ {0}) : Q(r[1], r[2]) = r}

I(n) == <<n, 1>>
Zero == I(0)

\* The denominators' common factor is taken out first: TLC's integers are
\* 32 bits wide.
a \oplus b ==
  LET g == gcd[b[2]][a[2]]
  IN  Q(a[1] * (b[2] \div g) + b[1] * (a[2] \div g), a[2] * (b[2] \div g))

a \ominus b == a \oplus <<-b[1], b[2]>>

a \otimes b == Q(a[1] * b[1], a[2] * b[2])

\* No value for b = 0: a run that divides by zero stops with an error.
a \oslash b == CASE b # Zero -> a \otimes Q(b[2], b[1])

a \prec b == (a \ominus b)[1] < 0

Higher(a, b) == IF a \prec b THEN b ELSE a
Lower(a, b)  == IF a \prec b THEN a ELSE b

\* The sum of f[x] for x in S.
Total(f, S) == FoldFunctionOnSet(\oplus, Zero, f, S)
=============================================================================
