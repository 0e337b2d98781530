----------------------- MODULE ScalarTransport_proofs -----------------------
(***************************************************************************)
(* The audit of ScalarTransport explains every change of mass, for any     *)
(* setups, flows and substeps that satisfy the module's assumptions and on *)
(* any number of columns and layers (LedgerHolds), a resumed run has the   *)
(* scalar of the first (RestartIsNeutral), and the consistent updates keep *)
(* a uniform scalar uniform (UniformHolds).                                *)
(*                                                                         *)
(* The scalar is an exact fraction in lowest terms, so the first part is   *)
(* about greatest common divisors and fractions; then totals of fractions, *)
(* telescoping sums of face values, and the budget of one update on each   *)
(* grid; the invariant; last the invariant of a uniform run.               *)
(***************************************************************************)
EXTENDS ScalarTransport, SumTheorems, TLAPS
-----------------------------------------------------------------------------
(***************************************************************************)
(* Greatest common divisors.  Any function that is right about them obeys  *)
(* Euclid's recursion, so the recursion has a solution.                    *)
(***************************************************************************)
Divides(e, a) == \E k \in Int : a = e * k
Common(a, b)  == {e \in Nat : Divides(e, a) /\ Divides(e, b)}
Greatest(S)   == CHOOSE g \in S : \A e \in S : Divides(e, g)

\* Quotient and remainder.
LEMMA DivMod ==
  ASSUME NEW a \in Nat, NEW b \in Nat \ {0}
  PROVE  /\ a \div b \in Nat /\ a % b \in Nat /\ a % b < b
         /\ a = b * (a \div b) + (a % b)
OBVIOUS

\* A divisor of a and b divides a + b * k.
LEMMA DividesCombined ==
  ASSUME NEW e \in Nat, NEW a \in Int, NEW b \in Int, NEW k \in Int, Divides(e, a), Divides(e, b)
  PROVE  Divides(e, a + b * k)
<1>1. PICK x \in Int : a = e * x
  BY DEF Divides
<1>2. PICK y \in Int : b = e * y
  BY DEF Divides
<1>3. a + b * k = e * (x + y * k)
  BY <1>1, <1>2
<1>4. x + y * k \in Int
  OBVIOUS
<1> QED  BY <1>3, <1>4 DEF Divides

\* Euclid's step keeps the common divisors.
LEMMA CommonStep ==
  ASSUME NEW a \in Nat, NEW b \in Nat \ {0}
  PROVE  Common(a, b) = Common(b, a % b)
<1> DEFINE q == a \div b
           r == a % b
<1>1. q \in Nat /\ r \in Nat /\ a = b * q + r
  BY DivMod
<1> HIDE DEF q, r
<1>2. a = r + b * q /\ r = a + b * (-q) /\ q \in Int /\ -q \in Int /\ r \in Int /\ a \in Int /\ b \in Int
  BY <1>1
<1>3. ASSUME NEW e \in Nat, Divides(e, b) PROVE Divides(e, a) <=> Divides(e, r)
  <2>1. Divides(e, a) => Divides(e, a + b * (-q))
    BY <1>2, <1>3, DividesCombined
  <2>2. Divides(e, r) => Divides(e, r + b * q)
    BY <1>2, <1>3, DividesCombined
  <2> QED  BY <1>2, <2>1, <2>2
<1> QED  BY <1>3 DEF Common, r

\* A number is the greatest common divisor of itself and 0.
LEMMA CommonZero ==
  ASSUME NEW a \in Nat
  PROVE  Greatest(Common(a, 0)) = a
<1>1. Divides(a, a) /\ \A e \in Nat : Divides(e, 0)
  <2>1. a = a * 1 /\ \A e \in Nat : 0 = e * 0
    OBVIOUS
  <2> QED  BY <2>1 DEF Divides
<1>2. a \in Common(a, 0) /\ \A e \in Common(a, 0) : e \in Nat /\ Divides(e, a)
  BY <1>1 DEF Common
<1>3. ASSUME NEW g \in Common(a, 0), Divides(a, g) PROVE g = a
  <2>1. PICK x \in Int : g = a * x
    BY <1>3 DEF Divides
  <2>2. PICK y \in Int : a = g * y
    BY <1>2, <1>3 DEF Divides
  <2>3. g \in Nat
    BY <1>2
  <2>4. CASE a = 0
    BY <2>1, <2>4
  <2>5. CASE a # 0
    <3>1. g > 0
      BY <2>2, <2>3, <2>5
    <3>2. x >= 1 /\ y >= 1
      BY <2>1, <2>2, <2>3, <2>5, <3>1
    <3>3. g >= a
      BY <2>1, <3>2
    <3>4. a >= g
      BY <2>2, <2>3, <3>2
    <3> QED  BY <2>3, <3>3, <3>4
  <2> QED  BY <2>4, <2>5
<1> QED  BY <1>2, <1>3 DEF Greatest

\* The recursion has a solution.
LEMMA EuclidStep ==
  \A a, b \in Nat : gcd[b][a] = IF b = 0 THEN a ELSE gcd[a % b][b]
<1> DEFINE IsEuclid(g) == g = [b \in Nat |-> [a \in Nat |-> IF b = 0 THEN a ELSE g[a % b][b]]]
           H == [b \in Nat |-> [a \in Nat |-> Greatest(Common(a, b))]]
<1>1. ASSUME NEW b \in Nat, NEW a \in Nat
      PROVE  Greatest(Common(a, b)) = IF b = 0 THEN a ELSE H[a % b][b]
  <2>1. CASE b = 0
    BY <2>1, CommonZero
  <2>2. CASE b # 0
    <3>1. a % b \in Nat /\ Common(a, b) = Common(b, a % b)
      BY <2>2, CommonStep, DivMod
    <3> QED  BY <2>2, <3>1
  <2> QED  BY <2>1, <2>2
<1>2. H = [b \in Nat |-> [a \in Nat |-> IF b = 0 THEN a ELSE H[a % b][b]]]
  BY <1>1
<1> HIDE DEF H
<1>3. gcd = CHOOSE g : IsEuclid(g)
  BY DEF gcd
<1>4. IsEuclid(gcd)
  BY <1>2, <1>3
<1> QED  BY <1>4

\* A set of natural numbers has a least one.
LEMMA LeastNumber ==
  ASSUME NEW S, S \subseteq Nat, S # {}
  PROVE  \E n \in S : \A m \in S : n <= m
<1>1. PICK n \in S : \A m \in S : <<m, n>> \notin OpToRel(<, Nat)
  BY NatLessThanWellFounded, WFMin
<1>2. \A m \in S : ~(m < n)
  BY <1>1 DEF OpToRel
<1> QED  BY <1>2

\* The greatest common divisor divides both, and every divisor of both
\* divides it.
LEMMA GcdIsGreatest ==
  ASSUME NEW a \in Nat, NEW b \in Nat
  PROVE  gcd[b][a] \in Common(a, b) /\ \A e \in Common(a, b) : Divides(e, gcd[b][a])
<1> DEFINE Right(x, y) == /\ gcd[y][x] \in Common(x, y)
                          /\ \A e \in Common(x, y) : Divides(e, gcd[y][x])
           Bad == {y \in Nat : \E x \in Nat : ~Right(x, y)}
<1> SUFFICES ASSUME ~Right(a, b) PROVE FALSE
  OBVIOUS
<1>1. b \in Bad /\ Bad \subseteq Nat
  OBVIOUS
<1> HIDE DEF Bad
<1>2. PICK y \in Bad : \A m \in Bad : y <= m
  BY <1>1, LeastNumber
<1>3. y \in Nat /\ \E x \in Nat : ~Right(x, y)
  BY DEF Bad
<1>4. PICK x \in Nat : ~Right(x, y)
  BY <1>3
<1>5. CASE y = 0
  <2>1. gcd[y][x] = x
    BY <1>4, <1>5, EuclidStep
  <2>2. Divides(x, x) /\ Divides(x, 0)
    <3>1. x = x * 1 /\ 0 = x * 0
      OBVIOUS
    <3> QED  BY <3>1 DEF Divides
  <2> QED  BY <1>4, <1>5, <2>1, <2>2 DEF Common
<1>6. CASE y # 0
  <2> DEFINE r == x % y
  <2>1. r \in Nat /\ r < y
    BY <1>3, <1>6, DivMod
  <2>2. Common(x, y) = Common(y, r)
    BY <1>3, <1>6, CommonStep
  <2>3. gcd[y][x] = gcd[r][y]
    BY <1>3, <1>4, <1>6, EuclidStep
  <2> HIDE DEF r
  <2>4. r \notin Bad
    BY <1>2, <1>3, <2>1
  <2>5. Right(y, r)
    BY <1>3, <2>1, <2>4 DEF Bad
  <2> QED  BY <1>4, <2>2, <2>3, <2>5
<1> QED  BY <1>5, <1>6

\* A multiple divided by its factor.
LEMMA DivExact ==
  ASSUME NEW g \in Nat \ {0}, NEW k \in Int
  PROVE  (g * k) \div g = k
OBVIOUS

-----------------------------------------------------------------------------
(***************************************************************************)
(* Lowest terms: the denominator is the least of all with which the same   *)
(* number can be written.                                                  *)
(***************************************************************************)
\* p / q is the same number as n / d.
SameNumber(p, q, n, d) == p * d = n * q

\* What the definition computes.
LEMMA Reduced ==
  ASSUME NEW n \in Int, NEW d \in Nat \ {0}
  PROVE  \E g \in Nat \ {0}, p \in Int, q \in Nat \ {0} :
            /\ n = g * p /\ d = g * q /\ Q(n, d) = <<p, q>>
            /\ g = gcd[d][Magnitude(n)]
<1> DEFINE g == gcd[d][Magnitude(n)]
<1>1. Magnitude(n) \in Nat /\ Magnitude(d) = d
  BY DEF Magnitude
<1>2. g \in Nat /\ Divides(g, Magnitude(n)) /\ Divides(g, d)
  BY <1>1, GcdIsGreatest DEF Common
<1> HIDE DEF g
<1>3. PICK x \in Int : Magnitude(n) = g * x
  BY <1>2 DEF Divides
<1>4. PICK q \in Int : d = g * q
  BY <1>2 DEF Divides
<1>5. g # 0 /\ q > 0
  BY <1>2, <1>4
<1> DEFINE p == IF n < 0 THEN -x ELSE x
<1>6. p \in Int /\ n = g * p
  BY <1>2, <1>3 DEF Magnitude
<1> HIDE DEF p
<1>7. n \div g = p /\ d \div g = q
  BY <1>2, <1>4, <1>5, <1>6, DivExact
<1>8. Q(n, d) = <<n \div g, d \div g>>
  <2>1. ~(d < 0) /\ 1 * n = n /\ 1 * d = d
    OBVIOUS
  <2> QED  BY <1>1, <2>1 DEF Q, g
<1> QED  BY <1>2, <1>4, <1>5, <1>6, <1>7, <1>8 DEF g

\* Arithmetic of the lemmas below, with nothing else in scope.
LEMMA Cancel ==
  ASSUME NEW a \in Int, NEW b \in Int, NEW c \in Int, c # 0, a * c = b * c
  PROVE  a = b
OBVIOUS

LEMMA RemainderFits ==
  ASSUME NEW n \in Int, NEW d \in Int, NEW z \in Int, NEW k \in Int, NEW r \in Int, NEW w \in Int,
         d = z * k + r, w * d = n * z
  PROVE  (n - w * k) * d = n * r
<1>1. r = d - z * k
  OBVIOUS
<1>2. n * (d - z * k) = n * d - (n * z) * k
  OBVIOUS
<1>3. n * d - (w * d) * k = (n - w * k) * d
  OBVIOUS
<1> QED  BY <1>1, <1>2, <1>3

LEMMA FactorOut ==
  ASSUME NEW n \in Int, NEW k \in Int, NEW z \in Int, NEW w \in Int, z # 0, w * (k * z) = n * z
  PROVE  n = k * w
<1>1. (k * w) * z = w * (k * z)
  OBVIOUS
<1>2. k * w \in Int
  OBVIOUS
<1> QED  BY <1>1, <1>2, Cancel

LEMMA FactorIn ==
  ASSUME NEW k \in Nat \ {0}, NEW m \in Int, NEW q \in Nat \ {0}, NEW z \in Nat \ {0},
         k * m > 0, k * z = (k * m) * q
  PROVE  q <= z
<1>1. m >= 1
  OBVIOUS
<1>2. (m * q) * k = z * k
  OBVIOUS
<1>3. m * q \in Int
  OBVIOUS
<1>4. z = m * q
  BY <1>2, <1>3, Cancel
<1>5. m * q >= q
  BY <1>1
<1> QED  BY <1>4, <1>5

\* No y smaller than z can be the denominator; n / d is w / z with both parts
\* multiplied.
NoneBelow(z, n, d)    == \A y \in Nat \ {0} : \A x \in Int : SameNumber(x, y, n, d) => z <= y
Scaled(n, d, w, z) == \E k \in Nat \ {0} : d = k * z /\ n = k * w

\* The least denominator divides every other.
LEMMA LeastDivides ==
  ASSUME NEW n \in Int, NEW d \in Nat \ {0}, NEW z \in Nat \ {0}, NEW w \in Int,
         SameNumber(w, z, n, d), NoneBelow(z, n, d)
  PROVE  Scaled(n, d, w, z)
<1> DEFINE k == d \div z
           r == d % z
<1>1. k \in Nat /\ r \in Nat /\ r < z /\ d = z * k + r
  BY DivMod
<1> HIDE DEF k, r
<1>2. w * d = n * z
  BY DEF SameNumber
<1>3. (n - w * k) * d = n * r
  BY <1>1, <1>2, RemainderFits
<1>4. r = 0
  <2>1. n - w * k \in Int
    BY <1>1
  <2>2. SameNumber(n - w * k, r, n, d)
    BY <1>3 DEF SameNumber
  <2> QED  BY <1>1, <2>1, <2>2 DEF NoneBelow
<1>5. d = k * z /\ k # 0
  BY <1>1, <1>4
<1>6. n = k * w
  <2>1. w * (k * z) = n * z
    BY <1>2, <1>5
  <2> QED  BY <1>1, <2>1, FactorOut
<1>7. k \in Nat \ {0}
  BY <1>1, <1>5
<1> QED  BY <1>5, <1>6, <1>7, Zenon DEF Scaled

LEMMA DividesBoth ==
  ASSUME NEW n \in Int, NEW d \in Nat, NEW k \in Nat, NEW z \in Int, NEW w \in Int,
         d = k * z, n = k * w
  PROVE  Magnitude(n) \in Nat /\ k \in Common(Magnitude(n), d)
<1>1. k * (-w) = -(k * w) /\ -w \in Int
  OBVIOUS
<1>2. Magnitude(n) \in Nat /\ (Magnitude(n) = k * w \/ Magnitude(n) = k * (-w))
  BY <1>1 DEF Magnitude
<1>3. Divides(k, Magnitude(n))
  BY <1>1, <1>2, Zenon DEF Divides
<1> QED  BY <1>2, <1>3 DEF Common, Divides

\* A number that can be written with some denominator can be written with a
\* least one, of which the others are multiples.
LEMMA LeastExists ==
  ASSUME NEW n \in Int, NEW d \in Nat \ {0}
  PROVE  \E z \in Nat \ {0}, w \in Int : NoneBelow(z, n, d) /\ Scaled(n, d, w, z)
<1> DEFINE Denominators == {z \in Nat \ {0} : \E w \in Int : SameNumber(w, z, n, d)}
<1>1. Denominators # {} /\ Denominators \subseteq Nat
  BY DEF SameNumber
<1> HIDE DEF Denominators
<1>2. PICK z \in Denominators : \A m \in Denominators : z <= m
  BY <1>1, LeastNumber
<1>3. z \in Nat \ {0} /\ \E w \in Int : SameNumber(w, z, n, d)
  BY DEF Denominators
<1>4. PICK w \in Int : SameNumber(w, z, n, d)
  BY <1>3
<1>5. NoneBelow(z, n, d)
  BY <1>2 DEF Denominators, NoneBelow
<1>6. Scaled(n, d, w, z)
  BY <1>3, <1>4, <1>5, LeastDivides
<1> QED  BY <1>3, <1>5, <1>6

\* The reduced denominator is the least.
LEMMA Least ==
  ASSUME NEW n \in Int, NEW d \in Nat \ {0}, NEW q \in Nat \ {0}, d = gcd[d][Magnitude(n)] * q
  PROVE  NoneBelow(q, n, d)
<1> DEFINE g == gcd[d][Magnitude(n)]
<1>1. PICK z \in Nat \ {0}, w \in Int : NoneBelow(z, n, d) /\ Scaled(n, d, w, z)
  BY LeastExists
<1>2. PICK k \in Nat \ {0} : d = k * z /\ n = k * w
  BY <1>1 DEF Scaled
<1>3. Magnitude(n) \in Nat /\ k \in Common(Magnitude(n), d)
  <2>1. d \in Nat /\ k \in Nat /\ z \in Int
    OBVIOUS
  <2> QED  BY <1>2, <2>1, DividesBoth, Zenon
<1>4. Divides(k, g)
  BY <1>3, GcdIsGreatest
<1>5. d = g * q
  OBVIOUS
<1> HIDE DEF g
<1>6. PICK m \in Int : g = k * m
  BY <1>4 DEF Divides
<1>7. k * m > 0 /\ k * z = (k * m) * q
  BY <1>2, <1>5, <1>6
<1>8. q <= z
  BY <1>7, FactorIn
<1> QED  BY <1>1, <1>8 DEF NoneBelow

\* The parts of a fraction written as n / d.
LEMMA Parts ==
  ASSUME NEW n \in Int, NEW d \in Nat \ {0}
  PROVE  \E p \in Int, q \in Nat \ {0} :
            Q(n, d) = <<p, q>> /\ SameNumber(p, q, n, d) /\ NoneBelow(q, n, d)
<1>1. PICK g \in Nat \ {0}, p \in Int, q \in Nat \ {0} :
            /\ n = g * p /\ d = g * q /\ Q(n, d) = <<p, q>>
            /\ g = gcd[d][Magnitude(n)]
  BY Reduced
<1>2. SameNumber(p, q, n, d)
  <2>1. p * (g * q) = (g * p) * q
    OBVIOUS
  <2> QED  BY <1>1, <2>1 DEF SameNumber
<1>3. NoneBelow(q, n, d)
  BY <1>1, Least
<1> QED  BY <1>1, <1>2, <1>3

\* The same number as the same number.
LEMMA SameChain ==
  ASSUME NEW p \in Int, NEW q \in Nat \ {0}, NEW n \in Int, NEW d \in Nat \ {0},
         NEW m \in Int, NEW e \in Nat \ {0}, SameNumber(p, q, n, d), SameNumber(n, d, m, e)
  PROVE  SameNumber(p, q, m, e)
<1>1. p * d = n * q /\ n * e = m * d
  BY DEF SameNumber
<1>2. (p * e) * d = (p * d) * e
  OBVIOUS
<1>3. (n * q) * e = (n * e) * q
  OBVIOUS
<1>4. (m * d) * q = (m * q) * d
  OBVIOUS
<1>5. (p * e) * d = (m * q) * d
  BY <1>1, <1>2, <1>3, <1>4
<1>6. p * e \in Int /\ m * q \in Int
  OBVIOUS
<1>7. p * e = m * q
  BY <1>5, <1>6, Cancel
<1> QED  BY <1>7 DEF SameNumber

LEMMA SameBack ==
  ASSUME NEW p \in Int, NEW q \in Int, NEW n \in Int, NEW d \in Int, SameNumber(p, q, n, d)
  PROVE  SameNumber(n, d, p, q)
BY DEF SameNumber

\* A fraction is the number it stands for.
LEMMA QSame ==
  ASSUME NEW n \in Int, NEW d \in Nat \ {0}, NEW m \in Int, NEW e \in Nat \ {0}
  PROVE  Q(n, d) = Q(m, e) <=> n * e = m * d
<1>1. PICK p \in Int, q \in Nat \ {0} :
            Q(n, d) = <<p, q>> /\ SameNumber(p, q, n, d) /\ NoneBelow(q, n, d)
  BY Parts
<1>2. PICK r \in Int, s \in Nat \ {0} :
            Q(m, e) = <<r, s>> /\ SameNumber(r, s, m, e) /\ NoneBelow(s, m, e)
  BY Parts
<1>3. ASSUME n * e = m * d PROVE Q(n, d) = Q(m, e)
  <2>1. SameNumber(n, d, m, e) /\ SameNumber(m, e, n, d)
    BY <1>3 DEF SameNumber
  <2>2. SameNumber(p, q, m, e) /\ SameNumber(r, s, n, d)
    BY <1>1, <1>2, <2>1, SameChain
  <2>3. q <= s /\ s <= q
    BY <1>1, <1>2, <2>2 DEF NoneBelow
  <2>4. q = s
    BY <2>3
  <2>5. p * e = m * s /\ r * e = m * s
    BY <1>2, <2>2, <2>4 DEF SameNumber
  <2>6. p * e = r * e
    BY <2>5
  <2>7. p = r
    BY <2>6, Cancel
  <2> QED  BY <1>1, <1>2, <2>4, <2>7
<1>4. ASSUME Q(n, d) = Q(m, e) PROVE n * e = m * d
  <2>1. p = r /\ q = s
    BY <1>1, <1>2, <1>4
  <2>2. SameNumber(p, q, m, e)
    BY <1>2, <2>1
  <2>3. SameNumber(n, d, p, q)
    BY <1>1, SameBack
  <2>4. SameNumber(n, d, m, e)
    BY <2>2, <2>3, SameChain
  <2> QED  BY <2>4 DEF SameNumber
<1> QED  BY <1>3, <1>4

\* A fraction is in lowest terms and is itself.
LEMMA QType ==
  ASSUME NEW n \in Int, NEW d \in Nat \ {0}
  PROVE  Q(n, d) \in Fractions
<1>1. PICK p \in Int, q \in Nat \ {0} :
            Q(n, d) = <<p, q>> /\ SameNumber(p, q, n, d) /\ NoneBelow(q, n, d)
  BY Parts
<1>2. p * d = n * q
  BY <1>1 DEF SameNumber
<1>3. Q(p, q) = Q(n, d)
  BY <1>2, QSame
<1> QED  BY <1>1, <1>3 DEF Fractions

LEMMA QSelf ==
  ASSUME NEW r \in Fractions
  PROVE  r[1] \in Int /\ r[2] \in Nat \ {0} /\ r = <<r[1], r[2]>> /\ r = Q(r[1], r[2])
BY DEF Fractions

-----------------------------------------------------------------------------
(***************************************************************************)
(* The operations, on fractions however written.                           *)
(***************************************************************************)
LEMMA AddSame ==
  ASSUME NEW n \in Int, NEW d \in Int, NEW m \in Int, NEW e \in Int, NEW p \in Int, NEW q \in Int,
         NEW u \in Int, NEW v \in Int, NEW x \in Int, NEW y \in Int, NEW g \in Int,
         p * d = n * q, u * e = m * v, q = g * x, v = g * y
  PROVE  (p * y + u * x) * (d * e) = (n * e + m * d) * (q * y)
<1>1. (p * y) * (d * e) = (p * d) * (y * e) /\ (n * q) * (y * e) = (n * e) * (q * y)
  OBVIOUS
<1>2. (u * x) * (d * e) = (u * e) * (x * d) /\ (m * v) * (x * d) = (m * d) * (v * x)
  OBVIOUS
<1>3. v * x = q * y
  <2>1. (g * y) * x = (g * x) * y
    OBVIOUS
  <2> QED  BY <2>1
<1>4. (p * y + u * x) * (d * e) = (p * y) * (d * e) + (u * x) * (d * e)
  OBVIOUS
<1>5. (n * e + m * d) * (q * y) = (n * e) * (q * y) + (m * d) * (q * y)
  OBVIOUS
<1> QED  BY <1>1, <1>2, <1>3, <1>4, <1>5

LEMMA PositiveProduct ==
  ASSUME NEW d \in Nat \ {0}, NEW e \in Nat \ {0}
  PROVE  d * e \in Nat \ {0}
OBVIOUS

LEMMA AddQ ==
  ASSUME NEW n \in Int, NEW d \in Nat \ {0}, NEW m \in Int, NEW e \in Nat \ {0}
  PROVE  Q(n, d) \oplus Q(m, e) = Q(n * e + m * d, d * e)
<1>1. PICK p \in Int, q \in Nat \ {0} :
            Q(n, d) = <<p, q>> /\ SameNumber(p, q, n, d) /\ NoneBelow(q, n, d)
  BY Parts
<1>2. PICK u \in Int, v \in Nat \ {0} :
            Q(m, e) = <<u, v>> /\ SameNumber(u, v, m, e) /\ NoneBelow(v, m, e)
  BY Parts
<1> DEFINE g == gcd[v][q]
<1>3. g \in Nat /\ Divides(g, q) /\ Divides(g, v)
  BY GcdIsGreatest DEF Common
<1>4. Q(n, d) \oplus Q(m, e) = Q(p * (v \div g) + u * (q \div g), q * (v \div g))
  BY <1>1, <1>2 DEF \oplus
<1> HIDE DEF g
<1>5. PICK x \in Int : q = g * x
  BY <1>3 DEF Divides
<1>6. PICK y \in Int : v = g * y
  BY <1>3 DEF Divides
<1>7. g \in Nat \ {0} /\ x \in Nat \ {0} /\ y \in Nat \ {0}
  BY <1>3, <1>5, <1>6
<1>8. q \div g = x /\ v \div g = y
  BY <1>5, <1>6, <1>7, DivExact
<1>9. p * d = n * q /\ u * e = m * v
  BY <1>1, <1>2 DEF SameNumber
<1>10. (p * y + u * x) * (d * e) = (n * e + m * d) * (q * y)
  BY <1>3, <1>5, <1>6, <1>9, AddSame
<1>11. q * y \in Nat \ {0} /\ d * e \in Nat \ {0}
  BY <1>7, PositiveProduct
<1>12. p * y + u * x \in Int /\ n * e + m * d \in Int
  OBVIOUS
<1>13. Q(p * y + u * x, q * y) = Q(n * e + m * d, d * e)
  BY <1>10, <1>11, <1>12, QSame
<1> QED  BY <1>4, <1>8, <1>13

\* The negative of a fraction.
LEMMA Negated ==
  ASSUME NEW n \in Int, NEW d \in Nat \ {0}
  PROVE  <<-(Q(n, d)[1]), Q(n, d)[2]>> = Q(-n, d)
<1> DEFINE m == -n
<1>1. m \in Int /\ Magnitude(m) = Magnitude(n) /\ m = -n
  BY DEF Magnitude
<1> HIDE DEF m
<1>2. PICK g \in Nat \ {0}, p \in Int, q \in Nat \ {0} :
            /\ n = g * p /\ d = g * q /\ Q(n, d) = <<p, q>>
            /\ g = gcd[d][Magnitude(n)]
  BY Reduced
<1>3. PICK h \in Nat \ {0}, r \in Int, s \in Nat \ {0} :
            /\ m = h * r /\ d = h * s /\ Q(m, d) = <<r, s>>
            /\ h = gcd[d][Magnitude(m)]
  BY <1>1, Reduced
<1>4. h = g
  BY <1>1, <1>2, <1>3
<1>5. q * g = s * g
  BY <1>2, <1>3, <1>4
<1>6. r * g = (-p) * g
  BY <1>1, <1>2, <1>3, <1>4
<1>7. q = s
  BY <1>5, Cancel
<1>8. -p \in Int /\ g # 0
  OBVIOUS
<1>9. r = -p
  BY <1>6, <1>8, Cancel
<1> QED  BY <1>2, <1>3, <1>7, <1>9 DEF m

LEMMA SubtractQ ==
  ASSUME NEW n \in Int, NEW d \in Nat \ {0}, NEW m \in Int, NEW e \in Nat \ {0}
  PROVE  Q(n, d) \ominus Q(m, e) = Q(n * e - m * d, d * e)
<1>1. Q(n, d) \ominus Q(m, e) = Q(n, d) \oplus Q(-m, e)
  BY Negated DEF \ominus
<1>2. n * e + (-m) * d = n * e - m * d /\ -m \in Int
  OBVIOUS
<1> QED  BY <1>1, <1>2, AddQ

LEMMA TimesQ ==
  ASSUME NEW n \in Int, NEW d \in Nat \ {0}, NEW m \in Int, NEW e \in Nat \ {0}
  PROVE  Q(n, d) \otimes Q(m, e) = Q(n * m, d * e)
<1>1. PICK p \in Int, q \in Nat \ {0} :
            Q(n, d) = <<p, q>> /\ SameNumber(p, q, n, d) /\ NoneBelow(q, n, d)
  BY Parts
<1>2. PICK u \in Int, v \in Nat \ {0} :
            Q(m, e) = <<u, v>> /\ SameNumber(u, v, m, e) /\ NoneBelow(v, m, e)
  BY Parts
<1>3. Q(n, d) \otimes Q(m, e) = Q(p * u, q * v)
  BY <1>1, <1>2 DEF \otimes
<1>4. p * d = n * q /\ u * e = m * v
  BY <1>1, <1>2 DEF SameNumber
<1>5. (p * u) * (d * e) = (n * m) * (q * v)
  <2>1. (p * u) * (d * e) = (p * d) * (u * e)
    OBVIOUS
  <2>2. (n * q) * (m * v) = (n * m) * (q * v)
    OBVIOUS
  <2> QED  BY <1>4, <2>1, <2>2
<1>6. q * v \in Nat \ {0} /\ d * e \in Nat \ {0}
  BY PositiveProduct
<1>7. p * u \in Int /\ n * m \in Int
  OBVIOUS
<1> QED  BY <1>3, <1>5, <1>6, <1>7, QSame

-----------------------------------------------------------------------------
(***************************************************************************)
(* Over one denominator fractions add like integers.  Num(a, D) is what is *)
(* over D in a.                                                            *)
(***************************************************************************)
Over(D)   == {Q(n, D) : n \in Int}
Num(a, D) == CHOOSE n \in Int : a = Q(n, D)

LEMMA OverQ ==
  ASSUME NEW D \in Nat \ {0}, NEW n \in Int
  PROVE  Q(n, D) \in Over(D) /\ Num(Q(n, D), D) = n
<1>1. ASSUME NEW m \in Int, Q(n, D) = Q(m, D) PROVE m = n
  <2>1. n * D = m * D
    BY <1>1, QSame
  <2> QED  BY <2>1, Cancel
<1>2. Q(n, D) \in Over(D)
  BY DEF Over
<1>3. \E m \in Int : Q(n, D) = Q(m, D)
  OBVIOUS
<1>4. Num(Q(n, D), D) \in Int /\ Q(n, D) = Q(Num(Q(n, D), D), D)
  BY <1>3, Zenon DEF Num
<1> QED  BY <1>1, <1>2, <1>4

LEMMA OverNum ==
  ASSUME NEW D \in Nat \ {0}, NEW a \in Over(D)
  PROVE  Num(a, D) \in Int /\ a = Q(Num(a, D), D) /\ a \in Fractions
<1>1. PICK n \in Int : a = Q(n, D)
  BY DEF Over
<1>2. Num(a, D) = n
  BY <1>1, OverQ
<1> QED  BY <1>1, <1>2, QType

LEMMA OverSame ==
  ASSUME NEW D \in Nat \ {0}, NEW a \in Over(D), NEW b \in Over(D)
  PROVE  a = b <=> Num(a, D) = Num(b, D)
BY OverNum

LEMMA IntegerQ ==
  ASSUME NEW n \in Int
  PROVE  I(n) = Q(n, 1) /\ I(n) \in Fractions /\ I(n)[1] = n /\ I(n)[2] = 1
<1>0. 1 \in Nat \ {0}
  OBVIOUS
<1>1. PICK p \in Int, q \in Nat \ {0} :
            Q(n, 1) = <<p, q>> /\ SameNumber(p, q, n, 1) /\ NoneBelow(q, n, 1)
  BY <1>0, Parts, Zenon
<1>2. SameNumber(n, 1, n, 1)
  BY DEF SameNumber
<1>3. q <= 1
  BY <1>1, <1>2 DEF NoneBelow
<1>4. q = 1
  BY <1>3
<1>5. p = n
  BY <1>1, <1>4 DEF SameNumber
<1>6. I(n) = Q(n, 1)
  BY <1>1, <1>4, <1>5 DEF I
<1> QED  BY <1>6, QType DEF I

LEMMA OverInteger ==
  ASSUME NEW D \in Nat \ {0}, NEW k \in Int
  PROVE  I(k) \in Over(D) /\ Num(I(k), D) = k * D
<1>1. k * D \in Int /\ k * D = (k * D) * 1
  OBVIOUS
<1>2. Q(k, 1) = Q(k * D, D)
  BY <1>1, QSame
<1> QED  BY <1>1, <1>2, IntegerQ, OverQ

LEMMA OverZero ==
  ASSUME NEW D \in Nat \ {0}
  PROVE  Zero \in Over(D) /\ Num(Zero, D) = 0
BY OverInteger DEF Zero

LEMMA OverSum ==
  ASSUME NEW D \in Nat \ {0}, NEW a \in Over(D), NEW b \in Over(D)
  PROVE  a \oplus b \in Over(D) /\ Num(a \oplus b, D) = Num(a, D) + Num(b, D)
<1> DEFINE n == Num(a, D)
           m == Num(b, D)
<1>1. n \in Int /\ m \in Int /\ a = Q(n, D) /\ b = Q(m, D)
  BY OverNum
<1> HIDE DEF n, m
<1>2. a \oplus b = Q(n * D + m * D, D * D)
  BY <1>1, AddQ
<1>3. (n * D + m * D) * D = (n + m) * (D * D)
  BY <1>1
<1>4. D * D \in Nat \ {0} /\ n * D + m * D \in Int /\ n + m \in Int
  BY <1>1, PositiveProduct
<1>5. Q(n * D + m * D, D * D) = Q(n + m, D)
  BY <1>3, <1>4, QSame
<1> QED  BY <1>2, <1>4, <1>5, OverQ DEF n, m

LEMMA OverDifference ==
  ASSUME NEW D \in Nat \ {0}, NEW a \in Over(D), NEW b \in Over(D)
  PROVE  a \ominus b \in Over(D) /\ Num(a \ominus b, D) = Num(a, D) - Num(b, D)
<1> DEFINE n == Num(a, D)
           m == Num(b, D)
<1>1. n \in Int /\ m \in Int /\ a = Q(n, D) /\ b = Q(m, D)
  BY OverNum
<1> HIDE DEF n, m
<1>2. a \ominus b = Q(n * D - m * D, D * D)
  BY <1>1, SubtractQ
<1>3. (n * D - m * D) * D = (n - m) * (D * D)
  BY <1>1
<1>4. D * D \in Nat \ {0} /\ n * D - m * D \in Int /\ n - m \in Int
  BY <1>1, PositiveProduct
<1>5. Q(n * D - m * D, D * D) = Q(n - m, D)
  BY <1>3, <1>4, QSame
<1> QED  BY <1>2, <1>4, <1>5, OverQ DEF n, m

LEMMA OverMultiple ==
  ASSUME NEW D \in Nat \ {0}, NEW a \in Over(D), NEW k \in Int
  PROVE  /\ I(k) \otimes a \in Over(D) /\ Num(I(k) \otimes a, D) = k * Num(a, D)
         /\ a \otimes I(k) \in Over(D) /\ Num(a \otimes I(k), D) = k * Num(a, D)
<1> DEFINE n == Num(a, D)
<1>1. n \in Int /\ a = Q(n, D) /\ k * n \in Int
  BY OverNum
<1> HIDE DEF n
<1>2. I(k) = Q(k, 1) /\ 1 \in Nat \ {0}
  BY IntegerQ
<1>3. I(k) \otimes a = Q(k * n, 1 * D)
  BY <1>1, <1>2, TimesQ
<1>4. a \otimes I(k) = Q(n * k, D * 1)
  BY <1>1, <1>2, TimesQ
<1>5. 1 * D = D /\ D * 1 = D /\ n * k = k * n
  BY <1>1
<1> QED  BY <1>1, <1>3, <1>4, <1>5, OverQ DEF n

-----------------------------------------------------------------------------
\* Finitely many fractions have a common denominator.
LEMMA OverOwn ==
  ASSUME NEW a \in Fractions
  PROVE  a[2] \in Nat \ {0} /\ a \in Over(a[2])
BY QSelf DEF Over

LEMMA OverLarger ==
  ASSUME NEW D \in Nat \ {0}, NEW E \in Nat \ {0}, NEW a \in Over(D)
  PROVE  D * E \in Nat \ {0} /\ a \in Over(D * E) /\ a \in Over(E * D)
<1> DEFINE n == Num(a, D)
<1>1. n \in Int /\ a = Q(n, D) /\ n * E \in Int
  BY OverNum
<1> HIDE DEF n
<1>2. D * E \in Nat \ {0} /\ D * E = E * D
  BY PositiveProduct
<1>3. n * (D * E) = (n * E) * D
  BY <1>1
<1>4. a = Q(n * E, D * E)
  BY <1>1, <1>2, <1>3, QSame
<1>5. a \in Over(D * E)
  BY <1>1, <1>4 DEF Over
<1> QED  BY <1>2, <1>5

LEMMA CommonDenominator ==
  ASSUME NEW S, IsFiniteSet(S), S \subseteq Fractions
  PROVE  \E D \in Nat \ {0} : S \subseteq Over(D)
<1> DEFINE Good == {T \in SUBSET S : \E D \in Nat \ {0} : T \subseteq Over(D)}
<1>1. ASSUME NEW T \in SUBSET S, \A U \in SUBSET T : U # T => U \in Good
      PROVE  T \in Good
  <2>1. CASE T = {}
    <3>1. 1 \in Nat \ {0} /\ T \subseteq Over(1)
      BY <2>1
    <3> QED  BY <3>1
  <2>2. CASE T # {}
    <3>1. PICK a \in T : TRUE
      BY <2>2
    <3>2. T \ {a} \in Good
      BY <1>1, <3>1
    <3>3. PICK D \in Nat \ {0} : T \ {a} \subseteq Over(D)
      BY <3>2
    <3> DEFINE E == a[2]
    <3>4. E \in Nat \ {0} /\ a \in Over(E)
      BY <3>1, OverOwn
    <3> HIDE DEF E
    <3>5. D * E \in Nat \ {0} /\ \A b \in T \ {a} : b \in Over(D * E)
      BY <3>3, <3>4, OverLarger
    <3>6. a \in Over(D * E)
      BY <3>4, OverLarger
    <3>7. T \subseteq Over(D * E)
      BY <3>5, <3>6
    <3> QED  BY <3>5, <3>7
  <2> QED  BY <2>1, <2>2
<1> HIDE DEF Good
<1>2. S \in Good
  BY <1>1, SubsetInduction
<1> QED  BY <1>2 DEF Good

-----------------------------------------------------------------------------
(***************************************************************************)
(* The laws of the operations.                                             *)
(***************************************************************************)
\* Three fractions over one denominator.
LEMMA Three ==
  ASSUME NEW a \in Fractions, NEW b \in Fractions, NEW c \in Fractions
  PROVE  \E D \in Nat \ {0} : a \in Over(D) /\ b \in Over(D) /\ c \in Over(D)
<1>1. IsFiniteSet({a, b, c})
  <2>1. IsFiniteSet({a}) /\ IsFiniteSet({b}) /\ IsFiniteSet({c})
    BY FS_Singleton
  <2>2. IsFiniteSet({a} \cup {b})
    BY <2>1, FS_Union
  <2>3. IsFiniteSet(({a} \cup {b}) \cup {c})
    BY <2>1, <2>2, FS_Union
  <2>4. {a, b, c} = ({a} \cup {b}) \cup {c}
    OBVIOUS
  <2> QED  BY <2>3, <2>4
<1>2. {a, b, c} \subseteq Fractions
  OBVIOUS
<1>3. PICK D \in Nat \ {0} : {a, b, c} \subseteq Over(D)
  BY <1>1, <1>2, CommonDenominator
<1> QED  BY <1>3

LEMMA Closed ==
  ASSUME NEW a \in Fractions, NEW b \in Fractions
  PROVE  /\ a \oplus b \in Fractions /\ a \ominus b \in Fractions /\ a \otimes b \in Fractions
         /\ Zero \in Fractions
<1>1. PICK D \in Nat \ {0} : a \in Over(D) /\ b \in Over(D)
  BY Three
<1>2. a \oplus b \in Fractions /\ a \ominus b \in Fractions /\ Zero \in Fractions
  BY <1>1, OverSum, OverDifference, OverNum, OverZero
<1>3. a \otimes b = Q(a[1] * b[1], a[2] * b[2])
  BY QSelf, TimesQ
<1>4. a[1] * b[1] \in Int /\ a[2] * b[2] \in Nat \ {0}
  BY QSelf, PositiveProduct
<1> QED  BY <1>2, <1>3, <1>4, QType

LEMMA TimesCommutes ==
  ASSUME NEW a \in Fractions, NEW b \in Fractions
  PROVE  a \otimes b = b \otimes a
<1> DEFINE n == a[1]
           d == a[2]
           m == b[1]
           e == b[2]
<1>1. /\ n \in Int /\ d \in Nat \ {0} /\ a = Q(n, d)
      /\ m \in Int /\ e \in Nat \ {0} /\ b = Q(m, e)
  BY QSelf
<1> HIDE DEF n, d, m, e
<1>2. n * m = m * n /\ d * e = e * d
  BY <1>1
<1> QED  BY <1>1, <1>2, TimesQ

LEMMA TimesAssociates ==
  ASSUME NEW a \in Fractions, NEW b \in Fractions, NEW c \in Fractions
  PROVE  (a \otimes b) \otimes c = a \otimes (b \otimes c)
<1> DEFINE n == a[1]
           d == a[2]
           m == b[1]
           e == b[2]
           l == c[1]
           f == c[2]
<1>1. /\ n \in Int /\ d \in Nat \ {0} /\ a = Q(n, d)
      /\ m \in Int /\ e \in Nat \ {0} /\ b = Q(m, e)
      /\ l \in Int /\ f \in Nat \ {0} /\ c = Q(l, f)
  BY QSelf
<1> HIDE DEF n, d, m, e, l, f
<1>2. d * e \in Nat \ {0} /\ e * f \in Nat \ {0} /\ n * m \in Int /\ m * l \in Int
  BY <1>1, PositiveProduct
<1>3. a \otimes b = Q(n * m, d * e) /\ b \otimes c = Q(m * l, e * f)
  BY <1>1, TimesQ
<1>4. (a \otimes b) \otimes c = Q((n * m) * l, (d * e) * f)
  BY <1>1, <1>2, <1>3, TimesQ
<1>5. a \otimes (b \otimes c) = Q(n * (m * l), d * (e * f))
  BY <1>1, <1>2, <1>3, TimesQ
<1>6. (n * m) * l = n * (m * l) /\ (d * e) * f = d * (e * f)
  BY <1>1
<1> QED  BY <1>4, <1>5, <1>6

\* Products of fractions over one denominator, over its square.
LEMMA OverProduct ==
  ASSUME NEW D \in Nat \ {0}, NEW a \in Over(D), NEW b \in Over(D)
  PROVE  a \otimes b \in Over(D * D) /\ Num(a \otimes b, D * D) = Num(a, D) * Num(b, D)
<1> DEFINE n == Num(a, D)
           m == Num(b, D)
<1>1. n \in Int /\ m \in Int /\ a = Q(n, D) /\ b = Q(m, D)
  BY OverNum
<1> HIDE DEF n, m
<1>2. a \otimes b = Q(n * m, D * D)
  BY <1>1, TimesQ
<1>3. D * D \in Nat \ {0} /\ n * m \in Int
  BY <1>1, PositiveProduct
<1> QED  BY <1>2, <1>3, OverQ DEF n, m

LEMMA Distributes ==
  ASSUME NEW a \in Fractions, NEW b \in Fractions, NEW c \in Fractions
  PROVE  /\ a \otimes (b \oplus c) = (a \otimes b) \oplus (a \otimes c)
         /\ a \otimes (b \ominus c) = (a \otimes b) \ominus (a \otimes c)
         /\ (b \oplus c) \otimes a = (b \otimes a) \oplus (c \otimes a)
         /\ (b \ominus c) \otimes a = (b \otimes a) \ominus (c \otimes a)
<1>1. PICK D \in Nat \ {0} : a \in Over(D) /\ b \in Over(D) /\ c \in Over(D)
  BY Three
<1> DEFINE n == Num(a, D)
           m == Num(b, D)
           l == Num(c, D)
           E == D * D
<1>2. n \in Int /\ m \in Int /\ l \in Int /\ E \in Nat \ {0}
  BY <1>1, OverNum, PositiveProduct
<1>3. /\ b \oplus c \in Over(D) /\ Num(b \oplus c, D) = m + l
      /\ b \ominus c \in Over(D) /\ Num(b \ominus c, D) = m - l
  BY <1>1, OverSum, OverDifference
<1>4. /\ a \otimes b \in Over(E) /\ Num(a \otimes b, E) = n * m
      /\ a \otimes c \in Over(E) /\ Num(a \otimes c, E) = n * l
      /\ a \otimes (b \oplus c) \in Over(E) /\ Num(a \otimes (b \oplus c), E) = n * (m + l)
      /\ a \otimes (b \ominus c) \in Over(E) /\ Num(a \otimes (b \ominus c), E) = n * (m - l)
  BY <1>1, <1>3, OverProduct
<1> HIDE DEF n, m, l, E
<1>5. n * (m + l) = n * m + n * l /\ n * (m - l) = n * m - n * l
  BY <1>2
<1>6. /\ (a \otimes b) \oplus (a \otimes c) \in Over(E)
      /\ Num((a \otimes b) \oplus (a \otimes c), E) = n * m + n * l
      /\ (a \otimes b) \ominus (a \otimes c) \in Over(E)
      /\ Num((a \otimes b) \ominus (a \otimes c), E) = n * m - n * l
  BY <1>2, <1>4, OverSum, OverDifference
<1>7. /\ a \otimes (b \oplus c) = (a \otimes b) \oplus (a \otimes c)
      /\ a \otimes (b \ominus c) = (a \otimes b) \ominus (a \otimes c)
  BY <1>2, <1>4, <1>5, <1>6, OverSame
<1>8. /\ a \otimes b = b \otimes a /\ a \otimes c = c \otimes a
      /\ b \oplus c \in Fractions /\ b \ominus c \in Fractions
  BY TimesCommutes, Closed
<1>9. /\ a \otimes (b \oplus c) = (b \oplus c) \otimes a
      /\ a \otimes (b \ominus c) = (b \ominus c) \otimes a
  BY <1>8, TimesCommutes
<1> QED  BY <1>7, <1>8, <1>9

\* One is neutral, and integers multiply as integers.
LEMMA TimesInteger ==
  ASSUME NEW k \in Int, NEW l \in Int
  PROVE  I(k) \otimes I(l) = I(k * l)
<1>1. I(k) = Q(k, 1) /\ I(l) = Q(l, 1) /\ 1 \in Nat \ {0} /\ k * l \in Int /\ 1 * 1 = 1
  BY IntegerQ
<1>2. I(k) \otimes I(l) = Q(k * l, 1 * 1)
  BY <1>1, TimesQ
<1> QED  BY <1>1, <1>2, IntegerQ

LEMMA TimesOne ==
  ASSUME NEW a \in Fractions
  PROVE  a \otimes I(1) = a
<1> DEFINE n == a[1]
           d == a[2]
<1>1. n \in Int /\ d \in Nat \ {0} /\ a = Q(n, d)
  BY QSelf
<1> HIDE DEF n, d
<1>2. I(1) = Q(1, 1) /\ 1 \in Nat \ {0} /\ n * 1 = n /\ d * 1 = d
  BY <1>1, IntegerQ
<1>3. Q(n, d) \otimes Q(1, 1) = Q(n * 1, d * 1)
  BY <1>1, <1>2, TimesQ
<1> QED  BY <1>1, <1>2, <1>3

LEMMA TimesZero ==
  ASSUME NEW a \in Fractions
  PROVE  a \otimes Zero = Zero
<1> DEFINE n == a[1]
           d == a[2]
<1>1. n \in Int /\ d \in Nat \ {0} /\ a = Q(n, d)
  BY QSelf
<1> HIDE DEF n, d
<1>2. Zero = Q(0, 1) /\ 1 \in Nat \ {0} /\ n * 0 = 0 /\ d * 1 = d
  BY <1>1, IntegerQ DEF Zero
<1>3. Q(n, d) \otimes Q(0, 1) = Q(n * 0, d * 1)
  BY <1>1, <1>2, TimesQ
<1>4. Q(0, d) = Q(0, 1)
  BY <1>1, QSame
<1> QED  BY <1>1, <1>2, <1>3, <1>4

\* A quotient times its divisor.
LEMMA QNegative ==
  ASSUME NEW n \in Int, NEW d \in Int, d < 0
  PROVE  Q(n, d) = Q(-n, -d)
<1>1. Magnitude(-n) = Magnitude(n) /\ Magnitude(-d) = Magnitude(d)
  BY DEF Magnitude
<1>2. -1 * n = -n /\ -1 * d = -d /\ 1 * (-n) = -n /\ 1 * (-d) = -d /\ ~(-d < 0)
  OBVIOUS
<1> QED  BY <1>1, <1>2 DEF Q

LEMMA Reciprocal ==
  ASSUME NEW b \in Fractions, b # Zero
  PROVE  Q(b[2], b[1]) \in Fractions /\ Q(b[2], b[1]) \otimes b = I(1)
<1> DEFINE n == b[1]
           d == b[2]
<1>1. n \in Int /\ d \in Nat \ {0} /\ b = Q(n, d)
  BY QSelf
<1>2. Zero = Q(0, 1)
  BY IntegerQ DEF Zero
<1>3. n # 0
  <2>1. Q(0, d) = Q(0, 1)
    BY <1>1, QSame
  <2> QED  BY <1>1, <1>2, <2>1
<1> HIDE DEF n, d
<1>4. PICK m \in Int, e \in Nat \ {0} : Q(d, n) = Q(m, e) /\ m * n = e * d
  <2>1. CASE n > 0
    <3>1. n \in Nat \ {0} /\ d \in Int /\ d * n = n * d
      BY <1>1, <2>1
    <3> QED  BY <3>1, Zenon
  <2>2. CASE n < 0
    <3>1. Q(d, n) = Q(-d, -n)
      BY <1>1, <2>2, QNegative
    <3>2. -n \in Nat \ {0} /\ -d \in Int /\ (-d) * n = (-n) * d
      BY <1>1, <2>2
    <3> QED  BY <3>1, <3>2, Zenon
  <2> QED  BY <1>1, <1>3, <2>1, <2>2
<1>5. Q(m, e) \otimes b = Q(m * n, e * d)
  BY <1>1, TimesQ
<1>6. e * d \in Nat \ {0} /\ m * n \in Int /\ (m * n) * 1 = 1 * (e * d)
  BY <1>1, <1>4, PositiveProduct
<1>7. Q(m * n, e * d) = Q(1, 1)
  BY <1>6, QSame
<1> QED  BY <1>4, <1>5, <1>7, QType, IntegerQ DEF n, d

LEMMA DivideTimes ==
  ASSUME NEW a \in Fractions, NEW b \in Fractions, b # Zero
  PROVE  a \oslash b \in Fractions /\ (a \oslash b) \otimes b = a
<1> DEFINE r == Q(b[2], b[1])
<1>1. r \in Fractions /\ r \otimes b = I(1)
  BY Reciprocal
<1>2. a \oslash b = a \otimes r
  BY DEF \oslash
<1> HIDE DEF r
<1>3. (a \otimes r) \otimes b = a \otimes (r \otimes b)
  BY <1>1, TimesAssociates
<1> QED  BY <1>1, <1>2, <1>3, TimesOne, Closed

-----------------------------------------------------------------------------
(***************************************************************************)
(* Sums of integers: of two summands, by groups, and of differences that   *)
(* cancel.                                                                 *)
(***************************************************************************)
LEMMA SumPlus ==
  ASSUME NEW f, NEW g, NEW h, NEW S, IsFiniteSet(S),
         \A x \in S : f[x] \in Int /\ g[x] \in Int /\ h[x] = f[x] + g[x]
  PROVE  SumFunctionOnSet(h, S) = SumFunctionOnSet(f, S) + SumFunctionOnSet(g, S)
<1> DEFINE Good == {T \in SUBSET S :
             SumFunctionOnSet(h, T) = SumFunctionOnSet(f, T) + SumFunctionOnSet(g, T)}
<1>1. ASSUME NEW T \in SUBSET S, \A U \in SUBSET T : U # T => U \in Good
      PROVE  T \in Good
  <2>1. CASE T = {}
    BY <2>1, SumEmpty
  <2>2. CASE T # {}
    <3> DEFINE x == First(T)
               U == Rest(T)
    <3>1. U \in Good /\ x \in S /\ IsFiniteSet(T) /\ IsFiniteSet(U)
      BY <1>1, <2>2, RestIsSmaller, FS_Subset
    <3>2. /\ SumFunctionOnSet(h, T) = h[x] + SumFunctionOnSet(h, U)
          /\ SumFunctionOnSet(f, T) = f[x] + SumFunctionOnSet(f, U)
          /\ SumFunctionOnSet(g, T) = g[x] + SumFunctionOnSet(g, U)
      BY <2>2, <3>1, SumFirst
    <3>3. U \in SUBSET S
      BY <2>2, RestIsSmaller
    <3> HIDE DEF x, U
    <3>4. SumFunctionOnSet(f, U) \in Int /\ SumFunctionOnSet(g, U) \in Int
      BY <3>1, <3>3, SumType
    <3>5. f[x] \in Int /\ g[x] \in Int /\ h[x] = f[x] + g[x]
      BY <3>1
    <3>6. SumFunctionOnSet(h, U) = SumFunctionOnSet(f, U) + SumFunctionOnSet(g, U)
      BY <3>1
    <3> QED  BY <3>2, <3>4, <3>5, <3>6
  <2> QED  BY <2>1, <2>2
<1> HIDE DEF Good
<1>2. S \in Good
  BY <1>1, SubsetInduction
<1> QED  BY <1>2 DEF Good

\* The elements that are put into group q.
Group(S, of, q) == {x \in S : of[x] = q}

\* A sum is the sum of the sums of its groups.
LEMMA SumGroups ==
  ASSUME NEW f, NEW S, IsFiniteSet(S), NEW P, IsFiniteSet(P), NEW of,
         \A x \in S : f[x] \in Int /\ of[x] \in P
  PROVE  SumFunctionOnSet(f, S)
           = SumFunctionOnSet([q \in P |-> SumFunctionOnSet(f, Group(S, of, q))], P)
<1> DEFINE Sums(T) == [q \in P |-> SumFunctionOnSet(f, Group(T, of, q))]
           Good == {T \in SUBSET S : SumFunctionOnSet(f, T) = SumFunctionOnSet(Sums(T), P)}
<1>1. ASSUME NEW T \in SUBSET S, \A U \in SUBSET T : U # T => U \in Good
      PROVE  T \in Good
  <2>0. ASSUME NEW U \in SUBSET S, NEW q \in P
        PROVE  Sums(U)[q] \in Int /\ Sums(U)[q] = SumFunctionOnSet(f, Group(U, of, q))
               /\ IsFiniteSet(Group(U, of, q))
    <3>1. Group(U, of, q) \in SUBSET S
      BY DEF Group
    <3>2. IsFiniteSet(Group(U, of, q))
      BY <3>1, FS_Subset
    <3> QED  BY <3>1, <3>2, SumType
  <2>1. CASE T = {}
    <3>1. \A q \in P : Sums(T)[q] = 0
      <4>1. \A q \in P : Group(T, of, q) = {}
        BY <2>1 DEF Group
      <4> QED  BY <4>1, SumEmpty
    <3> HIDE DEF Sums
    <3>2. SumFunctionOnSet(Sums(T), P) = 0
      BY <3>1, SumZero
    <3> QED  BY <2>1, <3>2, SumEmpty
  <2>2. CASE T # {}
    <3>1. PICK x \in T : TRUE
      BY <2>2
    <3> DEFINE U == T \ {x}
               p == of[x]
    <3>2. U \in Good /\ U \in SUBSET S /\ IsFiniteSet(T) /\ x \in S /\ p \in P
      BY <1>1, <3>1, FS_Subset
    <3>3. SumFunctionOnSet(f, T) = f[x] + SumFunctionOnSet(f, U)
      BY <3>1, <3>2, SumSplit
    <3>4. \A q \in P \ {p} : Sums(T)[q] = Sums(U)[q]
      <4>1. \A q \in P \ {p} : Group(T, of, q) = Group(U, of, q)
        BY DEF Group
      <4> QED  BY <4>1
    <3>5. Sums(T)[p] = f[x] + Sums(U)[p]
      <4>1. x \in Group(T, of, p) /\ Group(T, of, p) \ {x} = Group(U, of, p)
        BY <3>1 DEF Group
      <4>2. IsFiniteSet(Group(T, of, p)) /\ \A y \in Group(T, of, p) : f[y] \in Int
        BY <2>0, <3>2 DEF Group
      <4>3. SumFunctionOnSet(f, Group(T, of, p))
              = f[x] + SumFunctionOnSet(f, Group(T, of, p) \ {x})
        BY <4>1, <4>2, SumSplit
      <4> QED  BY <2>0, <3>2, <4>1, <4>3
    <3>6. /\ \A q \in P : Sums(U)[q] \in Int
          /\ Sums(T)[p] \in Int
      BY <2>0, <3>2
    <3> DEFINE new == Sums(T)
               old == Sums(U)
    <3>7. SumFunctionOnSet(f, U) = SumFunctionOnSet(old, P)
      BY <3>2
    <3>8. f[x] \in Int
      BY <3>2
    <3>9. /\ \A q \in P : old[q] \in Int
          /\ new[p] \in Int /\ \A q \in P \ {p} : new[q] = old[q]
          /\ new[p] = f[x] + old[p]
      BY <3>4, <3>5, <3>6
    <3> HIDE DEF new, old, p, U
    <3>10. SumFunctionOnSet(new, P) = SumFunctionOnSet(old, P) + new[p] - old[p]
      BY <3>2, <3>9, SumChange
    <3>11. SumFunctionOnSet(old, P) \in Int
      BY <3>9, SumType
    <3>12. SumFunctionOnSet(new, P) = f[x] + SumFunctionOnSet(old, P)
      BY <3>2, <3>8, <3>9, <3>10, <3>11
    <3> QED  BY <3>3, <3>7, <3>12 DEF new
  <2> QED  BY <2>1, <2>2
<1> HIDE DEF Good
<1>2. S \in Good
  BY <1>1, SubsetInduction
<1> QED  BY <1>2 DEF Good

\* Along a row of places each summand is what F grows by.
LEMMA Telescope ==
  ASSUME NEW n \in Nat, NEW place, NEW F, NEW f,
         \A i \in 0..n : F[i] \in Int,
         \A i \in 1..n : f[place[i]] = F[i] - F[i - 1],
         \A i, j \in 1..n : place[i] = place[j] => i = j
  PROVE  SumFunctionOnSet(f, {place[i] : i \in 1..n}) = F[n] - F[0]
<1> DEFINE Upto(m) == {place[i] : i \in 1..m}
           Good == {m \in 0..n : IsFiniteSet(Upto(m)) /\ SumFunctionOnSet(f, Upto(m)) = F[m] - F[0]}
<1>1. 0 \in Good
  <2>1. Upto(0) = {} /\ 0 \in 0..n /\ F[0] \in Int
    OBVIOUS
  <2> HIDE DEF Upto
  <2>2. SumFunctionOnSet(f, Upto(0)) = 0 /\ IsFiniteSet(Upto(0)) /\ F[0] - F[0] = 0
    BY <2>1, SumEmpty, FS_EmptySet
  <2> QED  BY <2>1, <2>2
<1>2. ASSUME NEW m \in 0..n - 1, m \in Good PROVE m + 1 \in Good
  <2> DEFINE x == place[m + 1]
  <2>1. /\ m + 1 \in 1..n /\ m + 1 \in 0..n /\ m \in 0..n
        /\ F[m] \in Int /\ F[m + 1] \in Int /\ F[0] \in Int
    OBVIOUS
  <2>2. Upto(m + 1) = Upto(m) \cup {x}
    <3>1. \A i \in Int : i \in 1..m + 1 <=> i \in 1..m \/ i = m + 1
      OBVIOUS
    <3> QED  BY <3>1
  <2>3. x \notin Upto(m)
    <3>1. ASSUME NEW i \in 1..m, place[i] = x PROVE FALSE
      <4>1. i \in 1..n /\ i # m + 1
        OBVIOUS
      <4> QED  BY <2>1, <3>1, <4>1
    <3> QED  BY <3>1
  <2>4. f[x] = F[m + 1] - F[m]
    <3>1. (m + 1) - 1 = m
      OBVIOUS
    <3> QED  BY <2>1, <3>1
  <2>5. \A y \in Upto(m) : f[y] \in Int
    <3>1. ASSUME NEW i \in 1..m PROVE f[place[i]] \in Int
      <4>1. i \in 1..n /\ i \in 0..n /\ i - 1 \in 0..n
        OBVIOUS
      <4>2. F[i] \in Int /\ F[i - 1] \in Int
        BY <4>1
      <4> QED  BY <4>1, <4>2
    <3> QED  BY <3>1
  <2>6. IsFiniteSet(Upto(m)) /\ SumFunctionOnSet(f, Upto(m)) = F[m] - F[0]
    BY <1>2
  <2> DEFINE before == Upto(m)
             now    == Upto(m + 1)
  <2>7. /\ now = before \cup {x} /\ x \notin before
        /\ \A y \in before : f[y] \in Int
        /\ IsFiniteSet(before) /\ SumFunctionOnSet(f, before) = F[m] - F[0]
    BY <2>2, <2>3, <2>5, <2>6
  <2> HIDE DEF before, now, x
  <2>8. IsFiniteSet(now)
    BY <2>7, FS_AddElement
  <2>9. x \in now /\ now \ {x} = before /\ \A y \in now : f[y] \in Int
    BY <2>1, <2>4, <2>7
  <2>10. SumFunctionOnSet(f, now) = f[x] + SumFunctionOnSet(f, before)
    BY <2>8, <2>9, SumSplit
  <2>11. SumFunctionOnSet(f, now) = F[m + 1] - F[0]
    BY <2>1, <2>4, <2>7, <2>10
  <2> QED  BY <2>1, <2>8, <2>11 DEF now
<1> HIDE DEF Good
<1>3. n \in Good
  <2>1. n \in 0..n
    OBVIOUS
  <2> QED  BY <1>1, <1>2, <2>1, UpTo
<1> QED  BY <1>3 DEF Good

-----------------------------------------------------------------------------
(***************************************************************************)
(* Totals of fractions over one denominator are sums of integers.          *)
(***************************************************************************)
IsTotals(f, S, g) ==
  g = [s \in SUBSET S |-> IF s = {} THEN Zero ELSE f[First(s)] \oplus g[Rest(s)]]

Totals(f, S) == CHOOSE g : IsTotals(f, S, g)

LEMMA TotalIsInTable == \A f, S : Total(f, S) = Totals(f, S)[S]
BY DEF Total, FoldFunctionOnSet, MapThenFoldSet, Totals, IsTotals, First, Rest

\* The numbers over D of what f adds up.
Nums(f, S, D) == [x \in S |-> Num(f[x], D)]

LEMMA TotalOver ==
  ASSUME NEW f, NEW S, IsFiniteSet(S), NEW D \in Nat \ {0}, \A x \in S : f[x] \in Over(D)
  PROVE  /\ Total(f, S) \in Over(D)
         /\ Num(Total(f, S), D) = SumFunctionOnSet(Nums(f, S, D), S)
         /\ \A x \in S : Nums(f, S, D)[x] \in Int
<1> DEFINE F == Nums(f, S, D)
           G == [s \in SUBSET S |-> Q(SumFunctionOnSet(F, s), D)]
<1>1. \A x \in S : F[x] \in Int /\ f[x] = Q(F[x], D)
  BY OverNum DEF Nums
<1> HIDE DEF F
<1>2. \A s \in SUBSET S : IsFiniteSet(s) /\ SumFunctionOnSet(F, s) \in Int
  BY <1>1, FS_Subset, SumType
<1>3. ASSUME NEW s \in SUBSET S
      PROVE  G[s] = IF s = {} THEN Zero ELSE f[First(s)] \oplus G[Rest(s)]
  <2>1. CASE s = {}
    <3>1. Zero = Q(0, D)
      BY OverZero, OverNum
    <3> QED  BY <2>1, <3>1, SumEmpty
  <2>2. CASE s # {}
    <3> DEFINE x == First(s)
               r == Rest(s)
    <3>1. x \in S /\ r \in SUBSET S
      BY <2>2, RestIsSmaller
    <3>2. SumFunctionOnSet(F, s) = F[x] + SumFunctionOnSet(F, r)
      BY <1>2, <2>2, SumFirst
    <3> DEFINE u == F[x]
               v == SumFunctionOnSet(F, r)
    <3>3. u \in Int /\ v \in Int /\ f[x] = Q(u, D) /\ G[r] = Q(v, D)
      BY <1>1, <1>2, <3>1
    <3>4. G[s] = Q(u + v, D)
      BY <3>2
    <3> HIDE DEF u, v, x, r, G
    <3>5. /\ Q(u, D) \in Over(D) /\ Q(v, D) \in Over(D)
          /\ Num(Q(u, D), D) = u /\ Num(Q(v, D), D) = v
      BY <3>3, OverQ
    <3>6. Q(u, D) \oplus Q(v, D) = Q(u + v, D)
      BY <3>5, OverSum, OverNum
    <3> QED  BY <2>2, <3>3, <3>4, <3>6 DEF x, r
  <2> QED  BY <2>1, <2>2
<1>4. G = [s \in SUBSET S |-> G[s]]
  OBVIOUS
<1> HIDE DEF G
<1>5. IsTotals(f, S, G)
  BY <1>3, <1>4 DEF IsTotals
<1> DEFINE T == Totals(f, S)
<1>6. IsTotals(f, S, T)
  BY <1>5 DEF Totals
<1> HIDE DEF T
<1> DEFINE Good == {s \in SUBSET S : T[s] = G[s]}
<1>7. ASSUME NEW s \in SUBSET S, \A r \in SUBSET s : r # s => r \in Good
      PROVE  s \in Good
  <2>1. CASE s = {}
    BY <1>5, <1>6, <2>1 DEF IsTotals
  <2>2. CASE s # {}
    <3>1. Rest(s) \in Good /\ Rest(s) \in SUBSET S
      BY <1>7, <2>2, RestIsSmaller
    <3>2. T[s] = f[First(s)] \oplus T[Rest(s)] /\ G[s] = f[First(s)] \oplus G[Rest(s)]
      BY <1>5, <1>6, <2>2 DEF IsTotals
    <3> QED  BY <3>1, <3>2
  <2> QED  BY <2>1, <2>2
<1> HIDE DEF Good
<1>8. S \in Good
  BY <1>7, SubsetInduction
<1>9. Total(f, S) = Q(SumFunctionOnSet(F, S), D)
  BY <1>8, TotalIsInTable DEF Good, T, G
<1> QED  BY <1>1, <1>2, <1>9, OverQ DEF F

\* A total of fractions is one.
LEMMA TotalType ==
  ASSUME NEW f, NEW S, IsFiniteSet(S), \A x \in S : f[x] \in Fractions
  PROVE  Total(f, S) \in Fractions
<1> DEFINE R == {f[x] : x \in S}
<1>1. IsFiniteSet(R) /\ R \subseteq Fractions
  <2>1. IsFiniteSet(R)
    <3> DEFINE F == [x \in S |-> f[x]]
    <3>1. F \in Surjection(S, R)
      BY DEF Surjection
    <3> QED  BY <3>1, FS_Surjection
  <2> QED  BY <2>1
<1>2. PICK D \in Nat \ {0} : R \subseteq Over(D)
  BY <1>1, CommonDenominator
<1>3. \A x \in S : f[x] \in Over(D)
  BY <1>2
<1> QED  BY <1>3, TotalOver, OverNum

-----------------------------------------------------------------------------
(***************************************************************************)
(* Sums and totals along lines: each line q runs through place[<<q, 1>>],  *)
(* ..., place[<<q, n>>], and the summands are what F grows by.             *)
(***************************************************************************)
Lines(S, P, n, place) ==
  /\ S = {place[c] : c \in P \X (1..n)}
  /\ \A c, d \in P \X (1..n) : place[c] = place[d] => c = d

Growth(f, P, n, place, F) ==
  /\ \A q \in P, i \in 0..n : F[<<q, i>>] \in Int
  /\ \A q \in P, i \in 1..n : f[place[<<q, i>>]] = F[<<q, i>>] - F[<<q, i - 1>>]

LEMMA SumLines ==
  ASSUME NEW n \in Nat, NEW P, IsFiniteSet(P), NEW S, IsFiniteSet(S), NEW place,
         Lines(S, P, n, place), NEW F, NEW f, Growth(f, P, n, place, F)
  PROVE  SumFunctionOnSet(f, S)
           = SumFunctionOnSet([q \in P |-> F[<<q, n>>] - F[<<q, 0>>]], P)
<1>0. /\ \A q \in P, i \in 0..n : F[<<q, i>>] \in Int
      /\ \A q \in P, i \in 1..n : f[place[<<q, i>>]] = F[<<q, i>>] - F[<<q, i - 1>>]
  BY DEF Growth
<1> DEFINE of == [x \in S |-> CHOOSE q \in P : \E i \in 1..n : x = place[<<q, i>>]]
<1>1. \A q \in P, i \in 1..n : place[<<q, i>>] \in S /\ of[place[<<q, i>>]] = q
  <2> SUFFICES ASSUME NEW q \in P, NEW i \in 1..n
               PROVE  place[<<q, i>>] \in S /\ of[place[<<q, i>>]] = q
    OBVIOUS
  <2> DEFINE x == place[<<q, i>>]
             p == of[x]
  <2>1. <<q, i>> \in P \X (1..n)
    OBVIOUS
  <2>2. x \in S
    BY <2>1 DEF Lines
  <2>3. p \in P /\ \E j \in 1..n : x = place[<<p, j>>]
    BY <2>2
  <2>4. PICK j \in 1..n : x = place[<<p, j>>]
    BY <2>3
  <2> HIDE DEF of
  <2>5. <<p, j>> \in P \X (1..n)
    BY <2>3
  <2>6. <<q, i>> = <<p, j>>
    BY <2>1, <2>4, <2>5 DEF Lines
  <2> QED  BY <2>2, <2>6
<1>2. \A x \in S : \E q \in P, i \in 1..n : x = place[<<q, i>>]
  BY DEF Lines
<1> HIDE DEF of
<1>3. \A x \in S : f[x] \in Int /\ of[x] \in P
  <2> SUFFICES ASSUME NEW x \in S PROVE f[x] \in Int /\ of[x] \in P
    OBVIOUS
  <2>1. PICK q \in P, i \in 1..n : x = place[<<q, i>>]
    BY <1>2
  <2>2. f[x] = F[<<q, i>>] - F[<<q, i - 1>>] /\ of[x] = q
    BY <1>0, <1>1, <2>1
  <2>3. i \in 0..n /\ i - 1 \in 0..n
    OBVIOUS
  <2>4. F[<<q, i>>] \in Int /\ F[<<q, i - 1>>] \in Int
    BY <1>0, <2>3
  <2> QED  BY <2>2, <2>4
<1>4. ASSUME NEW q \in P
      PROVE  SumFunctionOnSet(f, Group(S, of, q)) = F[<<q, n>>] - F[<<q, 0>>]
  <2> DEFINE pl == [i \in 1..n |-> place[<<q, i>>]]
             G  == [i \in 0..n |-> F[<<q, i>>]]
  <2>1. Group(S, of, q) = {pl[i] : i \in 1..n}
    <3>1. ASSUME NEW x \in Group(S, of, q) PROVE \E i \in 1..n : x = pl[i]
      <4>1. x \in S /\ of[x] = q
        BY <3>1 DEF Group
      <4>2. PICK p \in P, i \in 1..n : x = place[<<p, i>>]
        BY <1>2, <4>1
      <4>3. p = q
        BY <1>1, <4>1, <4>2
      <4> QED  BY <4>2, <4>3
    <3>2. ASSUME NEW i \in 1..n PROVE pl[i] \in Group(S, of, q)
      BY <1>1 DEF Group
    <3> QED  BY <3>1, <3>2
  <2>2. \A i \in 0..n : G[i] \in Int
    BY <1>0
  <2>3. \A i \in 1..n : f[pl[i]] = G[i] - G[i - 1]
    <3> SUFFICES ASSUME NEW i \in 1..n PROVE f[pl[i]] = G[i] - G[i - 1]
      OBVIOUS
    <3>1. i \in 0..n /\ i - 1 \in 0..n
      OBVIOUS
    <3> QED  BY <1>0, <3>1
  <2>4. \A i, j \in 1..n : pl[i] = pl[j] => i = j
    <3> SUFFICES ASSUME NEW i \in 1..n, NEW j \in 1..n, pl[i] = pl[j] PROVE i = j
      OBVIOUS
    <3>1. <<q, i>> \in P \X (1..n) /\ <<q, j>> \in P \X (1..n)
      OBVIOUS
    <3>2. <<q, i>> = <<q, j>>
      BY <3>1 DEF Lines
    <3> QED  BY <3>2
  <2>5. G[n] = F[<<q, n>>] /\ G[0] = F[<<q, 0>>]
    OBVIOUS
  <2> HIDE DEF pl, G
  <2>6. SumFunctionOnSet(f, {pl[i] : i \in 1..n}) = G[n] - G[0]
    BY <2>2, <2>3, <2>4, Telescope
  <2> QED  BY <2>1, <2>5, <2>6
<1>5. [q \in P |-> SumFunctionOnSet(f, Group(S, of, q))] = [q \in P |-> F[<<q, n>>] - F[<<q, 0>>]]
  BY <1>4
<1>6. SumFunctionOnSet(f, S)
        = SumFunctionOnSet([q \in P |-> SumFunctionOnSet(f, Group(S, of, q))], P)
  BY <1>3, SumGroups
<1> QED  BY <1>5, <1>6

-----------------------------------------------------------------------------
(***************************************************************************)
(* The same for totals of fractions.                                       *)
(***************************************************************************)
\* One denominator for the values of three functions.
LEMMA OneDenominator ==
  ASSUME NEW S, IsFiniteSet(S), NEW f, NEW g, NEW h,
         \A x \in S : f[x] \in Fractions /\ g[x] \in Fractions /\ h[x] \in Fractions
  PROVE  \E D \in Nat \ {0} : \A x \in S : f[x] \in Over(D) /\ g[x] \in Over(D) /\ h[x] \in Over(D)
<1> DEFINE R(e) == {e[x] : x \in S}
<1>1. ASSUME NEW e, \A x \in S : e[x] \in Fractions
      PROVE  IsFiniteSet(R(e)) /\ R(e) \subseteq Fractions
  <2> DEFINE E == [x \in S |-> e[x]]
  <2>1. E \in Surjection(S, R(e))
    BY DEF Surjection
  <2> QED  BY <1>1, <2>1, FS_Surjection
<1>2. /\ IsFiniteSet(R(f)) /\ IsFiniteSet(R(g)) /\ IsFiniteSet(R(h))
      /\ R(f) \subseteq Fractions /\ R(g) \subseteq Fractions /\ R(h) \subseteq Fractions
  BY <1>1
<1>3. \A x \in S : f[x] \in R(f) /\ g[x] \in R(g) /\ h[x] \in R(h)
  OBVIOUS
<1> HIDE DEF R
<1> DEFINE A == R(f) \cup R(g) \cup R(h)
<1>4. IsFiniteSet(A) /\ A \subseteq Fractions
  BY <1>2, FS_Union
<1> HIDE DEF A
<1>5. PICK D \in Nat \ {0} : A \subseteq Over(D)
  BY <1>4, CommonDenominator
<1> QED  BY <1>3, <1>5 DEF A

\* What is equal everywhere has the same total.
LEMMA TotalSame ==
  ASSUME NEW S, IsFiniteSet(S), NEW f, NEW g, \A x \in S : f[x] \in Fractions /\ g[x] = f[x]
  PROVE  Total(g, S) = Total(f, S)
<1>1. \A x \in S : f[x] \in Fractions /\ g[x] \in Fractions /\ g[x] \in Fractions
  OBVIOUS
<1>2. PICK D \in Nat \ {0} : \A x \in S : f[x] \in Over(D) /\ g[x] \in Over(D) /\ g[x] \in Over(D)
  BY <1>1, OneDenominator
<1>3. Nums(f, S, D) = Nums(g, S, D)
  BY DEF Nums
<1>4. /\ Total(f, S) \in Over(D) /\ Num(Total(f, S), D) = SumFunctionOnSet(Nums(f, S, D), S)
      /\ Total(g, S) \in Over(D) /\ Num(Total(g, S), D) = SumFunctionOnSet(Nums(g, S, D), S)
  BY <1>2, TotalOver
<1> QED  BY <1>3, <1>4, OverSame

\* The total of sums is the sum of the totals.
LEMMA TotalPlus ==
  ASSUME NEW S, IsFiniteSet(S), NEW f, NEW g, NEW h,
         \A x \in S : f[x] \in Fractions /\ g[x] \in Fractions /\ h[x] = f[x] \oplus g[x]
  PROVE  Total(h, S) = Total(f, S) \oplus Total(g, S)
<1>1. \A x \in S : f[x] \in Fractions /\ g[x] \in Fractions /\ h[x] \in Fractions
  BY Closed
<1>2. PICK D \in Nat \ {0} : \A x \in S : f[x] \in Over(D) /\ g[x] \in Over(D) /\ h[x] \in Over(D)
  BY <1>1, OneDenominator
<1> DEFINE F == Nums(f, S, D)
           G == Nums(g, S, D)
           H == Nums(h, S, D)
<1>3. /\ Total(f, S) \in Over(D) /\ Num(Total(f, S), D) = SumFunctionOnSet(F, S)
      /\ Total(g, S) \in Over(D) /\ Num(Total(g, S), D) = SumFunctionOnSet(G, S)
      /\ Total(h, S) \in Over(D) /\ Num(Total(h, S), D) = SumFunctionOnSet(H, S)
      /\ \A x \in S : F[x] \in Int /\ G[x] \in Int
  BY <1>2, TotalOver
<1>4. \A x \in S : H[x] = F[x] + G[x]
  BY <1>2, OverSum DEF Nums
<1> HIDE DEF F, G, H
<1>5. SumFunctionOnSet(H, S) = SumFunctionOnSet(F, S) + SumFunctionOnSet(G, S)
  BY <1>3, <1>4, SumPlus
<1>6. /\ Total(f, S) \oplus Total(g, S) \in Over(D)
      /\ Num(Total(f, S) \oplus Total(g, S), D) = SumFunctionOnSet(F, S) + SumFunctionOnSet(G, S)
  BY <1>3, OverSum
<1> QED  BY <1>3, <1>5, <1>6, OverSame

\* The sum of a difference and what was taken away.
LEMMA PlusMinus ==
  ASSUME NEW a \in Fractions, NEW b \in Fractions, NEW c \in Fractions
  PROVE  c = a \ominus b <=> a = b \oplus c
<1>1. PICK D \in Nat \ {0} : a \in Over(D) /\ b \in Over(D) /\ c \in Over(D)
  BY Three
<1>2. /\ a \ominus b \in Over(D) /\ Num(a \ominus b, D) = Num(a, D) - Num(b, D)
      /\ b \oplus c \in Over(D) /\ Num(b \oplus c, D) = Num(b, D) + Num(c, D)
  BY <1>1, OverSum, OverDifference
<1>3. Num(a, D) \in Int /\ Num(b, D) \in Int /\ Num(c, D) \in Int
  BY <1>1, OverNum
<1>4. c = a \ominus b <=> Num(c, D) = Num(a, D) - Num(b, D)
  BY <1>1, <1>2, OverSame
<1>5. a = b \oplus c <=> Num(a, D) = Num(b, D) + Num(c, D)
  BY <1>1, <1>2, OverSame
<1> QED  BY <1>3, <1>4, <1>5

\* The total of differences is the difference of the totals.
LEMMA TotalMinus ==
  ASSUME NEW S, IsFiniteSet(S), NEW f, NEW g, NEW h,
         \A x \in S : f[x] \in Fractions /\ g[x] \in Fractions /\ h[x] = f[x] \ominus g[x]
  PROVE  Total(h, S) = Total(f, S) \ominus Total(g, S)
<1>1. \A x \in S : g[x] \in Fractions /\ h[x] \in Fractions /\ f[x] = g[x] \oplus h[x]
  <2> SUFFICES ASSUME NEW x \in S
               PROVE  g[x] \in Fractions /\ h[x] \in Fractions /\ f[x] = g[x] \oplus h[x]
    OBVIOUS
  <2>1. f[x] \in Fractions /\ g[x] \in Fractions /\ h[x] = f[x] \ominus g[x]
    OBVIOUS
  <2>2. h[x] \in Fractions
    BY <2>1, Closed
  <2> QED  BY <2>1, <2>2, PlusMinus
<1>2. Total(f, S) = Total(g, S) \oplus Total(h, S)
  BY <1>1, TotalPlus
<1>3. Total(f, S) \in Fractions /\ Total(g, S) \in Fractions /\ Total(h, S) \in Fractions
  BY <1>1, TotalType
<1> QED  BY <1>2, <1>3, PlusMinus

\* Along lines of places only the ends are left.
Climb(f, P, n, place, F) ==
  /\ \A q \in P, i \in 0..n : F[<<q, i>>] \in Fractions
  /\ \A q \in P, i \in 1..n : f[place[<<q, i>>]] = F[<<q, i>>] \ominus F[<<q, i - 1>>]

LEMMA TotalLines ==
  ASSUME NEW n \in Nat, NEW P, IsFiniteSet(P), NEW S, IsFiniteSet(S), NEW place,
         Lines(S, P, n, place), NEW F, NEW f, Climb(f, P, n, place, F)
  PROVE  /\ Total(f, S) = Total([q \in P |-> F[<<q, n>>] \ominus F[<<q, 0>>]], P)
         /\ \A x \in S : f[x] \in Fractions
<1>0. /\ \A q \in P, i \in 0..n : F[<<q, i>>] \in Fractions
      /\ \A q \in P, i \in 1..n : f[place[<<q, i>>]] = F[<<q, i>>] \ominus F[<<q, i - 1>>]
  BY DEF Climb
<1> DEFINE C == P \X (0..n)
           e == [q \in P |-> F[<<q, n>>] \ominus F[<<q, 0>>]]
<1>1. IsFiniteSet(C) /\ \A c \in C : F[c] \in Fractions
  <2>1. IsFiniteSet(0..n)
    BY FS_Interval
  <2>2. IsFiniteSet(C)
    BY <2>1, FS_Product
  <2>3. \A c \in C : F[c] \in Fractions
    BY <1>0
  <2> QED  BY <2>2, <2>3
<1>2. PICK D \in Nat \ {0} : \A c \in C : F[c] \in Over(D) /\ F[c] \in Over(D) /\ F[c] \in Over(D)
  <2> HIDE DEF C
  <2> QED  BY <1>1, OneDenominator
<1>3. \A q \in P, i \in 0..n : F[<<q, i>>] \in Over(D)
  BY <1>2
<1> HIDE DEF C
<1>4. \A q \in P, i \in 1..n : /\ f[place[<<q, i>>]] \in Over(D)
                               /\ Num(f[place[<<q, i>>]], D) = Num(F[<<q, i>>], D) - Num(F[<<q, i - 1>>], D)
  <2> SUFFICES ASSUME NEW q \in P, NEW i \in 1..n
               PROVE  /\ f[place[<<q, i>>]] \in Over(D)
                      /\ Num(f[place[<<q, i>>]], D) = Num(F[<<q, i>>], D) - Num(F[<<q, i - 1>>], D)
    OBVIOUS
  <2>1. i \in 0..n /\ i - 1 \in 0..n
    OBVIOUS
  <2>2. F[<<q, i>>] \in Over(D) /\ F[<<q, i - 1>>] \in Over(D)
    BY <1>3, <2>1
  <2>3. f[place[<<q, i>>]] = F[<<q, i>>] \ominus F[<<q, i - 1>>]
    BY <1>0
  <2> QED  BY <2>2, <2>3, OverDifference
<1>5. \A x \in S : f[x] \in Over(D)
  <2> SUFFICES ASSUME NEW x \in S PROVE f[x] \in Over(D)
    OBVIOUS
  <2>1. PICK q \in P, i \in 1..n : x = place[<<q, i>>]
    BY DEF Lines
  <2> QED  BY <1>4, <2>1
<1>6. \A q \in P : /\ e[q] \in Over(D)
                   /\ Num(e[q], D) = Num(F[<<q, n>>], D) - Num(F[<<q, 0>>], D)
  <2> SUFFICES ASSUME NEW q \in P
               PROVE  /\ e[q] \in Over(D)
                      /\ Num(e[q], D) = Num(F[<<q, n>>], D) - Num(F[<<q, 0>>], D)
    OBVIOUS
  <2>1. F[<<q, n>>] \in Over(D) /\ F[<<q, 0>>] \in Over(D)
    BY <1>3
  <2> QED  BY <2>1, OverDifference
<1> HIDE DEF e
<1> DEFINE G == [c \in P \X (0..n) |-> Num(F[c], D)]
           h == Nums(f, S, D)
           m == Nums(e, P, D)
<1>7. \A q \in P, i \in 0..n : G[<<q, i>>] \in Int /\ G[<<q, i>>] = Num(F[<<q, i>>], D)
  BY <1>3, OverNum
<1>8. \A q \in P, i \in 1..n : h[place[<<q, i>>]] = G[<<q, i>>] - G[<<q, i - 1>>]
  <2> SUFFICES ASSUME NEW q \in P, NEW i \in 1..n
               PROVE  h[place[<<q, i>>]] = G[<<q, i>>] - G[<<q, i - 1>>]
    OBVIOUS
  <2>1. i \in 0..n /\ i - 1 \in 0..n /\ <<q, i>> \in P \X (1..n)
    OBVIOUS
  <2>2. place[<<q, i>>] \in S
    BY <2>1 DEF Lines
  <2>3. h[place[<<q, i>>]] = Num(f[place[<<q, i>>]], D)
    BY <2>2 DEF Nums
  <2> HIDE DEF h, G
  <2> QED  BY <1>4, <1>7, <2>1, <2>3
<1>9. m = [q \in P |-> G[<<q, n>>] - G[<<q, 0>>]]
  <2>1. \A q \in P : G[<<q, n>>] = Num(F[<<q, n>>], D) /\ G[<<q, 0>>] = Num(F[<<q, 0>>], D)
    OBVIOUS
  <2> QED  BY <1>6, <2>1 DEF Nums
<1> HIDE DEF G, h, m
<1>10. SumFunctionOnSet(h, S) = SumFunctionOnSet([q \in P |-> G[<<q, n>>] - G[<<q, 0>>]], P)
  <2>1. Growth(h, P, n, place, G)
    BY <1>7, <1>8 DEF Growth
  <2> QED  BY <2>1, SumLines
<1>11. /\ Total(f, S) \in Over(D) /\ Num(Total(f, S), D) = SumFunctionOnSet(h, S)
       /\ Total(e, P) \in Over(D) /\ Num(Total(e, P), D) = SumFunctionOnSet(m, P)
  BY <1>5, <1>6, TotalOver DEF h, m
<1>12. Total(f, S) = Total(e, P)
  BY <1>9, <1>10, <1>11, OverSame
<1> QED  BY <1>5, <1>12, OverNum DEF e

-----------------------------------------------------------------------------
(***************************************************************************)
(* The order of fractions, and what the model chooses by it.               *)
(***************************************************************************)
LEMMA SignOfProduct ==
  ASSUME NEW p \in Int, NEW q \in Int, NEW d \in Int, NEW n \in Int,
         q > 0, d > 0, p * d = q * n
  PROVE  p < 0 <=> n < 0
<1>1. ASSUME p < 0, n >= 0 PROVE FALSE
  <2>1. p * d < 0 /\ q * n >= 0
    BY <1>1
  <2> QED  BY <2>1
<1>2. ASSUME n < 0, p >= 0 PROVE FALSE
  <2>1. q * n < 0 /\ p * d >= 0
    BY <1>2
  <2> QED  BY <2>1
<1> QED  BY <1>1, <1>2

LEMMA SignOfQ ==
  ASSUME NEW n \in Int, NEW d \in Nat \ {0}
  PROVE  Q(n, d)[1] < 0 <=> n < 0
<1>1. PICK p \in Int, q \in Nat \ {0} : Q(n, d) = <<p, q>> /\ SameNumber(p, q, n, d)
  BY Parts
<1>2. p * d = n * q
  BY <1>1 DEF SameNumber
<1>3. p * d = q * n
  BY <1>2
<1>4. p < 0 <=> n < 0
  BY <1>3, SignOfProduct
<1> QED  BY <1>1, <1>4

LEMMA Ordered ==
  ASSUME NEW D \in Nat \ {0}, NEW a \in Over(D), NEW b \in Over(D)
  PROVE  a \prec b <=> Num(a, D) < Num(b, D)
<1> DEFINE n == Num(a, D)
           m == Num(b, D)
<1>1. n \in Int /\ m \in Int
  BY OverNum
<1>2. a \ominus b \in Over(D) /\ Num(a \ominus b, D) = n - m
  BY OverDifference
<1>3. a \ominus b = Q(n - m, D)
  BY <1>2, OverNum
<1> HIDE DEF n, m
<1>4. (a \ominus b)[1] < 0 <=> n - m < 0
  BY <1>1, <1>3, SignOfQ
<1> QED  BY <1>1, <1>4 DEF \prec, n, m

LEMMA IntegersOrdered ==
  ASSUME NEW k \in Int, NEW l \in Int
  PROVE  I(k) \prec I(l) <=> k < l
<1>1. /\ I(k) \in Over(1) /\ Num(I(k), 1) = k * 1
      /\ I(l) \in Over(1) /\ Num(I(l), 1) = l * 1
  BY OverInteger
<1> QED  BY <1>1, Ordered

LEMMA OneIsLarger ==
  ASSUME NEW a \in Fractions, NEW b \in Fractions
  PROVE  /\ ~(a \prec a)
         /\ a \prec b => ~(b \prec a)
         /\ a = b \/ a \prec b \/ b \prec a
<1>1. PICK D \in Nat \ {0} : a \in Over(D) /\ b \in Over(D)
  BY Three
<1>2. Num(a, D) \in Int /\ Num(b, D) \in Int
  BY <1>1, OverNum
<1> QED  BY <1>1, <1>2, Ordered, OverSame

LEMMA OrderChain ==
  ASSUME NEW a \in Fractions, NEW b \in Fractions, NEW c \in Fractions,
         ~(b \prec a), ~(c \prec b)
  PROVE  ~(c \prec a)
<1>1. PICK D \in Nat \ {0} : a \in Over(D) /\ b \in Over(D) /\ c \in Over(D)
  BY Three
<1>2. Num(a, D) \in Int /\ Num(b, D) \in Int /\ Num(c, D) \in Int
  BY <1>1, OverNum
<1> QED  BY <1>1, <1>2, Ordered

\* A finite set has a member no other is above, and one no other is below.
IsHighest(x, S) == x \in S /\ \A y \in S : ~(x \prec y)
IsLowest(x, S)  == x \in S /\ \A y \in S : ~(y \prec x)

LEMMA ExtremesExist ==
  ASSUME NEW S, IsFiniteSet(S), S \subseteq Fractions, S # {}
  PROVE  (\E x : IsHighest(x, S)) /\ (\E x : IsLowest(x, S))
<1> DEFINE Good == {T \in SUBSET S :
             T # {} => (\E x : IsHighest(x, T)) /\ (\E x : IsLowest(x, T))}
<1>1. ASSUME NEW T \in SUBSET S, \A U \in SUBSET T : U # T => U \in Good
      PROVE  T \in Good
  <2> SUFFICES ASSUME T # {}
               PROVE  (\E x : IsHighest(x, T)) /\ (\E x : IsLowest(x, T))
    OBVIOUS
  <2> DEFINE a == First(T)
             U == Rest(T)
  <2>1. a \in T /\ U \in Good /\ U \subseteq T /\ T = U \cup {a}
    <3>1. a \in T /\ U \in SUBSET T /\ U # T
      BY RestIsSmaller
    <3>2. T = U \cup {a}
      BY <3>1 DEF Rest
    <3> HIDE DEF a, U
    <3> QED  BY <1>1, <3>1, <3>2
  <2> HIDE DEF a, U
  <2>2. CASE U = {}
    <3>1. T = {a} /\ ~(a \prec a)
      BY <2>1, <2>2, OneIsLarger
    <3>2. IsHighest(a, T) /\ IsLowest(a, T)
      BY <3>1 DEF IsHighest, IsLowest
    <3> QED  BY <3>2
  <2>3. CASE U # {}
    <3>1. PICK x, y : IsHighest(x, U) /\ IsLowest(y, U)
      BY <2>1, <2>3
    <3>2. /\ x \in U /\ y \in U /\ U \subseteq Fractions /\ a \in Fractions
          /\ \A z \in U : ~(x \prec z) /\ ~(z \prec y)
      BY <2>1, <3>1 DEF IsHighest, IsLowest
    <3>3. \E h : IsHighest(h, T)
      <4>1. CASE x \prec a
        <5>1. \A z \in U : ~(a \prec z)
          <6> SUFFICES ASSUME NEW z \in U PROVE ~(a \prec z)
            OBVIOUS
          <6>1. ~(x \prec z) /\ ~(a \prec x) /\ z \in Fractions /\ x \in Fractions
            BY <3>2, <4>1, OneIsLarger
          <6> QED  BY <3>2, <6>1, OrderChain
        <5>2. IsHighest(a, T)
          BY <2>1, <3>2, <5>1, OneIsLarger DEF IsHighest
        <5> QED  BY <5>2
      <4>2. CASE ~(x \prec a)
        <5>1. IsHighest(x, T)
          BY <2>1, <3>2, <4>2 DEF IsHighest
        <5> QED  BY <5>1
      <4> QED  BY <4>1, <4>2
    <3>4. \E l : IsLowest(l, T)
      <4>1. CASE a \prec y
        <5>1. \A z \in U : ~(z \prec a)
          <6> SUFFICES ASSUME NEW z \in U PROVE ~(z \prec a)
            OBVIOUS
          <6>1. ~(z \prec y) /\ ~(y \prec a) /\ z \in Fractions /\ y \in Fractions
            BY <3>2, <4>1, OneIsLarger
          <6> QED  BY <3>2, <6>1, OrderChain
        <5>2. IsLowest(a, T)
          BY <2>1, <3>2, <5>1, OneIsLarger DEF IsLowest
        <5> QED  BY <5>2
      <4>2. CASE ~(a \prec y)
        <5>1. IsLowest(y, T)
          BY <2>1, <3>2, <4>2 DEF IsLowest
        <5> QED  BY <5>1
      <4> QED  BY <4>1, <4>2
    <3> QED  BY <3>3, <3>4
  <2> QED  BY <2>2, <2>3
<1> HIDE DEF Good
<1>2. S \in Good
  BY <1>1, SubsetInduction
<1> QED  BY <1>2 DEF Good

LEMMA Extremes ==
  ASSUME NEW S, IsFiniteSet(S), S \subseteq Fractions, S # {}
  PROVE  IsHighest(Highest(S), S) /\ IsLowest(Lowest(S), S)
<1>1. (\E x \in S : \A y \in S : ~(x \prec y)) /\ (\E x \in S : \A y \in S : ~(y \prec x))
  BY ExtremesExist DEF IsHighest, IsLowest
<1> QED  BY <1>1 DEF IsHighest, IsLowest, Highest, Lowest

-----------------------------------------------------------------------------
(***************************************************************************)
(* Types.                                                                  *)
(***************************************************************************)
WaterType ==
  /\ setup \in Setups
  /\ pc \in {"flow", "window", "surface", "ground", "snapshot"} /\ steps \in Nat
  /\ dept \in [Cols -> Nat] /\ fu \in [XFaces -> Int] /\ asx \in [XFaces -> Nat]
  /\ \A f \in XFaces : fu[f] # 0 => asx[f] # 0
  /\ rain \in Fractions /\ evap \in Fractions /\ evap \prec I(1)
  /\ wc \in [Cells -> Int] /\ wcn \in [Cells -> Int] /\ wcT \in [Cells -> Int]
  /\ qx \in [XFaces \X Layers -> Int] /\ qxWin \in [XFaces \X Layers -> Int]
  /\ qz \in [Cols \X ZFaces -> Int] /\ qzWin \in [Cols \X ZFaces -> Int]
  /\ taken \in Nat /\ ventWin \in [Cols -> Int] /\ unbooked \in [Cells -> Int]
  /\ seepAccum \in [Cols -> Int] /\ qss \in [Cols -> Int]
  /\ vsn \in [Cols -> Nat] /\ fuOld \in [XFaces -> Int] /\ dzzTop \in Nat

ScalarType ==
  /\ sSurf \in [Slots -> Fractions] /\ sSubs \in [Slots \X Layers -> Fractions]
  /\ sKp \in [Cols -> Fractions] /\ ssee \in [Cols -> Fractions]

Ledgers == [exchange : Fractions, surfSource : Fractions, surfBoundary : Fractions,
            surfAdjust : Fractions, surfAnchor : Fractions, surfAtmos : Fractions,
            subsBoundary : Fractions, subsAdjust : Fractions, subsAnchor : Fractions]

Histories == [surf : Fractions, subs : Fractions, wc : [Cells -> Int], surfMissed : Fractions,
              subsMissed : Fractions, sound : BOOLEAN, clipped : BOOLEAN]

TypeOK == WaterType /\ ScalarType /\ audit \in Ledgers /\ history \in Histories

LEMMA SetupFacts ==
  ASSUME setup \in Setups
  PROVE  /\ setup.surface \in BOOLEAN /\ setup.ground \in BOOLEAN /\ setup.superbee \in BOOLEAN
         /\ setup.thermal \in BOOLEAN /\ setup.consistentSurface \in BOOLEAN
         /\ setup.consistentSub \in BOOLEAN /\ setup.hasMax \in BOOLEAN /\ setup.hasMin \in BOOLEAN
         /\ setup.allowance \in BOOLEAN /\ setup.conductive \in BOOLEAN
         /\ setup.equilibrium \in BOOLEAN
         /\ setup.boundMax \in Fractions /\ setup.boundMin \in Fractions
         /\ setup.tideValue \in Fractions /\ setup.inflowS \in Fractions
         /\ setup.pinValue \in Fractions /\ setup.sideValue \in Fractions
         /\ setup.equilibriumK \in Fractions /\ setup.equilibriumT \in Fractions
         /\ setup.kap \in Nat /\ setup.mol \in Nat /\ setup.difu \in Nat /\ setup.inflowQ \in Nat
         /\ setup.topValue \in Int
         /\ setup.dz \in [Layers -> Nat \ {0}] /\ setup.sub \in Nat \ {0}
         /\ setup.sides \subseteq {0, NX + 1}
         /\ setup.dept0 \in [Cols -> Nat] /\ setup.wc0 \in [Cells -> Nat \ {0}]
         /\ setup.s0 \in [Cols -> Fractions] /\ setup.g0 \in [Cells -> Fractions]
BY SetupAssumption

\* Sums, differences and products of fractions, and integers, are fractions.
LEMMA Arithmetic ==
  /\ \A a, b \in Fractions : a \oplus b \in Fractions
  /\ \A a, b \in Fractions : a \ominus b \in Fractions
  /\ \A a, b \in Fractions : a \otimes b \in Fractions
  /\ \A n \in Int : I(n) \in Fractions
  /\ \A n \in Int, d \in Nat \ {0} : Q(n, d) \in Fractions
  /\ Zero \in Fractions
BY Closed, IntegerQ, QType DEF Zero

LEMMA Chosen ==
  ASSUME NEW a \in Fractions, NEW b \in Fractions
  PROVE  Higher(a, b) \in Fractions /\ Lower(a, b) \in Fractions
BY DEF Higher, Lower

LEMMA DifferenceNotZero ==
  ASSUME NEW a \in Fractions, NEW b \in Fractions, a # b
  PROVE  a \ominus b # Zero
<1>1. PICK D \in Nat \ {0} : a \in Over(D) /\ b \in Over(D)
  BY Three
<1>2. a \ominus b \in Over(D) /\ Num(a \ominus b, D) = Num(a, D) - Num(b, D)
  BY <1>1, OverDifference
<1>3. Num(a, D) \in Int /\ Num(b, D) \in Int /\ Num(a, D) # Num(b, D)
  BY <1>1, OverNum, OverSame
<1> QED  BY <1>2, <1>3, OverZero

LEMMA SlopeType ==
  ASSUME NEW sp \in Fractions, NEW sc \in Fractions, NEW sm \in Fractions
  PROVE  Slope(sp, sc, sm) \in Fractions
<1>1. CASE sp = sc
  BY <1>1, Arithmetic DEF Slope
<1>2. CASE sp # sc
  <2> DEFINE r == (sc \ominus sm) \oslash (sp \ominus sc)
             phi == SuperbeePhi(r)
  <2>1. sc \ominus sm \in Fractions /\ sp \ominus sc \in Fractions /\ sp \ominus sc # Zero
    BY <1>2, Arithmetic, DifferenceNotZero
  <2>2. r \in Fractions
    BY <2>1, DivideTimes
  <2> HIDE DEF r
  <2>3. /\ Lower(I(2) \otimes r, I(1)) \in Fractions /\ Lower(r, I(2)) \in Fractions
        /\ Zero \in Fractions
    BY <2>2, Arithmetic, Chosen
  <2>4. phi \in Fractions
    BY <2>3, Chosen DEF SuperbeePhi
  <2> HIDE DEF phi
  <2>5. Q(1, 2) \in Fractions
    BY Arithmetic
  <2>6. (Q(1, 2) \otimes phi) \otimes (sp \ominus sc) \in Fractions
    BY <2>1, <2>4, <2>5, Arithmetic
  <2> QED  BY <1>2, <2>6 DEF Slope, phi, r
<1> QED  BY <1>1, <1>2

LEMMA TvdType ==
  ASSUME NEW sp \in Fractions, NEW sc \in Fractions, NEW sm \in Fractions, NEW c \in Fractions
  PROVE  TvdSuperbee(sp, sc, sm, c) \in Fractions
<1>1. Slope(sp, sc, sm) \in Fractions /\ I(1) \in Fractions
  BY SlopeType, Arithmetic
<1> QED  BY <1>1, Arithmetic DEF TvdSuperbee

-----------------------------------------------------------------------------
(* The surface.                                                            *)

LEMMA Places ==
  /\ NX \in Nat /\ NX > 1 /\ NZ \in Nat /\ NZ > 0 /\ MinDepth \in Nat
  /\ \A i \in Cols : i \in Int /\ i \in Slots /\ i \in XFaces /\ i - 1 \in XFaces /\ Clip(i) = i
  /\ \A f \in XFaces : f \in Int /\ f \in Slots /\ f + 1 \in Slots
  /\ \A i \in Slots : Clip(i) \in Cols
  /\ \A k \in Layers : k \in Nat /\ k > 0 /\ k \in ZFaces /\ k + 1 \in ZFaces
  /\ 0 \in XFaces /\ NX \in XFaces /\ 1 \in Layers /\ NZ \in Layers /\ 1 \in Cols
BY SizeAssumption DEF Cols, Slots, XFaces, Layers, ZFaces, Clip

LEMMA FiniteGrids ==
  IsFiniteSet(Cols) /\ IsFiniteSet(Layers) /\ IsFiniteSet(Cells)
<1>1. IsFiniteSet(Cols) /\ IsFiniteSet(Layers)
  BY Places, FS_Interval DEF Cols, Layers
<1> QED  BY <1>1, FS_Product DEF Cells

LEMMA MagnitudeType == \A n \in Int : Magnitude(n) \in Nat
BY DEF Magnitude

LEMMA SurfFaceType ==
  ASSUME WaterType, ScalarType, NEW f \in XFaces
  PROVE  SurfFace(f) \in Fractions /\ Advected(f) \in Fractions /\ Diffused(f) \in Fractions
<1>1. /\ f \in Int /\ sSurf[f] \in Fractions /\ sSurf[f + 1] \in Fractions
      /\ f > 0 => sSurf[f - 1] \in Fractions
      /\ f < NX => sSurf[f + 2] \in Fractions
  <2>1. /\ f \in Int /\ f \in Slots /\ f + 1 \in Slots
        /\ f > 0 => f - 1 \in Slots
        /\ f < NX => f + 2 \in Slots
    BY Places DEF Slots, XFaces
  <2>2. \A j \in Slots : sSurf[j] \in Fractions
    BY DEF ScalarType
  <2> QED  BY <2>1, <2>2
<1>2. fu[f] \in Int /\ asx[f] \in Nat /\ (fu[f] # 0 => asx[f] \in Nat \ {0})
  BY DEF WaterType
<1>3. fu[f] # 0 => Q(Magnitude(fu[f]), asx[f]) \in Fractions
  BY <1>2, MagnitudeType, Arithmetic
<1>4. SurfFace(f) \in Fractions
  <2>1. CASE fu[f] > 0
    BY <1>1, <1>2, <1>3, <2>1, TvdType DEF SurfFace
  <2>2. CASE ~(fu[f] > 0)
    BY <1>1, <1>2, <1>3, <2>2, TvdType DEF SurfFace
  <2> QED  BY <2>1, <2>2
<1>5. I(fu[f]) \in Fractions /\ Advected(f) \in Fractions
  BY <1>2, <1>4, Arithmetic DEF Advected
<1>6. setup.difu * asx[f] \in Int
  BY <1>2, SetupFacts DEF WaterType
<1>7. sSurf[f + 1] \ominus sSurf[f] \in Fractions /\ I(setup.difu * asx[f]) \in Fractions
  BY <1>1, <1>6, Arithmetic
<1>8. Diffused(f) \in Fractions
  BY <1>7, Arithmetic DEF Diffused
<1> QED  BY <1>4, <1>5, <1>8

LEMMA ExchangeType ==
  ASSUME WaterType, ScalarType, NEW i \in Cols
  PROVE  ExchangeRate(i) \in Fractions
<1>1. /\ sKp[i] \in Fractions /\ sSurf[i] \in Fractions /\ qss[i] \in Int /\ ventWin[i] \in Int
      /\ setup.dz[1] \in Nat \ {0} /\ 2 * dzzTop \in Int
  BY Places, SetupFacts DEF WaterType, ScalarType
<1> DEFINE diffusive == Q(2 * dzzTop, setup.dz[1]) \otimes (sKp[i] \ominus sSurf[i])
           up   == I(qss[i]) \otimes sKp[i]
           down == I(qss[i]) \otimes sSurf[i]
           vent == I(ventWin[i]) \otimes sKp[i]
<1>2. /\ Q(2 * dzzTop, setup.dz[1]) \in Fractions /\ sKp[i] \ominus sSurf[i] \in Fractions
      /\ I(qss[i]) \in Fractions /\ I(ventWin[i]) \in Fractions
  BY <1>1, Arithmetic
<1>3. /\ diffusive \in Fractions /\ up \in Fractions /\ down \in Fractions /\ vent \in Fractions
      /\ Zero \in Fractions
  BY <1>1, <1>2, Arithmetic
<1> HIDE DEF diffusive, up, down, vent
<1>4. /\ up \oplus diffusive \in Fractions /\ down \oplus diffusive \in Fractions
      /\ \A a, b \in {up, down, Zero, diffusive} : (a \oplus b) \oplus vent \in Fractions
  BY <1>3, Arithmetic
<1>5. ExchangeRate(i) \in {Zero, up \oplus diffusive, down \oplus diffusive}
                          \cup {(a \oplus b) \oplus vent : a, b \in {up, down, Zero, diffusive}}
  BY DEF ExchangeRate, diffusive, up, down, vent
<1> QED  BY <1>3, <1>4, <1>5

\* Adding nothing, and taking a thing from itself.
LEMMA PlusZero ==
  ASSUME NEW a \in Fractions
  PROVE  a \oplus Zero = a /\ Zero \oplus a = a /\ a \ominus a = Zero /\ a \ominus Zero = a
         /\ a \oplus (Zero \ominus a) = Zero
<1>1. PICK D \in Nat \ {0} : a \in Over(D)
  BY Three
<1>2. Zero \in Over(D) /\ Num(Zero, D) = 0 /\ Num(a, D) \in Int
  BY <1>1, OverZero, OverNum
<1>3. /\ a \oplus Zero \in Over(D) /\ Num(a \oplus Zero, D) = Num(a, D) + 0
      /\ Zero \oplus a \in Over(D) /\ Num(Zero \oplus a, D) = 0 + Num(a, D)
      /\ a \ominus a \in Over(D) /\ Num(a \ominus a, D) = Num(a, D) - Num(a, D)
      /\ a \ominus Zero \in Over(D) /\ Num(a \ominus Zero, D) = Num(a, D) - 0
      /\ Zero \ominus a \in Over(D) /\ Num(Zero \ominus a, D) = 0 - Num(a, D)
  BY <1>1, <1>2, OverSum, OverDifference
<1>4. /\ a \oplus (Zero \ominus a) \in Over(D)
      /\ Num(a \oplus (Zero \ominus a), D) = Num(a, D) + (0 - Num(a, D))
  BY <1>1, <1>3, OverSum
<1>5. \A b \in Over(D) : Num(b, D) = Num(a, D) => b = a
  BY <1>1, OverSame
<1>6. \A b \in Over(D) : Num(b, D) = 0 => b = Zero
  BY <1>2, OverSame
<1> QED  BY <1>2, <1>3, <1>4, <1>5, <1>6

LEMMA NotZero ==
  ASSUME NEW v \in Int, v # 0
  PROVE  I(v) # Zero
BY IntegerQ DEF I, Zero

\* What is left of a product when its first factor is replaced.
LEMMA Replaced ==
  ASSUME NEW a \in Fractions, NEW b \in Fractions, NEW c \in Fractions
  PROVE  /\ a \otimes c = (b \otimes c) \oplus ((a \ominus b) \otimes c)
         /\ c \otimes a = (c \otimes b) \oplus (c \otimes (a \ominus b))
<1>1. /\ (a \ominus b) \otimes c = (a \otimes c) \ominus (b \otimes c)
      /\ c \otimes (a \ominus b) = (c \otimes a) \ominus (c \otimes b)
  BY Distributes
<1>2. /\ a \otimes c \in Fractions /\ b \otimes c \in Fractions /\ (a \ominus b) \otimes c \in Fractions
      /\ c \otimes a \in Fractions /\ c \otimes b \in Fractions /\ c \otimes (a \ominus b) \in Fractions
  BY Arithmetic
<1> QED  BY <1>1, <1>2, PlusMinus

LEMMA PositiveBasis ==
  ASSUME NEW v \in Int, v > 0, NEW r \in Fractions
  PROVE  /\ Zero \prec r => Zero \prec I(v) \oplus r
         /\ r \prec I(1) => Zero \prec I(v) \oplus (Zero \ominus r)
<1>1. PICK D \in Nat \ {0} : r \in Over(D)
  BY Three
<1>2. /\ Zero \in Over(D) /\ Num(Zero, D) = 0 /\ Num(r, D) \in Int
      /\ I(v) \in Over(D) /\ Num(I(v), D) = v * D
      /\ I(1) \in Over(D) /\ Num(I(1), D) = 1 * D
  BY <1>1, OverZero, OverNum, OverInteger
<1>3. /\ I(v) \oplus r \in Over(D) /\ Num(I(v) \oplus r, D) = v * D + Num(r, D)
      /\ Zero \ominus r \in Over(D) /\ Num(Zero \ominus r, D) = 0 - Num(r, D)
  BY <1>1, <1>2, OverSum, OverDifference
<1>4. /\ I(v) \oplus (Zero \ominus r) \in Over(D)
      /\ Num(I(v) \oplus (Zero \ominus r), D) = v * D + (0 - Num(r, D))
  BY <1>2, <1>3, OverSum
<1>5. v * D \in Int /\ v * D >= D
  <2>1. \A a \in Nat : a * D \in Nat
    OBVIOUS
  <2>2. v - 1 \in Nat /\ v * D = (v - 1) * D + D
    OBVIOUS
  <2> QED  BY <2>1, <2>2
<1>6. /\ Zero \prec r <=> 0 < Num(r, D)
      /\ r \prec I(1) <=> Num(r, D) < 1 * D
      /\ Zero \prec I(v) \oplus r <=> 0 < v * D + Num(r, D)
      /\ Zero \prec I(v) \oplus (Zero \ominus r) <=> 0 < v * D + (0 - Num(r, D))
  BY <1>1, <1>2, <1>3, <1>4, Ordered
<1> HIDE DEF Num
<1>7. \A n, m \in Int : (m >= D => ((0 < n => 0 < m + n) /\ (n < 1 * D => 0 < m + (0 - n))))
  OBVIOUS
<1> QED  BY <1>2, <1>5, <1>6, <1>7

LEMMA FluxVolumeType ==
  ASSUME WaterType, NEW i \in Cols
  PROVE  FluxVolume(i) \in Int /\ FluxVolumeLagged(i) \in Int
<1>1. /\ i - 1 \in XFaces /\ i \in XFaces
      /\ vsn[i] \in Int /\ fu[i] \in Int /\ fu[i - 1] \in Int /\ fuOld[i] \in Int
      /\ fuOld[i - 1] \in Int /\ qss[i] \in Int /\ ventWin[i] \in Int /\ setup.inflowQ \in Int
  BY Places, SetupFacts DEF WaterType
<1> QED  BY <1>1 DEF FluxVolume, FluxVolumeLagged

LEMMA SurfStencilType ==
  ASSUME WaterType, ScalarType, NEW i \in Cols
  PROVE  /\ SurfStencil(i) \subseteq Fractions /\ sSurf[i] \in SurfStencil(i)
         /\ IsFiniteSet(SurfStencil(i))
         /\ Highest(SurfStencil(i)) \in Fractions /\ Lowest(SurfStencil(i)) \in Fractions
<1> DEFINE A == {n \in {i - 1, i + 1} : /\ asx[IF n < i THEN n ELSE i] > 0 /\ vsn[Clip(n)] > 0}
           B == {sSurf[j] : j \in A}
           C == IF Coupled /\ setup.conductive THEN {sKp[i]} ELSE {}
<1>1. SurfStencil(i) = {sSurf[i]} \cup B \cup C
  BY DEF SurfStencil
<1>2. B \in SUBSET {sSurf[i - 1], sSurf[i + 1]}
  OBVIOUS
<1>3. C \in SUBSET {sKp[i]}
  OBVIOUS
<1> HIDE DEF A, B, C
<1>4. i \in Slots /\ i - 1 \in Slots /\ i + 1 \in Slots
  BY Places DEF Cols, Slots
<1>5. {sSurf[i], sSurf[i - 1], sSurf[i + 1], sKp[i]} \subseteq Fractions
  BY <1>4 DEF ScalarType
<1>6. IsFiniteSet({sSurf[i], sSurf[i - 1], sSurf[i + 1], sKp[i]})
  <2>1. /\ IsFiniteSet({sSurf[i]}) /\ IsFiniteSet({sSurf[i - 1]}) /\ IsFiniteSet({sSurf[i + 1]})
        /\ IsFiniteSet({sKp[i]})
    BY FS_Singleton
  <2>2. IsFiniteSet({sSurf[i]} \cup {sSurf[i - 1]} \cup {sSurf[i + 1]} \cup {sKp[i]})
    BY <2>1, FS_Union
  <2>3. {sSurf[i]} \cup {sSurf[i - 1]} \cup {sSurf[i + 1]} \cup {sKp[i]}
          = {sSurf[i], sSurf[i - 1], sSurf[i + 1], sKp[i]}
    OBVIOUS
  <2> QED  BY <2>2, <2>3
<1>7. SurfStencil(i) \in SUBSET {sSurf[i], sSurf[i - 1], sSurf[i + 1], sKp[i]}
      /\ sSurf[i] \in SurfStencil(i)
  BY <1>1, <1>2, <1>3
<1>8. IsFiniteSet(SurfStencil(i)) /\ SurfStencil(i) \subseteq Fractions /\ SurfStencil(i) # {}
  BY <1>5, <1>6, <1>7, FS_Subset
<1>9. IsHighest(Highest(SurfStencil(i)), SurfStencil(i)) /\ IsLowest(Lowest(SurfStencil(i)), SurfStencil(i))
  BY <1>8, Extremes
<1> QED  BY <1>7, <1>8, <1>9 DEF IsHighest, IsLowest

LEMMA Limits ==
  ASSUME setup \in Setups
  PROVE  LimHi \in Fractions /\ LimLo \in Fractions
BY SetupFacts, Arithmetic DEF LimHi, LimLo

LEMMA SurfLimitedType ==
  ASSUME WaterType, ScalarType, NEW i \in Cols, NEW raw \in Fractions
  PROVE  SurfBounded(SurfLimited(i, raw)) \in Fractions
<1>1. LimHi \in Fractions /\ LimLo \ominus I(1) \in Fractions /\ LimLo \in Fractions
  BY Limits, Arithmetic DEF WaterType
<1>2. SurfLimited(i, raw) \in Fractions
  BY <1>1, SurfStencilType DEF SurfLimited
<1> HIDE DEF SurfLimited
<1> QED  BY <1>1, <1>2 DEF SurfBounded

LEMMA IncrementType ==
  ASSUME WaterType, ScalarType, NEW i \in Cols
  PROVE  /\ SurfIncrement(i) \in Fractions /\ SurfInflow(i) \in Fractions
         /\ sSurf[i] \otimes I(vsn[i]) \in Fractions
<1>1. /\ Advected(i - 1) \in Fractions /\ Advected(i) \in Fractions
      /\ Diffused(i - 1) \in Fractions /\ Diffused(i) \in Fractions /\ ExchangeRate(i) \in Fractions
  BY Places, SurfFaceType, ExchangeType
<1>2. sSurf[i] \in Fractions /\ I(vsn[i]) \in Fractions
  BY Places, Arithmetic DEF WaterType, ScalarType
<1>3. sSurf[i] \otimes I(vsn[i]) \in Fractions
  BY <1>2, Arithmetic
<1>4. SurfIncrement(i) \in Fractions
  BY <1>1, <1>3, Arithmetic DEF SurfIncrement
<1>5. setup.inflowS \in Fractions /\ I(setup.inflowQ) \in Fractions /\ Zero \in Fractions
  BY SetupFacts, Arithmetic DEF WaterType
<1>6. SurfInflow(i) \in Fractions
  BY <1>5, Arithmetic DEF SurfInflow
<1> QED  BY <1>3, <1>4, <1>6

\* What the audit books for a column is what its new mass has beyond the mass
\* it was given.
LEMMA SurfCell ==
  ASSUME WaterType, ScalarType, NEW i \in Cols
  PROVE  LET u  == SurfUpdate(i)
             sm == SurfIncrement(i) \oplus SurfInflow(i)
         IN  /\ u.value \in Fractions /\ u.adjust \in Fractions
             /\ u.anchor \in Fractions /\ u.atmos \in Fractions
             /\ u.value \otimes I(dept[i]) = sm \oplus u.adjust \oplus u.atmos \oplus u.anchor
<1> DEFINE sm    == SurfIncrement(i) \oplus SurfInflow(i)
           v     == FluxVolume(i)
           wet   == v > 0 /\ Wet(i)
           raw   == IF wet THEN sm \oslash I(v) ELSE Zero
           held  == IF wet THEN SurfBounded(SurfLimited(i, raw)) ELSE Zero
           vre   == Dilution(i, v)
           basis == I(v) \oplus vre
           mixed == IF vre = Zero THEN held ELSE (held \otimes I(v)) \oslash basis
           warms == setup.equilibrium /\ Wet(i) /\ Zero \prec basis
           heat  == IF warms
                    THEN setup.equilibriumK \otimes (setup.equilibriumT \ominus mixed) ELSE Zero
           value == IF heat = Zero THEN mixed ELSE mixed \oplus (heat \oslash basis)
           adjust == IF wet THEN (held \ominus raw) \otimes I(v) ELSE Zero \ominus sm
           anchor == IF wet THEN value \otimes (I(dept[i]) \ominus basis) ELSE Zero
<1>0. SurfUpdate(i) = [value |-> value, adjust |-> adjust, anchor |-> anchor, atmos |-> heat]
  BY DEF SurfUpdate
<1>1. v \in Int /\ dept[i] \in Nat /\ I(v) \in Fractions /\ I(dept[i]) \in Fractions
  BY FluxVolumeType, Arithmetic DEF WaterType
<1>2. sm \in Fractions
  BY IncrementType, Arithmetic
<1>3. /\ rain \in Fractions /\ evap \in Fractions /\ evap \prec I(1)
      /\ setup.equilibriumK \in Fractions /\ setup.equilibriumT \in Fractions
  BY SetupFacts DEF WaterType
<1>4. vre \in Fractions /\ basis \in Fractions
  BY <1>1, <1>3, Arithmetic DEF Dilution
<1>5. vre # Zero => wet /\ Zero \prec basis
  <2>1. CASE setup.thermal \/ v <= 0 \/ ~Wet(i)
    BY <2>1 DEF Dilution
  <2>2. CASE ~(setup.thermal \/ v <= 0 \/ ~Wet(i))
    <3>1. v > 0 /\ wet
      BY <1>1, <2>2
    <3>2. (vre = rain /\ Zero \prec rain) \/ vre = Zero \ominus evap
      BY <2>2 DEF Dilution
    <3> HIDE DEF v, vre
    <3> QED  BY <1>1, <1>3, <3>1, <3>2, PositiveBasis
  <2> QED  BY <2>1, <2>2
<1>6. ~(Zero \prec Zero)
  BY Arithmetic, OneIsLarger
<1>7. wet => I(v) # Zero
  BY <1>1, NotZero
<1>8. raw \in Fractions /\ (wet => raw \otimes I(v) = sm)
  <2> HIDE DEF sm, v
  <2>1. CASE wet
    BY <1>1, <1>2, <1>7, <2>1, DivideTimes
  <2>2. CASE ~wet
    BY <2>2, Arithmetic
  <2> QED  BY <2>1, <2>2
<1>9. held \in Fractions
  <2> HIDE DEF raw
  <2> QED  BY <1>8, SurfLimitedType, Arithmetic
<1> HIDE DEF vre, basis, raw, held
<1>10. adjust \in Fractions /\ (wet => held \otimes I(v) = sm \oplus adjust)
  <2> HIDE DEF sm, v, wet
  <2>1. held \ominus raw \in Fractions /\ Zero \ominus sm \in Fractions
    BY <1>2, <1>8, <1>9, Arithmetic
  <2>2. adjust \in Fractions
    BY <1>1, <2>1, Arithmetic
  <2> QED  BY <1>1, <1>8, <1>9, <2>2, Replaced
<1> HIDE DEF sm, v
<1>11. mixed \in Fractions /\ (wet => mixed \otimes basis = held \otimes I(v))
  <2>1. CASE vre = Zero
    <3>1. basis = I(v)
      BY <1>1, <2>1, PlusZero DEF basis
    <3> QED  BY <1>9, <2>1, <3>1
  <2>2. CASE vre # Zero
    <3>1. basis # Zero /\ held \otimes I(v) \in Fractions
      BY <1>1, <1>5, <1>6, <1>9, <2>2, Arithmetic
    <3> QED  BY <1>4, <2>2, <3>1, DivideTimes
  <2> QED  BY <2>1, <2>2
<1> HIDE DEF mixed
<1>12. heat \in Fractions /\ (heat # Zero => warms)
  <2> HIDE DEF warms
  <2>1. setup.equilibriumT \ominus mixed \in Fractions
    BY <1>3, <1>11, Arithmetic
  <2> QED  BY <1>3, <2>1, Arithmetic
<1>13. heat # Zero => basis # Zero
  BY <1>6, <1>12
<1> HIDE DEF heat, warms
<1>14. value \in Fractions /\ (wet => value \otimes basis = sm \oplus adjust \oplus heat)
  <2>1. CASE heat = Zero
    <3>1. sm \oplus adjust \in Fractions
      BY <1>2, <1>10, Arithmetic
    <3>2. sm \oplus adjust \oplus heat = sm \oplus adjust
      BY <2>1, <3>1, PlusZero
    <3> HIDE DEF adjust, wet
    <3> QED  BY <1>10, <1>11, <2>1, <3>2
  <2>2. CASE heat # Zero
    <3> DEFINE w == heat \oslash basis
    <3>1. w \in Fractions /\ w \otimes basis = heat
      BY <1>4, <1>12, <1>13, <2>2, DivideTimes
    <3> HIDE DEF w
    <3>2. value = mixed \oplus w
      BY <2>2 DEF w
    <3>3. mixed \oplus w \in Fractions
      BY <1>11, <3>1, Arithmetic
    <3>4. (mixed \oplus w) \otimes basis = (mixed \otimes basis) \oplus (w \otimes basis)
      BY <1>4, <1>11, <3>1, Distributes
    <3> HIDE DEF adjust, wet, value
    <3> QED  BY <1>10, <1>11, <3>1, <3>2, <3>3, <3>4
  <2> QED  BY <2>1, <2>2
<1>15. /\ anchor \in Fractions
       /\ wet => value \otimes I(dept[i]) = sm \oplus adjust \oplus heat \oplus anchor
  <2>1. I(dept[i]) \ominus basis \in Fractions
    BY <1>1, <1>4, Arithmetic
  <2> HIDE DEF wet, value, adjust
  <2>2. anchor \in Fractions
    BY <1>14, <2>1, Arithmetic
  <2>3. wet => value \otimes I(dept[i])
                 = (value \otimes basis) \oplus (value \otimes (I(dept[i]) \ominus basis))
    BY <1>1, <1>4, <1>14, Replaced
  <2> QED  BY <1>14, <2>2, <2>3
<1>16. ~wet => value \otimes I(dept[i]) = sm \oplus adjust \oplus heat \oplus anchor
  <2> SUFFICES ASSUME ~wet
               PROVE  value \otimes I(dept[i]) = sm \oplus adjust \oplus heat \oplus anchor
    OBVIOUS
  <2>1. vre = Zero /\ held = Zero
    BY <1>5 DEF held
  <2>2. mixed = Zero
    BY <2>1 DEF mixed
  <2>3. heat = Zero
    <3>1. CASE ~Wet(i)
      BY <3>1 DEF heat, warms
    <3>2. CASE ~(v > 0)
      <4>1. basis = I(v)
        BY <1>1, <2>1, PlusZero DEF basis
      <4>2. ~(Zero \prec basis)
        BY <1>1, <3>2, <4>1, IntegersOrdered DEF Zero
      <4> QED  BY <4>2 DEF heat, warms
    <3> QED  BY <3>1, <3>2
  <2>4. value = Zero /\ adjust = Zero \ominus sm /\ anchor = Zero
    BY <2>2, <2>3
  <2> HIDE DEF value, adjust, anchor, wet
  <2>5. Zero \otimes I(dept[i]) = Zero
    <3>1. Zero \otimes I(dept[i]) = I(dept[i]) \otimes Zero
      BY <1>1, Arithmetic, TimesCommutes
    <3> QED  BY <1>1, <3>1, TimesZero
  <2>6. sm \oplus (Zero \ominus sm) = Zero /\ Zero \oplus Zero = Zero
    BY <1>2, Arithmetic, PlusZero
  <2> QED  BY <2>3, <2>4, <2>5, <2>6
<1> HIDE DEF value, adjust, anchor, wet
<1>17. value \otimes I(dept[i]) = sm \oplus adjust \oplus heat \oplus anchor
  BY <1>15, <1>16
<1> QED  BY <1>0, <1>10, <1>12, <1>14, <1>15, <1>17 DEF sm

-----------------------------------------------------------------------------
(***************************************************************************)
(* Rearranging sums: over a common denominator they are sums of integers.  *)
(***************************************************************************)
LEMMA OverArithmetic ==
  ASSUME NEW D \in Nat \ {0}
  PROVE  /\ \A a \in Over(D) : Num(a, D) \in Int
         /\ \A a, b \in Over(D) : a \oplus b \in Over(D) /\ Num(a \oplus b, D) = Num(a, D) + Num(b, D)
         /\ \A a, b \in Over(D) : a \ominus b \in Over(D) /\ Num(a \ominus b, D) = Num(a, D) - Num(b, D)
         /\ \A a, b \in Over(D) : Num(a, D) = Num(b, D) => a = b
BY OverNum, OverSum, OverDifference, OverSame

LEMMA NineOver ==
  ASSUME NEW t, \A j \in 1..9 : t[j] \in Fractions
  PROVE  \E D \in Nat \ {0} : \A j \in 1..9 : t[j] \in Over(D)
<1>1. IsFiniteSet(1..9)
  <2>1. \A n \in Nat : IsFiniteSet(1..n)
    BY FS_Interval
  <2> QED  BY <2>1
<1>2. \E D \in Nat \ {0} : \A j \in 1..9 : t[j] \in Over(D) /\ t[j] \in Over(D) /\ t[j] \in Over(D)
  BY <1>1, OneDenominator
<1> QED  BY <1>2

\* What a column holds after the step, in the order of the audit.
Held(a, adv, dif, e, inflow, adjust, heat, anchor, r) ==
  (((a \oplus adv \oplus dif \oplus e) \oplus inflow) \oplus adjust \oplus heat \oplus anchor) \oplus r

Booked(a, adv, dif, e, inflow, adjust, heat, anchor, r) ==
  a \oplus adv \oplus dif \oplus e \oplus (inflow \oplus r) \oplus adjust \oplus anchor \oplus heat

LEMMA SurfOrder ==
  ASSUME NEW t, \A j \in 1..9 : t[j] \in Fractions
  PROVE  Held(t[1], t[2], t[3], t[4], t[5], t[6], t[7], t[8], t[9])
           = Booked(t[1], t[2], t[3], t[4], t[5], t[6], t[7], t[8], t[9])
<1> DEFINE a == t[1]
           adv == t[2]
           dif == t[3]
           e == t[4]
           inflow == t[5]
           adjust == t[6]
           heat == t[7]
           anchor == t[8]
           r == t[9]
<1>1. PICK D \in Nat \ {0} : {a, adv, dif, e, inflow, adjust, heat, anchor, r} \subseteq Over(D)
  <2>1. PICK D \in Nat \ {0} : \A j \in 1..9 : t[j] \in Over(D)
    BY NineOver
  <2> QED  BY <2>1
<1> HIDE DEF a, adv, dif, e, inflow, adjust, heat, anchor, r
<1> DEFINE N(x) == Num(x, D)
           s4 == a \oplus adv \oplus dif \oplus e
           s7 == (s4 \oplus inflow) \oplus adjust \oplus heat \oplus anchor
           t5 == s4 \oplus (inflow \oplus r)
<1>2. s4 \in Over(D) /\ N(s4) = N(a) + N(adv) + N(dif) + N(e)
  BY <1>1, OverArithmetic
<1> HIDE DEF s4
<1>3. s7 \in Over(D) /\ N(s7) = N(s4) + N(inflow) + N(adjust) + N(heat) + N(anchor)
  BY <1>1, <1>2, OverArithmetic
<1>4. t5 \in Over(D) /\ N(t5) = N(s4) + N(inflow) + N(r)
  BY <1>1, <1>2, OverArithmetic
<1> HIDE DEF s7, t5
<1>5. s7 \oplus r \in Over(D) /\ N(s7 \oplus r) = N(s7) + N(r)
  BY <1>1, <1>3, OverArithmetic
<1>6. /\ t5 \oplus adjust \oplus anchor \oplus heat \in Over(D)
      /\ N(t5 \oplus adjust \oplus anchor \oplus heat) = N(t5) + N(adjust) + N(anchor) + N(heat)
  BY <1>1, <1>4, OverArithmetic
<1>7. N(s7 \oplus r) = N(t5 \oplus adjust \oplus anchor \oplus heat)
  <2>1. {N(s4), N(inflow), N(adjust), N(heat), N(anchor), N(r)} \subseteq Int
    BY <1>1, <1>2, OverArithmetic
  <2> HIDE DEF N
  <2> QED  BY <1>3, <1>4, <1>5, <1>6, <2>1
<1> QED  BY <1>5, <1>6, <1>7, OverArithmetic
         DEF s4, s7, t5, Held, Booked, a, adv, dif, e, inflow, adjust, heat, anchor, r

\* The order of the surface ledger.
LEMMA SurfLedgerOrder ==
  ASSUME NEW t, \A j \in 1..9 : t[j] \in Fractions,
         t[1] = t[2] \oplus t[3] \oplus t[4] \oplus t[5] \oplus t[6] \oplus t[7] \oplus t[8] \oplus t[9]
  PROVE  t[1] \ominus t[2]
           = t[5] \oplus t[6] \oplus t[3] \oplus t[7] \oplus t[8] \oplus t[9] \oplus t[4]
<1> DEFINE mass == t[1]
           surf == t[2]
           boundary == t[3]
           missed == t[4]
           exchange == t[5]
           source == t[6]
           adjust == t[7]
           anchor == t[8]
           atmos == t[9]
<1>0. mass = surf \oplus boundary \oplus missed \oplus exchange \oplus source
             \oplus adjust \oplus anchor \oplus atmos
  OBVIOUS
<1>1. PICK D \in Nat \ {0} :
        {mass, surf, boundary, missed, exchange, source, adjust, anchor, atmos} \subseteq Over(D)
  <2>1. PICK D \in Nat \ {0} : \A j \in 1..9 : t[j] \in Over(D)
    BY NineOver
  <2> QED  BY <2>1
<1> SUFFICES mass \ominus surf = exchange \oplus source \oplus boundary \oplus adjust \oplus anchor
                             \oplus atmos \oplus missed
  OBVIOUS
<1> HIDE DEF mass, surf, boundary, missed, exchange, source, adjust, anchor, atmos
<1> DEFINE N(x) == Num(x, D)
           s4 == surf \oplus boundary \oplus missed \oplus exchange
           t4 == exchange \oplus source \oplus boundary \oplus adjust
<1>2. s4 \in Over(D) /\ N(s4) = N(surf) + N(boundary) + N(missed) + N(exchange)
  BY <1>1, OverArithmetic
<1>3. t4 \in Over(D) /\ N(t4) = N(exchange) + N(source) + N(boundary) + N(adjust)
  BY <1>1, OverArithmetic
<1> HIDE DEF s4, t4
<1>4. N(s4 \oplus source \oplus adjust \oplus anchor \oplus atmos)
        = N(s4) + N(source) + N(adjust) + N(anchor) + N(atmos)
  BY <1>1, <1>2, OverArithmetic
<1>5. /\ t4 \oplus anchor \oplus atmos \oplus missed \in Over(D)
      /\ N(t4 \oplus anchor \oplus atmos \oplus missed) = N(t4) + N(anchor) + N(atmos) + N(missed)
  BY <1>1, <1>3, OverArithmetic
<1>6. mass = s4 \oplus source \oplus adjust \oplus anchor \oplus atmos
  BY <1>0 DEF s4
<1>7. mass \ominus surf \in Over(D) /\ N(mass \ominus surf) = N(mass) - N(surf)
  BY <1>1, OverArithmetic
<1>8. N(mass \ominus surf) = N(t4 \oplus anchor \oplus atmos \oplus missed)
  <2>1. {N(surf), N(boundary), N(missed), N(exchange), N(source), N(adjust), N(anchor), N(atmos)}
          \subseteq Int
    BY <1>1, OverArithmetic
  <2> HIDE DEF N
  <2> QED  BY <1>2, <1>3, <1>4, <1>5, <1>6, <1>7, <2>1
<1> QED  BY <1>5, <1>7, <1>8, OverArithmetic DEF t4

\* The total of a sum of eight.
LEMMA TotalEight ==
  ASSUME NEW S, IsFiniteSet(S), NEW a, NEW b, NEW c, NEW d, NEW e, NEW f, NEW g, NEW h, NEW m,
         \A x \in S : a[x] \in Fractions /\ b[x] \in Fractions /\ c[x] \in Fractions /\ d[x] \in Fractions,
         \A x \in S : e[x] \in Fractions /\ f[x] \in Fractions /\ g[x] \in Fractions /\ h[x] \in Fractions,
         \A x \in S : m[x] = a[x] \oplus b[x] \oplus c[x] \oplus d[x] \oplus e[x] \oplus f[x] \oplus g[x] \oplus h[x]
  PROVE  Total(m, S) = Total(a, S) \oplus Total(b, S) \oplus Total(c, S) \oplus Total(d, S)
                       \oplus Total(e, S) \oplus Total(f, S) \oplus Total(g, S) \oplus Total(h, S)
<1> DEFINE s2 == [x \in S |-> a[x] \oplus b[x]]
           s3 == [x \in S |-> s2[x] \oplus c[x]]
           s4 == [x \in S |-> s3[x] \oplus d[x]]
           s5 == [x \in S |-> s4[x] \oplus e[x]]
           s6 == [x \in S |-> s5[x] \oplus f[x]]
           s7 == [x \in S |-> s6[x] \oplus g[x]]
<1>2. \A x \in S : s2[x] \in Fractions /\ s2[x] = a[x] \oplus b[x]
  BY Arithmetic
<1>3. \A x \in S : s3[x] \in Fractions /\ s3[x] = s2[x] \oplus c[x]
  <2> HIDE DEF s2
  <2> QED  BY <1>2, Arithmetic
<1>4. \A x \in S : s4[x] \in Fractions /\ s4[x] = s3[x] \oplus d[x]
  <2> HIDE DEF s3
  <2> QED  BY <1>3, Arithmetic
<1>5. \A x \in S : s5[x] \in Fractions /\ s5[x] = s4[x] \oplus e[x]
  <2> HIDE DEF s4
  <2> QED  BY <1>4, Arithmetic
<1>6. \A x \in S : s6[x] \in Fractions /\ s6[x] = s5[x] \oplus f[x]
  <2> HIDE DEF s5
  <2> QED  BY <1>5, Arithmetic
<1>7. \A x \in S : s7[x] \in Fractions /\ s7[x] = s6[x] \oplus g[x]
  <2> HIDE DEF s6
  <2> QED  BY <1>6, Arithmetic
<1> HIDE DEF s2, s3, s4, s5, s6, s7
<1>8. \A x \in S : m[x] = s7[x] \oplus h[x]
  BY <1>2, <1>3, <1>4, <1>5, <1>6, <1>7
<1>9. Total(s2, S) = Total(a, S) \oplus Total(b, S)
  BY <1>2, TotalPlus
<1>10. Total(s3, S) = Total(s2, S) \oplus Total(c, S)
  BY <1>2, <1>3, TotalPlus
<1>11. Total(s4, S) = Total(s3, S) \oplus Total(d, S)
  BY <1>3, <1>4, TotalPlus
<1>12. Total(s5, S) = Total(s4, S) \oplus Total(e, S)
  BY <1>4, <1>5, TotalPlus
<1>13. Total(s6, S) = Total(s5, S) \oplus Total(f, S)
  BY <1>5, <1>6, TotalPlus
<1>14. Total(s7, S) = Total(s6, S) \oplus Total(g, S)
  BY <1>6, <1>7, TotalPlus
<1>15. Total(m, S) = Total(s7, S) \oplus Total(h, S)
  BY <1>7, <1>8, TotalPlus
<1> QED  BY <1>9, <1>10, <1>11, <1>12, <1>13, <1>14, <1>15

Rises(f, n, F) ==
  /\ \A i \in 0..n : F[i] \in Fractions
  /\ \A i \in 1..n : f[i] = F[i] \ominus F[i - 1]

LEMMA TotalRow ==
  ASSUME NEW n \in Nat, NEW F, NEW f, Rises(f, n, F)
  PROVE  Total(f, 1..n) = F[n] \ominus F[0]
<1>0. /\ \A i \in 0..n : F[i] \in Fractions
      /\ \A i \in 1..n : f[i] = F[i] \ominus F[i - 1]
  BY DEF Rises
<1> DEFINE P == {0}
           place == [c \in P \X (1..n) |-> c[2]]
           G == [c \in P \X (0..n) |-> F[c[2]]]
           e == [q \in P |-> G[<<q, n>>] \ominus G[<<q, 0>>]]
<1>1. IsFiniteSet(P) /\ IsFiniteSet(1..n)
  <2>1. IsFiniteSet(P)
    BY FS_Singleton, Zenon
  <2> QED  BY <2>1, FS_Interval
<1>2. Lines(1..n, P, n, place)
  <2>1. \A c \in P \X (1..n) : place[c] = c[2] /\ c = <<0, c[2]>> /\ c[2] \in 1..n
    OBVIOUS
  <2>2. \A i \in 1..n : <<0, i>> \in P \X (1..n) /\ place[<<0, i>>] = i
    OBVIOUS
  <2> HIDE DEF place
  <2>3. 1..n = {place[c] : c \in P \X (1..n)}
    BY <2>1, <2>2
  <2> QED  BY <2>1, <2>3 DEF Lines
<1>3. \A q \in P, i \in 0..n : G[<<q, i>>] \in Fractions /\ G[<<q, i>>] = F[i]
  BY <1>0
<1>4. \A q \in P, i \in 1..n : f[place[<<q, i>>]] = G[<<q, i>>] \ominus G[<<q, i - 1>>]
  <2> SUFFICES ASSUME NEW q \in P, NEW i \in 1..n
               PROVE  f[place[<<q, i>>]] = G[<<q, i>>] \ominus G[<<q, i - 1>>]
    OBVIOUS
  <2>1. i \in 0..n /\ i - 1 \in 0..n /\ place[<<q, i>>] = i
    OBVIOUS
  <2> HIDE DEF place, G
  <2> QED  BY <1>0, <1>3, <2>1
<1> HIDE DEF place, G
<1>5. Total(f, 1..n) = Total(e, P)
  <2>1. \A q \in P, i \in 0..n : G[<<q, i>>] \in Fractions
    BY <1>3
  <2>2. Climb(f, P, n, place, G)
    BY <1>4, <2>1 DEF Climb
  <2> HIDE DEF P
  <2> QED  BY <1>1, <1>2, <2>2, TotalLines
<1>6. e[0] = F[n] \ominus F[0] /\ e[0] \in Fractions
  <2>1. G[<<0, n>>] = F[n] /\ G[<<0, 0>>] = F[0] /\ F[n] \in Fractions /\ F[0] \in Fractions
    BY <1>3
  <2> QED  BY <2>1, Arithmetic
<1> HIDE DEF e
<1>7. PICK D \in Nat \ {0} : e[0] \in Over(D)
  BY <1>6, Three
<1>8. /\ Total(e, P) \in Over(D) /\ Num(Total(e, P), D) = SumFunctionOnSet(Nums(e, P, D), P)
      /\ Nums(e, P, D)[0] \in Int
  BY <1>1, <1>7, TotalOver
<1>9. Nums(e, P, D)[0] = Num(e[0], D)
  BY DEF Nums
<1>10. SumFunctionOnSet(Nums(e, P, D), P) = Nums(e, P, D)[0]
  <2> DEFINE h == Nums(e, P, D)
  <2>1. First(P) = 0 /\ Rest(P) = {}
    BY RestIsSmaller DEF Rest
  <2> HIDE DEF h, P
  <2>2. h[0] \in Int
    BY <1>8 DEF h
  <2>3. SumFunctionOnSet(h, P) = h[0] + SumFunctionOnSet(h, {})
    BY <1>1, <2>1, SumFirst DEF P
  <2> QED  BY <2>2, <2>3, SumEmpty DEF h
<1> QED  BY <1>5, <1>6, <1>7, <1>8, <1>9, <1>10, OverSame

LEMMA NegativeDifference ==
  ASSUME NEW x \in Fractions, NEW y \in Fractions
  PROVE  (Zero \ominus y) \ominus (Zero \ominus x) = x \ominus y
<1>1. PICK D \in Nat \ {0} : x \in Over(D) /\ y \in Over(D)
  BY Three
<1>2. Zero \in Over(D) /\ Num(Zero, D) = 0 /\ Num(x, D) \in Int /\ Num(y, D) \in Int
  BY <1>1, OverZero, OverNum
<1>3. /\ Zero \ominus y \in Over(D) /\ Num(Zero \ominus y, D) = 0 - Num(y, D)
      /\ Zero \ominus x \in Over(D) /\ Num(Zero \ominus x, D) = 0 - Num(x, D)
      /\ x \ominus y \in Over(D) /\ Num(x \ominus y, D) = Num(x, D) - Num(y, D)
  BY <1>1, <1>2, OverDifference
<1>4. /\ (Zero \ominus y) \ominus (Zero \ominus x) \in Over(D)
      /\ Num((Zero \ominus y) \ominus (Zero \ominus x), D) = (0 - Num(y, D)) - (0 - Num(x, D))
  BY <1>3, OverDifference
<1> QED  BY <1>2, <1>3, <1>4, OverSame

\* The mass s holds after the step, against the mass before it and the audit.
SurfBalance(new, reset, s) ==
  LET source == Total([i \in Cols |-> SurfInflow(i) \oplus
                  ((reset[i] \ominus new[i].value) \otimes I(dept[i]))], Cols)
      exchange == Total([i \in Cols |-> ExchangeRate(i)], Cols)
      adjust == Total([i \in Cols |-> new[i].adjust], Cols)
      anchor == Total([i \in Cols |-> new[i].anchor], Cols)
      atmos  == Total([i \in Cols |-> new[i].atmos], Cols)
      boundary == Advected(0) \ominus Advected(NX)
  IN  /\ {source, exchange, adjust, anchor, atmos, boundary, EdgeDiffusion} \subseteq Fractions
      /\ SurfaceMass(s, dept)
           = SurfaceMass(sSurf, vsn) \oplus boundary \oplus EdgeDiffusion \oplus exchange
             \oplus source \oplus adjust \oplus anchor \oplus atmos

\* The surface budget of a step, grid against grid.
LEMMA SurfBudget ==
  ASSUME WaterType, ScalarType, NEW new, new = [i \in Cols |-> SurfUpdate(i)],
         NEW reset, reset = [i \in Cols |-> Reset(i, new[i].value)],
         NEW s, \A i \in Cols : s[i] = DryRule(i, reset[i])
  PROVE  SurfBalance(new, reset, s)
<1> DEFINE a      == [i \in Cols |-> sSurf[i] \otimes I(vsn[i])]
           adv    == [i \in Cols |-> Advected(i - 1) \ominus Advected(i)]
           dif    == [i \in Cols |-> Diffused(i) \ominus Diffused(i - 1)]
           ex     == [i \in Cols |-> ExchangeRate(i)]
           src    == [i \in Cols |-> SurfInflow(i) \oplus
                         ((reset[i] \ominus new[i].value) \otimes I(dept[i]))]
           adj    == [i \in Cols |-> new[i].adjust]
           anc    == [i \in Cols |-> new[i].anchor]
           atm    == [i \in Cols |-> new[i].atmos]
           m      == [i \in Cols |-> s[i] \otimes I(dept[i])]
<1>1. \A i \in Cols :
        /\ new[i].value \in Fractions /\ new[i].adjust \in Fractions
        /\ new[i].anchor \in Fractions /\ new[i].atmos \in Fractions
        /\ new[i].value \otimes I(dept[i])
             = (SurfIncrement(i) \oplus SurfInflow(i)) \oplus new[i].adjust \oplus new[i].atmos
               \oplus new[i].anchor
  BY SurfCell
<1>2. \A i \in Cols : reset[i] \in Fractions
  BY <1>1, SetupFacts DEF Reset, WaterType
<1>3. \A i \in Cols : dept[i] \in Nat /\ I(dept[i]) \in Fractions
  BY Arithmetic DEF WaterType
<1>4. \A i \in Cols : /\ a[i] \in Fractions /\ adv[i] \in Fractions /\ dif[i] \in Fractions
                      /\ ex[i] \in Fractions
  <2> SUFFICES ASSUME NEW i \in Cols
               PROVE  /\ a[i] \in Fractions /\ adv[i] \in Fractions /\ dif[i] \in Fractions
                      /\ ex[i] \in Fractions
    OBVIOUS
  <2>1. /\ Advected(i - 1) \in Fractions /\ Advected(i) \in Fractions
        /\ Diffused(i - 1) \in Fractions /\ Diffused(i) \in Fractions
    BY Places, SurfFaceType
  <2>2. ExchangeRate(i) \in Fractions /\ sSurf[i] \otimes I(vsn[i]) \in Fractions
    BY ExchangeType, IncrementType
  <2> QED  BY <2>1, <2>2, Arithmetic
<1>5. \A i \in Cols : (reset[i] \ominus new[i].value) \otimes I(dept[i]) \in Fractions
  BY <1>1, <1>2, <1>3, Arithmetic
<1>6. \A i \in Cols : /\ src[i] \in Fractions /\ adj[i] \in Fractions /\ anc[i] \in Fractions
                      /\ atm[i] \in Fractions
  BY <1>1, <1>5, IncrementType, Arithmetic
<1>7. ASSUME NEW i \in Cols
      PROVE  m[i] = a[i] \oplus adv[i] \oplus dif[i] \oplus ex[i] \oplus src[i]
                    \oplus adj[i] \oplus anc[i] \oplus atm[i]
  <2> DEFINE r == (reset[i] \ominus new[i].value) \otimes I(dept[i])
             sm == SurfIncrement(i) \oplus SurfInflow(i)
  <2>1. m[i] = reset[i] \otimes I(dept[i])
    <3>1. CASE Wet(i)
      BY <3>1 DEF DryRule
    <3>2. CASE ~Wet(i)
      <4>1. I(dept[i]) = Zero /\ s[i] = Zero
        BY <1>3, <3>2 DEF Wet, Zero, DryRule
      <4>2. Zero \otimes Zero = Zero /\ reset[i] \otimes Zero = Zero
        BY <1>2, Arithmetic, TimesZero
      <4> QED  BY <4>1, <4>2
    <3> QED  BY <3>1, <3>2
  <2>2. m[i] = (new[i].value \otimes I(dept[i])) \oplus r
    BY <1>1, <1>2, <1>3, <2>1, Replaced
  <2>3. m[i] = (sm \oplus new[i].adjust \oplus new[i].atmos \oplus new[i].anchor) \oplus r
    BY <1>1, <2>2
  <2>4. sm = (a[i] \oplus adv[i] \oplus dif[i] \oplus ex[i]) \oplus SurfInflow(i)
    BY DEF SurfIncrement
  <2>5. SurfInflow(i) \in Fractions /\ r \in Fractions
    BY <1>5, IncrementType
  <2>6. src[i] = SurfInflow(i) \oplus r
    OBVIOUS
  <2>7. new[i].adjust = adj[i] /\ new[i].anchor = anc[i] /\ new[i].atmos = atm[i]
    OBVIOUS
  <2> HIDE DEF r, a, adv, dif, ex, src, adj, anc, atm, m, sm
  <2>8. Held(a[i], adv[i], dif[i], ex[i], SurfInflow(i), adj[i], atm[i], anc[i], r)
          = Booked(a[i], adv[i], dif[i], ex[i], SurfInflow(i), adj[i], atm[i], anc[i], r)
    <3>1. /\ a[i] \in Fractions /\ adv[i] \in Fractions /\ dif[i] \in Fractions
          /\ ex[i] \in Fractions /\ adj[i] \in Fractions /\ anc[i] \in Fractions
          /\ atm[i] \in Fractions
      BY <1>4, <1>6
    <3> DEFINE t == <<a[i], adv[i], dif[i], ex[i], SurfInflow(i), adj[i], atm[i], anc[i], r>>
    <3>2. /\ t[1] = a[i] /\ t[2] = adv[i] /\ t[3] = dif[i] /\ t[4] = ex[i] /\ t[5] = SurfInflow(i)
          /\ t[6] = adj[i] /\ t[7] = atm[i] /\ t[8] = anc[i] /\ t[9] = r
      OBVIOUS
    <3> HIDE DEF t
    <3>3. \A j \in 1..9 : t[j] \in Fractions
      BY <2>5, <3>1, <3>2
    <3>4. Held(t[1], t[2], t[3], t[4], t[5], t[6], t[7], t[8], t[9])
            = Booked(t[1], t[2], t[3], t[4], t[5], t[6], t[7], t[8], t[9])
      BY <3>3, SurfOrder
    <3> QED  BY <3>2, <3>4
  <2> QED  BY <2>3, <2>4, <2>6, <2>7, <2>8 DEF Held, Booked
<1>8. Total(adv, Cols) = Advected(0) \ominus Advected(NX)
  <2> DEFINE F == [f \in XFaces |-> Zero \ominus Advected(f)]
  <2>1. \A f \in XFaces : Advected(f) \in Fractions /\ F[f] \in Fractions /\ F[f] = Zero \ominus Advected(f)
    BY SurfFaceType, Arithmetic
  <2>2. \A x, y \in Fractions : (Zero \ominus y) \ominus (Zero \ominus x) = x \ominus y
    BY NegativeDifference
  <2>3. \A i \in Cols : i \in XFaces /\ i - 1 \in XFaces /\ adv[i] = Advected(i - 1) \ominus Advected(i)
    BY Places
  <2> HIDE DEF F, adv
  <2>4. \A i \in Cols : adv[i] = F[i] \ominus F[i - 1]
    BY <2>1, <2>2, <2>3
  <2>5. Rises(adv, NX, F)
    BY <2>1, <2>4 DEF Rises, Cols, XFaces
  <2>6. Total(adv, Cols) = F[NX] \ominus F[0]
    BY <2>5, Places, TotalRow DEF Cols
  <2>7. /\ F[NX] = Zero \ominus Advected(NX) /\ F[0] = Zero \ominus Advected(0)
        /\ Advected(NX) \in Fractions /\ Advected(0) \in Fractions
    BY <2>1, Places
  <2> QED  BY <2>2, <2>6, <2>7
<1>9. Total(dif, Cols) = EdgeDiffusion
  <2> DEFINE F == [f \in XFaces |-> Diffused(f)]
  <2>1. \A f \in XFaces : F[f] \in Fractions /\ F[f] = Diffused(f)
    BY SurfFaceType
  <2>2. \A i \in Cols : i \in XFaces /\ i - 1 \in XFaces /\ dif[i] = Diffused(i) \ominus Diffused(i - 1)
    BY Places
  <2> HIDE DEF F, dif
  <2>3. \A i \in Cols : dif[i] = F[i] \ominus F[i - 1]
    BY <2>1, <2>2
  <2>4. Rises(dif, NX, F)
    BY <2>1, <2>3 DEF Rises, Cols, XFaces
  <2>5. Total(dif, Cols) = F[NX] \ominus F[0]
    BY <2>4, Places, TotalRow DEF Cols
  <2> QED  BY <2>1, <2>5, Places DEF EdgeDiffusion
<1>10. SurfaceMass(s, dept) = Total(m, Cols) /\ SurfaceMass(sSurf, vsn) = Total(a, Cols)
  BY DEF SurfaceMass
<1> HIDE DEF a, adv, dif, ex, src, adj, anc, atm, m
<1>11. Total(m, Cols) = Total(a, Cols) \oplus Total(adv, Cols) \oplus Total(dif, Cols) \oplus Total(ex, Cols)
                        \oplus Total(src, Cols) \oplus Total(adj, Cols) \oplus Total(anc, Cols)
                        \oplus Total(atm, Cols)
  BY <1>4, <1>6, <1>7, FiniteGrids, TotalEight
<1>12. {Total(src, Cols), Total(ex, Cols), Total(adj, Cols), Total(anc, Cols), Total(atm, Cols),
        Total(adv, Cols), Total(dif, Cols)} \subseteq Fractions
  BY <1>4, <1>6, FiniteGrids, TotalType
<1> QED  BY <1>8, <1>9, <1>10, <1>11, <1>12 DEF ex, src, adj, anc, atm, SurfBalance

-----------------------------------------------------------------------------
(* The soil.                                                               *)

LEMMA FlowType ==
  ASSUME WaterType
  PROVE  /\ \A f \in XFaces, k \in Layers : FlowX(<<f, k>>) \in Int
         /\ \A i \in Cols, k \in ZFaces : FlowZ(<<i, k>>) \in Int
<1>1. /\ \A f \in XFaces, k \in Layers : qx[<<f, k>>] \in Int /\ qxWin[<<f, k>>] \in Int
      /\ \A i \in Cols, k \in ZFaces : qz[<<i, k>>] \in Int /\ qzWin[<<i, k>>] \in Int
      /\ setup.sub \in Nat
  BY SetupFacts DEF WaterType
<1> QED  BY <1>1 DEF FlowX, FlowZ

LEMMA SoilFacts ==
  ASSUME WaterType, ScalarType
  PROVE  /\ \A i \in Slots, k \in Layers : sSubs[<<i, k>>] \in Fractions
         /\ \A k \in Layers : setup.dz[k] \in Nat \ {0}
         /\ \A k \in Layers, q \in Int : Courant(q, k) \in Fractions
         /\ \A k \in Layers, q \in Nat : Q(q, setup.dz[k]) \in Fractions
         /\ \A i \in Cols, k \in Layers : Above(i, k) \in Fractions /\ Below(i, k) \in Fractions
<1>1. \A i \in Slots, k \in Layers : sSubs[<<i, k>>] \in Fractions
  BY DEF ScalarType
<1>2. \A k \in Layers : setup.dz[k] \in Nat \ {0}
  BY SetupFacts DEF WaterType
<1>3. \A k \in Layers, q \in Nat : Q(q, setup.dz[k]) \in Fractions
  BY <1>2, Arithmetic
<1>4. \A k \in Layers, q \in Int : Courant(q, k) \in Fractions
  BY <1>3, MagnitudeType DEF Courant
<1>5. ASSUME NEW i \in Cols, NEW k \in Layers
      PROVE  Above(i, k) \in Fractions /\ Below(i, k) \in Fractions
  <2>1. i \in Slots /\ 1 \in Layers
    BY Places
  <2>2. k > 1 => k - 1 \in Layers
    BY Places DEF Layers
  <2>3. k < NZ => k + 1 \in Layers
    BY Places DEF Layers
  <2>4. sSurf[i] \in Fractions
    BY <2>1 DEF ScalarType
  <2> QED  BY <1>1, <2>1, <2>2, <2>3, <2>4 DEF Above, Below
<1> QED  BY <1>1, <1>2, <1>3, <1>4, <1>5

LEMMA SideMassType ==
  ASSUME WaterType, ScalarType, NEW f \in XFaces, NEW k \in Layers
  PROVE  SideMass(f, k) \in Fractions
<1> DEFINE q == FlowX(<<f, k>>)
           s(i) == sSubs[<<i, k>>]
<1>1. q \in Int /\ I(q) \in Fractions
  BY FlowType, Arithmetic
<1>2. /\ f \in Int /\ s(f) \in Fractions /\ s(f + 1) \in Fractions
      /\ f > 0 => s(f - 1) \in Fractions
      /\ f < NX => s(f + 2) \in Fractions
  <2>1. /\ f \in Int /\ f \in Slots /\ f + 1 \in Slots
        /\ f > 0 => f - 1 \in Slots
        /\ f < NX => f + 2 \in Slots
    BY Places DEF Slots, XFaces
  <2> QED  BY <2>1, SoilFacts
<1>3. (q > 0 => Q(q, setup.dz[k]) \in Fractions) /\ (q < 0 => Q(-q, setup.dz[k]) \in Fractions)
  <2>1. (q > 0 => q \in Nat) /\ (q < 0 => -q \in Nat)
    BY <1>1
  <2> HIDE DEF q
  <2> QED  BY <2>1, SoilFacts
<1>4. Zero \in Fractions /\ (I(setup.mol * setup.dz[k]) \in Fractions)
  <2>1. setup.mol * setup.dz[k] \in Int
    BY SetupFacts DEF WaterType
  <2> QED  BY <2>1, Arithmetic
<1>5. SideFace(f, k) \in Fractions
  <2>1. CASE q > 0
    <3>1. SideFace(f, k) = IF setup.superbee /\ f < NX
                           THEN TvdSuperbee(s(f), s(f + 1), s(f + 2), Q(q, setup.dz[k])) ELSE s(f + 1)
      BY <2>1 DEF SideFace
    <3> HIDE DEF q, s
    <3> QED  BY <1>2, <1>3, <2>1, <3>1, TvdType
  <2>2. CASE q < 0
    <3>1. SideFace(f, k) = IF setup.superbee /\ f > 0
                           THEN TvdSuperbee(s(f + 1), s(f), s(f - 1), Q(-q, setup.dz[k])) ELSE s(f)
      BY <1>1, <2>2 DEF SideFace
    <3> HIDE DEF q, s
    <3> QED  BY <1>2, <1>3, <2>2, <3>1, TvdType
  <2>3. CASE q = 0
    BY <1>4, <2>3 DEF SideFace
  <2> QED  BY <1>1, <2>1, <2>2, <2>3
<1>6. Dispersed(f, k) \in Fractions
  <2>1. s(f + 1) \ominus s(f) \in Fractions
    BY <1>2, Arithmetic
  <2>2. I(setup.mol * setup.dz[k]) \otimes (s(f + 1) \ominus s(f)) \in Fractions
    BY <1>4, <2>1, Arithmetic
  <2> QED  BY <1>4, <2>2 DEF Dispersed
<1>7. I(q) \otimes SideFace(f, k) \in Fractions
  BY <1>1, <1>5, Arithmetic
<1> QED  BY <1>6, <1>7, Arithmetic DEF SideMass

LEMMA BelowType ==
  ASSUME WaterType, ScalarType, NEW i \in Cols, NEW k \in Layers
  PROVE  DispersedBelow(i, k) \in Fractions /\ DispersedTop(i) \in Fractions
<1>1. /\ i \in Slots /\ 1 \in Layers /\ (k < NZ => k + 1 \in Layers) /\ sSurf[i] \in Fractions
      /\ setup.mol \in Nat /\ Zero \in Fractions
  <2>1. Zero \in Fractions
    BY Arithmetic
  <2>2. i \in Slots /\ 1 \in Layers /\ (k < NZ => k + 1 \in Layers)
    BY Places DEF Layers
  <2>3. sSurf[i] \in Fractions /\ setup.mol \in Nat
    BY <2>2, SetupFacts DEF WaterType, ScalarType
  <2> QED  BY <2>1, <2>2, <2>3
<1>2. /\ sSubs[<<i, k>>] \in Fractions /\ sSubs[<<i, 1>>] \in Fractions
      /\ k < NZ => sSubs[<<i, k + 1>>] \in Fractions
      /\ Q(setup.mol, setup.dz[k]) \in Fractions /\ Q(setup.mol, setup.dz[1]) \in Fractions
  BY <1>1, SoilFacts
<1>3. /\ sSubs[<<i, 1>>] \ominus sSurf[i] \in Fractions
      /\ k < NZ => sSubs[<<i, k + 1>>] \ominus sSubs[<<i, k>>] \in Fractions
  BY <1>1, <1>2, Arithmetic
<1>4. /\ Q(setup.mol, setup.dz[1]) \otimes (sSubs[<<i, 1>>] \ominus sSurf[i]) \in Fractions
      /\ k < NZ => Q(setup.mol, setup.dz[k]) \otimes (sSubs[<<i, k + 1>>] \ominus sSubs[<<i, k>>]) \in Fractions
  BY <1>2, <1>3, Arithmetic
<1> QED  BY <1>1, <1>4 DEF DispersedBelow, DispersedTop

LEMMA LowerMassType ==
  ASSUME WaterType, ScalarType, NEW i \in Cols, NEW k \in Layers
  PROVE  LowerFace(i, k) \in Fractions /\ LowerMass(i, k) \in Fractions
<1> DEFINE q == FlowZ(<<i, k + 1>>)
<1>1. /\ q \in Int /\ I(q) \in Fractions /\ i \in Slots /\ Zero \in Fractions
      /\ k \in Nat /\ (k < NZ => k + 1 \in Layers)
  <2>1. q \in Int
    BY FlowType, Places
  <2>2. i \in Slots /\ k \in Nat /\ (k < NZ => k + 1 \in Layers)
    BY Places DEF Layers
  <2> HIDE DEF q
  <2> QED  BY <2>1, <2>2, Arithmetic
<1>2. /\ sSubs[<<i, k>>] \in Fractions /\ Above(i, k) \in Fractions /\ Below(i, k) \in Fractions
      /\ Courant(q, k) \in Fractions
      /\ k < NZ => sSubs[<<i, k + 1>>] \in Fractions /\ Below(i, k + 1) \in Fractions
  <2> HIDE DEF q
  <2> QED  BY <1>1, SoilFacts
<1>3. LowerFace(i, k) \in Fractions
  <2>1. CASE q > 0
    <3>1. LowerFace(i, k)
            = IF setup.superbee /\ k < NZ
              THEN TvdSuperbee(sSubs[<<i, k>>], sSubs[<<i, k + 1>>], Below(i, k + 1), Courant(q, k))
              ELSE Below(i, k)
      BY <2>1 DEF LowerFace
    <3> HIDE DEF q
    <3> QED  BY <1>2, <3>1, TvdType
  <2>2. CASE q < 0
    <3>1. LowerFace(i, k)
            = IF setup.superbee
              THEN TvdSuperbee(Below(i, k), sSubs[<<i, k>>], Above(i, k), Courant(q, k))
              ELSE sSubs[<<i, k>>]
      BY <1>1, <2>2 DEF LowerFace
    <3> HIDE DEF q
    <3> QED  BY <1>2, <3>1, TvdType
  <2>3. CASE q = 0
    BY <1>1, <2>3 DEF LowerFace
  <2> QED  BY <1>1, <2>1, <2>2, <2>3
<1>4. I(q) \otimes LowerFace(i, k) \in Fractions
  BY <1>1, <1>3, Arithmetic
<1> QED  BY <1>3, <1>4, BelowType, Arithmetic DEF LowerMass

LEMMA UpperMassType ==
  ASSUME WaterType, ScalarType, NEW i \in Cols, NEW k \in Layers
  PROVE  UpperFace(i, k) \in Fractions /\ UpperMass(i, k) \in Fractions
<1> DEFINE q == FlowZ(<<i, k>>)
<1>1. /\ q \in Int /\ I(q) \in Fractions /\ i \in Slots /\ Zero \in Fractions
      /\ k \in Nat /\ 1 \in Layers /\ (k # 1 => k - 1 \in Layers)
  BY FlowType, Places, Arithmetic DEF Layers
<1>2. /\ sSubs[<<i, k>>] \in Fractions /\ Below(i, k) \in Fractions /\ sSubs[<<i, 1>>] \in Fractions
      /\ Courant(q, k) \in Fractions
      /\ k # 1 => sSubs[<<i, k - 1>>] \in Fractions /\ Above(i, k - 1) \in Fractions
  <2> HIDE DEF q
  <2> QED  BY <1>1, SoilFacts
<1>3. TopFace(i) \in Fractions
  BY <1>1, <1>2 DEF TopFace
<1>4. UpperFace(i, k) \in Fractions
  <2>0. CASE k = 1
    BY <1>3, <2>0 DEF UpperFace
  <2>1. CASE k # 1 /\ q > 0
    <3>1. UpperFace(i, k)
            = IF setup.superbee
              THEN TvdSuperbee(sSubs[<<i, k - 1>>], sSubs[<<i, k>>], Below(i, k), Courant(q, k))
              ELSE sSubs[<<i, k>>]
      BY <2>1 DEF UpperFace
    <3> HIDE DEF q
    <3> QED  BY <1>2, <2>1, <3>1, TvdType
  <2>2. CASE k # 1 /\ q < 0
    <3>1. UpperFace(i, k)
            = IF setup.superbee
              THEN TvdSuperbee(sSubs[<<i, k>>], sSubs[<<i, k - 1>>], Above(i, k - 1), Courant(q, k))
              ELSE sSubs[<<i, k - 1>>]
      BY <1>1, <2>2 DEF UpperFace
    <3> HIDE DEF q
    <3> QED  BY <1>2, <2>2, <3>1, TvdType
  <2>3. CASE k # 1 /\ q = 0
    BY <1>1, <2>3 DEF UpperFace
  <2> QED  BY <1>1, <2>0, <2>1, <2>2, <2>3
<1>5. I(q) \otimes UpperFace(i, k) \in Fractions
  BY <1>1, <1>4, Arithmetic
<1>6. DispersedTop(i) \in Fractions /\ (k # 1 => DispersedBelow(i, k - 1) \in Fractions)
  BY <1>1, BelowType
<1> QED  BY <1>4, <1>5, <1>6, Arithmetic DEF UpperMass

LEMMA IntegerSum ==
  ASSUME NEW k \in Int, NEW l \in Int
  PROVE  /\ I(l) = I(k) \oplus I(l - k) /\ I(k - l) = I(k) \ominus I(l)
         /\ I(k + l) = I(k) \oplus I(l)
<1>1. \A n \in Int : I(n) \in Over(1) /\ Num(I(n), 1) = n
  BY OverInteger
<1>2. /\ I(k) \oplus I(l - k) \in Over(1) /\ Num(I(k) \oplus I(l - k), 1) = k + (l - k)
      /\ I(k) \ominus I(l) \in Over(1) /\ Num(I(k) \ominus I(l), 1) = k - l
      /\ I(k) \oplus I(l) \in Over(1) /\ Num(I(k) \oplus I(l), 1) = k + l
  BY <1>1, OverSum, OverDifference
<1>3. I(l) \in Over(1) /\ Num(I(l), 1) = k + (l - k)
  BY <1>1
<1>4. I(k - l) \in Over(1) /\ Num(I(k - l), 1) = k - l /\ I(k + l) \in Over(1) /\ Num(I(k + l), 1) = k + l
  BY <1>1
<1>5. \A a, b \in Over(1) : Num(a, 1) = Num(b, 1) => a = b
  BY OverSame
<1> QED  BY <1>2, <1>3, <1>4, <1>5

\* The divergence, the basis and the grains of a cell are integers, and its
\* increment is a fraction.
LEMMA GroundTypes ==
  ASSUME WaterType, ScalarType, NEW c \in Cells
  PROVE  /\ WaterBasis(c) + GrainBasis(c[2]) \in Int /\ GroundFluxVolume(c) \in Int
         /\ GrainBasis(c[2]) \in Nat
         /\ sSubs[c] \in Fractions /\ GroundIncrement(c) \in Fractions
<1> DEFINE i == c[1]
           k == c[2]
<1>1. i \in Cols /\ k \in Layers /\ c = <<i, k>> /\ i \in Slots /\ i \in XFaces /\ i - 1 \in XFaces
      /\ k \in ZFaces /\ k + 1 \in ZFaces /\ 1 \in Layers
  <2>1. i \in Cols /\ k \in Layers /\ c = <<i, k>>
    BY DEF Cells
  <2> QED  BY <2>1, Places
<1>2. WaterBasis(c) \in Int /\ GrainBasis(k) \in Nat
  <2>1. wcn[c] \in Int /\ wcT[c] \in Int
    BY DEF WaterType
  <2>2. setup.kap \in Nat /\ setup.dz[k] \in Nat
    BY <1>1, SetupFacts DEF WaterType
  <2> QED  BY <2>1, <2>2 DEF WaterBasis, GrainBasis
<1>3. Divergence(c) \in Int
  <2>1. /\ qx[<<i, k>>] \in Int /\ qx[<<i - 1, k>>] \in Int
        /\ qxWin[<<i, k>>] \in Int /\ qxWin[<<i - 1, k>>] \in Int
        /\ qz[<<i, k>>] \in Int /\ qz[<<i, k + 1>>] \in Int
        /\ qzWin[<<i, k>>] \in Int /\ qzWin[<<i, k + 1>>] \in Int
    BY <1>1 DEF WaterType
  <2> QED  BY <2>1 DEF Divergence
<1>4. sSubs[c] \in Fractions
  BY <1>1, SoilFacts
<1>5. /\ SideMass(i, k) \in Fractions /\ SideMass(i - 1, k) \in Fractions
      /\ LowerMass(i, k) \in Fractions /\ UpperMass(i, k) \in Fractions
  BY <1>1, SideMassType, LowerMassType, UpperMassType
<1>6. (IF Coupled /\ k = 1 THEN ssee[i] ELSE Zero) \in Fractions
  BY <1>1, Arithmetic DEF ScalarType
<1>7. WaterBasis(c) + GrainBasis(k) \in Int /\ GroundFluxVolume(c) \in Int
  BY <1>2, <1>3 DEF GroundFluxVolume
<1>8. sSubs[c] \otimes I(WaterBasis(c) + GrainBasis(k)) \in Fractions
  BY <1>4, <1>7, Arithmetic
<1>9. GroundIncrement(c)
        = (sSubs[c] \otimes I(WaterBasis(c) + GrainBasis(k)))
          \oplus (SideMass(i, k) \ominus SideMass(i - 1, k))
          \oplus (LowerMass(i, k) \ominus UpperMass(i, k))
          \ominus (IF Coupled /\ k = 1 THEN ssee[i] ELSE Zero)
  BY DEF GroundIncrement
<1> HIDE DEF i, k
<1>10. GroundIncrement(c) \in Fractions
  BY <1>5, <1>6, <1>8, <1>9, Arithmetic
<1> QED  BY <1>2, <1>4, <1>7, <1>10 DEF i, k

LEMMA GroundStencilType ==
  ASSUME WaterType, ScalarType, NEW c \in Cells
  PROVE  /\ GroundStencil(c) \subseteq Fractions /\ IsFiniteSet(GroundStencil(c))
         /\ GroundStencil(c) # {} => /\ Highest(GroundStencil(c)) \in Fractions
                                     /\ Lowest(GroundStencil(c)) \in Fractions
<1> DEFINE i == c[1]
           k == c[2]
           row  == {m \in {i - 1, i + 1} : m \in Cols \/ (setup.thermal /\ m \in setup.sides)}
           col  == {k - 1, k + 1} \cap Layers
           A == {sSubs[<<n, k>>] : n \in row}
           B == {sSubs[<<i, n>>] : n \in col}
           C == IF k = 1 /\ Coupled /\ Wet(i) THEN {sSurf[i]} ELSE {}
<1>1. GroundStencil(c) = IF ~setup.conductive THEN {} ELSE A \cup B \cup C
  BY DEF GroundStencil
<1>2. i \in Cols /\ k \in Layers /\ i \in Slots /\ i - 1 \in Slots /\ i + 1 \in Slots
  BY Places DEF Cells, Cols, Slots
<1>3. row \subseteq Slots
  BY <1>2
<1>4. col \subseteq Layers
  OBVIOUS
<1>5. IsFiniteSet({i - 1} \cup {i + 1}) /\ IsFiniteSet({k - 1} \cup {k + 1})
  BY FS_Singleton, FS_Union
<1>6. row \in SUBSET ({i - 1} \cup {i + 1}) /\ col \in SUBSET ({k - 1} \cup {k + 1})
  OBVIOUS
<1> HIDE DEF row, col
<1>7. IsFiniteSet(row) /\ IsFiniteSet(col)
  BY <1>5, <1>6, FS_Subset
<1>8. IsFiniteSet(A)
  <2> DEFINE F == [n \in row |-> sSubs[<<n, k>>]]
  <2>1. F \in Surjection(row, A)
    BY DEF Surjection
  <2> QED  BY <1>7, <2>1, FS_Surjection
<1>9. IsFiniteSet(B)
  <2> DEFINE F == [n \in col |-> sSubs[<<i, n>>]]
  <2>1. F \in Surjection(col, B)
    BY DEF Surjection
  <2> QED  BY <1>7, <2>1, FS_Surjection
<1>10. IsFiniteSet(C)
  BY FS_EmptySet, FS_Singleton
<1>11. A \subseteq Fractions
  BY <1>2, <1>3, SoilFacts
<1>12. B \subseteq Fractions
  BY <1>2, <1>4, SoilFacts
<1>13. C \subseteq Fractions
  BY <1>2 DEF ScalarType
<1> HIDE DEF A, B, C, i, k
<1>14. IsFiniteSet(A \cup B \cup C) /\ IsFiniteSet({})
  BY <1>8, <1>9, <1>10, FS_Union, FS_EmptySet
<1>15. GroundStencil(c) \subseteq Fractions /\ IsFiniteSet(GroundStencil(c))
  BY <1>1, <1>11, <1>12, <1>13, <1>14
<1> QED  BY <1>15, Extremes DEF IsHighest, IsLowest

LEMMA GroundLimitedType ==
  ASSUME WaterType, ScalarType, NEW c \in Cells, NEW raw \in Fractions
  PROVE  GroundLimited(c, raw) \in Fractions
<1>1. LimHi \in Fractions /\ LimLo \in Fractions
  BY Limits DEF WaterType
<1> DEFINE S   == GroundStencil(c)
           top == <<c[1], 1>>
           v   == GroundFluxVolume(c)
           hi  == (IF S = {} THEN LimLo ELSE Highest(S))
                  \oplus (IF EvapTop(c) /\ setup.allowance THEN Q(1, 100) ELSE Zero)
           lo  == IF S = {} THEN LimHi ELSE Lowest(S)
           interior == v + (IF Consistent THEN qzWin[top] ELSE qz[top])
           factor   == Q(interior, v)
           anchorHi == Higher(hi, sSubs[c])
           anchorLo == Lower(lo, sSubs[c])
           widened  == /\ c[2] = 1 /\ v > 0
                       /\ c[1] \in setup.cauchy \/ (EvapTop(c) /\ ~setup.allowance)
           w == Window(c)
<1>2. w = IF ~widened THEN [hi |-> hi, lo |-> lo]
          ELSE IF interior <= 0 THEN [hi |-> anchorHi, lo |-> anchorLo]
          ELSE IF interior > v THEN [hi |-> anchorHi \otimes factor, lo |-> anchorLo]
          ELSE [hi |-> anchorHi, lo |-> anchorLo \otimes factor]
  BY DEF Window
<1>3. v \in Int /\ sSubs[c] \in Fractions
  BY GroundTypes
<1>4. interior \in Int
  <2>1. top \in Cols \X ZFaces
    BY Places DEF Cells
  <2>2. qzWin[top] \in Int /\ qz[top] \in Int
    BY <2>1 DEF WaterType
  <2> QED  BY <1>3, <2>2
<1>5. widened => factor \in Fractions
  BY <1>3, <1>4, Arithmetic
<1>6. hi \in Fractions /\ lo \in Fractions
  <2>1. Q(1, 100) \in Fractions /\ Zero \in Fractions
    BY Arithmetic
  <2>2. (IF S = {} THEN LimLo ELSE Highest(S)) \in Fractions /\ lo \in Fractions
    BY <1>1, GroundStencilType
  <2>3. (IF EvapTop(c) /\ setup.allowance THEN Q(1, 100) ELSE Zero) \in Fractions
    BY <2>1
  <2> HIDE DEF S
  <2> QED  BY <2>2, <2>3, Arithmetic
<1> HIDE DEF hi, lo, factor, widened, v, interior
<1>7. anchorHi \in Fractions /\ anchorLo \in Fractions
  BY <1>3, <1>6, Chosen
<1> HIDE DEF anchorHi, anchorLo
<1>8. widened => anchorHi \otimes factor \in Fractions /\ anchorLo \otimes factor \in Fractions
  BY <1>5, <1>7, Arithmetic
<1>9. w.hi \in Fractions /\ w.lo \in Fractions
  BY <1>2, <1>6, <1>7, <1>8
<1> HIDE DEF w
<1> QED  BY <1>1, <1>9 DEF GroundLimited, w

LEMMA GroundCell ==
  ASSUME WaterType, ScalarType, NEW c \in Cells
  PROVE  LET u == GroundUpdate(c)
         IN  /\ u.value \in Fractions /\ u.adjust \in Fractions /\ u.anchor \in Fractions
             /\ u.value \otimes I(wc[c] + GrainBasis(c[2]))
                  = GroundIncrement(c) \oplus u.adjust \oplus u.anchor
<1> DEFINE v   == GroundFluxVolume(c)
           sm  == GroundIncrement(c)
           raw == IF v > 0 THEN sm \oslash I(v) ELSE Zero
           value == GroundLimited(c, raw)
           now == wc[c] + GrainBasis(c[2])
           adjust == IF v > 0 THEN (value \ominus raw) \otimes I(v) ELSE Zero \ominus sm
           anchor == value \otimes I(IF v > 0 THEN now - v ELSE now)
<1>0. GroundUpdate(c) = [value |-> value, adjust |-> adjust, anchor |-> anchor]
  BY DEF GroundUpdate
<1>1. v \in Int /\ sm \in Fractions /\ now \in Int
  BY GroundTypes DEF WaterType
<1> HIDE DEF v, sm, now
<1>2. raw \in Fractions /\ (v > 0 => raw \otimes I(v) = sm)
  <2>1. CASE v > 0
    <3>1. I(v) # Zero /\ I(v) \in Fractions
      BY <1>1, <2>1, NotZero, Arithmetic
    <3> QED  BY <1>1, <2>1, <3>1, DivideTimes
  <2>2. CASE ~(v > 0)
    BY <2>2, Arithmetic
  <2> QED  BY <2>1, <2>2
<1> HIDE DEF raw
<1>3. value \in Fractions
  BY <1>2, GroundLimitedType
<1> HIDE DEF value
<1>4. I(v) \in Fractions /\ I(now) \in Fractions /\ I(now - v) \in Fractions
  BY <1>1, Arithmetic
<1>5. I(now) = I(v) \oplus I(now - v)
  BY <1>1, IntegerSum
<1>6. CASE v > 0
  <2>1. value \ominus raw \in Fractions
    BY <1>2, <1>3, Arithmetic
  <2>2. adjust \in Fractions /\ anchor \in Fractions
    BY <1>3, <1>4, <1>6, <2>1, Arithmetic
  <2>3. value \otimes I(v) = sm \oplus adjust
    BY <1>2, <1>3, <1>4, <1>6, Replaced
  <2>4. anchor = value \otimes I(now - v)
    BY <1>6
  <2> HIDE DEF adjust, anchor
  <2>5. value \otimes (I(v) \oplus I(now - v)) = (value \otimes I(v)) \oplus (value \otimes I(now - v))
    BY <1>3, <1>4, Distributes
  <2>6. value \otimes I(now) = sm \oplus adjust \oplus anchor
    BY <1>5, <2>3, <2>4, <2>5
  <2> QED  BY <1>0, <1>3, <2>2, <2>6 DEF now, sm
<1>7. CASE ~(v > 0)
  <2>1. adjust = Zero \ominus sm /\ anchor = value \otimes I(now)
    BY <1>7
  <2>2. adjust \in Fractions /\ anchor \in Fractions
    BY <1>1, <1>3, <1>4, <2>1, Arithmetic
  <2> HIDE DEF adjust, anchor
  <2>3. sm \oplus adjust \oplus anchor = anchor
    BY <1>1, <2>1, <2>2, PlusZero
  <2> QED  BY <1>0, <1>3, <2>1, <2>2, <2>3 DEF now, sm
<1> QED  BY <1>6, <1>7

\* Small rearrangements.
LEMMA CommonPart ==
  ASSUME NEW x \in Fractions, NEW y \in Fractions, NEW d \in Fractions
  PROVE  (x \oplus d) \ominus (y \oplus d) = x \ominus y
<1>1. PICK D \in Nat \ {0} : x \in Over(D) /\ y \in Over(D) /\ d \in Over(D)
  BY Three
<1>2. {Num(x, D), Num(y, D), Num(d, D)} \subseteq Int
  BY <1>1, OverNum
<1>3. /\ x \oplus d \in Over(D) /\ Num(x \oplus d, D) = Num(x, D) + Num(d, D)
      /\ y \oplus d \in Over(D) /\ Num(y \oplus d, D) = Num(y, D) + Num(d, D)
      /\ x \ominus y \in Over(D) /\ Num(x \ominus y, D) = Num(x, D) - Num(y, D)
  BY <1>1, OverSum, OverDifference
<1>4. /\ (x \oplus d) \ominus (y \oplus d) \in Over(D)
      /\ Num((x \oplus d) \ominus (y \oplus d), D) = (Num(x, D) + Num(d, D)) - (Num(y, D) + Num(d, D))
  BY <1>3, OverDifference
<1> QED  BY <1>2, <1>3, <1>4, OverSame

LEMMA ThroughMiddle ==
  ASSUME NEW x \in Fractions, NEW y \in Fractions, NEW d \in Fractions
  PROVE  x \ominus y = (d \ominus y) \oplus (x \ominus d)
<1>1. PICK D \in Nat \ {0} : x \in Over(D) /\ y \in Over(D) /\ d \in Over(D)
  BY Three
<1>2. {Num(x, D), Num(y, D), Num(d, D)} \subseteq Int
  BY <1>1, OverNum
<1>3. /\ d \ominus y \in Over(D) /\ Num(d \ominus y, D) = Num(d, D) - Num(y, D)
      /\ x \ominus d \in Over(D) /\ Num(x \ominus d, D) = Num(x, D) - Num(d, D)
      /\ x \ominus y \in Over(D) /\ Num(x \ominus y, D) = Num(x, D) - Num(y, D)
  BY <1>1, OverDifference
<1>4. /\ (d \ominus y) \oplus (x \ominus d) \in Over(D)
      /\ Num((d \ominus y) \oplus (x \ominus d), D) = (Num(d, D) - Num(y, D)) + (Num(x, D) - Num(d, D))
  BY <1>3, OverSum
<1> QED  BY <1>2, <1>3, <1>4, OverSame

LEMMA PlusCommutes ==
  ASSUME NEW x \in Fractions, NEW y \in Fractions
  PROVE  x \oplus y = y \oplus x
<1>1. PICK D \in Nat \ {0} : x \in Over(D) /\ y \in Over(D)
  BY Three
<1>2. {Num(x, D), Num(y, D)} \subseteq Int
  BY <1>1, OverNum
<1>3. /\ x \oplus y \in Over(D) /\ Num(x \oplus y, D) = Num(x, D) + Num(y, D)
      /\ y \oplus x \in Over(D) /\ Num(y \oplus x, D) = Num(y, D) + Num(x, D)
  BY <1>1, OverSum
<1> QED  BY <1>2, <1>3, OverSame

\* Two limited values of one donor differ by its slope and their Courant numbers.
LEMMA TvdGap ==
  ASSUME NEW sp \in Fractions, NEW sc \in Fractions, NEW sm \in Fractions,
         NEW c \in Fractions, NEW d \in Fractions
  PROVE  TvdSuperbee(sp, sc, sm, c) \ominus TvdSuperbee(sp, sc, sm, d)
           = Slope(sp, sc, sm) \otimes (d \ominus c)
<1> DEFINE s == Slope(sp, sc, sm)
           a == s \otimes (I(1) \ominus c)
           b == s \otimes (I(1) \ominus d)
<1>1. s \in Fractions /\ I(1) \in Fractions
  BY SlopeType, Arithmetic
<1> HIDE DEF s
<1>2. I(1) \ominus c \in Fractions /\ I(1) \ominus d \in Fractions /\ d \ominus c \in Fractions
  BY <1>1, Arithmetic
<1>3. a \in Fractions /\ b \in Fractions
  BY <1>1, <1>2, Arithmetic
<1>4. a \ominus b = s \otimes ((I(1) \ominus c) \ominus (I(1) \ominus d))
  BY <1>1, <1>2, Distributes
<1>5. (I(1) \ominus c) \ominus (I(1) \ominus d) = d \ominus c
  <2>1. PICK D \in Nat \ {0} : I(1) \in Over(D) /\ c \in Over(D) /\ d \in Over(D)
    BY <1>1, Three
  <2>2. {Num(I(1), D), Num(c, D), Num(d, D)} \subseteq Int
    BY <2>1, OverNum
  <2>3. /\ I(1) \ominus c \in Over(D) /\ Num(I(1) \ominus c, D) = Num(I(1), D) - Num(c, D)
        /\ I(1) \ominus d \in Over(D) /\ Num(I(1) \ominus d, D) = Num(I(1), D) - Num(d, D)
        /\ d \ominus c \in Over(D) /\ Num(d \ominus c, D) = Num(d, D) - Num(c, D)
    BY <2>1, OverDifference
  <2>4. /\ (I(1) \ominus c) \ominus (I(1) \ominus d) \in Over(D)
        /\ Num((I(1) \ominus c) \ominus (I(1) \ominus d), D)
             = (Num(I(1), D) - Num(c, D)) - (Num(I(1), D) - Num(d, D))
    BY <2>3, OverDifference
  <2> QED  BY <2>2, <2>3, <2>4, OverSame
<1>6. TvdSuperbee(sp, sc, sm, c) = sc \oplus a /\ TvdSuperbee(sp, sc, sm, d) = sc \oplus b
  BY DEF TvdSuperbee, s
<1> HIDE DEF a, b
<1>7. (sc \oplus a) \ominus (sc \oplus b) = a \ominus b
  <2>1. sc \oplus a = a \oplus sc /\ sc \oplus b = b \oplus sc
    BY <1>3, PlusCommutes
  <2> QED  BY <1>3, <2>1, CommonPart
<1> QED  BY <1>4, <1>5, <1>6, <1>7 DEF s

\* What leaves a layer below and enters the next differ by the gap the
\* properties name.
Gap(c) == IF setup.superbee THEN FaceGap(c[1], c[2]) ELSE Zero

LEMMA FaceGapIs ==
  ASSUME WaterType, ScalarType, NEW i \in Cols, NEW k \in Layers
  PROVE  /\ Gap(<<i, k>>) \in Fractions
         /\ k = NZ => Gap(<<i, k>>) = Zero
         /\ k < NZ => LowerMass(i, k) \ominus UpperMass(i, k + 1) = Gap(<<i, k>>)
<1> DEFINE q == FlowZ(<<i, k + 1>>)
           L == LowerFace(i, k)
           U == UpperFace(i, k + 1)
           slope == IF q > 0 THEN Slope(sSubs[<<i, k>>], sSubs[<<i, k + 1>>], Below(i, k + 1))
                    ELSE Slope(sSubs[<<i, k + 1>>], sSubs[<<i, k>>], Above(i, k))
           cs == Courant(q, k + 1) \ominus Courant(q, k)
<1>0. k \in Nat /\ k > 0 /\ k <= NZ /\ NZ \in Nat /\ (k + 1) - 1 = k /\ k + 1 # 1 /\ ~(k + 1 = 1)
  BY Places DEF Layers
<1>1. FaceGap(i, k) = IF q = 0 \/ k = NZ THEN Zero ELSE I(q) \otimes slope \otimes cs
  BY DEF FaceGap
<1>2. Zero \in Fractions
  BY Arithmetic
<1>3. CASE k = NZ
  BY <1>0, <1>1, <1>2, <1>3 DEF Gap
<1>4. CASE k # NZ
  <2>1. k < NZ /\ k + 1 \in Layers /\ i \in Slots /\ k + 1 \in ZFaces
    BY <1>0, <1>4, Places DEF Layers
  <2>2. q \in Int
    BY <2>1, FlowType
  <2>3. /\ sSubs[<<i, k>>] \in Fractions /\ sSubs[<<i, k + 1>>] \in Fractions
        /\ Below(i, k + 1) \in Fractions /\ Above(i, k) \in Fractions
        /\ Below(i, k) = sSubs[<<i, k + 1>>]
        /\ Courant(q, k + 1) \in Fractions /\ Courant(q, k) \in Fractions
    <3>1. Below(i, k) = sSubs[<<i, k + 1>>]
      BY <2>1 DEF Below
    <3> HIDE DEF q
    <3> QED  BY <2>1, <2>2, <3>1, SoilFacts
  <2>4. I(q) \in Fractions /\ slope \in Fractions /\ cs \in Fractions
    <3>1. slope \in Fractions
      BY <2>3, SlopeType
    <3> HIDE DEF slope, q
    <3> QED  BY <2>2, <2>3, <3>1, Arithmetic
  <2>5. L \in Fractions /\ U \in Fractions
    BY <2>1, LowerMassType, UpperMassType
  <2>6. LowerMass(i, k) \ominus UpperMass(i, k + 1) = I(q) \otimes (L \ominus U)
    <3> DEFINE x == I(q) \otimes L
               y == I(q) \otimes U
               d == DispersedBelow(i, k)
    <3>1. LowerMass(i, k) = x \oplus d
      BY DEF LowerMass
    <3>2. UpperMass(i, k + 1) = y \oplus d
      BY <1>0 DEF UpperMass
    <3>3. x \in Fractions /\ y \in Fractions /\ d \in Fractions
      BY <2>4, <2>5, BelowType, Arithmetic
    <3>4. x \ominus y = I(q) \otimes (L \ominus U)
      <4> HIDE DEF L, U, q, slope, cs
      <4> QED  BY <2>4, <2>5, Distributes
    <3> HIDE DEF x, y, d
    <3> QED  BY <3>1, <3>2, <3>3, <3>4, CommonPart
  <2>7. CASE q = 0
    <3>1. I(q) = Zero /\ Gap(<<i, k>>) = Zero
      BY <1>1, <2>7 DEF Zero, Gap
    <3>2. L \ominus U \in Fractions
      BY <2>5, Arithmetic
    <3> HIDE DEF L, U, q
    <3>3. Zero \otimes (L \ominus U) = (L \ominus U) \otimes Zero
      BY <1>2, <3>2, TimesCommutes
    <3>4. Zero \otimes (L \ominus U) = Zero
      BY <3>2, <3>3, TimesZero
    <3> QED  BY <1>2, <1>4, <2>6, <3>1, <3>4
  <2>8. CASE q # 0 /\ setup.superbee
    <3>1. L \ominus U = slope \otimes cs
      <4>1. CASE q > 0
        <5>1. L = TvdSuperbee(sSubs[<<i, k>>], sSubs[<<i, k + 1>>], Below(i, k + 1), Courant(q, k))
          BY <2>1, <2>8, <4>1 DEF LowerFace
        <5>2. U = TvdSuperbee(sSubs[<<i, k>>], sSubs[<<i, k + 1>>], Below(i, k + 1), Courant(q, k + 1))
          BY <1>0, <2>8, <4>1 DEF UpperFace
        <5>3. slope = Slope(sSubs[<<i, k>>], sSubs[<<i, k + 1>>], Below(i, k + 1))
          BY <4>1
        <5> DEFINE A == sSubs[<<i, k>>]
                   B == sSubs[<<i, k + 1>>]
                   C == Below(i, k + 1)
                   c == Courant(q, k)
                   d == Courant(q, k + 1)
        <5>4. A \in Fractions /\ B \in Fractions /\ C \in Fractions /\ c \in Fractions /\ d \in Fractions
          BY <2>3
        <5>5. L = TvdSuperbee(A, B, C, c) /\ U = TvdSuperbee(A, B, C, d) /\ slope = Slope(A, B, C)
              /\ cs = d \ominus c
          BY <5>1, <5>2, <5>3
        <5> HIDE DEF L, U, slope, q, A, B, C, c, d, cs
        <5>6. TvdSuperbee(A, B, C, c) \ominus TvdSuperbee(A, B, C, d) = Slope(A, B, C) \otimes (d \ominus c)
          BY <5>4, TvdGap
        <5> QED  BY <5>5, <5>6
      <4>2. CASE ~(q > 0)
        <5>0. q < 0
          BY <2>2, <2>8, <4>2
        <5>1. L = TvdSuperbee(sSubs[<<i, k + 1>>], sSubs[<<i, k>>], Above(i, k), Courant(q, k))
          BY <2>3, <2>8, <4>2, <5>0 DEF LowerFace
        <5>2. U = TvdSuperbee(sSubs[<<i, k + 1>>], sSubs[<<i, k>>], Above(i, k), Courant(q, k + 1))
          BY <1>0, <2>8, <4>2, <5>0 DEF UpperFace
        <5>3. slope = Slope(sSubs[<<i, k + 1>>], sSubs[<<i, k>>], Above(i, k))
          BY <4>2
        <5> DEFINE A == sSubs[<<i, k + 1>>]
                   B == sSubs[<<i, k>>]
                   C == Above(i, k)
                   c == Courant(q, k)
                   d == Courant(q, k + 1)
        <5>4. A \in Fractions /\ B \in Fractions /\ C \in Fractions /\ c \in Fractions /\ d \in Fractions
          BY <2>3
        <5>5. L = TvdSuperbee(A, B, C, c) /\ U = TvdSuperbee(A, B, C, d) /\ slope = Slope(A, B, C)
              /\ cs = d \ominus c
          BY <5>1, <5>2, <5>3
        <5> HIDE DEF L, U, slope, q, A, B, C, c, d, cs
        <5>6. TvdSuperbee(A, B, C, c) \ominus TvdSuperbee(A, B, C, d) = Slope(A, B, C) \otimes (d \ominus c)
          BY <5>4, TvdGap
        <5> QED  BY <5>5, <5>6
      <4> QED  BY <4>1, <4>2
    <3>2. Gap(<<i, k>>) = (I(q) \otimes slope) \otimes cs
      BY <1>1, <1>4, <2>8 DEF Gap
    <3> HIDE DEF L, U, slope, cs, q
    <3>3. (I(q) \otimes slope) \otimes cs = I(q) \otimes (slope \otimes cs)
      BY <2>4, TimesAssociates
    <3>4. (I(q) \otimes slope) \otimes cs \in Fractions
      BY <2>4, Arithmetic
    <3> QED  BY <1>4, <2>6, <3>1, <3>2, <3>3, <3>4
  <2>9. CASE q # 0 /\ ~setup.superbee
    <3>1. L = U
      <4>1. CASE q > 0
        BY <1>0, <2>3, <2>9, <4>1 DEF LowerFace, UpperFace
      <4>2. CASE ~(q > 0)
        <5>0. q < 0
          BY <2>2, <2>9, <4>2
        <5> QED  BY <1>0, <2>3, <2>9, <4>2, <5>0 DEF LowerFace, UpperFace
      <4> QED  BY <4>1, <4>2
    <3>2. Gap(<<i, k>>) = Zero
      BY <2>9 DEF Gap
    <3> HIDE DEF L, U, q
    <3>3. L \ominus U = Zero /\ I(q) \otimes Zero = Zero
      BY <2>4, <2>5, <3>1, PlusZero, TimesZero
    <3> QED  BY <1>2, <1>4, <2>6, <3>2, <3>3
  <2> QED  BY <2>7, <2>8, <2>9
<1> QED  BY <1>3, <1>4

LEMMA TotalZero ==
  ASSUME NEW S, IsFiniteSet(S), NEW f, \A x \in S : f[x] = Zero
  PROVE  Total(f, S) = Zero
<1>1. Zero \in Fractions /\ Zero \oplus Zero = Zero
  BY Arithmetic, PlusZero
<1>2. \A x \in S : f[x] \in Fractions /\ f[x] \in Fractions /\ f[x] = f[x] \oplus f[x]
  BY <1>1
<1>3. Total(f, S) = Total(f, S) \oplus Total(f, S) /\ Total(f, S) \in Fractions
  BY <1>2, TotalPlus, TotalType
<1>4. Total(f, S) = Total(f, S) \ominus Total(f, S)
  BY <1>3, PlusMinus
<1> QED  BY <1>3, <1>4, PlusZero

\* The totals over the soil of what crosses the side faces, the faces within
\* the columns and the surface.
LEMMA SideTotal ==
  ASSUME WaterType, ScalarType
  PROVE  LET f == [c \in Cells |-> SideMass(c[1], c[2]) \ominus SideMass(c[1] - 1, c[2])]
         IN  /\ \A c \in Cells : f[c] \in Fractions
             /\ Total(f, Cells)
                  = Total([k \in Layers |-> SideMass(NX, k) \ominus SideMass(0, k)], Layers)
<1> DEFINE f == [c \in Cells |-> SideMass(c[1], c[2]) \ominus SideMass(c[1] - 1, c[2])]
           place == [d \in Layers \X (1..NX) |-> <<d[2], d[1]>>]
           F == [d \in Layers \X (0..NX) |-> SideMass(d[2], d[1])]
<1>1. NX \in Nat /\ IsFiniteSet(Layers) /\ IsFiniteSet(Cells)
  BY Places, FiniteGrids
<1>2. Lines(Cells, Layers, NX, place)
  <2>1. Cells = {place[d] : d \in Layers \X (1..NX)}
    <3>1. \A c \in Cells : <<c[2], c[1]>> \in Layers \X (1..NX) /\ place[<<c[2], c[1]>>] = c
      BY DEF Cells, Cols
    <3>2. \A d \in Layers \X (1..NX) : place[d] \in Cells
      BY DEF Cells, Cols
    <3> HIDE DEF place
    <3> QED  BY <3>1, <3>2
  <2>2. \A c, d \in Layers \X (1..NX) : place[c] = place[d] => c = d
    OBVIOUS
  <2> HIDE DEF place
  <2> QED  BY <2>1, <2>2 DEF Lines
<1>3. \A k \in Layers, i \in 0..NX : F[<<k, i>>] \in Fractions /\ F[<<k, i>>] = SideMass(i, k)
  BY SideMassType DEF XFaces
<1>4. \A k \in Layers, i \in 1..NX : f[place[<<k, i>>]] = F[<<k, i>>] \ominus F[<<k, i - 1>>]
  <2> SUFFICES ASSUME NEW k \in Layers, NEW i \in 1..NX
               PROVE  f[place[<<k, i>>]] = F[<<k, i>>] \ominus F[<<k, i - 1>>]
    OBVIOUS
  <2>1. i \in 0..NX /\ i - 1 \in 0..NX
    BY <1>1
  <2>2. place[<<k, i>>] = <<i, k>> /\ <<i, k>> \in Cells
    BY DEF Cells, Cols
  <2>3. f[<<i, k>>] = SideMass(i, k) \ominus SideMass(i - 1, k)
    BY <2>2
  <2> HIDE DEF f, F, place
  <2> QED  BY <1>3, <2>1, <2>2, <2>3
<1>5. [k \in Layers |-> F[<<k, NX>>] \ominus F[<<k, 0>>]]
        = [k \in Layers |-> SideMass(NX, k) \ominus SideMass(0, k)]
  BY <1>1, <1>3
<1> HIDE DEF f, F, place
<1>6. Climb(f, Layers, NX, place, F)
  BY <1>3, <1>4 DEF Climb
<1>7. /\ Total(f, Cells) = Total([k \in Layers |-> F[<<k, NX>>] \ominus F[<<k, 0>>]], Layers)
      /\ \A c \in Cells : f[c] \in Fractions
  BY <1>1, <1>2, <1>6, TotalLines
<1> QED  BY <1>5, <1>7 DEF f

\* Down a column.
LEMMA ColumnTotal ==
  ASSUME NEW F, NEW f, \A i \in Cols, k \in 0..NZ : F[<<i, k>>] \in Fractions,
         \A i \in Cols, k \in Layers : f[<<i, k>>] = F[<<i, k>>] \ominus F[<<i, k - 1>>]
  PROVE  /\ \A c \in Cells : f[c] \in Fractions
         /\ Total(f, Cells) = Total([i \in Cols |-> F[<<i, NZ>>] \ominus F[<<i, 0>>]], Cols)
<1> DEFINE place == [d \in Cols \X (1..NZ) |-> d]
<1>1. NZ \in Nat /\ IsFiniteSet(Cols) /\ IsFiniteSet(Cells)
  BY Places, FiniteGrids
<1>2. Lines(Cells, Cols, NZ, place)
  BY DEF Lines, Cells, Layers
<1>3. \A i \in Cols, k \in 1..NZ : place[<<i, k>>] = <<i, k>>
  OBVIOUS
<1> HIDE DEF place
<1>4. Climb(f, Cols, NZ, place, F)
  BY <1>3 DEF Climb, Layers
<1> QED  BY <1>1, <1>2, <1>4, TotalLines

LEMMA DownTotal ==
  ASSUME WaterType, ScalarType
  PROVE  LET f == [c \in Cells |-> LowerMass(c[1], c[2]) \ominus UpperMass(c[1], c[2])]
         IN  /\ \A c \in Cells : f[c] \in Fractions
             /\ Total(f, Cells)
                  = Total([i \in Cols |-> LowerMass(i, NZ) \ominus UpperMass(i, 1)], Cols)
                    \oplus Total([c \in Cells |-> Gap(c)], Cells)
<1> DEFINE f == [c \in Cells |-> LowerMass(c[1], c[2]) \ominus UpperMass(c[1], c[2])]
           g == [c \in Cells |-> Gap(c)]
           F == [d \in Cols \X (0..NZ) |-> IF d[2] = 0 THEN UpperMass(d[1], 1)
                    ELSE IF d[2] = NZ THEN LowerMass(d[1], NZ) ELSE UpperMass(d[1], d[2] + 1)]
           z == [c \in Cells |-> F[c] \ominus F[<<c[1], c[2] - 1>>]]
<1>1. \A i \in Cols, k \in Layers : /\ LowerMass(i, k) \in Fractions /\ UpperMass(i, k) \in Fractions
                                    /\ Gap(<<i, k>>) \in Fractions
  BY LowerMassType, UpperMassType, FaceGapIs
<1>2. ASSUME NEW i \in Cols, NEW k \in 0..NZ
      PROVE  /\ F[<<i, k>>] \in Fractions
             /\ F[<<i, k>>] = IF k = NZ THEN LowerMass(i, NZ) ELSE UpperMass(i, k + 1)
  <2>1. NZ > 0 /\ NZ \in Nat /\ NZ \in Layers /\ (k < NZ => k + 1 \in Layers) /\ (k # NZ => k < NZ)
    BY Places DEF Layers
  <2>2. F[<<i, k>>] = IF k = 0 THEN UpperMass(i, 1)
                      ELSE IF k = NZ THEN LowerMass(i, NZ) ELSE UpperMass(i, k + 1)
    OBVIOUS
  <2>3. F[<<i, k>>] = IF k = NZ THEN LowerMass(i, NZ) ELSE UpperMass(i, k + 1)
    BY <2>1, <2>2
  <2> QED  BY <1>1, <2>1, <2>3
<1> HIDE DEF F
<1>3. ASSUME NEW i \in Cols, NEW k \in Layers
      PROVE  /\ z[<<i, k>>] = F[<<i, k>>] \ominus F[<<i, k - 1>>]
             /\ z[<<i, k>>] \in Fractions /\ g[<<i, k>>] \in Fractions
             /\ f[<<i, k>>] = z[<<i, k>>] \oplus g[<<i, k>>]
             /\ f[<<i, k>>] \in Fractions
  <2>1. /\ <<i, k>> \in Cells /\ k \in 0..NZ /\ k - 1 \in 0..NZ /\ k - 1 # NZ /\ (k - 1) + 1 = k
        /\ k <= NZ /\ NZ \in Nat
    BY Places DEF Cells, Layers
  <2>2. /\ z[<<i, k>>] = F[<<i, k>>] \ominus F[<<i, k - 1>>]
        /\ g[<<i, k>>] = Gap(<<i, k>>)
        /\ f[<<i, k>>] = LowerMass(i, k) \ominus UpperMass(i, k)
    BY <2>1
  <2>3. F[<<i, k - 1>>] = UpperMass(i, k) /\ F[<<i, k - 1>>] \in Fractions
    BY <1>2, <2>1
  <2>4. F[<<i, k>>] \in Fractions
    BY <1>2, <2>1
  <2> HIDE DEF z, g, f
  <2>5. /\ z[<<i, k>>] \in Fractions /\ g[<<i, k>>] \in Fractions /\ f[<<i, k>>] \in Fractions
    BY <1>1, <2>2, <2>3, <2>4, Arithmetic
  <2>6. f[<<i, k>>] = z[<<i, k>>] \oplus g[<<i, k>>]
    <3>1. CASE k = NZ
      <4>1. F[<<i, k>>] = LowerMass(i, k) /\ g[<<i, k>>] = Zero
        BY <1>2, <2>1, <2>2, <3>1, FaceGapIs
      <4> QED  BY <2>2, <2>3, <2>5, <4>1, PlusZero
    <3>2. CASE k # NZ
      <4>1. k < NZ
        BY <2>1, <3>2
      <4>2. F[<<i, k>>] = UpperMass(i, k + 1)
        BY <1>2, <2>1, <3>2
      <4>3. LowerMass(i, k) \ominus UpperMass(i, k + 1) = g[<<i, k>>]
        BY <2>2, <4>1, FaceGapIs
      <4> DEFINE x == LowerMass(i, k)
                 y == UpperMass(i, k)
                 d == UpperMass(i, k + 1)
      <4>4. x \in Fractions /\ y \in Fractions /\ d \in Fractions
        BY <1>1, <2>4, <4>2
      <4>5. x \ominus y = (d \ominus y) \oplus (x \ominus d)
        <5> HIDE DEF x, y, d
        <5> QED  BY <4>4, ThroughMiddle
      <4> QED  BY <2>2, <2>3, <4>2, <4>3, <4>5
    <3> QED  BY <3>1, <3>2
  <2> QED  BY <2>2, <2>5, <2>6
<1>4. \A c \in Cells : \E i \in Cols, k \in Layers : c = <<i, k>>
  BY DEF Cells
<1>5. [i \in Cols |-> F[<<i, NZ>>] \ominus F[<<i, 0>>]]
        = [i \in Cols |-> LowerMass(i, NZ) \ominus UpperMass(i, 1)]
  <2>1. \A i \in Cols : F[<<i, NZ>>] = LowerMass(i, NZ) /\ F[<<i, 0>>] = UpperMass(i, 1)
    <3>1. NZ \in 0..NZ /\ 0 \in 0..NZ /\ 0 # NZ /\ 0 + 1 = 1
      BY Places
    <3> QED  BY <1>2, <3>1
  <2> QED  BY <2>1
<1> HIDE DEF f, g, z
<1>6. \A c \in Cells : /\ z[c] \in Fractions /\ g[c] \in Fractions /\ f[c] = z[c] \oplus g[c]
                       /\ f[c] \in Fractions
  BY <1>3, <1>4
<1>7. Total(f, Cells) = Total(z, Cells) \oplus Total(g, Cells)
  BY <1>6, FiniteGrids, TotalPlus
<1>8. Total(z, Cells) = Total([i \in Cols |-> F[<<i, NZ>>] \ominus F[<<i, 0>>]], Cols)
  <2>1. \A i \in Cols, k \in 0..NZ : F[<<i, k>>] \in Fractions
    BY <1>2
  <2>2. \A i \in Cols, k \in Layers : z[<<i, k>>] = F[<<i, k>>] \ominus F[<<i, k - 1>>]
    BY <1>3
  <2> QED  BY <2>1, <2>2, ColumnTotal
<1> QED  BY <1>5, <1>6, <1>7, <1>8 DEF f, g

Exchanged == IF Coupled THEN Total(ssee, Cols) ELSE Zero

LEMMA ExchangeTotal ==
  ASSUME WaterType, ScalarType
  PROVE  LET f == [c \in Cells |-> IF Coupled /\ c[2] = 1 THEN ssee[c[1]] ELSE Zero]
         IN  /\ \A c \in Cells : f[c] \in Fractions
             /\ Total(f, Cells) = Exchanged /\ Exchanged \in Fractions
<1> DEFINE f == [c \in Cells |-> IF Coupled /\ c[2] = 1 THEN ssee[c[1]] ELSE Zero]
           F == [d \in Cols \X (0..NZ) |-> IF Coupled /\ d[2] > 0 THEN ssee[d[1]] ELSE Zero]
           e == [i \in Cols |-> F[<<i, NZ>>] \ominus F[<<i, 0>>]]
<1>1. Zero \in Fractions
  BY Arithmetic
<1>2. \A i \in Cols : ssee[i] \in Fractions
  BY DEF ScalarType
<1>3. \A i \in Cols, k \in 0..NZ : /\ F[<<i, k>>] = IF Coupled /\ k > 0 THEN ssee[i] ELSE Zero
                                   /\ F[<<i, k>>] \in Fractions
  BY <1>1, <1>2
<1> HIDE DEF F
<1>4. \A i \in Cols, k \in Layers : f[<<i, k>>] = F[<<i, k>>] \ominus F[<<i, k - 1>>]
  <2> SUFFICES ASSUME NEW i \in Cols, NEW k \in Layers
               PROVE  f[<<i, k>>] = F[<<i, k>>] \ominus F[<<i, k - 1>>]
    OBVIOUS
  <2>1. <<i, k>> \in Cells /\ k \in 0..NZ /\ k - 1 \in 0..NZ /\ k \in Nat /\ k > 0
    BY Places DEF Cells, Layers
  <2>2. f[<<i, k>>] = IF Coupled /\ k = 1 THEN ssee[i] ELSE Zero
    BY <2>1
  <2>3. /\ F[<<i, k>>] = IF Coupled THEN ssee[i] ELSE Zero
        /\ F[<<i, k - 1>>] = IF Coupled /\ k # 1 THEN ssee[i] ELSE Zero
    BY <1>3, <2>1
  <2>4. ssee[i] \ominus Zero = ssee[i] /\ ssee[i] \ominus ssee[i] = Zero /\ Zero \ominus Zero = Zero
    BY <1>1, <1>2, PlusZero
  <2> HIDE DEF f
  <2> QED  BY <2>2, <2>3, <2>4
<1> HIDE DEF f
<1>5. Total(f, Cells) = Total(e, Cols) /\ \A c \in Cells : f[c] \in Fractions
  BY <1>3, <1>4, ColumnTotal
<1>6. \A i \in Cols : e[i] = IF Coupled THEN ssee[i] ELSE Zero
  <2> SUFFICES ASSUME NEW i \in Cols PROVE e[i] = IF Coupled THEN ssee[i] ELSE Zero
    OBVIOUS
  <2>1. NZ \in 0..NZ /\ 0 \in 0..NZ /\ NZ > 0 /\ ~(0 > 0)
    BY Places
  <2>2. F[<<i, NZ>>] = (IF Coupled THEN ssee[i] ELSE Zero) /\ F[<<i, 0>>] = Zero
    BY <1>3, <2>1
  <2>3. ssee[i] \ominus Zero = ssee[i] /\ Zero \ominus Zero = Zero
    BY <1>1, <1>2, PlusZero
  <2> QED  BY <2>2, <2>3
<1> HIDE DEF e
<1>7. CASE Coupled
  <2>1. \A i \in Cols : ssee[i] \in Fractions /\ e[i] = ssee[i]
    BY <1>2, <1>6, <1>7
  <2>2. Total(e, Cols) = Total(ssee, Cols) /\ Total(ssee, Cols) \in Fractions
    BY <2>1, FiniteGrids, TotalSame, TotalType
  <2> QED  BY <1>5, <1>7, <2>2 DEF Exchanged, f
<1>8. CASE ~Coupled
  <2>1. Total(e, Cols) = Zero
    BY <1>6, <1>8, FiniteGrids, TotalZero
  <2> QED  BY <1>1, <1>5, <1>8, <2>1 DEF Exchanged, f
<1> QED  BY <1>7, <1>8

\* What the columns take in through their ends is what the audit books there.
LEMMA ColumnEnds ==
  ASSUME WaterType, ScalarType
  PROVE  /\ BoundaryIn = Total([k \in Layers |-> SideMass(NX, k) \ominus SideMass(0, k)], Layers)
                          \oplus Total([i \in Cols |-> LowerMass(i, NZ) \ominus UpperMass(i, 1)], Cols)
         /\ {BoundaryIn, Total([k \in Layers |-> SideMass(NX, k) \ominus SideMass(0, k)], Layers),
             Total([i \in Cols |-> LowerMass(i, NZ) \ominus UpperMass(i, 1)], Cols)} \subseteq Fractions
<1> DEFINE ends == [k \in Layers |-> SideMass(NX, k) \ominus SideMass(0, k)]
           full == [i \in Cols |-> LowerMass(i, NZ) \ominus UpperMass(i, 1)]
           top(i) == IF Coupled THEN DispersedTop(i) ELSE I(FlowZ(<<i, 1>>)) \otimes UpperFace(i, 1)
           booked == [i \in Cols |-> LowerMass(i, NZ) \ominus top(i)]
<1>1. 1 \in Layers /\ NZ \in Layers /\ 0 \in XFaces /\ NX \in XFaces /\ 1 \in ZFaces
  BY Places
<1>2. \A k \in Layers : ends[k] \in Fractions
  BY <1>1, SideMassType, Arithmetic
<1>3. \A i \in Cols : full[i] \in Fractions
  BY <1>1, LowerMassType, UpperMassType, Arithmetic
<1>4. ASSUME NEW i \in Cols PROVE UpperMass(i, 1) = top(i)
  <2> DEFINE q == FlowZ(<<i, 1>>)
  <2>1. q \in Int /\ UpperFace(i, 1) \in Fractions /\ DispersedTop(i) \in Fractions
    BY <1>1, FlowType, UpperMassType, BelowType
  <2>2. I(q) \in Fractions
    BY <2>1, Arithmetic
  <2>3. I(q) \otimes UpperFace(i, 1) \in Fractions
    BY <2>1, <2>2, Arithmetic
  <2>4. UpperMass(i, 1) = (I(q) \otimes UpperFace(i, 1)) \oplus DispersedTop(i)
    BY DEF UpperMass
  <2> HIDE DEF q
  <2>5. CASE Coupled
    <3>1. UpperFace(i, 1) = Zero
      BY <2>5 DEF UpperFace, TopFace
    <3>2. I(q) \otimes UpperFace(i, 1) = Zero
      BY <2>2, <3>1, TimesZero
    <3> QED  BY <2>1, <2>4, <2>5, <3>2, PlusZero
  <2>6. CASE ~Coupled
    <3>1. DispersedTop(i) = Zero
      BY <2>6 DEF DispersedTop
    <3> QED  BY <2>3, <2>4, <2>6, <3>1, PlusZero DEF q
  <2> QED  BY <2>5, <2>6
<1>5. full = booked
  BY <1>4
<1>6. BoundaryIn = Total(ends, Layers) \oplus Total(booked, Cols)
  BY DEF BoundaryIn
<1> HIDE DEF ends, full, booked
<1>7. Total(ends, Layers) \in Fractions /\ Total(full, Cols) \in Fractions
  BY <1>2, <1>3, FiniteGrids, TotalType
<1>8. BoundaryIn = Total(ends, Layers) \oplus Total(full, Cols)
  BY <1>5, <1>6
<1>9. BoundaryIn \in Fractions
  BY <1>7, <1>8, Arithmetic
<1> QED  BY <1>7, <1>8, <1>9 DEF ends, full

\* The mass the increments start from.
BasisMass == Total([c \in Cells |-> sSubs[c] \otimes I(WaterBasis(c) + GrainBasis(c[2]))], Cells)

GapTotal == Total([c \in Cells |-> Gap(c)], Cells)

\* The mass the new cells hold, against the basis and what the audit is made of.
SoilBalance(new) ==
  LET adjust == Total([c \in Cells |-> new[c].adjust], Cells)
      anchor == Total([c \in Cells |-> new[c].anchor], Cells)
  IN  /\ {adjust, anchor, BasisMass, GapTotal, Exchanged} \subseteq Fractions
      /\ \A c \in Cells : new[c].value \in Fractions
      /\ GroundMass([c \in Cells |-> new[c].value], wc)
           = BasisMass
             \oplus Total([k \in Layers |-> SideMass(NX, k) \ominus SideMass(0, k)], Layers)
             \oplus ((Total([i \in Cols |-> LowerMass(i, NZ) \ominus UpperMass(i, 1)], Cols)
                      \oplus GapTotal) \ominus Exchanged)
             \oplus adjust \oplus anchor

\* The soil's budget of a step, grid against grid.
LEMMA SoilBudget ==
  ASSUME WaterType, ScalarType, NEW new, new = [c \in Cells |-> GroundUpdate(c)]
  PROVE  SoilBalance(new)
<1> DEFINE b   == [c \in Cells |-> sSubs[c] \otimes I(WaterBasis(c) + GrainBasis(c[2]))]
           sd  == [c \in Cells |-> SideMass(c[1], c[2]) \ominus SideMass(c[1] - 1, c[2])]
           lu  == [c \in Cells |-> LowerMass(c[1], c[2]) \ominus UpperMass(c[1], c[2])]
           ex  == [c \in Cells |-> IF Coupled /\ c[2] = 1 THEN ssee[c[1]] ELSE Zero]
           le  == [c \in Cells |-> lu[c] \ominus ex[c]]
           adj == [c \in Cells |-> new[c].adjust]
           anc == [c \in Cells |-> new[c].anchor]
           s2  == [c \in Cells |-> b[c] \oplus sd[c]]
           s3  == [c \in Cells |-> s2[c] \oplus le[c]]
           s4  == [c \in Cells |-> s3[c] \oplus adj[c]]
           value == [c \in Cells |-> new[c].value]
           m   == [c \in Cells |-> value[c] \otimes I(wc[c] + GrainBasis(c[2]))]
<1>1. \A c \in Cells :
        /\ value[c] \in Fractions /\ adj[c] \in Fractions /\ anc[c] \in Fractions
        /\ m[c] = GroundIncrement(c) \oplus adj[c] \oplus anc[c]
  BY GroundCell
<1>2. \A c \in Cells : b[c] \in Fractions
  BY GroundTypes, Arithmetic
<1>3. \A c \in Cells : sd[c] \in Fractions /\ lu[c] \in Fractions /\ ex[c] \in Fractions
  BY SideTotal, DownTotal, ExchangeTotal
<1>4. \A c \in Cells : GroundIncrement(c) = b[c] \oplus sd[c] \oplus le[c]
  BY DEF GroundIncrement
<1>5. GroundMass(value, wc) = Total(m, Cells) /\ BasisMass = Total(b, Cells)
  BY DEF GroundMass, BasisMass
<1>6. /\ Total(sd, Cells) = Total([k \in Layers |-> SideMass(NX, k) \ominus SideMass(0, k)], Layers)
      /\ Total(lu, Cells) = Total([i \in Cols |-> LowerMass(i, NZ) \ominus UpperMass(i, 1)], Cols)
                            \oplus GapTotal
      /\ Total(ex, Cells) = Exchanged /\ Exchanged \in Fractions
  BY SideTotal, DownTotal, ExchangeTotal DEF GapTotal
<1>7. \A c \in Cells : le[c] \in Fractions /\ le[c] = lu[c] \ominus ex[c]
  <2> HIDE DEF lu, ex
  <2> QED  BY <1>3, Arithmetic
<1> HIDE DEF b, sd, lu, ex, le
<1>8. \A c \in Cells : s2[c] \in Fractions /\ s2[c] = b[c] \oplus sd[c]
  BY <1>2, <1>3, Arithmetic
<1> HIDE DEF s2
<1>9. \A c \in Cells : s3[c] \in Fractions /\ s3[c] = s2[c] \oplus le[c]
  BY <1>7, <1>8, Arithmetic
<1> HIDE DEF s3
<1>10. \A c \in Cells : s4[c] \in Fractions /\ s4[c] = s3[c] \oplus adj[c]
  <2> HIDE DEF adj
  <2> QED  BY <1>1, <1>9, Arithmetic
<1> HIDE DEF s4, m, adj, anc
<1>11. \A c \in Cells : m[c] = s4[c] \oplus anc[c]
  BY <1>1, <1>4, <1>8, <1>9, <1>10
<1>12. Total(le, Cells) = Total(lu, Cells) \ominus Total(ex, Cells)
  BY <1>3, <1>7, FiniteGrids, TotalMinus
<1>13. Total(s2, Cells) = Total(b, Cells) \oplus Total(sd, Cells)
  BY <1>2, <1>3, <1>8, FiniteGrids, TotalPlus
<1>14. Total(s3, Cells) = Total(s2, Cells) \oplus Total(le, Cells)
  BY <1>7, <1>8, <1>9, FiniteGrids, TotalPlus
<1>15. Total(s4, Cells) = Total(s3, Cells) \oplus Total(adj, Cells)
  BY <1>1, <1>9, <1>10, FiniteGrids, TotalPlus
<1>16. Total(m, Cells) = Total(s4, Cells) \oplus Total(anc, Cells)
  BY <1>1, <1>10, <1>11, FiniteGrids, TotalPlus
<1>17. {Total(adj, Cells), Total(anc, Cells), BasisMass} \subseteq Fractions
  BY <1>1, <1>2, <1>5, FiniteGrids, TotalType
<1>18. GapTotal \in Fractions
  <2> DEFINE g == [c \in Cells |-> Gap(c)]
  <2>1. \A c \in Cells : g[c] \in Fractions
    BY FaceGapIs DEF Cells
  <2> HIDE DEF g
  <2>2. Total(g, Cells) \in Fractions
    BY <2>1, FiniteGrids, TotalType
  <2> QED  BY <2>2 DEF g, GapTotal
<1> HIDE DEF value
<1>19. GroundMass(value, wc)
         = BasisMass \oplus Total(sd, Cells) \oplus (Total(lu, Cells) \ominus Total(ex, Cells))
           \oplus Total(adj, Cells) \oplus Total(anc, Cells)
  BY <1>5, <1>12, <1>13, <1>14, <1>15, <1>16
<1> QED  BY <1>1, <1>6, <1>17, <1>18, <1>19 DEF value, adj, anc, SoilBalance

\* The gap of the basis is what a legacy step's basis has beyond the water its
\* scalar was last based on.
LEMMA BasisMassIs ==
  ASSUME WaterType, ScalarType, history \in Histories, Consistent => wcT = history.wc
  PROVE  /\ BasisMass = GroundMass(sSubs, history.wc) \oplus BasisGap
         /\ GroundMass(sSubs, history.wc) \in Fractions /\ BasisGap \in Fractions
<1> DEFINE h == history.wc
           a == [c \in Cells |-> sSubs[c] \otimes I(h[c] + GrainBasis(c[2]))]
           g == [c \in Cells |-> sSubs[c] \otimes I(wcn[c] - h[c])]
           b == [c \in Cells |-> sSubs[c] \otimes I(WaterBasis(c) + GrainBasis(c[2]))]
<1>1. h \in [Cells -> Int] /\ wcn \in [Cells -> Int]
  BY DEF Histories, WaterType
<1>2. \A c \in Cells : /\ h[c] \in Int /\ wcn[c] \in Int /\ GrainBasis(c[2]) \in Int
                       /\ sSubs[c] \in Fractions /\ WaterBasis(c) + GrainBasis(c[2]) \in Int
  <2> HIDE DEF h
  <2> QED  BY <1>1, GroundTypes
<1>3. GroundMass(sSubs, history.wc) = Total(a, Cells) /\ BasisMass = Total(b, Cells)
  BY DEF GroundMass, BasisMass
<1>4. \A c \in Cells : /\ I(h[c] + GrainBasis(c[2])) \in Fractions /\ I(wcn[c] - h[c]) \in Fractions
                       /\ I(WaterBasis(c) + GrainBasis(c[2])) \in Fractions
  <2>1. \A c \in Cells : h[c] + GrainBasis(c[2]) \in Int /\ wcn[c] - h[c] \in Int
    BY <1>2
  <2> HIDE DEF h
  <2> QED  BY <1>2, <2>1, Arithmetic
<1>5. \A c \in Cells : a[c] \in Fractions /\ g[c] \in Fractions /\ b[c] \in Fractions
  <2> HIDE DEF h
  <2> QED  BY <1>2, <1>4, Arithmetic
<1>6. Total(a, Cells) \in Fractions
  <2> HIDE DEF a
  <2> QED  BY <1>5, FiniteGrids, TotalType
<1>7. CASE Consistent
  <2>1. b = a
    BY <1>7 DEF WaterBasis
  <2>2. BasisGap = Zero
    BY <1>7 DEF BasisGap
  <2>3. Total(a, Cells) \oplus Zero = Total(a, Cells) /\ Zero \in Fractions
    <3> HIDE DEF a
    <3> QED  BY <1>6, PlusZero, Arithmetic
  <2> HIDE DEF a, b
  <2> QED  BY <1>3, <1>6, <2>1, <2>2, <2>3
<1>8. CASE ~Consistent
  <2>1. BasisGap = Total(g, Cells)
    BY <1>8 DEF BasisGap
  <2>2. ASSUME NEW c \in Cells PROVE b[c] = a[c] \oplus g[c]
    <3> DEFINE n == h[c] + GrainBasis(c[2])
               k == wcn[c] - h[c]
    <3>1. n \in Int /\ k \in Int /\ n + k = wcn[c] + GrainBasis(c[2])
      BY <1>2
    <3>2. b[c] = sSubs[c] \otimes I(n + k)
      BY <1>8, <3>1 DEF WaterBasis
    <3>3. a[c] = sSubs[c] \otimes I(n) /\ g[c] = sSubs[c] \otimes I(k)
      OBVIOUS
    <3> HIDE DEF n, k, a, b, g
    <3>4. I(n + k) = I(n) \oplus I(k) /\ I(n) \in Fractions /\ I(k) \in Fractions
      BY <3>1, IntegerSum, Arithmetic
    <3>5. sSubs[c] \otimes (I(n) \oplus I(k)) = (sSubs[c] \otimes I(n)) \oplus (sSubs[c] \otimes I(k))
      BY <1>2, <3>4, Distributes
    <3> QED  BY <3>2, <3>3, <3>4, <3>5
  <2> HIDE DEF a, b, g
  <2>3. Total(b, Cells) = Total(a, Cells) \oplus Total(g, Cells)
    BY <1>5, <2>2, FiniteGrids, TotalPlus
  <2>4. Total(g, Cells) \in Fractions
    BY <1>5, FiniteGrids, TotalType
  <2> QED  BY <1>3, <1>6, <2>1, <2>3, <2>4
<1> QED  BY <1>7, <1>8

\* What the ledger calls the slope gap is the total of the gaps.
LEMMA SlopeGapIs == SlopeGap = GapTotal
<1>1. CASE setup.superbee
  <2>1. [c \in Cells |-> FaceGap(c[1], c[2])] = [c \in Cells |-> Gap(c)]
    BY <1>1 DEF Gap
  <2> QED  BY <1>1, <2>1 DEF SlopeGap, GapTotal
<1>2. CASE ~setup.superbee
  <2> DEFINE g == [c \in Cells |-> Gap(c)]
  <2>1. \A c \in Cells : g[c] = Zero
    BY <1>2 DEF Gap
  <2> HIDE DEF g
  <2>2. Total(g, Cells) = Zero
    BY <2>1, FiniteGrids, TotalZero
  <2> QED  BY <1>2, <2>2 DEF SlopeGap, GapTotal, g
<1> QED  BY <1>1, <1>2

\* The order of the soil's ledger.
LEMMA SoilLedgerOrder ==
  ASSUME NEW t, \A j \in 1..9 : t[j] \in Fractions
  PROVE  (((t[1] \oplus t[2]) \oplus t[3] \oplus ((t[4] \oplus t[5]) \ominus t[6]) \oplus t[7] \oplus t[8])
            \oplus t[9]) \ominus t[1]
           = (((t[3] \oplus t[4]) \oplus t[9]) \ominus t[6]) \oplus t[7] \oplus t[8] \oplus (t[2] \oplus t[5])
<1>1. PICK D \in Nat \ {0} : \A j \in 1..9 : t[j] \in Over(D)
  BY NineOver
<1> DEFINE N(x) == Num(x, D)
           s1 == t[1] \oplus t[2]
           s2 == (t[4] \oplus t[5]) \ominus t[6]
           s3 == s1 \oplus t[3] \oplus s2 \oplus t[7] \oplus t[8]
           r1 == ((t[3] \oplus t[4]) \oplus t[9]) \ominus t[6]
           r2 == t[2] \oplus t[5]
<1>2. s1 \in Over(D) /\ N(s1) = N(t[1]) + N(t[2])
  BY <1>1, OverArithmetic
<1>3. s2 \in Over(D) /\ N(s2) = N(t[4]) + N(t[5]) - N(t[6])
  BY <1>1, OverArithmetic
<1> HIDE DEF s1, s2
<1>4. s3 \in Over(D) /\ N(s3) = N(s1) + N(t[3]) + N(s2) + N(t[7]) + N(t[8])
  BY <1>1, <1>2, <1>3, OverArithmetic
<1>5. r1 \in Over(D) /\ N(r1) = N(t[3]) + N(t[4]) + N(t[9]) - N(t[6])
  BY <1>1, OverArithmetic
<1>6. r2 \in Over(D) /\ N(r2) = N(t[2]) + N(t[5])
  BY <1>1, OverArithmetic
<1> HIDE DEF s3, r1, r2
<1>7. (s3 \oplus t[9]) \ominus t[1] \in Over(D) /\ N((s3 \oplus t[9]) \ominus t[1]) = N(s3) + N(t[9]) - N(t[1])
  BY <1>1, <1>4, OverArithmetic
<1>8. /\ r1 \oplus t[7] \oplus t[8] \oplus r2 \in Over(D)
      /\ N(r1 \oplus t[7] \oplus t[8] \oplus r2) = N(r1) + N(t[7]) + N(t[8]) + N(r2)
  BY <1>1, <1>5, <1>6, OverArithmetic
<1>9. N((s3 \oplus t[9]) \ominus t[1]) = N(r1 \oplus t[7] \oplus t[8] \oplus r2)
  <2>1. \A j \in 1..9 : N(t[j]) \in Int
    BY <1>1, OverArithmetic
  <2> HIDE DEF N
  <2> QED  BY <1>2, <1>3, <1>4, <1>5, <1>6, <1>7, <1>8, <2>1
<1>10. (s3 \oplus t[9]) \ominus t[1] = r1 \oplus t[7] \oplus t[8] \oplus r2
  BY <1>7, <1>8, <1>9, OverArithmetic
<1> QED  BY <1>10 DEF s1, s2, s3, r1, r2

-----------------------------------------------------------------------------
(***************************************************************************)
(* The steps.                                                              *)
(***************************************************************************)
\* What a step leaves for the next one, whether it runs on or is resumed: the
\* depths and the water the scalar is based on are those of the last snapshot.
Bases ==
  /\ pc = "flow" => vsn = dept /\ history.wc = wc
  /\ Consistent => wcT = IF pc = "snapshot" THEN wc ELSE history.wc

\* The pins and the side ghosts are settled, the export is the top layer's.
Settled ==
  /\ sSubs = WithSideGhosts(Pinned([c \in Cells |-> sSubs[c]]))
  /\ sKp = TopScalar(sSubs)

\* The masses a step is measured against.
Masses ==
  /\ pc \in {"flow", "window", "surface"} => history.surf = SurfaceMass(sSurf, vsn)
  /\ pc # "snapshot" => history.subs = GroundMass(sSubs, history.wc)

SurfaceBooked ==
  SurfaceMass(sSurf, dept) \ominus history.surf =
    audit.exchange \oplus audit.surfSource \oplus audit.surfBoundary
    \oplus audit.surfAdjust \oplus audit.surfAnchor \oplus audit.surfAtmos
    \oplus history.surfMissed

GroundBooked ==
  GroundMass(sSubs, wc) \ominus history.subs =
    audit.subsBoundary \ominus audit.exchange \oplus audit.subsAdjust
    \oplus audit.subsAnchor \oplus history.subsMissed

\* How far the audit of the current step is.
Audited ==
  /\ pc \in {"ground", "snapshot"} /\ setup.surface => SurfaceBooked
  /\ pc = "ground" /\ setup.ground => audit.exchange = Exchanged
  /\ pc = "snapshot" /\ setup.ground => GroundBooked

IInv == TypeOK /\ Bases /\ Settled /\ Masses /\ Audited

\* The side ghosts touch no cell of the grid, so pins and ghosts applied twice
\* are pins and ghosts applied once, and weigh nothing.
LEMMA GhostsOutside ==
  ASSUME setup \in Setups, NEW u
  PROVE  LET g == WithSideGhosts(Pinned(u))
         IN  /\ \A c \in Cells : g[c] = Pinned(u)[c]
             /\ g = WithSideGhosts(Pinned([c \in Cells |-> g[c]]))
             /\ \A w : GroundMass(g, w) = GroundMass(Pinned(u), w)
<1> DEFINE g == WithSideGhosts(Pinned(u))
           v == [c \in Cells |-> g[c]]
<1>1. ASSUME NEW c \in Cells PROVE g[c] = Pinned(u)[c]
  <2>1. c[1] \in Cols /\ c[2] \in Layers /\ c = <<c[1], c[2]>> /\ c[1] \in Slots
    BY Places DEF Cells
  <2>2. c[1] \notin setup.sides /\ Clip(c[1]) = c[1]
    <3>1. Clip(c[1]) = c[1]
      BY <2>1, Places
    <3>2. setup.sides \subseteq {0, NX + 1}
      BY SetupFacts
    <3>3. \A i \in 1..NX : i # 0 /\ i # NX + 1
      BY Places
    <3> QED  BY <2>1, <3>1, <3>2, <3>3 DEF Cols
  <2> QED  BY <2>1, <2>2 DEF WithSideGhosts
<1>2. Pinned(v) = Pinned(u)
  <2>1. \A c \in Cells : v[c] = Pinned(u)[c]
    BY <1>1
  <2> HIDE DEF v
  <2>2. \A c \in Cells : Pinned(v)[c] = Pinned(u)[c]
    BY <2>1 DEF Pinned
  <2> QED  BY <2>2 DEF Pinned
<1>3. \A w : GroundMass(g, w) = GroundMass(Pinned(u), w)
  <2>1. \A w : [c \in Cells |-> g[c] \otimes I(w[c] + GrainBasis(c[2]))]
                 = [c \in Cells |-> Pinned(u)[c] \otimes I(w[c] + GrainBasis(c[2]))]
    <3> HIDE DEF g
    <3> QED  BY <1>1
  <2> QED  BY <2>1 DEF GroundMass
<1> QED  BY <1>1, <1>2, <1>3

LEMMA GhostsType ==
  ASSUME setup \in Setups, NEW u, \A c \in Cells : u[c] \in Fractions
  PROVE  LET g == WithSideGhosts(Pinned(u))
         IN  /\ g \in [Slots \X Layers -> Fractions]
             /\ TopScalar(g) \in [Cols -> Fractions]
             /\ \A c \in Cells : Pinned(u)[c] \in Fractions
<1> DEFINE g == WithSideGhosts(Pinned(u))
<1>1. \A c \in Cells : Pinned(u)[c] \in Fractions
  BY SetupFacts DEF Pinned
<1>2. \A c \in Slots \X Layers : <<Clip(c[1]), c[2]>> \in Cells
  BY Places DEF Cells
<1>3. g \in [Slots \X Layers -> Fractions]
  BY <1>1, <1>2, SetupFacts DEF WithSideGhosts
<1>4. \A i \in Cols : <<i, 1>> \in Slots \X Layers
  BY Places
<1>5. TopScalar(g) \in [Cols -> Fractions]
  <2> HIDE DEF g
  <2> QED  BY <1>3, <1>4, Arithmetic DEF TopScalar
<1> QED  BY <1>1, <1>3, <1>5

\* Sums over the row and the soil depend on nothing but their cells.
LEMMA MassType ==
  /\ \A s, d : (\A i \in Cols : s[i] \in Fractions /\ d[i] \in Int) => SurfaceMass(s, d) \in Fractions
  /\ \A s, w : (setup \in Setups /\ \A c \in Cells : s[c] \in Fractions /\ w[c] \in Int)
                 => GroundMass(s, w) \in Fractions
<1>1. ASSUME NEW s, NEW d, \A i \in Cols : s[i] \in Fractions /\ d[i] \in Int
      PROVE  SurfaceMass(s, d) \in Fractions
  <2> DEFINE f == [i \in Cols |-> s[i] \otimes I(d[i])]
  <2>1. \A i \in Cols : f[i] \in Fractions
    BY <1>1, Arithmetic
  <2> HIDE DEF f
  <2>2. Total(f, Cols) \in Fractions
    BY <2>1, FiniteGrids, TotalType
  <2> QED  BY <2>2 DEF SurfaceMass, f
<1>2. ASSUME NEW s, NEW w, setup \in Setups, \A c \in Cells : s[c] \in Fractions /\ w[c] \in Int
      PROVE  GroundMass(s, w) \in Fractions
  <2> DEFINE f == [c \in Cells |-> s[c] \otimes I(w[c] + GrainBasis(c[2]))]
  <2>1. \A c \in Cells : w[c] + GrainBasis(c[2]) \in Int
    <3>1. \A c \in Cells : setup.dz[c[2]] \in Int /\ setup.kap \in Int
      BY <1>2, SetupFacts DEF Cells
    <3> QED  BY <1>2, <3>1 DEF GrainBasis
  <2>2. \A c \in Cells : f[c] \in Fractions
    BY <1>2, <2>1, Arithmetic
  <2> HIDE DEF f
  <2>3. Total(f, Cells) \in Fractions
    BY <2>2, FiniteGrids, TotalType
  <2> QED  BY <2>3 DEF GroundMass, f
<1> QED  BY <1>1, <1>2

-----------------------------------------------------------------------------
\* The water's types, step by step.
LEMMA InitTypes == Init => TypeOK
<1> SUFFICES ASSUME Init PROVE TypeOK
  OBVIOUS
<1> USE DEF Init
<1>1. setup \in Setups
  OBVIOUS
<1>2. /\ setup.dept0 \in [Cols -> Nat] /\ setup.wc0 \in [Cells -> Nat]
      /\ setup.s0 \in [Cols -> Fractions] /\ \A c \in Cells : setup.g0[c] \in Fractions
  BY <1>1, SetupFacts
<1>3. Zero \in Fractions /\ Zero \prec I(1)
  <2>1. PICK D \in Nat \ {0} : Zero \in Over(D)
    BY Arithmetic, Three
  <2> QED  BY Arithmetic, IntegersOrdered DEF Zero
<1>4. sSurf \in [Slots -> Fractions]
  BY <1>2, <1>3
<1>5. sSubs \in [Slots \X Layers -> Fractions] /\ sKp \in [Cols -> Fractions]
  BY <1>1, <1>2, GhostsType
<1>6. ScalarType
  BY <1>3, <1>4, <1>5 DEF ScalarType
<1>7. WaterType
  BY <1>1, <1>2, <1>3 DEF WaterType
<1>8. audit \in Ledgers
  BY <1>3 DEF NoAudit, Ledgers
<1>9. history \in Histories
  <2>1. \A i \in Cols : sSurf[i] \in Fractions /\ dept[i] \in Int
    <3>1. \A i \in Cols : dept[i] \in Nat
      BY <1>2
    <3>2. \A i \in Cols : i \in Slots
      BY Places
    <3>3. \A i \in Cols : sSurf[i] \in Fractions
      BY <1>4, <3>2
    <3> QED  BY <3>1, <3>3
  <2>2. \A c \in Cells : sSubs[c] \in Fractions /\ wc[c] \in Int
    <3>1. \A c \in Cells : wc[c] \in Nat
      BY <1>2
    <3>2. \A c \in Cells : c \in Slots \X Layers
      BY Places DEF Cells
    <3>3. \A c \in Cells : sSubs[c] \in Fractions
      BY <1>5, <3>2
    <3> QED  BY <3>1, <3>3
  <2>3. SurfaceMass(sSurf, dept) \in Fractions /\ GroundMass(sSubs, wc) \in Fractions
    BY <1>1, <2>1, <2>2, MassType
  <2>4. wc \in [Cells -> Int]
    BY <1>2
  <2> QED  BY <1>3, <2>3, <2>4 DEF Snapshot, Histories
<1> QED  BY <1>6, <1>7, <1>8, <1>9 DEF TypeOK

LEMMA FlowTypes ==
  ASSUME WaterType, NEW f \in Flows, SurfaceFlow(f)
  PROVE  WaterType'
<1>1. /\ f.fu \in [XFaces -> Int] /\ f.asx \in [XFaces -> Nat] /\ f.gap \in [Cols -> Int]
      /\ \A x \in XFaces : f.fu[x] # 0 => f.asx[x] # 0
      /\ f.rain \in Fractions /\ f.evap \in Fractions /\ f.evap \prec I(1)
  BY FlowAssumption
<1>2. dept' \in [Cols -> Nat]
  <2> DEFINE d(i) == dept[i] + f.fu[i - 1] - f.fu[i] + f.gap[i]
                     + (IF i \in setup.inflow THEN setup.inflowQ ELSE 0)
  <2>1. dept' = [i \in Cols |-> IF d(i) < 0 THEN 0 ELSE d(i)]
    BY DEF SurfaceFlow
  <2>2. \A i \in Cols : d(i) \in Int
    <3>1. \A i \in Cols : /\ dept[i] \in Int /\ f.fu[i - 1] \in Int /\ f.fu[i] \in Int
                          /\ f.gap[i] \in Int /\ setup.inflowQ \in Int
      BY <1>1, Places, SetupFacts DEF WaterType
    <3> QED  BY <3>1
  <2> HIDE DEF d
  <2> QED  BY <2>1, <2>2
<1> QED  BY <1>1, <1>2 DEF WaterType, SurfaceFlow, soilVars, seepVars, scalarVars

LEMMA WalkTypes ==
  ASSUME NEW v \in Substeps, NEW i \in Cols, NEW f \in ZFaces
  PROVE  Mirrored(v, i, f) \in Int /\ Crossed(v, i, f) \in Int
<1>1. v.vol[i] \in Int
  BY SubstepAssumption
<1> QED  BY <1>1 DEF Mirrored, Crossed

LEMMA SoilTypes ==
  ASSUME WaterType, NEW v \in Substeps, SoilStep(v)
  PROVE  WaterType'
<1>1. /\ \A f \in XFaces, k \in Layers : v.x[<<f, k>>] \in Int
      /\ \A i \in Cols, k \in ZFaces : v.z[<<i, k>>] \in Int
      /\ \A i \in Cols : v.vol[i] \in Nat
      /\ \A c \in Cells : v.gap[c] \in Int
      /\ v.x \in [XFaces \X Layers -> Int]
  BY SubstepAssumption
<1>2. /\ \A c \in Cells : c[1] \in Cols /\ c[2] \in Layers /\ c = <<c[1], c[2]>>
      /\ \A c \in Cols \X ZFaces : c[1] \in Cols /\ c[2] \in ZFaces /\ c = <<c[1], c[2]>>
  BY DEF Cells
<1>3. wc' \in [Cells -> Int]
  <2> DEFINE d(c) == wc[c] + v.x[<<c[1], c[2]>>] - v.x[<<c[1] - 1, c[2]>>]
                     + v.z[<<c[1], c[2] + 1>>] - v.z[<<c[1], c[2]>>]
                     - (IF c[2] = v.from[c[1]] THEN v.vol[c[1]] ELSE 0)
                     + (IF c[2] = v.to[c[1]] THEN v.vol[c[1]] ELSE 0) + v.gap[c]
  <2>1. wc' = [c \in Cells |-> d(c)]
    BY DEF SoilStep
  <2>2. ASSUME NEW c \in Cells PROVE d(c) \in Int
    <3>1. /\ c[1] \in XFaces /\ c[1] - 1 \in XFaces /\ c[2] \in ZFaces /\ c[2] + 1 \in ZFaces
          /\ c[1] \in Cols /\ c[2] \in Layers
      BY <1>2, Places
    <3>2. /\ v.x[<<c[1], c[2]>>] \in Int /\ v.x[<<c[1] - 1, c[2]>>] \in Int
          /\ v.z[<<c[1], c[2] + 1>>] \in Int /\ v.z[<<c[1], c[2]>>] \in Int
          /\ v.vol[c[1]] \in Int /\ v.gap[c] \in Int
      BY <1>1, <3>1
    <3>3. wc[c] \in Int
      BY DEF WaterType
    <3> QED  BY <3>2, <3>3
  <2> HIDE DEF d
  <2> QED  BY <2>1, <2>2
<1>4. qz' \in [Cols \X ZFaces -> Int]
  <2>1. \A c \in Cols \X ZFaces : v.z[c] \in Int /\ Mirrored(v, c[1], c[2]) \in Int
    BY <1>1, <1>2, WalkTypes
  <2> QED  BY <2>1 DEF SoilStep
<1>5. qxWin' \in [XFaces \X Layers -> Int] /\ qzWin' \in [Cols \X ZFaces -> Int] /\ ventWin' \in [Cols -> Int]
  <2>1. CASE Consistent
    <3>1. \A c \in Cols \X ZFaces :
            v.z[c] \in Int /\ Crossed(v, c[1], c[2]) \in Int /\ qzWin[c] \in Int
      BY <1>1, <1>2, WalkTypes DEF WaterType
    <3>2. \A c \in XFaces \X Layers : v.x[c] \in Int /\ qxWin[c] \in Int
      BY <1>1 DEF WaterType
    <3>3. \A i \in Cols : v.vol[i] \in Int /\ ventWin[i] \in Int
      BY <1>1 DEF WaterType
    <3>4. qxWin' \in [XFaces \X Layers -> Int]
      <4>1. qxWin' = [c \in XFaces \X Layers |-> qxWin[c] + v.x[c]]
        BY <2>1 DEF SoilStep
      <4> QED  BY <3>2, <4>1
    <3>5. ventWin' \in [Cols -> Int]
      <4>1. ventWin' = [i \in Cols |->
               ventWin[i] + (IF Coupled /\ Vents(v, i) /\ Arrives(v, i) THEN v.vol[i] ELSE 0)]
        BY <2>1 DEF SoilStep
      <4> QED  BY <3>3, <4>1
    <3>6. qzWin' \in [Cols \X ZFaces -> Int]
      <4>1. qzWin' = [c \in Cols \X ZFaces |-> qzWin[c] + v.z[c] + Crossed(v, c[1], c[2])]
        BY <2>1 DEF SoilStep
      <4> QED  BY <3>1, <4>1
    <3> QED  BY <3>4, <3>5, <3>6
  <2>2. CASE ~Consistent
    BY <2>2 DEF SoilStep, WaterType
  <2> QED  BY <2>1, <2>2
<1>6. dept' \in [Cols -> Nat] /\ seepAccum' \in [Cols -> Int]
  <2>1. CASE Coupled
    <3>1. \A i \in Cols : /\ v.vol[i] \in Nat /\ dept[i] \in Nat /\ seepAccum[i] \in Int
                          /\ v.z[<<i, 1>>] \in Int /\ setup.topValue \in Int
      <4>1. 1 \in ZFaces
        BY Places
      <4> QED  BY <1>1, <4>1, SetupFacts DEF WaterType
    <3>2. dept' \in [Cols -> Nat]
      <4>1. dept' = [i \in Cols |->
               dept[i] + (IF Vents(v, i) /\ Arrives(v, i) THEN v.vol[i] ELSE 0)]
        BY <2>1 DEF SoilStep
      <4>2. ASSUME NEW i \in Cols
            PROVE  dept[i] + (IF Vents(v, i) /\ Arrives(v, i) THEN v.vol[i] ELSE 0) \in Nat
        <5>1. v.vol[i] \in Nat /\ dept[i] \in Nat
          BY <3>1
        <5>2. (IF Vents(v, i) /\ Arrives(v, i) THEN v.vol[i] ELSE 0) \in Nat
          BY <5>1, Zenon
        <5> DEFINE n == IF Vents(v, i) /\ Arrives(v, i) THEN v.vol[i] ELSE 0
        <5>3. n \in Nat
          BY <5>2
        <5> HIDE DEF n
        <5>4. dept[i] + n \in Nat
          BY <5>1, <5>3
        <5> QED  BY <5>4 DEF n
      <4> QED  BY <4>1, <4>2
    <3>3. seepAccum' \in [Cols -> Int]
      <4>1. seepAccum' = [i \in Cols |->
               seepAccum[i] + v.z[<<i, 1>>]
               - (IF i \in setup.topFlux /\ dept[i] <= MinDepth THEN setup.topValue ELSE 0)]
        BY <2>1 DEF SoilStep
      <4> QED  BY <3>1, <4>1
    <3> QED  BY <3>2, <3>3
  <2>2. CASE ~Coupled
    BY <2>2 DEF SoilStep, WaterType
  <2> QED  BY <2>1, <2>2
<1>7. taken' \in Nat
  BY DEF SoilStep, WaterType
<1>8. unbooked' \in [Cells -> Int]
  <2>1. \A c \in Cells : unbooked[c] \in Int /\ v.gap[c] \in Int /\ v.vol[c[1]] \in Int
    BY <1>1, <1>2 DEF WaterType
  <2> QED  BY <2>1 DEF SoilStep
<1> QED  BY <1>1, <1>3, <1>4, <1>5, <1>6, <1>7, <1>8 DEF WaterType, SoilStep, scalarVars

LEMMA SeepTypes ==
  ASSUME WaterType, ApplySeepage
  PROVE  WaterType'
<1>1. /\ dept' \in [Cols -> Nat] /\ seepAccum' \in [Cols -> Int] /\ qss' \in [Cols -> Int]
  <2>1. CASE Coupled
    <3>1. \A i \in Cols : dept[i] \in Nat /\ seepAccum[i] \in Int
      BY DEF WaterType
    <3>2. qss' \in [Cols -> Int] /\ seepAccum' \in [Cols -> Int]
      BY <2>1, <3>1 DEF ApplySeepage, WaterType
    <3>3. dept' \in [Cols -> Nat]
      BY <2>1, <3>1 DEF ApplySeepage
    <3> QED  BY <3>2, <3>3
  <2>2. CASE ~Coupled
    BY <2>2 DEF ApplySeepage, WaterType
  <2> QED  BY <2>1, <2>2
<1> QED  BY <1>1 DEF WaterType, ApplySeepage, scalarVars

LEMMA OtherTypes ==
  ASSUME WaterType
  PROVE  /\ NoSurfaceFlow => WaterType'
         /\ StepSurface => WaterType'
         /\ StepSubsurface => WaterType'
         /\ EndOfStep => WaterType'
         /\ Restart => WaterType'
         /\ UNCHANGED vars => WaterType'
<1>1. NoSurfaceFlow => WaterType'
  BY DEF NoSurfaceFlow, WaterType, flowVars, soilVars, seepVars, scalarVars
<1>2. StepSurface => WaterType'
  BY DEF StepSurface, WaterType, flowVars, soilVars, seepVars
<1>3. StepSubsurface => WaterType'
  <2>1. setup.mol \in Nat
    BY SetupFacts DEF WaterType
  <2>2. StepSubsurface => dzzTop' \in Nat /\ wcT' \in [Cells -> Int]
    BY <2>1 DEF StepSubsurface, WaterType
  <2> QED  BY <2>2 DEF StepSubsurface, WaterType, flowVars, soilVars, seepVars
<1>4. EndOfStep => WaterType'
  BY DEF EndOfStep, WaterType, flowVars, seepVars
<1>5. Restart => WaterType'
  <2> SUFFICES ASSUME Restart PROVE WaterType'
    OBVIOUS
  <2>1. fuOld' \in [XFaces -> Int]
    <3>1. fuOld' = [fuOld EXCEPT ![0] = 0]
      BY DEF Restart
    <3>2. fuOld \in [XFaces -> Int] /\ 0 \in Int
      BY DEF WaterType
    <3> QED  BY <3>1, <3>2
  <2>2. vsn' \in [Cols -> Nat]
    BY DEF Restart, WaterType
  <2>3. wcT' \in [Cells -> Int]
    BY DEF Restart, RestoredBasis, WaterType
  <2> QED  BY <2>1, <2>2, <2>3 DEF Restart, WaterType, flowVars, seepVars
<1>6. UNCHANGED vars => WaterType'
  BY DEF WaterType, vars, flowVars, soilVars, seepVars, scalarVars
<1> QED  BY <1>1, <1>2, <1>3, <1>4, <1>5, <1>6

-----------------------------------------------------------------------------
\* The surface step keeps the types and closes the surface's ledger.
LEMMA SurfaceStepBooks ==
  ASSUME IInv, StepSurface, setup.surface
  PROVE  /\ ScalarType' /\ audit' \in Ledgers /\ history' \in Histories
         /\ SurfaceBooked' /\ audit'.exchange = Total(ssee', Cols)
<1>1. WaterType /\ ScalarType /\ history \in Histories /\ history.surf = SurfaceMass(sSurf, vsn)
  BY DEF IInv, TypeOK, Masses, StepSurface
<1>2. PICK new : /\ new = [i \in Cols |-> SurfUpdate(i)]
                 /\ LET ghosts == EdgeGhosts([i \in Cols |-> new[i].value])
                        reset  == [i \in Cols |-> Reset(i, new[i].value)]
                    IN /\ ssee' = [i \in Cols |-> ExchangeRate(i)]
                       /\ sSurf' = [i \in Slots |->
                            IF i \in Cols THEN DryRule(i, reset[i]) ELSE ghosts[i]]
                       /\ audit' = [NoAudit EXCEPT
                            !.exchange = Total([i \in Cols |-> ExchangeRate(i)], Cols),
                            !.surfBoundary = Advected(0) \ominus Advected(NX),
                            !.surfSource = Total([i \in Cols |-> SurfInflow(i) \oplus
                                 ((reset[i] \ominus new[i].value) \otimes I(dept[i]))], Cols),
                            !.surfAdjust = Total([i \in Cols |-> new[i].adjust], Cols),
                            !.surfAnchor = Total([i \in Cols |-> new[i].anchor], Cols),
                            !.surfAtmos  = Total([i \in Cols |-> new[i].atmos], Cols)]
                       /\ history' = [history EXCEPT !.surfMissed = EdgeDiffusion,
                               !.sound = @ /\ EvenlyFed,
                               !.clipped = @ \/ \E i \in Cols : Wet(i) /\ new[i].adjust # Zero]
  BY DEF StepSurface
<1> DEFINE reset == [i \in Cols |-> Reset(i, new[i].value)]
           ghosts == EdgeGhosts([i \in Cols |-> new[i].value])
           source == Total([i \in Cols |-> SurfInflow(i) \oplus
                       ((reset[i] \ominus new[i].value) \otimes I(dept[i]))], Cols)
           exchange == Total([i \in Cols |-> ExchangeRate(i)], Cols)
           adjust == Total([i \in Cols |-> new[i].adjust], Cols)
           anchor == Total([i \in Cols |-> new[i].anchor], Cols)
           atmos  == Total([i \in Cols |-> new[i].atmos], Cols)
           boundary == Advected(0) \ominus Advected(NX)
           missed == EdgeDiffusion
           mass == SurfaceMass(sSurf', dept)
           surf == SurfaceMass(sSurf, vsn)
<1>3. sSurf' = [i \in Slots |-> IF i \in Cols THEN DryRule(i, reset[i]) ELSE ghosts[i]]
  BY <1>2
<1>4. /\ audit' = [NoAudit EXCEPT !.exchange = exchange, !.surfBoundary = boundary,
                     !.surfSource = source, !.surfAdjust = adjust, !.surfAnchor = anchor,
                     !.surfAtmos = atmos]
      /\ ssee' = [i \in Cols |-> ExchangeRate(i)]
  BY <1>2
<1>5. history' = [history EXCEPT !.surfMissed = missed, !.sound = @ /\ EvenlyFed,
                    !.clipped = @ \/ \E i \in Cols : Wet(i) /\ new[i].adjust # Zero]
  BY <1>2
<1>6. \A i \in Cols : sSurf'[i] = DryRule(i, reset[i])
  <2>1. \A i \in Cols : i \in Slots
    BY Places
  <2> HIDE DEF reset, ghosts
  <2> QED  BY <1>3, <2>1
<1>7. /\ {source, exchange, adjust, anchor, atmos, boundary, missed} \subseteq Fractions
      /\ mass = surf \oplus boundary \oplus missed \oplus exchange
                \oplus source \oplus adjust \oplus anchor \oplus atmos
  <2>1. new = [i \in Cols |-> SurfUpdate(i)]
    BY <1>2
  <2>2. reset = [i \in Cols |-> Reset(i, new[i].value)]
    OBVIOUS
  <2>3. WaterType /\ ScalarType
    BY <1>1
  <2>4. SurfBalance(new, reset, sSurf')
    <3> HIDE DEF reset
    <3> QED  BY <1>6, <2>1, <2>2, <2>3, SurfBudget
  <2> QED  BY <2>4 DEF SurfBalance
<1>8. surf \in Fractions
  <2>1. \A i \in Cols : sSurf[i] \in Fractions /\ vsn[i] \in Int
    BY <1>1, Places DEF WaterType, ScalarType
  <2> QED  BY <2>1, MassType
<1>9. \A i \in Cols : new[i].value \in Fractions
  BY <1>1, <1>2, SurfCell
<1>10. ScalarType'
  <2>1. setup.tideValue \in Fractions /\ Zero \in Fractions
    BY <1>1, SetupFacts, Arithmetic DEF WaterType
  <2>2. \A i \in Cols : DryRule(i, reset[i]) \in Fractions
    BY <1>9, <2>1 DEF DryRule, Reset
  <2>3. \A i \in Slots : ghosts[i] \in Fractions
    BY <1>9, Places DEF EdgeGhosts
  <2> HIDE DEF reset, ghosts
  <2>4. sSurf' \in [Slots -> Fractions]
    BY <1>3, <2>2, <2>3
  <2>5. ssee' \in [Cols -> Fractions]
    BY <1>1, <1>4, ExchangeType
  <2> QED  BY <1>1, <2>4, <2>5 DEF ScalarType, StepSurface
<1> HIDE DEF source, exchange, adjust, anchor, atmos, boundary, mass, surf, missed, reset, ghosts
<1>11. mass \in Fractions
  BY <1>7, <1>8, Arithmetic
<1>12. audit' \in Ledgers
  BY <1>4, <1>7, Arithmetic DEF NoAudit, Ledgers
<1>13. history' \in Histories
  BY <1>1, <1>5, <1>7 DEF Histories
<1>14. mass \ominus surf = exchange \oplus source \oplus boundary \oplus adjust \oplus anchor
                           \oplus atmos \oplus missed
  <2> DEFINE t == <<mass, surf, boundary, missed, exchange, source, adjust, anchor, atmos>>
  <2>1. \A j \in 1..9 : t[j] \in Fractions
    BY <1>7, <1>8, <1>11
  <2>2. /\ t[1] = mass /\ t[2] = surf /\ t[3] = boundary /\ t[4] = missed /\ t[5] = exchange
        /\ t[6] = source /\ t[7] = adjust /\ t[8] = anchor /\ t[9] = atmos
    OBVIOUS
  <2> HIDE DEF t
  <2>3. t[1] = t[2] \oplus t[3] \oplus t[4] \oplus t[5] \oplus t[6] \oplus t[7] \oplus t[8] \oplus t[9]
    BY <1>7, <2>2
  <2>4. t[1] \ominus t[2]
           = t[5] \oplus t[6] \oplus t[3] \oplus t[7] \oplus t[8] \oplus t[9] \oplus t[4]
    BY <2>1, <2>3, SurfLedgerOrder
  <2> QED  BY <2>2, <2>4
<1>15. /\ audit'.exchange = exchange /\ audit'.surfSource = source
       /\ audit'.surfBoundary = boundary /\ audit'.surfAdjust = adjust
       /\ audit'.surfAnchor = anchor /\ audit'.surfAtmos = atmos
  BY <1>4 DEF NoAudit
<1>16. history'.surfMissed = missed /\ history'.surf = surf
  BY <1>1, <1>5 DEF Histories, surf
<1>17. dept' = dept
  BY DEF StepSurface, flowVars
<1>18. SurfaceBooked'
  <2>1. SurfaceMass(sSurf, dept)' = mass
    BY <1>17 DEF SurfaceMass, mass
  <2>2. SurfaceBooked' <=> (SurfaceMass(sSurf, dept)' \ominus history'.surf =
    audit'.exchange \oplus audit'.surfSource \oplus audit'.surfBoundary
    \oplus audit'.surfAdjust \oplus audit'.surfAnchor \oplus audit'.surfAtmos
    \oplus history'.surfMissed)
    BY DEF SurfaceBooked
  <2> QED  BY <1>14, <1>15, <1>16, <2>1, <2>2
<1>19. audit'.exchange = Total(ssee', Cols)
  BY <1>4, <1>15 DEF exchange
<1> QED  BY <1>10, <1>12, <1>13, <1>18, <1>19

\* The subsurface step keeps the types and closes the soil's ledger.
LEMMA SoilStepBooks ==
  ASSUME IInv, StepSubsurface, setup.ground
  PROVE  /\ ScalarType' /\ audit' \in Ledgers /\ history' \in Histories
         /\ GroundBooked' /\ Settled'
         /\ history'.surf = history.surf /\ history'.wc = history.wc
         /\ history'.surfMissed = history.surfMissed
         /\ audit'.exchange = audit.exchange /\ audit'.surfSource = audit.surfSource
         /\ audit'.surfBoundary = audit.surfBoundary /\ audit'.surfAdjust = audit.surfAdjust
         /\ audit'.surfAnchor = audit.surfAnchor /\ audit'.surfAtmos = audit.surfAtmos
<1>1. /\ WaterType /\ ScalarType /\ history \in Histories /\ audit \in Ledgers
      /\ history.subs = GroundMass(sSubs, history.wc)
      /\ Consistent => wcT = history.wc
      /\ audit.exchange = Exchanged
  BY DEF IInv, TypeOK, Masses, Bases, Audited, StepSubsurface
<1>2. PICK new : /\ new = [c \in Cells |-> GroundUpdate(c)]
                 /\ LET updated == [c \in Cells |-> new[c].value]
                        pinned  == Pinned(updated)
                        ghosted == WithSideGhosts(pinned)
                        gained  == GroundMass(pinned, wc) \ominus GroundMass(updated, wc)
                    IN /\ sSubs' = ghosted
                       /\ sKp' = TopScalar(ghosted)
                       /\ audit' = [audit EXCEPT
                            !.subsBoundary = BoundaryIn \oplus gained,
                            !.subsAdjust = Total([c \in Cells |-> new[c].adjust], Cells),
                            !.subsAnchor = Total([c \in Cells |-> new[c].anchor], Cells)]
                       /\ history' = [history EXCEPT !.subsMissed = BasisGap \oplus SlopeGap,
                               !.clipped = @ \/ \E c \in Cells : new[c].adjust # Zero]
  BY DEF StepSubsurface
<1> DEFINE updated == [c \in Cells |-> new[c].value]
           pinned  == Pinned(updated)
           ghosted == WithSideGhosts(pinned)
           before == GroundMass(updated, wc)
           mass == GroundMass(pinned, wc)
           gained == mass \ominus before
           adjust == Total([c \in Cells |-> new[c].adjust], Cells)
           anchor == Total([c \in Cells |-> new[c].anchor], Cells)
           ends == Total([k \in Layers |-> SideMass(NX, k) \ominus SideMass(0, k)], Layers)
           cols == Total([i \in Cols |-> LowerMass(i, NZ) \ominus UpperMass(i, 1)], Cols)
           subs == GroundMass(sSubs, history.wc)
<1>3. /\ sSubs' = ghosted /\ sKp' = TopScalar(ghosted)
      /\ audit' = [audit EXCEPT !.subsBoundary = BoundaryIn \oplus gained,
                     !.subsAdjust = adjust, !.subsAnchor = anchor]
      /\ history' = [history EXCEPT !.subsMissed = BasisGap \oplus SlopeGap,
                       !.clipped = @ \/ \E c \in Cells : new[c].adjust # Zero]
  BY <1>2
<1>4. setup' = setup /\ wc' = wc /\ setup \in Setups /\ sSurf' = sSurf /\ ssee' = ssee
  BY <1>1 DEF WaterType, StepSubsurface, soilVars
<1>5. /\ {adjust, anchor, BasisMass, GapTotal, Exchanged} \subseteq Fractions
      /\ \A c \in Cells : new[c].value \in Fractions
      /\ before = BasisMass \oplus ends \oplus ((cols \oplus GapTotal) \ominus Exchanged)
                  \oplus adjust \oplus anchor
  <2>1. new = [c \in Cells |-> GroundUpdate(c)]
    BY <1>2
  <2>2. WaterType /\ ScalarType
    BY <1>1
  <2>3. SoilBalance(new)
    BY <2>1, <2>2, SoilBudget
  <2> QED  BY <2>3 DEF SoilBalance
<1>6. \A c \in Cells : updated[c] \in Fractions
  BY <1>5
<1>7. /\ ghosted \in [Slots \X Layers -> Fractions] /\ TopScalar(ghosted) \in [Cols -> Fractions]
      /\ \A c \in Cells : pinned[c] \in Fractions
  <2> HIDE DEF updated
  <2> QED  BY <1>4, <1>6, GhostsType
<1>8. /\ ghosted = WithSideGhosts(Pinned([c \in Cells |-> ghosted[c]]))
      /\ GroundMass(ghosted, wc) = mass
  <2> HIDE DEF updated
  <2> QED  BY <1>4, GhostsOutside
<1>9. ScalarType'
  <2> HIDE DEF ghosted
  <2> QED  BY <1>1, <1>3, <1>4, <1>7 DEF ScalarType
<1>10. Settled'
  <2> HIDE DEF ghosted
  <2>1. /\ WithSideGhosts(Pinned([c \in Cells |-> sSubs[c]]))' =
             WithSideGhosts(Pinned([c \in Cells |-> sSubs'[c]]))
        /\ TopScalar(sSubs)' = TopScalar(sSubs')
    BY <1>4 DEF WithSideGhosts, Pinned, TopScalar, Coupled
  <2> QED  BY <1>3, <1>8, <2>1 DEF Settled
<1>11. before \in Fractions /\ mass \in Fractions
  <2>1. \A c \in Cells : wc[c] \in Int
    BY <1>1 DEF WaterType
  <2> HIDE DEF updated, pinned
  <2> QED  BY <1>4, <1>6, <1>7, <2>1, MassType
<1>12. BasisMass = subs \oplus BasisGap /\ subs \in Fractions /\ BasisGap \in Fractions
  BY <1>1, BasisMassIs
<1>13. BoundaryIn = ends \oplus cols /\ BoundaryIn \in Fractions /\ ends \in Fractions /\ cols \in Fractions
  BY <1>1, ColumnEnds
<1>14. SlopeGap = GapTotal
  BY SlopeGapIs
<1>15. GroundMass(sSubs, wc)' = mass
  <2>1. GroundMass(sSubs, wc)' = GroundMass(sSubs', wc)
    BY <1>4 DEF GroundMass, GrainBasis
  <2> HIDE DEF ghosted, mass
  <2> QED  BY <1>3, <1>8, <2>1
<1> HIDE DEF updated, pinned, ghosted, before, mass, adjust, anchor, ends, cols, subs
<1>16. gained \in Fractions /\ mass = before \oplus gained
  <2>1. gained \in Fractions
    BY <1>11, Arithmetic
  <2> QED  BY <1>11, <2>1, PlusMinus
<1> HIDE DEF gained
<1>17. mass \ominus subs = (((ends \oplus cols) \oplus gained) \ominus Exchanged) \oplus adjust \oplus anchor
                           \oplus (BasisGap \oplus GapTotal)
  <2> DEFINE t == <<subs, BasisGap, ends, cols, GapTotal, Exchanged, adjust, anchor, gained>>
  <2>1. \A j \in 1..9 : t[j] \in Fractions
    BY <1>5, <1>12, <1>13, <1>16
  <2>2. /\ t[1] = subs /\ t[2] = BasisGap /\ t[3] = ends /\ t[4] = cols /\ t[5] = GapTotal
        /\ t[6] = Exchanged /\ t[7] = adjust /\ t[8] = anchor /\ t[9] = gained
    OBVIOUS
  <2> HIDE DEF t
  <2>3. mass = ((t[1] \oplus t[2]) \oplus t[3] \oplus ((t[4] \oplus t[5]) \ominus t[6]) \oplus t[7] \oplus t[8])
               \oplus t[9]
    BY <1>5, <1>12, <1>16, <2>2
  <2>4. mass \ominus t[1]
           = (((t[3] \oplus t[4]) \oplus t[9]) \ominus t[6]) \oplus t[7] \oplus t[8] \oplus (t[2] \oplus t[5])
    BY <2>1, <2>3, SoilLedgerOrder
  <2> QED  BY <2>2, <2>4
<1>18. /\ audit'.subsBoundary = BoundaryIn \oplus gained /\ audit'.exchange = audit.exchange
       /\ audit'.subsAdjust = adjust /\ audit'.subsAnchor = anchor
       /\ audit'.surfSource = audit.surfSource
       /\ audit'.surfBoundary = audit.surfBoundary /\ audit'.surfAdjust = audit.surfAdjust
       /\ audit'.surfAnchor = audit.surfAnchor /\ audit'.surfAtmos = audit.surfAtmos
  BY <1>1, <1>3 DEF Ledgers
<1>19. /\ history'.subsMissed = BasisGap \oplus GapTotal /\ history'.subs = history.subs
       /\ history'.surf = history.surf /\ history'.wc = history.wc
       /\ history'.surfMissed = history.surfMissed
  BY <1>1, <1>3, <1>14 DEF Histories
<1>20. audit' \in Ledgers
  <2>1. BoundaryIn \oplus gained \in Fractions
    BY <1>13, <1>16, Arithmetic
  <2> QED  BY <1>1, <1>3, <1>5, <2>1 DEF Ledgers
<1>21. history' \in Histories
  <2>1. BasisGap \oplus SlopeGap \in Fractions
    BY <1>5, <1>12, <1>14, Arithmetic
  <2> QED  BY <1>1, <1>3, <2>1 DEF Histories
<1>22. GroundBooked'
  <2>1. GroundBooked' <=> (GroundMass(sSubs, wc)' \ominus history'.subs =
    audit'.subsBoundary \ominus audit'.exchange \oplus audit'.subsAdjust
    \oplus audit'.subsAnchor \oplus history'.subsMissed)
    BY DEF GroundBooked
  <2>2. history.subs = subs
    BY <1>1 DEF subs
  <2> QED  BY <1>1, <1>13, <1>15, <1>17, <1>18, <1>19, <2>1, <2>2
<1> QED  BY <1>9, <1>10, <1>18, <1>19, <1>20, <1>21, <1>22

-----------------------------------------------------------------------------
LEMMA InitInv == Init => IInv
<1> SUFFICES ASSUME Init PROVE IInv
  OBVIOUS
<1>1. TypeOK
  BY InitTypes
<1>2. Bases
  BY DEF Bases, Init, Snapshot
<1>3. Settled
  <2>1. setup \in Setups /\ sSubs = WithSideGhosts(Pinned(setup.g0)) /\ sKp = TopScalar(sSubs)
    BY DEF Init
  <2> DEFINE u == setup.g0
  <2> HIDE DEF u
  <2>2. sSubs = WithSideGhosts(Pinned(u))
    BY <2>1 DEF u
  <2>3. WithSideGhosts(Pinned(u)) = WithSideGhosts(Pinned([c \in Cells |-> WithSideGhosts(Pinned(u))[c]]))
    BY <2>1, GhostsOutside
  <2> QED  BY <2>1, <2>2, <2>3 DEF Settled
<1>4. Masses
  BY DEF Masses, Init, Snapshot
<1>5. Audited
  BY DEF Audited, Init
<1> QED  BY <1>1, <1>2, <1>3, <1>4, <1>5 DEF IInv

LEMMA SettledStays ==
  ASSUME Settled, setup' = setup, sSubs' = sSubs, sKp' = sKp
  PROVE  Settled'
<1> DEFINE g(s) == WithSideGhosts(Pinned([c \in Cells |-> s[c]]))
<1>1. /\ WithSideGhosts(Pinned([c \in Cells |-> sSubs[c]]))' = g(sSubs')
      /\ TopScalar(sSubs)' = TopScalar(sSubs')
  BY DEF WithSideGhosts, Pinned, TopScalar, Coupled
<1>2. sSubs = g(sSubs) /\ sKp = TopScalar(sSubs)
  BY DEF Settled
<1> HIDE DEF g
<1>3. g(sSubs') = g(sSubs)
  OBVIOUS
<1> QED  BY <1>1, <1>2, <1>3 DEF Settled

\* A flow step, a substep and the end of a window leave the scalar and its
\* books alone.
LEMMA QuietSteps ==
  ASSUME IInv, setup' = setup, pc \in {"flow", "window", "surface"},
         pc' \in {"window", "surface"}, UNCHANGED <<scalarVars, audit, history>>
  PROVE  /\ ScalarType' /\ audit' \in Ledgers /\ history' \in Histories
         /\ Bases' /\ Settled' /\ Masses' /\ Audited'
<1>1. ScalarType' /\ audit' \in Ledgers /\ history' \in Histories
  BY DEF IInv, TypeOK, ScalarType, scalarVars
<1>2. Bases'
  BY DEF IInv, Bases, scalarVars, Consistent
<1>3. Settled'
  BY SettledStays DEF IInv, scalarVars
<1>4. Masses'
  BY DEF IInv, Masses, scalarVars, SurfaceMass, GroundMass, GrainBasis
<1>5. Audited'
  BY DEF Audited
<1> QED  BY <1>1, <1>2, <1>3, <1>4, <1>5

LEMMA SurfaceStepInv == IInv /\ StepSurface => IInv'
<1> SUFFICES ASSUME IInv, StepSurface PROVE IInv'
  OBVIOUS
<1>1. /\ setup' = setup /\ pc = "surface" /\ pc' = "ground"
      /\ sSubs' = sSubs /\ sKp' = sKp /\ wcT' = wcT /\ dept' = dept /\ wc' = wc
  BY DEF StepSurface, flowVars, soilVars
<1>2. WaterType'
  BY OtherTypes DEF IInv, TypeOK
<1>3. /\ ScalarType' /\ audit' \in Ledgers /\ history' \in Histories
      /\ setup.surface => SurfaceBooked' /\ audit'.exchange = Total(ssee', Cols)
      /\ ~setup.surface => audit'.exchange = Zero
  <2>1. CASE setup.surface
    BY <2>1, SurfaceStepBooks
  <2>2. CASE ~setup.surface
    <3>1. /\ audit' = NoAudit /\ history' = [history EXCEPT !.sound = @ /\ EvenlyFed]
          /\ UNCHANGED <<ssee, sSurf>>
      BY <2>2 DEF StepSurface
    <3>2. ScalarType'
      BY <1>1, <3>1 DEF IInv, TypeOK, ScalarType
    <3>3. audit' \in Ledgers /\ audit'.exchange = Zero
      BY <3>1, Arithmetic DEF NoAudit, Ledgers
    <3>4. history' \in Histories
      BY <3>1 DEF IInv, TypeOK, Histories
    <3> QED  BY <2>2, <3>2, <3>3, <3>4
  <2> QED  BY <2>1, <2>2
<1>4. history'.wc = history.wc /\ history'.subs = history.subs
  BY DEF StepSurface, IInv, TypeOK, Histories
<1>5. Bases'
  BY <1>1, <1>4 DEF IInv, Bases, Consistent
<1>6. Settled'
  BY <1>1, SettledStays DEF IInv
<1>7. Masses'
  <2>1. history.subs = GroundMass(sSubs, history.wc)
    BY <1>1 DEF IInv, Masses
  <2>2. GroundMass(sSubs, history.wc)' = GroundMass(sSubs, history.wc)
    BY <1>1, <1>4 DEF GroundMass, GrainBasis
  <2> QED  BY <1>1, <1>4, <2>1, <2>2 DEF Masses
<1>8. Audited'
  <2>1. Exchanged' = IF setup.surface /\ setup.ground THEN Total(ssee', Cols) ELSE Zero
    BY <1>1 DEF Exchanged, Coupled
  <2> QED  BY <1>1, <1>3, <2>1 DEF Audited
<1> QED  BY <1>2, <1>3, <1>5, <1>6, <1>7, <1>8 DEF IInv, TypeOK

LEMMA SoilStepInv == IInv /\ StepSubsurface => IInv'
<1> SUFFICES ASSUME IInv, StepSubsurface PROVE IInv'
  OBVIOUS
<1>1. /\ setup' = setup /\ pc = "ground" /\ pc' = "snapshot"
      /\ sSurf' = sSurf /\ dept' = dept /\ wc' = wc /\ ssee' = ssee
  BY DEF StepSubsurface, flowVars, soilVars
<1>2. WaterType'
  BY OtherTypes DEF IInv, TypeOK
<1>3. /\ ScalarType' /\ audit' \in Ledgers /\ history' \in Histories /\ Settled'
      /\ setup.ground => GroundBooked'
      /\ setup.surface => SurfaceBooked'
  <2>1. setup.surface => SurfaceBooked
    BY <1>1 DEF IInv, Audited
  <2>2. CASE setup.ground
    <3>1. /\ ScalarType' /\ audit' \in Ledgers /\ history' \in Histories /\ Settled' /\ GroundBooked'
          /\ history'.surf = history.surf /\ history'.surfMissed = history.surfMissed
          /\ audit'.exchange = audit.exchange /\ audit'.surfSource = audit.surfSource
          /\ audit'.surfBoundary = audit.surfBoundary /\ audit'.surfAdjust = audit.surfAdjust
          /\ audit'.surfAnchor = audit.surfAnchor /\ audit'.surfAtmos = audit.surfAtmos
      BY <2>2, SoilStepBooks
    <3>2. SurfaceMass(sSurf, dept)' = SurfaceMass(sSurf, dept)
      BY <1>1 DEF SurfaceMass
    <3>3. setup.surface => SurfaceBooked'
      BY <2>1, <3>1, <3>2 DEF SurfaceBooked
    <3> QED  BY <3>1, <3>3
  <2>3. CASE ~setup.ground
    <3>1. UNCHANGED <<sSubs, sKp, audit, history>>
      BY <2>3 DEF StepSubsurface
    <3>2. ScalarType' /\ audit' \in Ledgers /\ history' \in Histories
      BY <1>1, <3>1 DEF IInv, TypeOK, ScalarType
    <3>3. Settled'
      BY <1>1, <3>1, SettledStays DEF IInv
    <3>4. SurfaceMass(sSurf, dept)' = SurfaceMass(sSurf, dept)
      BY <1>1 DEF SurfaceMass
    <3>5. setup.surface => SurfaceBooked'
      BY <2>1, <3>1, <3>4 DEF SurfaceBooked
    <3> QED  BY <2>3, <3>2, <3>3, <3>5
  <2> QED  BY <2>2, <2>3
<1>4. Bases'
  <2>1. Consistent' => wcT' = wc
    BY <1>1 DEF StepSubsurface, Consistent
  <2> QED  BY <1>1, <2>1 DEF Bases
<1>5. Masses'
  BY <1>1 DEF Masses
<1>6. Audited'
  BY <1>1, <1>3 DEF Audited
<1> QED  BY <1>2, <1>3, <1>4, <1>5, <1>6 DEF IInv, TypeOK

LEMMA EndInv == IInv /\ EndOfStep => IInv'
<1> SUFFICES ASSUME IInv, EndOfStep PROVE IInv'
  OBVIOUS
<1>1. /\ setup' = setup /\ pc = "snapshot" /\ pc' = "flow"
      /\ sSurf' = sSurf /\ dept' = dept /\ wc' = wc /\ sSubs' = sSubs /\ sKp' = sKp /\ wcT' = wcT
      /\ ssee' = ssee /\ audit' = audit
      /\ vsn' = [i \in Cols |-> dept[i]]
      /\ history' = [Snapshot EXCEPT !.sound = history.sound, !.clipped = history.clipped]
  BY DEF EndOfStep, flowVars
<1>2. WaterType' /\ WaterType /\ ScalarType /\ audit \in Ledgers /\ history \in Histories
  BY OtherTypes DEF IInv, TypeOK
<1>3. vsn' = dept
  BY <1>1, <1>2 DEF WaterType
<1>4. ScalarType'
  BY <1>1, <1>2 DEF ScalarType
<1>5. SurfaceMass(sSurf, dept) \in Fractions /\ GroundMass(sSubs, wc) \in Fractions /\ Zero \in Fractions
  <2>1. \A i \in Cols : sSurf[i] \in Fractions /\ dept[i] \in Int
    BY <1>2, Places DEF WaterType, ScalarType
  <2>2. \A c \in Cells : sSubs[c] \in Fractions /\ wc[c] \in Int
    <3>1. \A c \in Cells : c \in Slots \X Layers
      BY Places DEF Cells
    <3> QED  BY <1>2, <3>1 DEF WaterType, ScalarType
  <2> QED  BY <1>2, <2>1, <2>2, MassType, Arithmetic DEF WaterType
<1>6. /\ history' \in Histories /\ history'.wc = wc
      /\ history'.surf = SurfaceMass(sSurf, dept) /\ history'.subs = GroundMass(sSubs, wc)
  <2>1. history.sound \in BOOLEAN /\ history.clipped \in BOOLEAN /\ wc \in [Cells -> Int]
    BY <1>2 DEF Histories, WaterType
  <2> QED  BY <1>1, <1>5, <2>1 DEF Snapshot, Histories
<1>7. Bases'
  BY <1>1, <1>3, <1>6 DEF IInv, Bases, Consistent
<1>8. Settled'
  BY <1>1, SettledStays DEF IInv
<1>9. Masses'
  <2>1. SurfaceMass(sSurf, vsn)' = SurfaceMass(sSurf, dept)
    BY <1>1, <1>3 DEF SurfaceMass
  <2>2. GroundMass(sSubs, history.wc)' = GroundMass(sSubs, wc)
    BY <1>1, <1>6 DEF GroundMass, GrainBasis
  <2> QED  BY <1>1, <1>6, <2>1, <2>2 DEF Masses
<1>10. Audited'
  BY <1>1 DEF Audited
<1> QED  BY <1>1, <1>2, <1>4, <1>6, <1>7, <1>8, <1>9, <1>10 DEF IInv, TypeOK

\* What a restart rebuilds is what the finished step left.
LEMMA RestartKeeps ==
  ASSUME IInv, Restart
  PROVE  /\ \A i \in Cols : sSurf'[i] = sSurf[i] /\ fuOld'[i] = fuOld[i]
         /\ UNCHANGED <<sSubs, sKp, vsn, wcT>>
<1>1. /\ pc = "flow" /\ sSurf' = [i \in Slots |-> IF i \in Cols THEN sSurf[i] ELSE Zero]
      /\ fuOld' = [fuOld EXCEPT ![0] = 0] /\ vsn' = [i \in Cols |-> dept[i]]
  BY DEF Restart
<1>2. WaterType /\ Settled /\ Bases
  BY DEF IInv, TypeOK
<1>3. \A i \in Cols : sSurf'[i] = sSurf[i]
  BY <1>1, Places
<1>4. \A i \in Cols : fuOld'[i] = fuOld[i]
  <2>1. \A i \in Cols : i \in XFaces /\ i # 0
    BY Places DEF Cols
  <2>2. fuOld \in [XFaces -> Int]
    BY <1>2 DEF WaterType
  <2> QED  BY <1>1, <2>1, <2>2
<1>5. vsn' = vsn
  <2>1. vsn = dept /\ dept \in [Cols -> Nat]
    BY <1>1, <1>2 DEF Bases, WaterType
  <2> QED  BY <1>1, <2>1
<1>6. UNCHANGED <<sSubs, sKp>>
  <2>1. CASE setup.ground
    <3>1. /\ sSubs' = WithSideGhosts(Pinned([c \in Cells |-> sSubs[c]]))
          /\ sKp' = TopScalar(WithSideGhosts(Pinned([c \in Cells |-> sSubs[c]])))
      BY <2>1 DEF Restart
    <3> QED  BY <1>2, <3>1 DEF Settled
  <2>2. CASE ~setup.ground
    BY <2>2 DEF Restart
  <2> QED  BY <2>1, <2>2
<1>7. wcT' = wcT
  <2>1. Consistent => wcT = wc
    BY <1>1, <1>2 DEF Bases
  <2> QED  BY <2>1 DEF Restart, RestoredBasis
<1> QED  BY <1>3, <1>4, <1>5, <1>6, <1>7

LEMMA RestartInv == IInv /\ Restart => IInv'
<1> SUFFICES ASSUME IInv, Restart PROVE IInv'
  OBVIOUS
<1>1. /\ setup' = setup /\ pc = "flow" /\ pc' = "flow" /\ dept' = dept /\ wc' = wc
      /\ ssee' = ssee /\ audit' = audit /\ history' = history
      /\ sSurf' = [i \in Slots |-> IF i \in Cols THEN sSurf[i] ELSE Zero]
  BY DEF Restart, flowVars
<1>2. WaterType' /\ WaterType /\ ScalarType /\ audit \in Ledgers /\ history \in Histories
  BY OtherTypes DEF IInv, TypeOK
<1>3. sSubs' = sSubs /\ sKp' = sKp /\ vsn' = vsn /\ wcT' = wcT
  BY RestartKeeps
<1>4. ScalarType'
  <2>1. sSurf' \in [Slots -> Fractions]
    BY <1>1, <1>2, Arithmetic DEF ScalarType
  <2> QED  BY <1>1, <1>2, <1>3, <2>1 DEF ScalarType
<1>5. Bases'
  BY <1>1, <1>3 DEF IInv, Bases, Consistent
<1>6. Settled'
  BY <1>1, <1>3, SettledStays DEF IInv
<1>7. Masses'
  <2>1. SurfaceMass(sSurf, vsn)' = SurfaceMass(sSurf, vsn)
    <3>1. [i \in Cols |-> sSurf'[i] \otimes I(vsn[i])] = [i \in Cols |-> sSurf[i] \otimes I(vsn[i])]
      BY RestartKeeps
    <3> QED  BY <1>3, <3>1 DEF SurfaceMass
  <2>2. GroundMass(sSubs, history.wc)' = GroundMass(sSubs, history.wc)
    BY <1>1, <1>3 DEF GroundMass, GrainBasis
  <2> QED  BY <1>1, <2>1, <2>2 DEF IInv, Masses
<1>8. Audited'
  BY <1>1 DEF Audited
<1> QED  BY <1>1, <1>2, <1>4, <1>5, <1>6, <1>7, <1>8 DEF IInv, TypeOK

LEMMA StutterInv == IInv /\ UNCHANGED vars => IInv'
<1> SUFFICES ASSUME IInv, UNCHANGED vars PROVE IInv'
  OBVIOUS
<1> USE DEF vars, flowVars, soilVars, seepVars, scalarVars
<1>1. TypeOK'
  BY OtherTypes DEF IInv, TypeOK, ScalarType
<1>2. Bases'
  BY DEF IInv, Bases, Consistent
<1>3. Settled'
  BY SettledStays DEF IInv
<1>4. Masses'
  BY DEF IInv, Masses, SurfaceMass, GroundMass, GrainBasis
<1>5. Audited'
  BY DEF IInv, Audited, SurfaceBooked, GroundBooked, SurfaceMass, GroundMass, GrainBasis, Exchanged, Coupled
<1> QED  BY <1>1, <1>2, <1>3, <1>4, <1>5 DEF IInv

LEMMA NextInv == IInv /\ [Next]_vars => IInv'
<1> SUFFICES ASSUME IInv, [Next]_vars PROVE IInv'
  OBVIOUS
<1>1. WaterType
  BY DEF IInv, TypeOK
<1>2. ASSUME NEW f \in Flows, SurfaceFlow(f) PROVE IInv'
  <2>1. /\ setup' = setup /\ pc = "flow" /\ pc' = "window" /\ UNCHANGED <<scalarVars, audit, history>>
    BY <1>2 DEF SurfaceFlow
  <2> QED  BY <1>1, <1>2, <2>1, FlowTypes, QuietSteps DEF IInv, TypeOK
<1>3. ASSUME NoSurfaceFlow PROVE IInv'
  <2>1. /\ setup' = setup /\ pc = "flow" /\ pc' = "window" /\ UNCHANGED <<scalarVars, audit, history>>
    BY <1>3 DEF NoSurfaceFlow
  <2> QED  BY <1>1, <1>3, <2>1, OtherTypes, QuietSteps DEF IInv, TypeOK
<1>4. ASSUME NEW v \in Substeps, SoilStep(v) PROVE IInv'
  <2>1. /\ setup' = setup /\ pc = "window" /\ pc' = "window" /\ UNCHANGED <<scalarVars, audit, history>>
    BY <1>4 DEF SoilStep
  <2> QED  BY <1>1, <1>4, <2>1, SoilTypes, QuietSteps DEF IInv, TypeOK
<1>5. ASSUME ApplySeepage PROVE IInv'
  <2>1. /\ setup' = setup /\ pc = "window" /\ pc' = "surface" /\ UNCHANGED <<scalarVars, audit, history>>
    BY <1>5 DEF ApplySeepage
  <2> QED  BY <1>1, <1>5, <2>1, SeepTypes, QuietSteps DEF IInv, TypeOK
<1> QED
  BY <1>2, <1>3, <1>4, <1>5, SurfaceStepInv, SoilStepInv, EndInv, RestartInv, StutterInv DEF Next

\* Every step keeps the types, the masses, what is settled between steps and
\* what the audit has booked.
THEOREM Invariance == Spec => []IInv
<1>1. IInv /\ [Next]_vars => IInv'
  BY NextInv
<1> QED  BY InitInv, <1>1, PTL DEF Spec

\* The types of the water, the scalar, the audit and the history.
THEOREM TypesHold == Spec => []TypeOK
<1>1. IInv => TypeOK
  BY DEF IInv
<1> QED  BY Invariance, <1>1, PTL

\* The scalar budget of TransportAudit: after every step the mass of each grid
\* has changed by exactly what the audit books and the three terms it misses.
THEOREM LedgerHolds == Spec => []Ledger
<1>1. IInv => Ledger
  BY DEF IInv, Audited, SurfaceBooked, GroundBooked, Ledger
<1> QED  BY Invariance, <1>1, PTL

\* A run resumed from a checkpoint continues from the scalar, the snapshots and
\* the exports the finished step left.
THEOREM RestartIsNeutral == Spec => RestartNeutral
<1>1. IInv /\ [Next]_vars =>
        [Restart => /\ \A i \in Cols : sSurf'[i] = sSurf[i] /\ fuOld'[i] = fuOld[i]
                    /\ UNCHANGED <<sSubs, sKp, vsn, wcT>>]_vars
  BY RestartKeeps
<1> QED  BY Invariance, <1>1, PTL DEF Spec, RestartNeutral

-----------------------------------------------------------------------------
(***************************************************************************)
(* A uniform scalar.  Every mass of it is the level times a volume, every  *)
(* limited slope between the level and a dry cell's zero is zero, and the  *)
(* window of a limiter that holds the level clips nothing.                 *)
(***************************************************************************)
LEMMA LevelType ==
  ASSUME setup \in Setups
  PROVE  Level \in Fractions
BY SetupFacts, Places DEF Level

\* Masses at one level add like their volumes.
LEMMA Scales ==
  ASSUME NEW a \in Fractions, NEW k \in Int, NEW l \in Int
  PROVE  /\ (a \otimes I(k)) \oplus (a \otimes I(l)) = a \otimes I(k + l)
         /\ (a \otimes I(k)) \ominus (a \otimes I(l)) = a \otimes I(k - l)
         /\ I(k) \otimes a = a \otimes I(k)
         /\ a \otimes I(k) \in Fractions
<1>1. I(k) \in Fractions /\ I(l) \in Fractions
  BY IntegerQ
<1>2. I(k - l) = I(k) \ominus I(l) /\ I(k + l) = I(k) \oplus I(l)
  BY IntegerSum
<1>3. /\ a \otimes (I(k) \oplus I(l)) = (a \otimes I(k)) \oplus (a \otimes I(l))
      /\ a \otimes (I(k) \ominus I(l)) = (a \otimes I(k)) \ominus (a \otimes I(l))
  BY <1>1, Distributes
<1>4. I(k) \otimes a = a \otimes I(k) /\ a \otimes I(k) \in Fractions
  BY <1>1, TimesCommutes, Arithmetic
<1> QED  BY <1>2, <1>3, <1>4

LEMMA NoVolume ==
  ASSUME NEW a \in Fractions
  PROVE  a \otimes I(0) = Zero /\ I(0) \otimes a = Zero /\ Zero \otimes a = Zero
<1>1. a \otimes Zero = Zero /\ Zero \in Fractions
  BY TimesZero, Arithmetic
<1>2. Zero \otimes a = a \otimes Zero
  BY <1>1, TimesCommutes
<1> QED  BY <1>1, <1>2 DEF Zero

LEMMA CancelFactor ==
  ASSUME NEW a \in Fractions, NEW x \in Fractions, NEW b \in Fractions, b # Zero,
         x \otimes b = a \otimes b
  PROVE  x = a
<1> DEFINE r == Q(b[2], b[1])
<1>1. r \in Fractions /\ r \otimes b = I(1)
  BY Reciprocal
<1> HIDE DEF r
<1>2. b \otimes r = I(1)
  BY <1>1, TimesCommutes
<1>3. (x \otimes b) \otimes r = x \otimes (b \otimes r) /\ (a \otimes b) \otimes r = a \otimes (b \otimes r)
  BY <1>1, TimesAssociates
<1> QED  BY <1>2, <1>3, TimesOne

LEMMA QuotientIs ==
  ASSUME NEW a \in Fractions, NEW b \in Fractions, b # Zero
  PROVE  (a \otimes b) \oslash b = a
<1> DEFINE m == a \otimes b
           x == m \oslash b
<1>1. m \in Fractions
  BY Arithmetic
<1> HIDE DEF m
<1>2. x \in Fractions /\ x \otimes b = m
  BY <1>1, DivideTimes
<1> HIDE DEF x
<1>3. x = a
  BY <1>2, CancelFactor DEF m
<1> QED  BY <1>3 DEF x, m

LEMMA FlatFace ==
  ASSUME NEW a \in Fractions, NEW sm, NEW c \in Fractions
  PROVE  TvdSuperbee(a, a, sm, c) = a
<1>1. Slope(a, a, sm) = Zero
  BY DEF Slope
<1>2. I(1) \ominus c \in Fractions
  BY Arithmetic
<1>3. Zero \otimes (I(1) \ominus c) = Zero
  BY <1>2, NoVolume
<1> QED  BY <1>1, <1>3, PlusZero DEF TvdSuperbee

LEMMA NoPhi ==
  ASSUME NEW k \in Int, k <= 0
  PROVE  SuperbeePhi(I(k)) = Zero
<1>1. I(2) \otimes I(k) = I(2 * k)
  BY TimesInteger
<1>2. Lower(I(2 * k), I(1)) = I(2 * k)
  <2>1. I(2 * k) \prec I(1)
    BY IntegersOrdered
  <2> QED  BY <2>1 DEF Lower
<1>3. Lower(I(k), I(2)) = I(k)
  <2>1. I(k) \prec I(2)
    BY IntegersOrdered
  <2> QED  BY <2>1 DEF Lower
<1>4. ~(I(0) \prec I(2 * k)) /\ ~(I(0) \prec I(k))
  BY IntegersOrdered
<1> QED  BY <1>1, <1>2, <1>3, <1>4 DEF SuperbeePhi, Zero

\* Where water leaves a cell of the level, the limited slope to a neighbour
\* and from an upwind neighbour that are at the level or dry is zero.
LEMMA DrySlope ==
  ASSUME NEW a \in Fractions, NEW sp \in {Zero, a}, NEW sm \in {Zero, a}
  PROVE  Slope(sp, a, sm) = Zero
<1>1. CASE sp = a
  BY <1>1 DEF Slope
<1>2. CASE sp # a
  <2> DEFINE b == Zero \ominus a
             r == (a \ominus sm) \oslash b
  <2>1. sp = Zero /\ a # Zero
    BY <1>2
  <2>2. b \in Fractions /\ b # Zero
    <3>1. Zero # a /\ Zero \in Fractions
      BY <2>1, Arithmetic
    <3> QED  BY <3>1, Arithmetic, DifferenceNotZero
  <2>3. \E k \in Int : k <= 0 /\ r = I(k)
    <3>1. CASE sm = a
      <4>1. a \ominus sm = Zero
        BY <3>1, PlusZero
      <4>2. Zero \otimes b = Zero
        BY <2>2, NoVolume
      <4>3. (Zero \otimes b) \oslash b = Zero
        BY <2>2, QuotientIs, Arithmetic
      <4>4. r = I(0)
        BY <4>1, <4>2, <4>3 DEF Zero
      <4> QED  BY <4>4
    <3>2. CASE sm = Zero
      <4>1. a \ominus sm = a
        BY <3>2, PlusZero
      <4>2. I(-1) \otimes b = a
        <5>1. PICK D \in Nat \ {0} : a \in Over(D) /\ Zero \in Over(D)
          BY Three, Arithmetic
        <5>2. /\ b \in Over(D) /\ Num(b, D) = 0 - Num(a, D)
          BY <5>1, OverDifference, OverZero
        <5>3. /\ I(-1) \otimes b \in Over(D) /\ Num(I(-1) \otimes b, D) = (-1) * Num(b, D)
          BY <5>2, OverMultiple
        <5>4. Num(a, D) \in Int
          BY <5>1, OverNum
        <5>5. Num(I(-1) \otimes b, D) = Num(a, D)
          BY <5>2, <5>3, <5>4
        <5> QED  BY <5>1, <5>3, <5>5, OverSame
      <4>3. I(-1) \in Fractions
        BY IntegerQ
      <4>4. (I(-1) \otimes b) \oslash b = I(-1)
        BY <2>2, <4>3, QuotientIs
      <4>5. r = I(-1)
        BY <4>1, <4>2, <4>4
      <4> QED  BY <4>5
    <3> QED  BY <3>1, <3>2
  <2> HIDE DEF r, b
  <2>4. SuperbeePhi(r) = Zero
    BY <2>3, NoPhi
  <2>5. Q(1, 2) \otimes Zero = Zero
    BY TimesZero, Arithmetic
  <2>6. Zero \otimes b = Zero
    BY <2>2, NoVolume
  <2>7. Slope(sp, a, sm) = (Q(1, 2) \otimes SuperbeePhi(r)) \otimes b
    BY <1>2, <2>1 DEF Slope, r, b
  <2> QED  BY <2>4, <2>5, <2>6, <2>7
<1> QED  BY <1>1, <1>2

LEMMA DryFace ==
  ASSUME NEW a \in Fractions, NEW sp \in {Zero, a}, NEW sm \in {Zero, a}, NEW c \in Fractions
  PROVE  TvdSuperbee(sp, a, sm, c) = a
<1>1. Slope(sp, a, sm) = Zero
  BY DrySlope
<1>2. I(1) \ominus c \in Fractions
  BY Arithmetic
<1>3. Zero \otimes (I(1) \ominus c) = Zero
  BY <1>2, NoVolume
<1> QED  BY <1>1, <1>3, PlusZero DEF TvdSuperbee

\* The window of a set that has the level in it.
LEMMA InWindow ==
  ASSUME NEW S, IsFiniteSet(S), S \subseteq Fractions, NEW a \in S
  PROVE  /\ ~(Highest(S) \prec a) /\ ~(a \prec Lowest(S))
         /\ Highest(S) \in S /\ Lowest(S) \in S
<1>1. IsHighest(Highest(S), S) /\ IsLowest(Lowest(S), S)
  BY Extremes
<1> QED  BY <1>1 DEF IsHighest, IsLowest

LEMMA ProductsGrow ==
  ASSUME NEW p \in Nat, NEW q \in Nat, NEW n \in Nat, NEW v \in Nat, p <= q, v <= n
  PROVE  p * v <= q * n
<1>1. PICK d \in Nat : q = p + d
  <2>1. q - p \in Nat /\ q = p + (q - p)
    OBVIOUS
  <2> QED  BY <2>1
<1>2. PICK e \in Nat : n = v + e
  <2>1. n - v \in Nat /\ n = v + (n - v)
    OBVIOUS
  <2> QED  BY <2>1
<1>3. (p + d) * (v + e) = p * v + (p * e + d * v + d * e)
  OBVIOUS
<1>4. p * v \in Nat /\ p * e \in Nat /\ d * v \in Nat /\ d * e \in Nat
  OBVIOUS
<1>5. p * v <= p * v + (p * e + d * v + d * e)
  BY <1>4
<1> QED  BY <1>1, <1>2, <1>3, <1>5

\* A factor of at least one does not lower what is not negative, one of at
\* most one does not raise it.
LEMMA FactorWidens ==
  ASSUME NEW a \in Fractions, NEW b \in Fractions, NEW n \in Nat \ {0}, NEW v \in Nat \ {0},
         ~(a \prec Zero), ~(b \prec a)
  PROVE  /\ v <= n => ~(b \otimes Q(n, v) \prec a)
         /\ n <= v => ~(b \prec a \otimes Q(n, v))
<1>1. PICK D \in Nat \ {0} : a \in Over(D) /\ b \in Over(D) /\ Zero \in Over(D)
  BY Three, Arithmetic
<1> DEFINE p == Num(a, D)
           q == Num(b, D)
<1>2. p \in Int /\ q \in Int /\ a = Q(p, D) /\ b = Q(q, D)
  BY <1>1, OverNum
<1>3. 0 <= p /\ p <= q
  <2>1. ~(p < 0) /\ ~(q < p)
    BY <1>1, Ordered, OverZero
  <2> QED  BY <1>2, <2>1
<1> HIDE DEF p, q
<1>4. p \in Nat /\ q \in Nat
  BY <1>2, <1>3
<1> DEFINE E == D * v
<1>5. E \in Nat \ {0} /\ E * D \in Nat \ {0} /\ D * E \in Nat \ {0}
  BY PositiveProduct
<1>6. b \otimes Q(n, v) = Q(q * n, E) /\ a \otimes Q(n, v) = Q(p * n, E)
  <2>1. Q(q, D) \otimes Q(n, v) = Q(q * n, D * v) /\ Q(p, D) \otimes Q(n, v) = Q(p * n, D * v)
    BY <1>4, TimesQ
  <2> QED  BY <1>2, <2>1
<1>7. q * n \in Nat /\ p * n \in Nat /\ p * v \in Nat /\ q * v \in Nat
  BY <1>4
<1>8. ASSUME v <= n PROVE ~(b \otimes Q(n, v) \prec a)
  <2>1. p * v <= q * n
    BY <1>3, <1>4, <1>8, ProductsGrow
  <2>2. Q(q * n, E) \ominus Q(p, D) = Q((q * n) * D - p * E, E * D)
    BY <1>2, <1>5, <1>7, SubtractQ
  <2>3. p * E = (p * v) * D
    BY <1>4
  <2>4. (p * v) * D <= (q * n) * D
    BY <1>7, <2>1, ProductsGrow
  <2>5. (q * n) * D - p * E \in Int /\ ~((q * n) * D - p * E < 0)
    <3>1. (q * n) * D \in Int /\ (p * v) * D \in Int
      BY <1>7
    <3> QED  BY <2>3, <2>4, <3>1
  <2>6. ~(Q((q * n) * D - p * E, E * D)[1] < 0)
    BY <1>5, <2>5, SignOfQ
  <2>7. ~(Q(q * n, E) \prec Q(p, D))
    BY <2>2, <2>6 DEF \prec
  <2> QED  BY <1>2, <1>6, <2>7
<1>9. ASSUME n <= v PROVE ~(b \prec a \otimes Q(n, v))
  <2>1. p * n <= q * v
    BY <1>3, <1>4, <1>9, ProductsGrow
  <2>2. Q(q, D) \ominus Q(p * n, E) = Q(q * E - (p * n) * D, D * E)
    BY <1>2, <1>5, <1>7, SubtractQ
  <2>3. q * E = (q * v) * D
    BY <1>4
  <2>4. (p * n) * D <= (q * v) * D
    BY <1>7, <2>1, ProductsGrow
  <2>5. q * E - (p * n) * D \in Int /\ ~(q * E - (p * n) * D < 0)
    <3>1. (p * n) * D \in Int /\ (q * v) * D \in Int
      BY <1>7
    <3> QED  BY <2>3, <2>4, <3>1
  <2>6. ~(Q(q * E - (p * n) * D, D * E)[1] < 0)
    BY <1>5, <2>5, SignOfQ
  <2>7. ~(Q(q, D) \prec Q(p * n, E))
    BY <2>2, <2>6 DEF \prec
  <2> QED  BY <1>2, <1>6, <2>7
<1> QED  BY <1>8, <1>9

-----------------------------------------------------------------------------
(***************************************************************************)
(* The invariant of a uniform run.                                         *)
(***************************************************************************)
\* There is some water in every cell; and but for the moment between a transport
\* step and the reset of its window, the water the step started from, the volumes
\* of the window and what crossed no face are all of it.
Accounted ==
  /\ \A i \in Cols : ventWin[i] >= 0
  /\ \A c \in Cells : wc[c] > 0
  /\ Consistent /\ pc # "snapshot" =>
       \A c \in Cells : wc[c] = wcT[c] + Divergence(c) + unbooked[c]

\* When the soil's scalar is updated, no cell owes all it holds to water that
\* crossed no face.
Sourced ==
  pc = "ground" /\ setup.ground => \A c \in Cells : unbooked[c] < wc[c] + GrainBasis(c[2])

SoilUniform == setup.ground => \A i \in Slots, k \in Layers : sSubs[<<i, k>>] = Level

\* The depth the surface scalar belongs to.
Carried(i) == IF pc \in {"ground", "snapshot"} THEN dept[i] ELSE vsn[i]

\* A wet cell is at the level and a dry one, or a ghost, at zero; the initial
\* state has the level in dry cells too, and no ghosts.
SurfaceUniform ==
  setup.surface =>
    /\ \A j \in Slots : sSurf[j] \in {Zero, Level}
    /\ \A i \in Cols : Carried(i) > 0 => sSurf[i] = Level
    /\ \/ \A i \in Cols : sSurf[i] = Level
       \/ \A j \in Slots : Carried(Clip(j)) = 0 => sSurf[j] = Zero

\* What the soil's top passes to the surface, or to nobody, is at the level.
TopFed ==
  pc = "ground" /\ setup.ground =>
    \A i \in Cols :
      IF setup.surface THEN ssee[i] = Level \otimes I(qzWin[<<i, 1>>])
      ELSE \/ qzWin[<<i, 1>>] = 0
           \/ qzWin[<<i, 1>>] > 0 /\ i \notin setup.topFlux \cup setup.cauchy

Kept ==
  UniformRun /\ history.sound =>
    SoilUniform /\ SurfaceUniform /\ TopFed /\ Sourced /\ ~history.clipped

\* The states of a surface step that the lemmas below are about.
SurfaceReady ==
  /\ WaterType /\ ScalarType /\ Settled /\ Accounted /\ UniformRun /\ EvenlyFed
  /\ pc = "surface" /\ setup.surface /\ SoilUniform /\ SurfaceUniform

LEMMA ReadyFacts ==
  ASSUME SurfaceReady
  PROVE  /\ setup \in Setups /\ Level \in Fractions /\ Zero \in Fractions
         /\ \A j \in Slots : sSurf[j] \in {Zero, Level}
         /\ \A i \in Cols : vsn[i] > 0 => sSurf[i] = Level
         /\ \/ \A i \in Cols : sSurf[i] = Level
            \/ \A j \in Slots : vsn[Clip(j)] = 0 => sSurf[j] = Zero
         /\ Coupled => \A i \in Cols : sKp[i] = Level
         /\ Coupled => Consistent
         /\ \A i \in Cols : vsn[i] \in Nat
<1>1. setup \in Setups /\ pc = "surface" /\ setup.surface /\ SurfaceUniform /\ WaterType
  BY DEF SurfaceReady, WaterType
<1>2. \A i : Carried(i) = vsn[i]
  BY <1>1 DEF Carried
<1>3. Coupled => \A i \in Cols : sKp[i] = Level
  <2> SUFFICES ASSUME Coupled, NEW i \in Cols PROVE sKp[i] = Level
    OBVIOUS
  <2>1. sKp[i] = sSubs[<<i, 1>>]
    BY DEF SurfaceReady, Settled, TopScalar
  <2>2. setup.ground /\ i \in Slots /\ 1 \in Layers
    BY Places DEF Coupled
  <2> QED  BY <2>1, <2>2 DEF SurfaceReady, SoilUniform
<1>4. Coupled => Consistent
  BY DEF SurfaceReady, UniformRun, Coupled, Consistent
<1>5. \A i \in Cols : vsn[i] \in Nat
  BY <1>1 DEF WaterType
<1> QED
  BY <1>1, <1>2, <1>3, <1>4, <1>5, LevelType, Arithmetic DEF SurfaceUniform

LEMMA LevelCrosses ==
  ASSUME SurfaceReady, NEW f \in XFaces
  PROVE  Advected(f) = Level \otimes I(fu[f]) /\ Diffused(f) = Zero
<1>1. /\ Level \in Fractions /\ Zero \in Fractions
      /\ \A j \in Slots : sSurf[j] \in {Zero, Level}
  BY ReadyFacts
<1>2. /\ f \in Int /\ f \in Slots /\ f + 1 \in Slots
      /\ f > 0 => f - 1 \in Slots
      /\ f < NX => f + 2 \in Slots
  BY Places DEF Slots, XFaces
<1>3. /\ sSurf[f] \in {Zero, Level} /\ sSurf[f + 1] \in {Zero, Level}
      /\ f > 0 => sSurf[f - 1] \in {Zero, Level}
      /\ f < NX => sSurf[f + 2] \in {Zero, Level}
  BY <1>1, <1>2
<1>4. fu[f] \in Int /\ asx[f] \in Nat /\ (fu[f] # 0 => asx[f] \in Nat \ {0})
  BY DEF SurfaceReady, WaterType
<1>5. fu[f] # 0 => Q(Magnitude(fu[f]), asx[f]) \in Fractions
  BY <1>4, MagnitudeType, Arithmetic
<1>6. /\ fu[f] # 0 => sSurf[IF fu[f] > 0 THEN f ELSE f + 1] = Level
      /\ setup.difu * asx[f] > 0 => sSurf[f] = sSurf[f + 1]
  BY DEF SurfaceReady, EvenlyFed
<1>7. Advected(f) = Level \otimes I(fu[f])
  <2>1. CASE fu[f] = 0
    <3>1. SurfFace(f) \in Fractions
      BY SurfFaceType DEF SurfaceReady
    <3> QED  BY <1>1, <2>1, <3>1, NoVolume DEF Advected
  <2>2. CASE fu[f] # 0
    <3> DEFINE c == Q(Magnitude(fu[f]), asx[f])
    <3>1. c \in Fractions
      BY <1>5, <2>2
    <3> HIDE DEF c
    <3>2. SurfFace(f) = Level
      <4>1. CASE fu[f] > 0
        <5>1. sSurf[f] = Level
          BY <1>6, <2>2, <4>1
        <5>2. f > 0 => TvdSuperbee(sSurf[f + 1], Level, sSurf[f - 1], c) = Level
          BY <1>1, <1>3, <3>1, DryFace
        <5> QED  BY <4>1, <5>1, <5>2 DEF SurfFace, c
      <4>2. CASE ~(fu[f] > 0)
        <5>1. sSurf[f + 1] = Level
          BY <1>6, <2>2, <4>2
        <5>2. f < NX => TvdSuperbee(sSurf[f], Level, sSurf[f + 2], c) = Level
          BY <1>1, <1>3, <3>1, DryFace
        <5> QED  BY <4>2, <5>1, <5>2 DEF SurfFace, c
      <4> QED  BY <4>1, <4>2
    <3> QED  BY <1>1, <1>4, <3>2, Scales DEF Advected
  <2> QED  BY <2>1, <2>2
<1>8. Diffused(f) = Zero
  <2>1. setup.difu * asx[f] \in Nat
    BY <1>4, SetupFacts DEF SurfaceReady, WaterType
  <2>2. sSurf[f + 1] \in Fractions /\ sSurf[f] \in Fractions
    BY <1>1, <1>3
  <2>3. sSurf[f + 1] \ominus sSurf[f] \in Fractions
    BY <2>2, Arithmetic
  <2>4. CASE setup.difu * asx[f] = 0
    BY <2>3, <2>4, NoVolume DEF Diffused
  <2>5. CASE setup.difu * asx[f] > 0
    <3>1. sSurf[f + 1] \ominus sSurf[f] = Zero
      BY <1>6, <2>2, <2>5, PlusZero
    <3>2. I(setup.difu * asx[f]) \in Fractions
      BY <2>1, Arithmetic
    <3> QED  BY <3>1, <3>2, TimesZero DEF Diffused
  <2> QED  BY <2>1, <2>4, <2>5
<1> QED  BY <1>7, <1>8

\* The seepage and the vents of a column, at the level.
LEMMA LevelSeeps ==
  ASSUME SurfaceReady, NEW i \in Cols
  PROVE  /\ Coupled => ExchangeRate(i) = Level \otimes I(qss[i] + ventWin[i])
         /\ ~Coupled => ExchangeRate(i) = Zero
<1>1. ~Coupled => ExchangeRate(i) = Zero
  BY DEF ExchangeRate
<1>2. ASSUME Coupled PROVE ExchangeRate(i) = Level \otimes I(qss[i] + ventWin[i])
  <2>1. /\ Level \in Fractions /\ Zero \in Fractions /\ sKp[i] = Level /\ Consistent
        /\ sSurf[i] \in {Zero, Level}
    BY <1>2, ReadyFacts, Places
  <2>2. /\ qss[i] \in Int /\ ventWin[i] \in Int /\ ventWin[i] >= 0 /\ dzzTop \in Nat
        /\ setup.dz[1] \in Nat \ {0} /\ dept[i] \in Nat
    BY Places, SetupFacts DEF SurfaceReady, WaterType, Accounted
  <2>3. /\ Wet(i) /\ dzzTop > 0 => sSurf[i] = sKp[i]
        /\ qss[i] + ventWin[i] > 0 => Wet(i)
        /\ qss[i] < 0 => sSurf[i] = Level
    BY <1>2 DEF SurfaceReady, EvenlyFed
  <2> DEFINE diffusive == Q(2 * dzzTop, setup.dz[1]) \otimes (sKp[i] \ominus sSurf[i])
             seep == IF qss[i] > 0 /\ Wet(i) THEN I(qss[i]) \otimes sKp[i]
                     ELSE IF qss[i] < 0 THEN I(qss[i]) \otimes sSurf[i] ELSE Zero
             across == IF Wet(i) THEN diffusive ELSE Zero
             vent == I(ventWin[i]) \otimes sKp[i]
  <2>4. across = Zero
    <3>1. CASE ~Wet(i)
      BY <3>1
    <3>2. CASE Wet(i) /\ dzzTop > 0
      <4>1. sKp[i] \ominus sSurf[i] = Zero
        BY <2>1, <2>3, <3>2, PlusZero
      <4>2. Q(2 * dzzTop, setup.dz[1]) \in Fractions
        BY <2>2, Arithmetic
      <4> QED  BY <4>1, <4>2, TimesZero
    <3>3. CASE dzzTop = 0
      <4>1. Q(2 * dzzTop, setup.dz[1]) = Zero
        <5>1. 2 * dzzTop = 0
          BY <3>3
        <5>2. Q(0, setup.dz[1]) = Q(0, 1)
          BY <2>2, QSame
        <5> QED  BY <5>1, <5>2, IntegerQ DEF Zero
      <4>2. sKp[i] \ominus sSurf[i] \in Fractions
        BY <2>1, Arithmetic
      <4> QED  BY <4>1, <4>2, NoVolume
    <3> QED  BY <2>2, <3>1, <3>2, <3>3
  <2>5. seep = Level \otimes I(qss[i])
    <3>1. CASE qss[i] > 0
      <4>1. Wet(i)
        BY <2>2, <2>3, <3>1
      <4> QED  BY <2>1, <2>2, <3>1, <4>1, Scales
    <3>2. CASE qss[i] < 0
      <4>1. sSurf[i] = Level
        BY <2>3, <3>2
      <4>2. I(qss[i]) \otimes Level = Level \otimes I(qss[i])
        BY <2>1, <2>2, Scales
      <4> QED  BY <2>2, <3>2, <4>1, <4>2
    <3>3. CASE qss[i] = 0
      BY <2>1, <3>3, NoVolume
    <3> QED  BY <2>2, <3>1, <3>2, <3>3
  <2>6. vent = Level \otimes I(ventWin[i])
    BY <2>1, <2>2, Scales
  <2>7. ExchangeRate(i) = seep \oplus across \oplus vent
    BY <1>2, <2>1 DEF ExchangeRate
  <2>8. Level \otimes I(qss[i]) \in Fractions
    BY <2>1, <2>2, Scales
  <2> HIDE DEF seep, across, vent
  <2>9. seep \oplus across = Level \otimes I(qss[i])
    BY <2>4, <2>5, <2>8, PlusZero
  <2>10. (Level \otimes I(qss[i])) \oplus (Level \otimes I(ventWin[i]))
           = Level \otimes I(qss[i] + ventWin[i])
    BY <2>1, <2>2, Scales
  <2> QED  BY <2>6, <2>7, <2>9, <2>10
<1> QED  BY <1>1, <1>2

\* The mass of a wet cell is the level times its flux volume.
LEMMA LevelMass ==
  ASSUME SurfaceReady, NEW i \in Cols, Wet(i)
  PROVE  SurfIncrement(i) \oplus SurfInflow(i) = Level \otimes I(FluxVolume(i))
<1>1. /\ Level \in Fractions /\ Zero \in Fractions /\ vsn[i] \in Nat
      /\ vsn[i] > 0 => sSurf[i] = Level
      /\ sSurf[i] \in Fractions
  <2>1. sSurf[i] \in Fractions
    BY Places DEF SurfaceReady, ScalarType
  <2> QED  BY <2>1, ReadyFacts
<1>2. /\ fu[i] \in Int /\ fu[i - 1] \in Int /\ qss[i] \in Int /\ ventWin[i] \in Int
      /\ setup.inflowQ \in Nat
  BY Places, SetupFacts DEF SurfaceReady, WaterType
<1> DEFINE d == fu[i - 1] - fu[i]
           e == IF Coupled THEN qss[i] + ventWin[i] ELSE 0
           q == IF InflowHere(i) THEN setup.inflowQ ELSE 0
<1>3. FluxVolume(i) = vsn[i] + d + e + q
  <2>1. setup.consistentSurface /\ (Coupled => Consistent)
    BY ReadyFacts DEF SurfaceReady, UniformRun
  <2>2. Coupled /\ qss[i] < 0 => vsn[i] + fu[i - 1] - fu[i] > -qss[i]
    BY DEF SurfaceReady, EvenlyFed
  <2> DEFINE v == vsn[i] + fu[i - 1] - fu[i]
             ex == IF Coupled /\ (qss[i] > 0 \/ (qss[i] < 0 /\ v > -qss[i])) THEN qss[i] ELSE 0
             vt == IF Coupled /\ Consistent THEN ventWin[i] ELSE 0
  <2>3. FluxVolume(i) = v + ex + vt + q
    BY <2>1 DEF FluxVolume
  <2>4. v = vsn[i] + d /\ v \in Int /\ d \in Int
    BY <1>1, <1>2
  <2>5. Coupled => ex = qss[i]
    BY <1>2, <2>2
  <2>6. ex + vt = e /\ ex \in Int /\ vt \in Int /\ e \in Int /\ q \in Int
    <3>1. CASE Coupled
      <4>1. ex = qss[i] /\ vt = ventWin[i]
        BY <2>1, <2>5, <3>1
      <4> HIDE DEF ex, vt
      <4> QED  BY <1>2, <3>1, <4>1
    <3>2. CASE ~Coupled
      BY <1>2, <3>2
    <3> QED  BY <3>1, <3>2
  <2> HIDE DEF v, ex, vt, e, q, d
  <2> QED  BY <1>1, <2>3, <2>4, <2>6
<1>4. d \in Int /\ e \in Int /\ q \in Int
  BY <1>2
<1>5. sSurf[i] \otimes I(vsn[i]) = Level \otimes I(vsn[i])
  <2>1. CASE vsn[i] = 0
    BY <1>1, <2>1, NoVolume
  <2> QED  BY <1>1, <2>1
<1>6. Advected(i - 1) \ominus Advected(i) = Level \otimes I(d)
  BY <1>1, <1>2, Places, LevelCrosses, Scales
<1>7. Diffused(i) \ominus Diffused(i - 1) = Zero
  <2>1. Diffused(i) = Zero /\ Diffused(i - 1) = Zero
    BY Places, LevelCrosses
  <2> QED  BY <1>1, <2>1, PlusZero
<1>8. ExchangeRate(i) = Level \otimes I(e)
  BY <1>1, LevelSeeps, NoVolume
<1>9. SurfInflow(i) = Level \otimes I(q)
  <2>1. setup.inflowS = Level
    BY DEF SurfaceReady, UniformRun
  <2> QED  BY <1>1, <1>2, <2>1, NoVolume, Scales DEF SurfInflow
<1>10. SurfIncrement(i) = (((sSurf[i] \otimes I(vsn[i])) \oplus (Advected(i - 1) \ominus Advected(i)))
                           \oplus (Diffused(i) \ominus Diffused(i - 1))) \oplus ExchangeRate(i)
  BY DEF SurfIncrement
<1> HIDE DEF d, e, q
<1> DEFINE v == vsn[i]
<1>11. v \in Int /\ v + d \in Int /\ v + d + e \in Int
  BY <1>1, <1>4
<1>12. (Level \otimes I(v)) \oplus (Level \otimes I(d)) = Level \otimes I(v + d)
  BY <1>1, <1>4, <1>11, Scales
<1>13. (Level \otimes I(v + d)) \oplus Zero = Level \otimes I(v + d)
  BY <1>1, <1>11, Scales, PlusZero
<1> DEFINE w == v + d
           x == v + d + e
<1>14. (Level \otimes I(v + d)) \oplus (Level \otimes I(e)) = Level \otimes I(v + d + e)
  <2>1. w \in Int
    BY <1>11
  <2>2. (Level \otimes I(w)) \oplus (Level \otimes I(e)) = Level \otimes I(w + e)
    <3> HIDE DEF w
    <3> QED  BY <1>1, <1>4, <2>1, Scales
  <2> QED  BY <2>2
<1>15. (Level \otimes I(v + d + e)) \oplus (Level \otimes I(q)) = Level \otimes I(v + d + e + q)
  <2>1. x \in Int
    BY <1>11
  <2>2. (Level \otimes I(x)) \oplus (Level \otimes I(q)) = Level \otimes I(x + q)
    <3> HIDE DEF x
    <3> QED  BY <1>1, <1>4, <2>1, Scales
  <2> QED  BY <2>2
<1> QED
  BY <1>3, <1>5, <1>6, <1>7, <1>8, <1>9, <1>10, <1>12, <1>13, <1>14, <1>15

\* A wet cell's limiter has the level in its window: the cell itself held water,
\* or its water came from a wet neighbour or from the soil, which is conductive.
LEMMA LevelInStencil ==
  ASSUME SurfaceReady, NEW i \in Cols, Wet(i), ~InflowHere(i)
  PROVE  Level \in SurfStencil(i)
<1>1. /\ i \in Slots /\ Clip(i) = i /\ i \in XFaces /\ i - 1 \in XFaces /\ i \in Int
      /\ i - 1 \in Slots /\ i + 1 \in Slots
  <2>1. i - 1 \in Slots /\ i + 1 \in Slots
    BY Places DEF Cols, Slots
  <2> QED  BY <2>1, Places
<1>2. sSurf[i] \in SurfStencil(i)
  BY DEF SurfStencil
<1>3. CASE Coupled
  <2>1. sKp[i] = Level /\ setup.conductive
    BY <1>3, ReadyFacts DEF SurfaceReady, UniformRun
  <2> QED  BY <1>3, <2>1 DEF SurfStencil
<1>4. CASE ~Coupled
  <2>1. FluxVolume(i) > 0
    BY DEF SurfaceReady, EvenlyFed
  <2>2. /\ vsn[i] \in Nat /\ fu[i] \in Int /\ fu[i - 1] \in Int
        /\ asx[i] \in Nat /\ asx[i - 1] \in Nat
        /\ fu[i] # 0 => asx[i] # 0
        /\ fu[i - 1] # 0 => asx[i - 1] # 0
    BY <1>1 DEF SurfaceReady, WaterType
  <2>3. FluxVolume(i) = vsn[i] + fu[i - 1] - fu[i]
    <3>1. setup.consistentSurface
      BY DEF SurfaceReady, UniformRun
    <3>2. FluxVolume(i) = vsn[i] + fu[i - 1] - fu[i] + 0 + 0 + 0
      BY <1>4, <3>1 DEF FluxVolume
    <3> QED  BY <2>2, <3>2
  <2>4. CASE sSurf[i] = Level
    BY <1>2, <2>4
  <2>5. CASE sSurf[i] # Level
    <3>1. vsn[i] = 0 /\ \A j \in Slots : vsn[Clip(j)] = 0 => sSurf[j] = Zero
      <4>1. ~(vsn[i] > 0)
        BY <2>5, ReadyFacts
      <4> QED  BY <2>2, <2>5, <4>1, ReadyFacts
    <3>2. sSurf[i] = Zero /\ Level # Zero
      <4>1. sSurf[i] = Zero
        BY <1>1, <3>1
      <4> QED  BY <2>5, <4>1
    <3>3. fu[i - 1] > 0 \/ fu[i] < 0
      BY <2>1, <2>2, <2>3, <3>1
    <3>4. \A f \in XFaces : fu[f] # 0 => sSurf[IF fu[f] > 0 THEN f ELSE f + 1] = Level
      BY DEF SurfaceReady, EvenlyFed
    <3>5. \A j \in Slots : sSurf[j] = Level => vsn[Clip(j)] > 0
      <4>1. \A j \in Slots : Clip(j) \in Cols
        BY Places
      <4>2. \A j \in Slots : vsn[Clip(j)] \in Nat
        BY <4>1, ReadyFacts
      <4> QED  BY <3>1, <3>2, <4>2
    <3>6. CASE fu[i - 1] > 0
      <4>1. sSurf[i - 1] = Level
        BY <1>1, <2>2, <3>4, <3>6
      <4>2. vsn[Clip(i - 1)] > 0 /\ asx[i - 1] > 0 /\ i - 1 < i
        BY <1>1, <2>2, <3>5, <3>6, <4>1
      <4>3. i - 1 \in {n \in {i - 1, i + 1} : asx[IF n < i THEN n ELSE i] > 0 /\ vsn[Clip(n)] > 0}
        BY <4>2
      <4> QED  BY <4>1, <4>3 DEF SurfStencil
    <3>7. CASE fu[i] < 0
      <4>1. sSurf[i + 1] = Level
        BY <1>1, <2>2, <3>4, <3>7
      <4>2. vsn[Clip(i + 1)] > 0 /\ asx[i] > 0 /\ ~(i + 1 < i)
        BY <1>1, <2>2, <3>5, <3>7, <4>1
      <4>3. i + 1 \in {n \in {i - 1, i + 1} : asx[IF n < i THEN n ELSE i] > 0 /\ vsn[Clip(n)] > 0}
        BY <4>2
      <4> QED  BY <4>1, <4>3 DEF SurfStencil
    <3> QED  BY <3>3, <3>6, <3>7
  <2> QED  BY <2>4, <2>5
<1> QED  BY <1>3, <1>4

LEMMA LevelBounded ==
  ASSUME setup \in Setups, UniformRun
  PROVE  /\ SurfBounded(Level) = Level
         /\ ~(Level \prec LimLo \ominus I(1))
         /\ ~(setup.hasMax /\ LimHi \prec Level) /\ ~(setup.hasMin /\ Level \prec LimLo)
<1>1. /\ Level \in Fractions /\ LimHi \in Fractions /\ LimLo \in Fractions /\ I(1) \in Fractions
      /\ LimLo \ominus I(1) \in Fractions
  BY LevelType, Limits, Arithmetic
<1>2. ~(Level \prec LimLo) /\ ~(LimHi \prec Level)
  BY DEF UniformRun
<1>3. ~(LimLo \prec LimLo \ominus I(1))
  <2>1. PICK D \in Nat \ {0} : LimLo \in Over(D) /\ I(1) \in Over(D)
    BY <1>1, Three
  <2>2. /\ LimLo \ominus I(1) \in Over(D)
        /\ Num(LimLo \ominus I(1), D) = Num(LimLo, D) - Num(I(1), D)
    BY <2>1, OverDifference
  <2>3. Num(I(1), D) = D /\ Num(LimLo, D) \in Int
    <3>1. Num(I(1), D) = 1 * D
      BY OverInteger
    <3>2. Num(LimLo, D) \in Int
      BY <2>1, OverNum
    <3> QED  BY <3>1, <3>2
  <2>4. ~(Num(LimLo, D) < Num(LimLo \ominus I(1), D))
    BY <2>2, <2>3
  <2> QED  BY <2>1, <2>2, <2>4, Ordered
<1>4. ~(Level \prec LimLo \ominus I(1))
  BY <1>1, <1>2, <1>3, OrderChain
<1>5. ~(Level \prec LimHi) => Level = LimHi
  BY <1>1, <1>2, OneIsLarger
<1> QED  BY <1>2, <1>4, <1>5 DEF SurfBounded

LEMMA LevelHeld ==
  ASSUME SurfaceReady, NEW i \in Cols, Wet(i)
  PROVE  SurfBounded(SurfLimited(i, Level)) = Level
<1>1. /\ SurfBounded(Level) = Level /\ ~(Level \prec LimLo \ominus I(1))
  BY LevelBounded DEF SurfaceReady, WaterType
<1>2. CASE InflowHere(i)
  <2>1. SurfLimited(i, Level) = Level
    BY <1>1, <1>2 DEF SurfLimited
  <2> QED  BY <1>1, <2>1
<1>3. CASE ~InflowHere(i)
  <2> DEFINE S == SurfStencil(i)
  <2>1. Level \in S /\ IsFiniteSet(S) /\ S \subseteq Fractions
    BY <1>3, LevelInStencil, SurfStencilType DEF SurfaceReady
  <2>2. ~(Highest(S) \prec Level) /\ ~(Level \prec Lowest(S))
    <3> HIDE DEF S
    <3> QED  BY <2>1, InWindow
  <2>3. SurfLimited(i, Level) = Level
    BY <1>3, <2>2 DEF SurfLimited
  <2> QED  BY <1>1, <2>3
<1> QED  BY <1>2, <1>3

\* One update of a column: a wet one is at the level and nothing was clipped, a
\* dry one is at zero.
LEMMA LevelUpdate ==
  ASSUME SurfaceReady, NEW i \in Cols
  PROVE  /\ Wet(i) => SurfUpdate(i).value = Level /\ SurfUpdate(i).adjust = Zero
         /\ ~Wet(i) => SurfUpdate(i).value = Zero
<1> DEFINE sm    == SurfIncrement(i) \oplus SurfInflow(i)
           v     == FluxVolume(i)
           wet   == v > 0 /\ Wet(i)
           raw   == IF wet THEN sm \oslash I(v) ELSE Zero
           held  == IF wet THEN SurfBounded(SurfLimited(i, raw)) ELSE Zero
           vre   == Dilution(i, v)
           basis == I(v) \oplus vre
           mixed == IF vre = Zero THEN held ELSE (held \otimes I(v)) \oslash basis
           heat  == IF setup.equilibrium /\ Wet(i) /\ Zero \prec basis
                    THEN setup.equilibriumK \otimes (setup.equilibriumT \ominus mixed) ELSE Zero
           value == IF heat = Zero THEN mixed ELSE mixed \oplus (heat \oslash basis)
           adjust == IF wet THEN (held \ominus raw) \otimes I(v) ELSE Zero \ominus sm
           anchor == IF wet THEN value \otimes (I(dept[i]) \ominus basis) ELSE Zero
<1>0. SurfUpdate(i) = [value |-> value, adjust |-> adjust, anchor |-> anchor, atmos |-> heat]
  BY DEF SurfUpdate
<1>1. SurfUpdate(i).value = value /\ SurfUpdate(i).adjust = adjust
  <2> HIDE DEF value, adjust, anchor, heat
  <2> QED  BY <1>0
<1>2. /\ Level \in Fractions /\ Zero \in Fractions /\ v \in Int /\ ~setup.equilibrium
      /\ rain = Zero /\ evap = Zero /\ ~(Zero \prec Zero)
  <2>1. Level \in Fractions /\ Zero \in Fractions
    BY ReadyFacts
  <2>2. v \in Int
    BY FluxVolumeType DEF SurfaceReady
  <2>3. ~setup.equilibrium /\ rain = Zero /\ evap = Zero
    BY DEF SurfaceReady, UniformRun, EvenlyFed
  <2> QED  BY <2>1, <2>2, <2>3, OneIsLarger
<1>3. vre = Zero
  <2>1. Zero \ominus Zero = Zero
    BY <1>2, PlusZero
  <2> QED  BY <1>2, <2>1 DEF Dilution
<1>4. value = held
  <2> HIDE DEF held, basis, vre
  <2> QED  BY <1>2, <1>3
<1>5. ASSUME ~Wet(i) PROVE value = Zero
  BY <1>4, <1>5
<1>6. ASSUME Wet(i) PROVE value = Level /\ adjust = Zero
  <2>1. wet
    BY <1>6 DEF SurfaceReady, EvenlyFed
  <2>2. raw = Level
    <3>1. sm = Level \otimes I(v)
      BY <1>6, LevelMass
    <3>2. I(v) \in Fractions /\ I(v) # Zero
      <4> HIDE DEF v
      <4>1. v # 0
        BY <1>2, <2>1
      <4> QED  BY <1>2, <4>1, NotZero, IntegerQ
    <3>3. (Level \otimes I(v)) \oslash I(v) = Level
      <4> HIDE DEF v
      <4> QED  BY <1>2, <3>2, QuotientIs
    <3> HIDE DEF sm, v, wet
    <3> QED  BY <2>1, <3>1, <3>3
  <2>3. held = Level
    <3> HIDE DEF raw, wet
    <3> QED  BY <1>6, <2>1, <2>2, LevelHeld
  <2>4. adjust = Zero
    <3>1. held \ominus raw = Zero
      <4> HIDE DEF held, raw
      <4> QED  BY <1>2, <2>2, <2>3, PlusZero
    <3>2. I(v) \in Fractions
      BY <1>2, IntegerQ
    <3>3. Zero \otimes I(v) = Zero
      BY <3>2, NoVolume
    <3> HIDE DEF held, raw, v, wet
    <3> QED  BY <2>1, <3>1, <3>3
  <2> QED  BY <1>4, <2>3, <2>4
<1> QED  BY <1>1, <1>5, <1>6

LEMMA SameRun ==
  ASSUME setup' = setup
  PROVE  /\ UniformRun' = UniformRun /\ Level' = Level
         /\ Consistent' = Consistent /\ Coupled' = Coupled
BY DEF UniformRun, Level, LimHi, LimLo, Consistent, Coupled

LEMMA AccountedStays ==
  ASSUME Accounted, setup' = setup, UNCHANGED <<ventWin, unbooked, wc, wcT, qx, qz, qxWin, qzWin>>,
         pc # "snapshot" \/ pc' = "snapshot"
  PROVE  Accounted'
<1>1. Consistent' = Consistent
  BY SameRun
<1>2. \A c : Divergence(c)' = Divergence(c)
  BY <1>1 DEF Divergence
<1>3. ASSUME Consistent', pc' # "snapshot", NEW c \in Cells
      PROVE  wc'[c] = wcT'[c] + Divergence(c)' + unbooked'[c]
  <2>1. wc[c] = wcT[c] + Divergence(c) + unbooked[c]
    BY <1>1, <1>3 DEF Accounted
  <2> QED  BY <1>2, <2>1
<1> QED  BY <1>3 DEF Accounted

LEMMA SurfaceKeeps ==
  ASSUME IInv, Accounted, Kept, StepSurface
  PROVE  Accounted' /\ Kept'
<1>1. /\ pc = "surface" /\ pc' = "ground" /\ setup' = setup /\ sSubs' = sSubs
      /\ UNCHANGED <<ventWin, unbooked, wc, wcT, qx, qz, qxWin, qzWin, dept>>
  BY DEF StepSurface, flowVars, soilVars
<1>2. Accounted'
  BY <1>1, AccountedStays
<1>3. WaterType /\ ScalarType /\ Settled /\ history \in Histories
  BY DEF IInv, TypeOK
<1>4. UniformRun' = UniformRun /\ Level' = Level /\ Coupled' = Coupled
  BY <1>1, SameRun
<1>5. ASSUME UniformRun', history'.sound, setup.surface
      PROVE  SoilUniform' /\ SurfaceUniform' /\ TopFed' /\ Sourced' /\ ~history'.clipped
  <2>1. PICK new : /\ new = [i \in Cols |-> SurfUpdate(i)]
                   /\ ssee' = [i \in Cols |-> ExchangeRate(i)]
                   /\ sSurf' = [i \in Slots |->
                        IF i \in Cols THEN DryRule(i, [n \in Cols |-> Reset(n, new[n].value)][i])
                        ELSE EdgeGhosts([n \in Cols |-> new[n].value])[i]]
                   /\ \E missed : history' = [history EXCEPT !.surfMissed = missed,
                        !.sound = @ /\ EvenlyFed,
                        !.clipped = @ \/ \E i \in Cols : Wet(i) /\ new[i].adjust # Zero]
    BY <1>5, ZenonT(60) DEF StepSurface
  <2>2. PICK missed : history' = [history EXCEPT !.surfMissed = missed, !.sound = @ /\ EvenlyFed,
                        !.clipped = @ \/ \E i \in Cols : Wet(i) /\ new[i].adjust # Zero]
    BY <2>1
  <2> DEFINE sound == history.sound /\ EvenlyFed
             clips == \E i \in Cols : Wet(i) /\ new[i].adjust # Zero
  <2>3. history'.sound = sound /\ history'.clipped = (history.clipped \/ clips)
    <3> HIDE DEF sound, clips
    <3>1. history' = [history EXCEPT !.surfMissed = missed, !.sound = sound,
                        !.clipped = history.clipped \/ clips]
      BY <2>2 DEF sound, clips
    <3> QED  BY <1>3, <3>1 DEF Histories
  <2>4. UniformRun /\ history.sound /\ EvenlyFed
    BY <1>4, <1>5, <2>3
  <2>5. SoilUniform /\ SurfaceUniform /\ ~history.clipped
    BY <2>4 DEF Kept
  <2>6. SurfaceReady
    BY <1>1, <1>3, <1>5, <2>4, <2>5 DEF SurfaceReady
  <2>7. /\ Level \in Fractions /\ \A i \in Cols : vsn[i] \in Nat
        /\ setup.tideValue = Level /\ \A i \in Cols : dept[i] \in Nat
    BY <1>3, <2>4, <2>6, ReadyFacts DEF UniformRun, WaterType
  <2>8. ASSUME NEW i \in Cols
        PROVE  /\ Wet(i) => new[i].value = Level /\ new[i].adjust = Zero
               /\ ~Wet(i) => new[i].value = Zero
    BY <2>1, <2>6, LevelUpdate
  <2>9. ~history'.clipped
    BY <2>3, <2>5, <2>8
  <2>10. ASSUME NEW j \in Slots
         PROVE  sSurf'[j] = IF dept[Clip(j)] > 0 THEN Level ELSE Zero
    <3>1. CASE j \in Cols
      <4>1. Clip(j) = j
        BY <3>1, Places
      <4>2. sSurf'[j] = DryRule(j, Reset(j, new[j].value))
        BY <2>1, <3>1
      <4>3. CASE Wet(j)
        <5>1. Reset(j, new[j].value) = Level
          BY <2>7, <2>8, <3>1, <4>3 DEF Reset
        <5> QED  BY <4>1, <4>2, <4>3, <5>1 DEF DryRule, Wet
      <4>4. CASE ~Wet(j)
        BY <4>1, <4>2, <4>4 DEF DryRule, Wet
      <4> QED  BY <4>3, <4>4
    <3>2. CASE j \notin Cols
      <4>1. Clip(j) \in Cols
        BY Places
      <4>2. sSurf'[j] = new[Clip(j)].value
        BY <2>1, <3>2, <4>1 DEF EdgeGhosts
      <4> QED  BY <2>8, <4>1, <4>2 DEF Wet
    <3> QED  BY <3>1, <3>2
  <2>11. SurfaceUniform'
    <3>1. \A i : Carried(i)' = dept[i]
      BY <1>1 DEF Carried
    <3>2. \A i \in Cols : i \in Slots /\ Clip(i) = i
      BY Places
    <3>3. \A j \in Slots : Clip(j) \in Cols /\ dept[Clip(j)] \in Nat
      BY <2>7, Places
    <3>4. \A j \in Slots : sSurf'[j] \in {Zero, Level}
      BY <2>10
    <3>5. \A i \in Cols : dept[i] > 0 => sSurf'[i] = Level
      BY <2>10, <3>2
    <3>6. \A j \in Slots : dept[Clip(j)] = 0 => sSurf'[j] = Zero
      BY <2>10
    <3> QED  BY <1>4, <3>1, <3>4, <3>5, <3>6 DEF SurfaceUniform
  <2>12. TopFed'
    <3>1. ASSUME setup.ground, NEW i \in Cols
          PROVE  ssee'[i] = Level \otimes I(qzWin[<<i, 1>>])
      <4>1. Coupled
        BY <1>5, <3>1 DEF Coupled
      <4>2. ssee'[i] = Level \otimes I(qss[i] + ventWin[i])
        BY <2>1, <2>6, <4>1, LevelSeeps
      <4>3. qss[i] + ventWin[i] = qzWin[<<i, 1>>]
        BY <2>4, <4>1 DEF EvenlyFed
      <4> QED  BY <4>2, <4>3
    <3> QED  BY <1>1, <1>4, <1>5, <3>1 DEF TopFed
  <2>13. Sourced'
    BY <1>1, <2>4 DEF Sourced, EvenlyFed, GrainBasis
  <2> QED  BY <1>1, <1>4, <2>5, <2>9, <2>11, <2>12, <2>13 DEF SoilUniform
<1>6. ASSUME UniformRun', history'.sound, ~setup.surface
      PROVE  SoilUniform' /\ SurfaceUniform' /\ TopFed' /\ Sourced' /\ ~history'.clipped
  <2> DEFINE sound == history.sound /\ EvenlyFed
  <2>1. history'.sound = sound /\ history'.clipped = history.clipped
    <3>1. history' = [history EXCEPT !.sound = sound]
      BY <1>6 DEF StepSurface
    <3> HIDE DEF sound
    <3> QED  BY <1>3, <3>1 DEF Histories
  <2>2. UniformRun /\ history.sound /\ EvenlyFed
    BY <1>4, <1>6, <2>1
  <2>3. SoilUniform /\ ~history.clipped
    BY <2>2 DEF Kept
  <2>4. TopFed'
    BY <1>1, <1>6, <2>2 DEF TopFed, EvenlyFed
  <2>5. SurfaceUniform'
    BY <1>1, <1>6 DEF SurfaceUniform
  <2>6. Sourced'
    BY <1>1, <2>2 DEF Sourced, EvenlyFed, GrainBasis
  <2> QED  BY <1>1, <1>4, <2>1, <2>3, <2>4, <2>5, <2>6 DEF SoilUniform
<1> QED  BY <1>2, <1>5, <1>6 DEF Kept

\* The states of a subsurface step that the lemmas below are about.
SoilReady ==
  /\ WaterType /\ ScalarType /\ Accounted /\ UniformRun /\ pc = "ground" /\ setup.ground
  /\ SoilUniform /\ SurfaceUniform /\ TopFed /\ Sourced

LEMMA SoilReadyFacts ==
  ASSUME SoilReady
  PROVE  /\ setup \in Setups /\ Level \in Fractions /\ Zero \in Fractions /\ Consistent
         /\ setup.conductive
         /\ \A i \in Slots, k \in Layers : sSubs[<<i, k>>] = Level
         /\ \A i \in Cols, k \in Layers : Below(i, k) = Level
         /\ \A i \in Cols : Coupled /\ Wet(i) => sSurf[i] = Level
         /\ Level \ominus Level = Zero
<1>1. setup \in Setups /\ setup.ground /\ pc = "ground"
  BY DEF SoilReady, WaterType
<1>2. Level \in Fractions /\ Zero \in Fractions
  BY <1>1, LevelType, Arithmetic
<1>3. Consistent /\ setup.conductive
  BY DEF SoilReady, UniformRun, Consistent
<1>4. \A i \in Slots, k \in Layers : sSubs[<<i, k>>] = Level
  BY <1>1 DEF SoilReady, SoilUniform
<1>5. \A i \in Cols, k \in Layers : Below(i, k) = Level
  <2>1. \A i \in Cols : i \in Slots
    BY Places
  <2>2. \A k \in Layers : k < NZ => k + 1 \in Layers
    BY Places DEF Layers
  <2> QED  BY <1>4, <2>1, <2>2 DEF Below
<1>6. \A i \in Cols : Coupled /\ Wet(i) => sSurf[i] = Level
  BY <1>1 DEF SoilReady, SurfaceUniform, Carried, Wet, Coupled
<1> QED  BY <1>1, <1>2, <1>3, <1>4, <1>5, <1>6, PlusZero

LEMMA LevelSides ==
  ASSUME SoilReady, NEW f \in XFaces, NEW k \in Layers
  PROVE  SideMass(f, k) = Level \otimes I(FlowX(<<f, k>>)) /\ FlowX(<<f, k>>) \in Int
<1> DEFINE q == FlowX(<<f, k>>)
           s(i) == sSubs[<<i, k>>]
<1>1. q \in Int
  BY FlowType DEF SoilReady
<1>2. Level \in Fractions /\ Zero \in Fractions /\ Level \ominus Level = Zero
  BY SoilReadyFacts
<1>3. f \in Int /\ s(f) = Level /\ s(f + 1) = Level
  BY Places, SoilReadyFacts
<1>4. (q > 0 => Q(q, setup.dz[k]) \in Fractions) /\ (q < 0 => Q(-q, setup.dz[k]) \in Fractions)
  <2>1. (q > 0 => q \in Nat) /\ (q < 0 => -q \in Nat)
    BY <1>1
  <2> HIDE DEF q
  <2> QED  BY <2>1, SoilFacts DEF SoilReady
<1>5. q # 0 => SideFace(f, k) = Level
  <2>1. CASE q > 0
    <3>1. SideFace(f, k) = IF setup.superbee /\ f < NX
                           THEN TvdSuperbee(s(f), s(f + 1), s(f + 2), Q(q, setup.dz[k])) ELSE s(f + 1)
      BY <2>1 DEF SideFace
    <3> HIDE DEF q, s
    <3>2. TvdSuperbee(Level, Level, s(f + 2), Q(q, setup.dz[k])) = Level
      BY <1>2, <1>4, <2>1, FlatFace
    <3> QED  BY <1>3, <3>1, <3>2
  <2>2. CASE q < 0
    <3>1. SideFace(f, k) = IF setup.superbee /\ f > 0
                           THEN TvdSuperbee(s(f + 1), s(f), s(f - 1), Q(-q, setup.dz[k])) ELSE s(f)
      BY <1>1, <2>2 DEF SideFace
    <3> HIDE DEF q, s
    <3>2. TvdSuperbee(Level, Level, s(f - 1), Q(-q, setup.dz[k])) = Level
      BY <1>2, <1>4, <2>2, FlatFace
    <3> QED  BY <1>3, <3>1, <3>2
  <2> QED  BY <1>1, <2>1, <2>2
<1>6. I(q) \otimes SideFace(f, k) = Level \otimes I(q)
  <2>1. CASE q = 0
    <3>1. SideFace(f, k) = Zero
      BY <2>1 DEF SideFace
    <3> QED  BY <1>2, <2>1, <3>1, NoVolume
  <2>2. CASE q # 0
    <3> HIDE DEF q
    <3> QED  BY <1>1, <1>2, <1>5, <2>2, Scales
  <2> QED  BY <2>1, <2>2
<1>7. Dispersed(f, k) = Zero
  <2>1. I(setup.mol * setup.dz[k]) \in Fractions
    <3>1. setup.mol * setup.dz[k] \in Int
      BY SetupFacts DEF SoilReady, WaterType
    <3> QED  BY <3>1, Arithmetic
  <2>2. I(setup.mol * setup.dz[k]) \otimes (s(f + 1) \ominus s(f)) = Zero
    <3>1. s(f + 1) \ominus s(f) = Zero
      BY <1>2, <1>3
    <3> HIDE DEF s
    <3> QED  BY <2>1, <3>1, TimesZero
  <2> QED  BY <2>2 DEF Dispersed
<1>8. Level \otimes I(q) \in Fractions
  <2> HIDE DEF q
  <2> QED  BY <1>1, <1>2, Scales
<1>9. (Level \otimes I(q)) \oplus Zero = Level \otimes I(q)
  BY <1>8, PlusZero
<1> QED  BY <1>1, <1>6, <1>7, <1>9 DEF SideMass

\* Nothing disperses down a uniform column.
LEMMA LevelDisperses ==
  ASSUME SoilReady, NEW i \in Cols, NEW k \in Layers
  PROVE  DispersedBelow(i, k) = Zero /\ DispersedTop(i) = Zero
<1>1. DispersedTop(i) = Zero
  BY SoilReadyFacts DEF DispersedTop
<1>2. CASE ~(k < NZ)
  BY <1>1, <1>2 DEF DispersedBelow
<1>3. CASE k < NZ
  <2>1. i \in Slots /\ k + 1 \in Layers /\ setup.mol \in Nat /\ setup.dz[k] \in Nat \ {0}
    <3>1. i \in Slots /\ k + 1 \in Layers
      BY <1>3, Places DEF Layers
    <3> QED  BY <3>1, SetupFacts DEF SoilReady, WaterType
  <2>2. sSubs[<<i, k + 1>>] \ominus sSubs[<<i, k>>] = Zero
    BY <2>1, SoilReadyFacts
  <2>3. Q(setup.mol, setup.dz[k]) \in Fractions
    BY <2>1, Arithmetic
  <2>4. Q(setup.mol, setup.dz[k]) \otimes Zero = Zero
    BY <2>3, TimesZero
  <2> QED  BY <1>1, <2>2, <2>4 DEF DispersedBelow
<1> QED  BY <1>2, <1>3

LEMMA LevelLower ==
  ASSUME SoilReady, NEW i \in Cols, NEW k \in Layers
  PROVE  LowerMass(i, k) = Level \otimes I(FlowZ(<<i, k + 1>>)) /\ FlowZ(<<i, k + 1>>) \in Int
<1> DEFINE q == FlowZ(<<i, k + 1>>)
<1>1. q \in Int
  BY Places, FlowType DEF SoilReady
<1>2. Level \in Fractions /\ Zero \in Fractions
  BY SoilReadyFacts
<1>3. /\ sSubs[<<i, k>>] = Level /\ Below(i, k) = Level
      /\ k < NZ => sSubs[<<i, k + 1>>] = Level
  <2>1. i \in Slots /\ (k < NZ => k + 1 \in Layers)
    BY Places DEF Layers
  <2> QED  BY <2>1, SoilReadyFacts
<1>4. Courant(q, k) \in Fractions
  <2> HIDE DEF q
  <2> QED  BY <1>1, SoilFacts DEF SoilReady
<1>5. q # 0 => LowerFace(i, k) = Level
  <2> DEFINE c == Courant(q, k)
             b == Below(i, k + 1)
             a == Above(i, k)
  <2>1. TvdSuperbee(Level, Level, a, c) = Level /\ TvdSuperbee(Level, Level, b, c) = Level
    <3> HIDE DEF a, b, c
    <3> QED  BY <1>2, <1>4, FlatFace DEF c
  <2>2. CASE q > 0
    <3>1. LowerFace(i, k) = IF setup.superbee /\ k < NZ
                            THEN TvdSuperbee(sSubs[<<i, k>>], sSubs[<<i, k + 1>>], b, c)
                            ELSE Below(i, k)
      BY <2>2 DEF LowerFace
    <3> HIDE DEF a, b, c, q
    <3> QED  BY <1>3, <2>1, <3>1
  <2>3. CASE q < 0
    <3>1. LowerFace(i, k) = IF setup.superbee
                            THEN TvdSuperbee(Below(i, k), sSubs[<<i, k>>], a, c)
                            ELSE sSubs[<<i, k>>]
      BY <1>1, <2>3 DEF LowerFace
    <3> HIDE DEF a, b, c, q
    <3> QED  BY <1>3, <2>1, <3>1
  <2> QED  BY <1>1, <2>2, <2>3
<1>6. I(q) \otimes LowerFace(i, k) = Level \otimes I(q)
  <2>1. CASE q = 0
    <3>1. LowerFace(i, k) = Zero
      BY <2>1 DEF LowerFace
    <3> QED  BY <1>2, <2>1, <3>1, NoVolume
  <2>2. CASE q # 0
    <3> HIDE DEF q
    <3> QED  BY <1>1, <1>2, <1>5, <2>2, Scales
  <2> QED  BY <2>1, <2>2
<1>7. (Level \otimes I(q)) \oplus Zero = Level \otimes I(q)
  <2> HIDE DEF q
  <2>1. Level \otimes I(q) \in Fractions
    BY <1>1, <1>2, Scales
  <2> QED  BY <2>1, PlusZero
<1> QED  BY <1>1, <1>6, <1>7, LevelDisperses DEF LowerMass

\* At the top of a coupled column nothing passes but through the exchange.
LEMMA LevelUpper ==
  ASSUME SoilReady, NEW i \in Cols, NEW k \in Layers
  PROVE  /\ FlowZ(<<i, k>>) \in Int
         /\ UpperMass(i, k) = IF Coupled /\ k = 1 THEN Zero ELSE Level \otimes I(FlowZ(<<i, k>>))
<1> DEFINE q == FlowZ(<<i, k>>)
<1>1. q \in Int
  BY Places, FlowType DEF SoilReady
<1>2. Level \in Fractions /\ Zero \in Fractions /\ 1 \in Layers /\ i \in Slots
  BY SoilReadyFacts, Places
<1>3. (Level \otimes I(q)) \oplus Zero = Level \otimes I(q) /\ Zero \oplus Zero = Zero
  <2> HIDE DEF q
  <2>1. Level \otimes I(q) \in Fractions
    BY <1>1, <1>2, Scales
  <2> QED  BY <1>2, <2>1, PlusZero
<1>4. CASE k = 1
  <2>1. UpperMass(i, k) = (I(q) \otimes TopFace(i)) \oplus DispersedTop(i)
    BY <1>4 DEF UpperMass, UpperFace
  <2>2. DispersedTop(i) = Zero
    BY LevelDisperses
  <2>3. CASE Coupled
    <3>1. TopFace(i) = Zero
      BY <2>3 DEF TopFace
    <3>2. I(q) \in Fractions
      BY <1>1, IntegerQ
    <3>3. I(q) \otimes Zero = Zero
      BY <3>2, TimesZero
    <3> QED  BY <1>1, <1>3, <1>4, <2>1, <2>2, <2>3, <3>1, <3>3
  <2>4. CASE ~Coupled
    <3>1. q = qzWin[<<i, 1>>] /\ sSubs[<<i, 1>>] = Level
      BY <1>2, <1>4, SoilReadyFacts DEF FlowZ
    <3>2. q = 0 \/ (q > 0 /\ i \notin setup.topFlux \cup setup.cauchy)
      <4>1. ~setup.surface /\ pc = "ground" /\ setup.ground
        BY <2>4 DEF Coupled, SoilReady
      <4> QED  BY <3>1, <4>1 DEF SoilReady, TopFed
    <3>3. TopFace(i) \in {Zero, Level} /\ (q > 0 => TopFace(i) = Level)
      BY <1>4, <2>4, <3>1, <3>2 DEF TopFace
    <3>4. I(q) \otimes TopFace(i) = Level \otimes I(q)
      <4>1. CASE q = 0
        BY <1>2, <3>3, <4>1, NoVolume
      <4>2. CASE q > 0
        <5> HIDE DEF q
        <5> QED  BY <1>1, <1>2, <3>3, <4>2, Scales
      <4> QED  BY <3>2, <4>1, <4>2
    <3> QED  BY <1>1, <1>3, <2>1, <2>2, <2>4, <3>4
  <2> QED  BY <2>3, <2>4
<1>5. CASE k # 1
  <2>1. k - 1 \in Layers /\ k \in Nat /\ k > 1
    BY <1>5, Places DEF Layers
  <2>2. sSubs[<<i, k>>] = Level /\ sSubs[<<i, k - 1>>] = Level
    BY <1>2, <2>1, SoilReadyFacts
  <2> DEFINE c == Courant(q, k)
             b == Below(i, k)
             a == Above(i, k - 1)
  <2>3. c \in Fractions
    <3> HIDE DEF q
    <3> QED  BY <1>1, SoilFacts DEF SoilReady
  <2>4. TvdSuperbee(Level, Level, a, c) = Level /\ TvdSuperbee(Level, Level, b, c) = Level
    <3> HIDE DEF a, b, c
    <3> QED  BY <1>2, <2>3, FlatFace
  <2>5. UpperFace(i, k) =
          IF q > 0 THEN IF setup.superbee
                        THEN TvdSuperbee(sSubs[<<i, k - 1>>], sSubs[<<i, k>>], b, c) ELSE sSubs[<<i, k>>]
          ELSE IF q < 0 THEN IF setup.superbee
                             THEN TvdSuperbee(sSubs[<<i, k>>], sSubs[<<i, k - 1>>], a, c)
                             ELSE sSubs[<<i, k - 1>>]
          ELSE Zero
    BY <1>5 DEF UpperFace
  <2>6. I(q) \otimes UpperFace(i, k) = Level \otimes I(q)
    <3>1. CASE q = 0
      <4>1. UpperFace(i, k) = Zero
        BY <2>5, <3>1
      <4> QED  BY <1>2, <3>1, <4>1, NoVolume
    <3>2. CASE q # 0
      <4>1. q > 0 \/ q < 0
        BY <1>1, <3>2
      <4> HIDE DEF a, b, c, q
      <4>2. UpperFace(i, k) = Level
        BY <2>2, <2>4, <2>5, <4>1
      <4> QED  BY <1>1, <1>2, <4>2, Scales
    <3> QED  BY <3>1, <3>2
  <2>7. DispersedBelow(i, k - 1) = Zero
    BY <2>1, LevelDisperses
  <2> QED  BY <1>1, <1>3, <1>5, <2>6, <2>7 DEF UpperMass
<1> QED  BY <1>4, <1>5

\* The mass of a soil cell is the level times its flux volume.
LEMMA LevelSoilMass ==
  ASSUME SoilReady, NEW c \in Cells
  PROVE  GroundIncrement(c) = Level \otimes I(GroundFluxVolume(c))
<1> DEFINE i == c[1]
           k == c[2]
           w == WaterBasis(c) + GrainBasis(k)
           a == FlowX(<<i, k>>)
           b == FlowX(<<i - 1, k>>)
           d == FlowZ(<<i, k + 1>>)
           e == FlowZ(<<i, k>>)
           E == IF Coupled /\ k = 1 THEN ssee[i] ELSE Zero
           U == IF Coupled /\ k = 1 THEN Zero ELSE Level \otimes I(e)
<1>1. i \in Cols /\ k \in Layers /\ c = <<i, k>> /\ i \in Slots /\ i \in XFaces /\ i - 1 \in XFaces
  <2>1. i \in Cols /\ k \in Layers /\ c = <<i, k>>
    BY DEF Cells
  <2> QED  BY <2>1, Places
<1>2. Level \in Fractions /\ Zero \in Fractions /\ Consistent /\ sSubs[c] = Level
  BY <1>1, SoilReadyFacts
<1>3. w \in Int
  BY GroundTypes DEF SoilReady
<1>4. /\ SideMass(i, k) = Level \otimes I(a) /\ SideMass(i - 1, k) = Level \otimes I(b)
      /\ a \in Int /\ b \in Int
  BY <1>1, LevelSides
<1>5. /\ LowerMass(i, k) = Level \otimes I(d) /\ d \in Int
      /\ UpperMass(i, k) = U /\ e \in Int
  <2>1. LowerMass(i, k) = Level \otimes I(d) /\ d \in Int
    BY <1>1, LevelLower
  <2>2. UpperMass(i, k) = U /\ e \in Int
    BY <1>1, LevelUpper
  <2> QED  BY <2>1, <2>2
<1>6. E = IF Coupled /\ k = 1 THEN Level \otimes I(e) ELSE Zero
  <2>1. CASE Coupled /\ k = 1
    <3>1. ssee[i] = Level \otimes I(qzWin[<<i, 1>>])
      BY <1>1, <2>1 DEF SoilReady, TopFed, Coupled
    <3>2. e = qzWin[<<i, 1>>]
      BY <1>2, <2>1 DEF FlowZ
    <3> QED  BY <2>1, <3>1, <3>2
  <2> QED  BY <2>1
<1>7. GroundFluxVolume(c) = w + (a - b) + (d - e)
  <2>1. Divergence(c) = a - b + d - e
    BY <1>2 DEF Divergence, FlowX, FlowZ
  <2>2. WaterBasis(c) \in Int /\ GrainBasis(k) \in Int
    <3>1. WaterBasis(c) \in Int
      BY <1>2 DEF WaterBasis, SoilReady, WaterType
    <3>2. GrainBasis(k) \in Int
      BY GroundTypes DEF SoilReady
    <3> QED  BY <3>1, <3>2
  <2>3. GroundFluxVolume(c) = WaterBasis(c) + GrainBasis(k) + (a - b + d - e)
    BY <2>1 DEF GroundFluxVolume
  <2> HIDE DEF a, b, d, e
  <2> QED  BY <1>4, <1>5, <2>2, <2>3
<1>8. GroundIncrement(c) = ((Level \otimes I(w)) \oplus (SideMass(i, k) \ominus SideMass(i - 1, k)))
                           \oplus ((LowerMass(i, k) \ominus UpperMass(i, k)) \ominus E)
  BY <1>2 DEF GroundIncrement
<1> HIDE DEF w, a, b, d, e, i, k
<1>9. SideMass(i, k) \ominus SideMass(i - 1, k) = Level \otimes I(a - b)
  BY <1>2, <1>4, Scales
<1>10. (LowerMass(i, k) \ominus UpperMass(i, k)) \ominus E = Level \otimes I(d - e)
  <2>1. /\ Level \otimes I(d) \in Fractions /\ Level \otimes I(d - e) \in Fractions
        /\ (Level \otimes I(d)) \ominus (Level \otimes I(e)) = Level \otimes I(d - e)
    <3>1. d - e \in Int
      BY <1>5
    <3>2. Level \otimes I(d - e) \in Fractions
      BY <1>2, <3>1, Scales
    <3> QED  BY <1>2, <1>5, <3>2, Scales
  <2>2. /\ (Level \otimes I(d)) \ominus Zero = Level \otimes I(d)
        /\ (Level \otimes I(d - e)) \ominus Zero = Level \otimes I(d - e)
    BY <2>1, PlusZero
  <2>3. CASE Coupled /\ k = 1
    <3>1. UpperMass(i, k) = Zero /\ E = Level \otimes I(e)
      BY <1>5, <1>6, <2>3
    <3> HIDE DEF E, U
    <3> QED  BY <1>5, <2>1, <2>2, <3>1
  <2>4. CASE ~(Coupled /\ k = 1)
    <3>1. UpperMass(i, k) = Level \otimes I(e) /\ E = Zero
      BY <1>5, <1>6, <2>4
    <3> HIDE DEF E, U
    <3> QED  BY <1>5, <2>1, <2>2, <3>1
  <2> QED  BY <2>3, <2>4
<1> DEFINE x == a - b
           y == d - e
           z == w + x
<1>11. x \in Int /\ y \in Int /\ z \in Int
  BY <1>3, <1>4, <1>5
<1>12. (Level \otimes I(w)) \oplus (Level \otimes I(x)) = Level \otimes I(w + x)
  <2> HIDE DEF x
  <2> QED  BY <1>2, <1>3, <1>11, Scales
<1>13. (Level \otimes I(z)) \oplus (Level \otimes I(y)) = Level \otimes I(z + y)
  <2> HIDE DEF z, y
  <2> QED  BY <1>2, <1>11, Scales
<1> QED  BY <1>7, <1>8, <1>9, <1>10, <1>12, <1>13

LEMMA SoilWater ==
  ASSUME SoilReady, NEW c \in Cells
  PROVE  GroundFluxVolume(c) \in Nat /\ GroundFluxVolume(c) > 0
<1>1. c[2] \in Layers /\ GrainBasis(c[2]) \in Nat /\ GroundFluxVolume(c) \in Int
  BY GroundTypes DEF SoilReady, Cells
<1>2. wc[c] = wcT[c] + Divergence(c) + unbooked[c] /\ Consistent
  BY SoilReadyFacts DEF SoilReady, Accounted
<1>6. unbooked[c] < wc[c] + GrainBasis(c[2])
  BY DEF SoilReady, Sourced
<1>3. wc[c] \in Int /\ wcT[c] \in Int /\ unbooked[c] \in Int
  BY DEF SoilReady, WaterType
<1>4. GroundFluxVolume(c) = wcT[c] + GrainBasis(c[2]) + Divergence(c)
  BY <1>2 DEF GroundFluxVolume, WaterBasis
<1>5. Divergence(c) \in Int
  <2>1. c[1] \in Cols /\ c[2] \in Layers /\ c[1] \in XFaces /\ c[1] - 1 \in XFaces
        /\ c[2] \in ZFaces /\ c[2] + 1 \in ZFaces
    BY Places DEF Cells
  <2>2. /\ qx[<<c[1], c[2]>>] \in Int /\ qx[<<c[1] - 1, c[2]>>] \in Int
        /\ qxWin[<<c[1], c[2]>>] \in Int /\ qxWin[<<c[1] - 1, c[2]>>] \in Int
        /\ qz[<<c[1], c[2]>>] \in Int /\ qz[<<c[1], c[2] + 1>>] \in Int
        /\ qzWin[<<c[1], c[2]>>] \in Int /\ qzWin[<<c[1], c[2] + 1>>] \in Int
    BY <2>1 DEF SoilReady, WaterType
  <2> QED  BY <2>2 DEF Divergence
<1> QED  BY <1>1, <1>2, <1>3, <1>4, <1>5, <1>6

\* The row has more than one column, so every cell has a conductive neighbour.
LEMMA LevelStencil ==
  ASSUME SoilReady, NEW c \in Cells
  PROVE  GroundStencil(c) = {Level}
<1> DEFINE i == c[1]
           k == c[2]
           row  == {m \in {i - 1, i + 1} : m \in Cols \/ (setup.thermal /\ m \in setup.sides)}
           col  == {k - 1, k + 1} \cap Layers
           A == {sSubs[<<n, k>>] : n \in row}
           B == {sSubs[<<i, n>>] : n \in col}
           C == IF k = 1 /\ Coupled /\ Wet(i) THEN {sSurf[i]} ELSE {}
<1>1. GroundStencil(c) = A \cup B \cup C
  BY SoilReadyFacts DEF GroundStencil
<1>2. i \in Cols /\ k \in Layers /\ i \in Slots /\ i - 1 \in Slots /\ i + 1 \in Slots
  BY Places DEF Cells, Cols, Slots
<1>3. row \subseteq Slots /\ row # {}
  <2>1. i - 1 \in Cols \/ i + 1 \in Cols
    BY <1>2, Places DEF Cols
  <2> QED  BY <1>2, <2>1
<1>4. A = {Level}
  <2>1. \A n \in row : sSubs[<<n, k>>] = Level
    BY <1>2, <1>3, SoilReadyFacts
  <2> HIDE DEF row
  <2> QED  BY <1>3, <2>1
<1>5. B \subseteq {Level}
  BY <1>2, SoilReadyFacts
<1>6. C \subseteq {Level}
  BY <1>2, SoilReadyFacts
<1> HIDE DEF A, B, C
<1> QED  BY <1>1, <1>4, <1>5, <1>6

\* The window at most widens the level.
LEMMA LevelWindow ==
  ASSUME SoilReady, NEW c \in Cells
  PROVE  ~(Window(c).hi \prec Level) /\ ~(Level \prec Window(c).lo)
<1> DEFINE S == GroundStencil(c)
           top == <<c[1], 1>>
           v   == GroundFluxVolume(c)
           more == IF EvapTop(c) /\ setup.allowance THEN Q(1, 100) ELSE Zero
           hi  == (IF S = {} THEN LimLo ELSE Highest(S)) \oplus more
           lo  == IF S = {} THEN LimHi ELSE Lowest(S)
           interior == v + (IF Consistent THEN qzWin[top] ELSE qz[top])
           factor   == Q(interior, v)
           anchorHi == Higher(hi, sSubs[c])
           anchorLo == Lower(lo, sSubs[c])
           widened  == /\ c[2] = 1 /\ v > 0
                       /\ c[1] \in setup.cauchy \/ (EvapTop(c) /\ ~setup.allowance)
<1>1. Window(c) = IF ~widened THEN [hi |-> hi, lo |-> lo]
                  ELSE IF interior <= 0 THEN [hi |-> anchorHi, lo |-> anchorLo]
                  ELSE IF interior > v THEN [hi |-> anchorHi \otimes factor, lo |-> anchorLo]
                  ELSE [hi |-> anchorHi, lo |-> anchorLo \otimes factor]
  BY DEF Window
<1>2. Level \in Fractions /\ Zero \in Fractions /\ sSubs[c] = Level /\ Consistent
  <2>1. c[1] \in Slots /\ c[2] \in Layers /\ c = <<c[1], c[2]>>
    <3>1. c[1] \in Cols /\ c[2] \in Layers /\ c = <<c[1], c[2]>>
      BY DEF Cells
    <3> QED  BY <3>1, Places
  <2> QED  BY <2>1, SoilReadyFacts
<1>3. v \in Nat \ {0}
  <2>1. v \in Nat /\ v > 0
    BY SoilWater
  <2> HIDE DEF v
  <2> QED  BY <2>1
<1>4. interior \in Int
  <2>1. top \in Cols \X ZFaces
    BY Places DEF Cells
  <2>2. qzWin[top] \in Int /\ qz[top] \in Int
    BY <2>1 DEF SoilReady, WaterType
  <2> HIDE DEF v, top
  <2> QED  BY <1>3, <2>2
<1>5. Highest(S) = Level /\ Lowest(S) = Level /\ S # {}
  <2>1. S = {Level} /\ IsFiniteSet(S)
    BY LevelStencil, FS_Singleton
  <2> HIDE DEF S
  <2>2. Highest(S) \in S /\ Lowest(S) \in S
    BY <1>2, <2>1, InWindow
  <2> QED  BY <2>1, <2>2
<1>6. more \in Fractions /\ ~(more \prec Zero)
  <2>1. Q(1, 100) \in Fractions /\ ~(Q(1, 100) \prec Zero)
    <3>1. Q(1, 100) \in Fractions
      BY QType
    <3>2. Zero = Q(0, 1)
      BY IntegerQ DEF Zero
    <3>3. Q(1, 100) \ominus Q(0, 1) = Q(1 * 1 - 0 * 100, 100 * 1)
      BY SubtractQ
    <3>4. ~(Q(1, 100)[1] < 0)
      BY SignOfQ
    <3>5. Q(1, 100) \ominus Q(0, 1) = Q(1, 100)
      BY <3>3
    <3> QED  BY <3>1, <3>2, <3>4, <3>5 DEF \prec
  <2>2. ~(Zero \prec Zero)
    BY <1>2, OneIsLarger
  <2> QED  BY <1>2, <2>1, <2>2
<1> HIDE DEF more
<1>7. hi \in Fractions /\ ~(hi \prec Level) /\ lo = Level
  <2>1. hi = Level \oplus more /\ lo = Level
    BY <1>5
  <2>2. Level \oplus more \in Fractions
    BY <1>2, <1>6, Arithmetic
  <2>3. ~(Level \oplus more \prec Level)
    <3>1. PICK D \in Nat \ {0} : Level \in Over(D) /\ more \in Over(D) /\ Zero \in Over(D)
      BY <1>2, <1>6, Three
    <3>2. /\ Level \oplus more \in Over(D)
          /\ Num(Level \oplus more, D) = Num(Level, D) + Num(more, D)
      BY <3>1, OverSum
    <3>3. Num(Level, D) \in Int /\ Num(more, D) \in Int
      BY <3>1, OverNum
    <3>4. ~(Num(more, D) < 0)
      BY <1>6, <3>1, Ordered, OverZero
    <3>5. ~(Num(Level \oplus more, D) < Num(Level, D))
      BY <3>2, <3>3, <3>4
    <3> QED  BY <3>1, <3>2, <3>5, Ordered
  <2> QED  BY <2>1, <2>2, <2>3
<1> HIDE DEF hi, lo, S
<1>8. anchorHi \in Fractions /\ ~(anchorHi \prec Level) /\ anchorLo = Level /\ ~(Level \prec Level)
  <2>1. ~(Level \prec Level)
    BY <1>2, OneIsLarger
  <2> QED  BY <1>2, <1>7, <2>1 DEF Higher, Lower
<1> HIDE DEF anchorHi, anchorLo
<1>9. CASE ~widened
  <2>1. Window(c) = [hi |-> hi, lo |-> lo]
    BY <1>1, <1>9
  <2> QED  BY <1>7, <1>8, <2>1
<1>10. CASE widened
  <2> HIDE DEF widened, v, interior
  <2>1. CASE interior <= 0
    <3>1. Window(c) = [hi |-> anchorHi, lo |-> anchorLo]
      BY <1>1, <1>10, <2>1
    <3> QED  BY <1>8, <3>1
  <2>2. CASE ~(interior <= 0)
    <3>1. interior \in Nat \ {0} /\ ~(Level \prec Zero)
      BY <1>4, <2>2 DEF SoilReady, UniformRun
    <3>2. /\ v <= interior => ~(anchorHi \otimes factor \prec Level)
          /\ interior <= v => ~(Level \prec Level \otimes factor)
      <4>1. v <= interior => ~(anchorHi \otimes factor \prec Level)
        BY <1>2, <1>3, <1>8, <3>1, FactorWidens
      <4>2. interior <= v => ~(Level \prec Level \otimes factor)
        BY <1>2, <1>3, <1>8, <3>1, FactorWidens
      <4> QED  BY <4>1, <4>2
    <3> HIDE DEF factor
    <3>3. CASE interior > v
      <4>1. Window(c) = [hi |-> anchorHi \otimes factor, lo |-> anchorLo]
        BY <1>1, <1>10, <2>2, <3>3
      <4>2. v <= interior
        BY <1>3, <3>1, <3>3
      <4> QED  BY <1>8, <3>2, <4>1, <4>2
    <3>4. CASE ~(interior > v)
      <4>1. Window(c) = [hi |-> anchorHi, lo |-> anchorLo \otimes factor]
        BY <1>1, <1>10, <2>2, <3>4
      <4>2. interior <= v
        BY <1>3, <3>1, <3>4
      <4> QED  BY <1>8, <3>2, <4>1, <4>2
    <3> QED  BY <3>3, <3>4
  <2> QED  BY <2>1, <2>2
<1> QED  BY <1>9, <1>10

\* One update of a soil cell: it is at the level and nothing was clipped.
LEMMA LevelSoilUpdate ==
  ASSUME SoilReady, NEW c \in Cells
  PROVE  GroundUpdate(c).value = Level /\ GroundUpdate(c).adjust = Zero
<1> DEFINE v     == GroundFluxVolume(c)
           sm    == GroundIncrement(c)
           raw   == IF v > 0 THEN sm \oslash I(v) ELSE Zero
           value == GroundLimited(c, raw)
           now   == wc[c] + GrainBasis(c[2])
           adjust == IF v > 0 THEN (value \ominus raw) \otimes I(v) ELSE Zero \ominus sm
           anchor == value \otimes I(IF v > 0 THEN now - v ELSE now)
<1>0. GroundUpdate(c) = [value |-> value, adjust |-> adjust, anchor |-> anchor]
  BY DEF GroundUpdate
<1>1. GroundUpdate(c).value = value /\ GroundUpdate(c).adjust = adjust
  <2> HIDE DEF value, adjust, anchor
  <2> QED  BY <1>0
<1>2. v \in Nat /\ v > 0 /\ Level \in Fractions /\ Zero \in Fractions
  BY SoilWater, SoilReadyFacts
<1>3. I(v) \in Fractions /\ I(v) # Zero
  <2> HIDE DEF v
  <2>1. v # 0 /\ v \in Int
    BY <1>2
  <2> QED  BY <2>1, NotZero, IntegerQ
<1>4. raw = Level
  <2>1. sm = Level \otimes I(v)
    BY LevelSoilMass
  <2>2. (Level \otimes I(v)) \oslash I(v) = Level
    <3> HIDE DEF v
    <3> QED  BY <1>2, <1>3, QuotientIs
  <2> HIDE DEF sm, v
  <2> QED  BY <1>2, <2>1, <2>2
<1>5. GroundLimited(c, Level) = Level
  <2>1. ~(Window(c).hi \prec Level) /\ ~(Level \prec Window(c).lo)
    BY LevelWindow
  <2>2. ~(setup.hasMax /\ LimHi \prec Level) /\ ~(setup.hasMin /\ Level \prec LimLo)
    BY LevelBounded DEF SoilReady, WaterType
  <2> QED  BY <2>1, <2>2 DEF GroundLimited
<1>6. value = Level
  <2> HIDE DEF raw
  <2> QED  BY <1>4, <1>5
<1>7. adjust = Zero
  <2>1. value \ominus raw = Zero
    <3> HIDE DEF value, raw
    <3> QED  BY <1>2, <1>4, <1>6, PlusZero
  <2>2. Zero \otimes I(v) = Zero
    BY <1>3, NoVolume
  <2> HIDE DEF value, raw, v, sm
  <2> QED  BY <1>2, <2>1, <2>2
<1> QED  BY <1>1, <1>6, <1>7

LEMMA SoilKeeps ==
  ASSUME IInv, Accounted, Kept, StepSubsurface
  PROVE  Accounted' /\ Kept'
<1>1. /\ pc = "ground" /\ pc' = "snapshot" /\ setup' = setup /\ sSurf' = sSurf
      /\ UNCHANGED <<ventWin, wc, dept>>
  BY DEF StepSubsurface, flowVars, soilVars
<1>2. Accounted'
  BY <1>1 DEF Accounted
<1>3. WaterType /\ ScalarType /\ history \in Histories
  BY DEF IInv, TypeOK
<1>4. UniformRun' = UniformRun /\ Level' = Level
  BY <1>1, SameRun
<1>5. TopFed' /\ Sourced'
  BY <1>1 DEF TopFed, Sourced
<1>6. SurfaceUniform => SurfaceUniform'
  <2>1. \A i : Carried(i) = dept[i] /\ Carried(i)' = dept[i]
    BY <1>1 DEF Carried
  <2> QED  BY <1>1, <1>4, <2>1 DEF SurfaceUniform
<1>7. ASSUME UniformRun', history'.sound, ~setup.ground
      PROVE  SoilUniform' /\ SurfaceUniform' /\ ~history'.clipped
  <2>1. history' = history
    BY <1>7 DEF StepSubsurface
  <2> QED  BY <1>1, <1>4, <1>6, <1>7, <2>1 DEF Kept, SoilUniform
<1>8. ASSUME UniformRun', history'.sound, setup.ground
      PROVE  SoilUniform' /\ SurfaceUniform' /\ ~history'.clipped
  <2>1. PICK new : /\ new = [c \in Cells |-> GroundUpdate(c)]
                   /\ sSubs' = WithSideGhosts(Pinned([c \in Cells |-> new[c].value]))
                   /\ \E missed : history' = [history EXCEPT !.subsMissed = missed,
                        !.clipped = @ \/ \E c \in Cells : new[c].adjust # Zero]
    BY <1>8 DEF StepSubsurface
  <2> DEFINE clips == \E c \in Cells : new[c].adjust # Zero
  <2>2. history'.sound = history.sound /\ history'.clipped = (history.clipped \/ clips)
    <3>1. PICK missed : history' = [history EXCEPT !.subsMissed = missed,
                                      !.clipped = history.clipped \/ clips]
      BY <2>1
    <3> HIDE DEF clips
    <3> QED  BY <1>3, <3>1 DEF Histories
  <2>3. UniformRun /\ SoilUniform /\ SurfaceUniform /\ TopFed /\ Sourced /\ ~history.clipped
    BY <1>4, <1>8, <2>2 DEF Kept
  <2>4. SoilReady
    BY <1>1, <1>3, <1>8, <2>3 DEF SoilReady
  <2>5. \A c \in Cells : new[c].value = Level /\ new[c].adjust = Zero
    BY <2>1, <2>4, LevelSoilUpdate
  <2>6. SoilUniform'
    <3> DEFINE updated == [c \in Cells |-> new[c].value]
    <3>1. setup.pinValue = Level /\ setup.sideValue = Level
      BY <2>3 DEF UniformRun
    <3>2. \A c \in Cells : Pinned(updated)[c] = Level
      BY <2>5, <3>1 DEF Pinned
    <3>3. sSubs' = WithSideGhosts(Pinned(updated))
      BY <2>1
    <3> HIDE DEF updated
    <3>4. ASSUME NEW i \in Slots, NEW k \in Layers PROVE sSubs'[<<i, k>>] = Level
      <4>1. <<Clip(i), k>> \in Cells /\ <<i, k>> \in Slots \X Layers
        BY Places DEF Cells
      <4> QED  BY <3>1, <3>2, <3>3, <4>1 DEF WithSideGhosts
    <3> QED  BY <1>4, <3>4 DEF SoilUniform
  <2> QED  BY <1>6, <2>2, <2>3, <2>5, <2>6
<1> QED  BY <1>2, <1>5, <1>7, <1>8 DEF Kept

\* A consumed window moves nothing, and the scalar is based on the water there is.
LEMMA EndKeeps ==
  ASSUME IInv, Accounted, Kept, EndOfStep
  PROVE  Accounted' /\ Kept'
<1>1. /\ pc = "snapshot" /\ pc' = "flow" /\ setup' = setup /\ sSurf' = sSurf /\ sSubs' = sSubs
      /\ UNCHANGED <<wc, wcT, dept>>
      /\ vsn' = [i \in Cols |-> dept[i]] /\ ventWin' = [i \in Cols |-> 0]
      /\ qxWin' = [c \in XFaces \X Layers |-> 0] /\ qzWin' = [c \in Cols \X ZFaces |-> 0]
      /\ unbooked' = [c \in Cells |-> 0]
  BY DEF EndOfStep, flowVars
<1>2. history' = [Snapshot EXCEPT !.sound = history.sound, !.clipped = history.clipped]
  BY DEF EndOfStep
<1>3. history'.sound = history.sound /\ history'.clipped = history.clipped
  BY <1>2 DEF Snapshot
<1>4. UniformRun' = UniformRun /\ Level' = Level /\ Consistent' = Consistent
  BY <1>1, SameRun
<1>5. Accounted'
  <2>1. \A i \in Cols : ventWin'[i] >= 0
    BY <1>1
  <2>2. ASSUME Consistent, NEW c \in Cells PROVE wc'[c] = wcT'[c] + Divergence(c)' + unbooked'[c]
    <3>1. c[1] \in Cols /\ c[2] \in Layers
      BY DEF Cells
    <3>2. /\ c[1] \in XFaces /\ c[1] - 1 \in XFaces /\ c[2] \in ZFaces /\ c[2] + 1 \in ZFaces
      BY <3>1, Places
    <3>3. Divergence(c)' = 0
      BY <1>1, <1>4, <2>2, <3>1, <3>2 DEF Divergence
    <3>4. wcT[c] = wc[c] /\ wc[c] \in Int
      BY <1>1, <2>2 DEF IInv, TypeOK, Bases, WaterType
    <3> QED  BY <1>1, <3>3, <3>4
  <2> QED  BY <1>1, <1>4, <2>1, <2>2 DEF Accounted
<1>6. SurfaceUniform => SurfaceUniform'
  <2>1. \A i \in Cols : Carried(i) = dept[i] /\ Carried(i)' = dept[i]
    BY <1>1 DEF Carried
  <2>2. \A j \in Slots : Clip(j) \in Cols
    BY Places
  <2> QED  BY <1>1, <1>4, <2>1, <2>2 DEF SurfaceUniform
<1>7. SoilUniform => SoilUniform'
  BY <1>1, <1>4 DEF SoilUniform
<1>8. TopFed' /\ Sourced'
  BY <1>1 DEF TopFed, Sourced
<1> QED  BY <1>3, <1>4, <1>5, <1>6, <1>7, <1>8 DEF Kept

LEMMA RestartKeepsUniform ==
  ASSUME IInv, Accounted, Kept, Restart
  PROVE  Accounted' /\ Kept'
<1>1. /\ pc = "flow" /\ pc' = "flow" /\ setup' = setup /\ history' = history
      /\ UNCHANGED <<wc, ventWin, qxWin, qzWin, unbooked>>
      /\ sSurf' = [i \in Slots |-> IF i \in Cols THEN sSurf[i] ELSE Zero]
  BY DEF Restart
<1>2. UNCHANGED <<sSubs, vsn, wcT>>
  BY RestartKeeps
<1>3. UniformRun' = UniformRun /\ Level' = Level /\ Consistent' = Consistent
  BY <1>1, SameRun
<1>4. Accounted'
  <2>1. Consistent => \A c : Divergence(c)' = Divergence(c)
    BY <1>1, <1>3 DEF Divergence
  <2> QED  BY <1>1, <1>2, <1>3, <2>1 DEF Accounted
<1>5. SurfaceUniform => SurfaceUniform'
  <2>1. \A i : Carried(i) = vsn[i] /\ Carried(i)' = vsn[i]
    BY <1>1, <1>2 DEF Carried
  <2>2. \A i \in Cols : i \in Slots /\ sSurf'[i] = sSurf[i]
    BY <1>1, Places
  <2>3. \A j \in Slots : sSurf'[j] \in {Zero, sSurf[j]}
    BY <1>1
  <2> QED  BY <1>1, <1>3, <2>1, <2>2, <2>3 DEF SurfaceUniform
<1>6. SoilUniform => SoilUniform'
  BY <1>1, <1>2, <1>3 DEF SoilUniform
<1>7. TopFed' /\ Sourced'
  BY <1>1 DEF TopFed, Sourced
<1> QED  BY <1>1, <1>3, <1>4, <1>5, <1>6, <1>7 DEF Kept

\* The steps that move water and not the scalar.
LEMMA WaterKeeps ==
  ASSUME Kept, setup' = setup, pc \in {"flow", "window", "surface"},
         pc' \in {"window", "surface"}, UNCHANGED <<scalarVars, history>>
  PROVE  Kept'
<1>1. UniformRun' = UniformRun /\ Level' = Level
  BY SameRun
<1>2. sSurf' = sSurf /\ sSubs' = sSubs /\ vsn' = vsn
  BY DEF scalarVars
<1>3. \A i : Carried(i) = vsn[i] /\ Carried(i)' = vsn[i]
  BY <1>2 DEF Carried
<1>4. SurfaceUniform => SurfaceUniform'
  BY <1>1, <1>2, <1>3 DEF SurfaceUniform
<1>5. SoilUniform => SoilUniform'
  BY <1>1, <1>2 DEF SoilUniform
<1>6. TopFed' /\ Sourced'
  BY DEF TopFed, Sourced
<1> QED  BY <1>1, <1>4, <1>5, <1>6 DEF Kept

\* A substep adds to the window what it adds to the cells over their faces: a walk
\* counts at every face on its way, up or down, and at none where a dry surface
\* refuses what it carries or where it ends in the layer it came from.
LEMMA SubstepAccounts ==
  ASSUME WaterType, Accounted, NEW v \in Substeps, SoilStep(v)
  PROVE  Accounted'
<1>1. /\ pc = "window" /\ pc' = "window" /\ setup' = setup /\ wcT' = wcT
      /\ \A c \in Cells : wc'[c] > 0
  BY DEF SoilStep, scalarVars
<1>2. Consistent' = Consistent
  BY <1>1, SameRun
<1>3. /\ v.x \in [XFaces \X Layers -> Int] /\ v.z \in [Cols \X ZFaces -> Int]
      /\ v.from \in [Cols -> Layers] /\ v.to \in [Cols -> 0..NZ] /\ v.vol \in [Cols -> Nat]
      /\ v.gap \in [Cells -> Int]
      /\ \A i \in Cols : v.vol[i] > 0 =>
           IF v.down[i] THEN v.to[i] > 1 /\ v.to[i] >= v.from[i] ELSE v.to[i] < v.from[i]
  BY SubstepAssumption
<1>4. \A i \in Cols : ventWin'[i] >= 0
  <2>1. CASE Consistent
    <3> SUFFICES ASSUME NEW i \in Cols PROVE ventWin'[i] >= 0
      OBVIOUS
    <3>1. ventWin'[i] = ventWin[i]
            + (IF Coupled /\ Vents(v, i) /\ Arrives(v, i) THEN v.vol[i] ELSE 0)
      BY <2>1 DEF SoilStep
    <3>2. ventWin[i] >= 0 /\ ventWin[i] \in Int /\ v.vol[i] \in Nat
      BY <1>3 DEF Accounted, WaterType
    <3> QED  BY <3>1, <3>2
  <2>2. CASE ~Consistent
    <3>1. ventWin' = ventWin
      BY <2>2 DEF SoilStep
    <3> QED  BY <3>1 DEF Accounted
  <2> QED  BY <2>1, <2>2
<1>5. ASSUME Consistent, NEW c \in Cells
      PROVE  wc'[c] = wcT'[c] + Divergence(c)' + unbooked'[c]
  <2> DEFINE i == c[1]
             k == c[2]
             dx  == v.x[<<i, k>>] - v.x[<<i - 1, k>>]
             dz  == v.z[<<i, k + 1>>] - v.z[<<i, k>>]
             out == IF k = v.from[i] THEN v.vol[i] ELSE 0
             in  == IF k = v.to[i] THEN v.vol[i] ELSE 0
             lost == IF k = v.from[i] /\ ~Walked(v, i) THEN v.vol[i] ELSE 0
             walk(f) == Crossed(v, i, f)
  <2>1. i \in Cols /\ k \in Layers /\ c = <<i, k>>
    BY DEF Cells
  <2>2. /\ i \in XFaces /\ i - 1 \in XFaces /\ k \in ZFaces /\ k + 1 \in ZFaces
        /\ k \in Nat /\ k > 0
    BY <2>1, Places
  <2>3. wc'[c] = wc[c] + v.x[<<i, k>>] - v.x[<<i - 1, k>>] + v.z[<<i, k + 1>>] - v.z[<<i, k>>]
                 - out + in + v.gap[c]
    BY DEF SoilStep
  <2>4. /\ qxWin' = [f \in XFaces \X Layers |-> qxWin[f] + v.x[f]]
        /\ qzWin' = [f \in Cols \X ZFaces |->
             qzWin[f] + v.z[f] + Crossed(v, f[1], f[2])]
    BY <1>5 DEF SoilStep
  <2>12. unbooked'[c] = unbooked[c] + v.gap[c] - lost
    BY DEF SoilStep
  <2>5. /\ qxWin'[<<i, k>>] = qxWin[<<i, k>>] + v.x[<<i, k>>]
        /\ qxWin'[<<i - 1, k>>] = qxWin[<<i - 1, k>>] + v.x[<<i - 1, k>>]
        /\ qzWin'[<<i, k>>] = qzWin[<<i, k>>] + v.z[<<i, k>>] + walk(k)
        /\ qzWin'[<<i, k + 1>>] = qzWin[<<i, k + 1>>] + v.z[<<i, k + 1>>] + walk(k + 1)
    BY <2>1, <2>2, <2>4
  <2>6. /\ Divergence(c) = qxWin[<<i, k>>] - qxWin[<<i - 1, k>>] + qzWin[<<i, k + 1>>] - qzWin[<<i, k>>]
        /\ Divergence(c)' = qxWin'[<<i, k>>] - qxWin'[<<i - 1, k>>]
                            + qzWin'[<<i, k + 1>>] - qzWin'[<<i, k>>]
    BY <1>2, <1>5 DEF Divergence
  <2>7. /\ v.x[<<i, k>>] \in Int /\ v.x[<<i - 1, k>>] \in Int
        /\ v.z[<<i, k>>] \in Int /\ v.z[<<i, k + 1>>] \in Int
        /\ v.from[i] \in Nat /\ v.from[i] > 0 /\ v.to[i] \in Nat
        /\ v.vol[i] \in Nat /\ v.gap[c] \in Int
        /\ v.vol[i] > 0 =>
             IF v.down[i] THEN v.to[i] > 1 /\ v.to[i] >= v.from[i] ELSE v.to[i] < v.from[i]
    <3>1. /\ v.from[i] \in Layers /\ v.to[i] \in 0..NZ /\ v.vol[i] \in Nat /\ v.gap[c] \in Int
          /\ v.vol[i] > 0 =>
               IF v.down[i] THEN v.to[i] > 1 /\ v.to[i] >= v.from[i] ELSE v.to[i] < v.from[i]
      BY <1>3, <2>1
    <3>2. /\ v.x[<<i, k>>] \in Int /\ v.x[<<i - 1, k>>] \in Int
          /\ v.z[<<i, k>>] \in Int /\ v.z[<<i, k + 1>>] \in Int
      BY <1>3, <2>1, <2>2
    <3>3. v.from[i] \in Nat /\ v.from[i] > 0
      BY <3>1, Places
    <3>4. v.to[i] \in Nat
      BY <3>1
    <3> QED  BY <3>1, <3>2, <3>3, <3>4
  <2>8. /\ qxWin[<<i, k>>] \in Int /\ qxWin[<<i - 1, k>>] \in Int
        /\ qzWin[<<i, k>>] \in Int /\ qzWin[<<i, k + 1>>] \in Int
        /\ wc[c] \in Int /\ wcT[c] \in Int /\ unbooked[c] \in Int
    BY <2>1, <2>2 DEF WaterType
  <2>9. walk(k + 1) - walk(k) = in - out + lost /\ walk(k) \in Int /\ walk(k + 1) \in Int
    <3>1. CASE Walked(v, i) /\ v.to[i] < v.from[i]
      BY <2>2, <2>7, <3>1 DEF Crossed
    <3>2. CASE Walked(v, i) /\ v.to[i] > v.from[i]
      BY <2>2, <2>7, <3>2 DEF Crossed
    <3>3. CASE Walked(v, i) /\ v.to[i] = v.from[i]
      BY <2>2, <2>7, <3>3 DEF Crossed
    <3>4. CASE ~Walked(v, i)
      <4>1. v.vol[i] = 0 \/ v.to[i] = 0
        BY <2>7, <3>4 DEF Walked, Vents
      <4> QED  BY <2>2, <2>7, <3>4, <4>1 DEF Crossed
    <3> QED  BY <2>7, <3>1, <3>2, <3>3, <3>4
  <2>10. in \in Nat /\ out \in Nat /\ lost \in Nat
    BY <2>7
  <2>11. wc[c] = wcT[c] + Divergence(c) + unbooked[c]
    BY <1>1, <1>5 DEF Accounted
  <2> HIDE DEF i, k, in, out, lost, walk
  <2>13. Divergence(c)' = Divergence(c) + v.x[<<i, k>>] - v.x[<<i - 1, k>>]
                           + v.z[<<i, k + 1>>] - v.z[<<i, k>>] + in - out + lost
    <3>1. Divergence(c)' =
            (qxWin[<<i, k>>] + v.x[<<i, k>>]) - (qxWin[<<i - 1, k>>] + v.x[<<i - 1, k>>])
            + (qzWin[<<i, k + 1>>] + v.z[<<i, k + 1>>] + walk(k + 1))
            - (qzWin[<<i, k>>] + v.z[<<i, k>>] + walk(k))
      BY <2>5, <2>6
    <3>2. lost \in Int /\ in \in Int /\ out \in Int
      BY <2>10
    <3> QED  BY <2>6, <2>7, <2>8, <2>9, <3>1, <3>2
  <2>14. Divergence(c) \in Int
    BY <2>6, <2>8
  <2>15. wcT'[c] = wcT[c]
    BY <1>1
  <2> HIDE DEF dx, dz
  <2> QED  BY <2>3, <2>7, <2>8, <2>10, <2>11, <2>12, <2>13, <2>14, <2>15
<1> QED  BY <1>1, <1>2, <1>4, <1>5 DEF Accounted

LEMMA InitUniform == Init => Accounted /\ Kept
<1> SUFFICES ASSUME Init PROVE Accounted /\ Kept
  OBVIOUS
<1>1. /\ setup \in Setups /\ pc = "flow" /\ wc = setup.wc0 /\ wcT = setup.wc0
      /\ qxWin = [c \in XFaces \X Layers |-> 0] /\ qzWin = [c \in Cols \X ZFaces |-> 0]
      /\ ventWin = [i \in Cols |-> 0] /\ unbooked = [c \in Cells |-> 0]
      /\ sSurf = [i \in Slots |-> IF i \in Cols THEN setup.s0[i] ELSE Zero]
      /\ sSubs = WithSideGhosts(Pinned(setup.g0))
      /\ history = Snapshot
  BY DEF Init
<1>2. setup.wc0 \in [Cells -> Nat \ {0}]
  BY <1>1, SetupFacts
<1>3. Accounted
  <2>1. ASSUME Consistent, NEW c \in Cells PROVE wc[c] = wcT[c] + Divergence(c) + unbooked[c]
    <3>1. c[1] \in Cols /\ c[2] \in Layers
      BY DEF Cells
    <3>2. /\ c[1] \in XFaces /\ c[1] - 1 \in XFaces /\ c[2] \in ZFaces /\ c[2] + 1 \in ZFaces
      BY <3>1, Places
    <3>3. Divergence(c) = 0
      BY <1>1, <2>1, <3>1, <3>2 DEF Divergence
    <3>4. wcT[c] = wc[c] /\ wc[c] \in Int
      BY <1>1, <1>2
    <3> QED  BY <1>1, <3>3, <3>4
  <2>2. \A c \in Cells : wc[c] > 0
    BY <1>1, <1>2
  <2> QED  BY <1>1, <2>1, <2>2 DEF Accounted
<1>4. ASSUME UniformRun PROVE SoilUniform /\ SurfaceUniform
  <2>1. /\ \A i \in Cols : setup.s0[i] = Level
        /\ \A c \in Cells : setup.g0[c] = Level
        /\ setup.pinValue = Level /\ setup.sideValue = Level
    BY <1>4 DEF UniformRun
  <2>2. \A c \in Cells : Pinned(setup.g0)[c] = Level
    BY <2>1 DEF Pinned
  <2>3. ASSUME NEW i \in Slots, NEW k \in Layers PROVE sSubs[<<i, k>>] = Level
    <3>1. <<Clip(i), k>> \in Cells /\ <<i, k>> \in Slots \X Layers
      BY Places DEF Cells
    <3> QED  BY <1>1, <2>1, <2>2, <3>1 DEF WithSideGhosts
  <2>4. SurfaceUniform
    BY <1>1, <2>1, Places DEF SurfaceUniform
  <2> QED  BY <2>3, <2>4 DEF SoilUniform
<1>5. TopFed /\ Sourced
  BY <1>1 DEF TopFed, Sourced
<1>6. ~history.clipped
  BY <1>1 DEF Snapshot
<1> QED  BY <1>3, <1>4, <1>5, <1>6 DEF Kept

LEMMA NextUniform ==
  ASSUME IInv, Accounted, Kept, [Next]_vars
  PROVE  Accounted' /\ Kept'
<1>1. ASSUME NEW f \in Flows, SurfaceFlow(f) PROVE Accounted' /\ Kept'
  <2>1. /\ setup' = setup /\ pc = "flow" /\ pc' = "window"
        /\ UNCHANGED <<soilVars, scalarVars, history>>
    BY <1>1 DEF SurfaceFlow
  <2>2. UNCHANGED <<ventWin, unbooked, wc, wcT, qx, qz, qxWin, qzWin>>
    BY <2>1 DEF soilVars, scalarVars
  <2> QED  BY <2>1, <2>2, AccountedStays, WaterKeeps
<1>2. ASSUME NoSurfaceFlow PROVE Accounted' /\ Kept'
  <2>1. /\ setup' = setup /\ pc = "flow" /\ pc' = "window"
        /\ UNCHANGED <<soilVars, scalarVars, history>>
    BY <1>2 DEF NoSurfaceFlow
  <2>2. UNCHANGED <<ventWin, unbooked, wc, wcT, qx, qz, qxWin, qzWin>>
    BY <2>1 DEF soilVars, scalarVars
  <2> QED  BY <2>1, <2>2, AccountedStays, WaterKeeps
<1>3. ASSUME NEW v \in Substeps, SoilStep(v) PROVE Accounted' /\ Kept'
  <2>1. /\ setup' = setup /\ pc = "window" /\ pc' = "window" /\ UNCHANGED <<scalarVars, history>>
    BY <1>3 DEF SoilStep
  <2>2. WaterType
    BY DEF IInv, TypeOK
  <2> QED  BY <1>3, <2>1, <2>2, SubstepAccounts, WaterKeeps
<1>4. ASSUME ApplySeepage PROVE Accounted' /\ Kept'
  <2>1. /\ setup' = setup /\ pc = "window" /\ pc' = "surface" /\ UNCHANGED <<scalarVars, history>>
    BY <1>4 DEF ApplySeepage
  <2>2. UNCHANGED <<ventWin, unbooked, wc, wcT, qx, qz, qxWin, qzWin>>
    BY <1>4 DEF ApplySeepage, scalarVars
  <2> QED  BY <2>1, <2>2, AccountedStays, WaterKeeps
<1>5. ASSUME UNCHANGED vars PROVE Accounted' /\ Kept'
  <2>1. /\ setup' = setup /\ pc' = pc /\ history' = history
        /\ UNCHANGED <<ventWin, unbooked, wc, wcT, qx, qz, qxWin, qzWin, dept, vsn, sSurf, sSubs, ssee>>
    BY <1>5 DEF vars, flowVars, soilVars, scalarVars
  <2>2. Accounted'
    BY <2>1, AccountedStays
  <2>3. UniformRun' = UniformRun /\ Level' = Level
    BY <2>1, SameRun
  <2>4. \A i : Carried(i)' = Carried(i)
    BY <2>1 DEF Carried
  <2>5. /\ SoilUniform' = SoilUniform /\ SurfaceUniform' = SurfaceUniform /\ TopFed' = TopFed
        /\ Sourced' = Sourced
    BY <2>1, <2>3, <2>4 DEF SoilUniform, SurfaceUniform, TopFed, Sourced, GrainBasis
  <2> QED  BY <2>1, <2>2, <2>3, <2>5 DEF Kept
<1> QED
  BY <1>1, <1>2, <1>3, <1>4, <1>5, SurfaceKeeps, SoilKeeps, EndKeeps, RestartKeepsUniform DEF Next

\* The water is accounted for and a uniform scalar is kept, in every state.
THEOREM UniformInvariance == Spec => [](IInv /\ Accounted /\ Kept)
<1> DEFINE UInv == IInv /\ Accounted /\ Kept
<1>1. Init => UInv
  BY InitInv, InitUniform
<1>2. UInv /\ [Next]_vars => UInv'
  BY NextInv, NextUniform
<1> QED  BY <1>1, <1>2, PTL DEF Spec

\* Between two transport steps the window and what crossed no face explain the
\* water of every cell, whichever way the walks of its substeps went.
THEOREM WindowIsExplained == Spec => []WindowExplainsWater
<1>1. Accounted => WindowExplainsWater
  BY DEF Accounted, WindowExplainsWater
<1> QED  BY UniformInvariance, <1>1, PTL

\* The consistent updates keep a uniform scalar uniform under any flow and
\* substeps, reallocation walks up, down and sent back, and vents, and the
\* limiter clips nothing.
THEOREM UniformHolds == Spec => []Uniform
<1>1. IInv /\ Accounted /\ Kept => Uniform
  <2> SUFFICES ASSUME IInv, Kept, UniformRun, history.sound, pc = "flow"
               PROVE  /\ \A i \in Cols : setup.surface /\ Wet(i) => sSurf[i] = Level
                      /\ \A c \in Cells : setup.ground => sSubs[c] = Level
                      /\ ~history.clipped
    BY DEF Uniform
  <2>1. SoilUniform /\ SurfaceUniform /\ ~history.clipped
    BY DEF Kept
  <2>2. \A i \in Cols : Carried(i) = dept[i]
    BY DEF Carried, IInv, Bases
  <2>3. \A i \in Cols : setup.surface /\ Wet(i) => sSurf[i] = Level
    BY <2>1, <2>2 DEF SurfaceUniform, Wet
  <2>4. ASSUME NEW c \in Cells, setup.ground PROVE sSubs[c] = Level
    <3>1. c[1] \in Cols /\ c[2] \in Layers /\ c = <<c[1], c[2]>>
      BY DEF Cells
    <3>2. c[1] \in Slots
      BY <3>1, Places
    <3> QED  BY <2>1, <2>4, <3>1, <3>2 DEF SoilUniform
  <2> QED  BY <2>1, <2>3, <2>4
<1> QED  BY UniformInvariance, <1>1, PTL

=============================================================================
