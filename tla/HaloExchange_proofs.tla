------------------------ MODULE HaloExchange_proofs ------------------------
(***************************************************************************)
(* The ranks of HaloExchange, for every request, mask and list of calls:   *)
(* the constructor's blocks and neighbours (LayoutIsSound), what the ranks *)
(* have in their halos, however far apart they are (HaloIsCurrent), the    *)
(* ids as the rows of a matrix (IdsArePetscRows), and the type invariant,  *)
(* with no more than two messages in any channel (TypeCorrect).            *)
(*                                                                         *)
(* The last three rest on an invariant of five parts: a rank gets past a   *)
(* phase only after those it waits for have posted it (GateInv); a channel *)
(* holds what its sender has posted and its receiver has yet to take, in   *)
(* the order of the program (WireInv); and what a rank's ids and fields    *)
(* hold is told by its own place in the program (IdsOf, FieldOf).          *)
(***************************************************************************)
EXTENDS HaloExchange, SumTheorems, TLAPS

-----------------------------------------------------------------------------
(***************************************************************************)
(* The grid, as functions of its extents and of the number of ranks.  The  *)
(* blocks of one axis, for every extent N and every number P of ranks on   *)
(* it (Grid::blockSize, Grid::blockStart): with q == N \div P and          *)
(* r == N % P the first r blocks have q + 1 cells and the others q, so     *)
(* that block p begins at p * q + r or p * q + p, whichever is less.       *)
(* Then the automatic layout, and the ids of one block.                    *)
(***************************************************************************)

\* The cells a block owns on the axis.
Cut(N, P, p) == BlockStart(N, P, p)..BlockStart(N, P, p) + BlockSize(N, P, p) - 1

LEMMA Quotient ==
  ASSUME NEW N \in Nat, NEW P \in Nat \ {0}
  PROVE  N \div P \in Nat /\ N % P \in 0..P - 1 /\ N = P * (N \div P) + (N % P)
<1>1. N \div P \in Int /\ N % P \in 0..P - 1 /\ N = P * (N \div P) + (N % P)
  OBVIOUS
<1>2. N \div P >= 0
  OBVIOUS
<1> QED
  BY <1>1, <1>2

\* A product grows with its first factor.
LEMMA Grows ==
  ASSUME NEW a \in Nat, NEW b \in Nat, NEW q \in Nat, a <= b
  PROVE  a * q \in Nat /\ b * q \in Nat /\ a * q <= b * q
  OBVIOUS

LEMMA OneMore ==
  ASSUME NEW a \in Nat, NEW q \in Nat
  PROVE  (a + 1) * q = a * q + q
  OBVIOUS

\* What the four numbers of a block are, without division.
LEMMA Layout ==
  ASSUME NEW N \in Nat, NEW P \in Nat \ {0}
  PROVE  \E q \in Nat, r \in 0..P - 1 :
           /\ N = P * q + r
           /\ \A p \in 0..P : /\ p * q \in Nat
                              /\ BlockStart(N, P, p) = p * q + (IF p <= r THEN p ELSE r)
                              /\ BlockSize(N, P, p) = q + (IF p < r THEN 1 ELSE 0)
<1> DEFINE q == N \div P
           r == N % P
<1>1. q \in Nat /\ r \in 0..P - 1 /\ N = P * q + r
  BY Quotient
<1>2. \A p \in 0..P : /\ BlockStart(N, P, p) = p * q + (IF p <= r THEN p ELSE r)
                      /\ BlockSize(N, P, p) = q + (IF p < r THEN 1 ELSE 0)
  BY DEF BlockStart, BlockSize, Smaller
<1> HIDE DEF q, r
<1>3. \A p \in 0..P : p * q \in Nat
  BY <1>1
<1> QED
  BY <1>1, <1>2, <1>3

\* The first block begins at 0, the blocks follow each other without a gap,
\* and the last one ends at the extent.
THEOREM BlocksAbut ==
  ASSUME NEW N \in Nat, NEW P \in Nat \ {0}
  PROVE  /\ BlockStart(N, P, 0) = 0 /\ BlockStart(N, P, P) = N
         /\ \A p \in 0..P - 1 :
              BlockStart(N, P, p + 1) = BlockStart(N, P, p) + BlockSize(N, P, p)
<1>1. PICK q \in Nat, r \in 0..P - 1 :
        /\ N = P * q + r
        /\ \A p \in 0..P : /\ p * q \in Nat
                           /\ BlockStart(N, P, p) = p * q + (IF p <= r THEN p ELSE r)
                           /\ BlockSize(N, P, p) = q + (IF p < r THEN 1 ELSE 0)
  BY Layout
<1>2. BlockStart(N, P, 0) = 0
  <2>1. BlockStart(N, P, 0) = 0 * q + 0
    BY <1>1
  <2> QED
    BY <2>1
<1>3. BlockStart(N, P, P) = N
  <2>1. BlockStart(N, P, P) = P * q + r
    BY <1>1
  <2> QED
    BY <1>1, <2>1
<1>4. ASSUME NEW p \in 0..P - 1
      PROVE  BlockStart(N, P, p + 1) = BlockStart(N, P, p) + BlockSize(N, P, p)
  <2>1. p \in 0..P /\ p + 1 \in 0..P /\ p \in Nat
    OBVIOUS
  <2>2. (p + 1) * q = p * q + q
    BY <2>1, OneMore
  <2>3. /\ p * q \in Nat
        /\ BlockStart(N, P, p) = p * q + (IF p <= r THEN p ELSE r)
        /\ BlockSize(N, P, p) = q + (IF p < r THEN 1 ELSE 0)
        /\ BlockStart(N, P, p + 1) = (p + 1) * q + (IF p + 1 <= r THEN p + 1 ELSE r)
    BY <1>1, <2>1
  <2> DEFINE s == p * q
  <2>4. s \in Nat /\ (p + 1) * q = s + q
    BY <2>2, <2>3
  <2>5. /\ BlockStart(N, P, p) = s + (IF p <= r THEN p ELSE r)
        /\ BlockStart(N, P, p + 1) = s + q + (IF p + 1 <= r THEN p + 1 ELSE r)
    BY <2>3, <2>4
  <2> HIDE DEF s
  <2> QED
    BY <2>3, <2>4, <2>5
<1> QED
  BY <1>2, <1>3, <1>4

\* The blocks are in order, and the last one ends at the extent.
LEMMA InOrder ==
  ASSUME NEW N \in Nat, NEW P \in Nat \ {0}, NEW a \in 0..P - 1, NEW b \in 0..P, a < b
  PROVE  BlockStart(N, P, a) + BlockSize(N, P, a) <= BlockStart(N, P, b)
<1>1. PICK q \in Nat, r \in 0..P - 1 :
        /\ N = P * q + r
        /\ \A p \in 0..P : /\ p * q \in Nat
                           /\ BlockStart(N, P, p) = p * q + (IF p <= r THEN p ELSE r)
                           /\ BlockSize(N, P, p) = q + (IF p < r THEN 1 ELSE 0)
  BY Layout
<1>2. a + 1 \in Nat /\ b \in Nat /\ a + 1 <= b /\ a \in Nat /\ a \in 0..P /\ b \in 0..P
  OBVIOUS
<1>3. a * q \in Nat /\ b * q \in Nat
  BY <1>1, <1>2
<1>4. (a + 1) * q <= b * q
  BY <1>2, Grows
<1>5. (a + 1) * q = a * q + q
  BY <1>2, OneMore
<1>6. /\ BlockStart(N, P, a) = a * q + (IF a <= r THEN a ELSE r)
      /\ BlockSize(N, P, a) = q + (IF a < r THEN 1 ELSE 0)
      /\ BlockStart(N, P, b) = b * q + (IF b <= r THEN b ELSE r)
  BY <1>1, <1>2
<1> DEFINE s == a * q
           t == b * q
<1>7. s \in Nat /\ t \in Nat /\ s + q <= t
  BY <1>3, <1>4, <1>5
<1>8. /\ BlockStart(N, P, a) = s + (IF a <= r THEN a ELSE r)
      /\ BlockStart(N, P, b) = t + (IF b <= r THEN b ELSE r)
  BY <1>6
<1> HIDE DEF s, t
<1> QED
  BY <1>2, <1>6, <1>7, <1>8

\* Every cell of the axis is owned by exactly one block: by the block of its
\* place among the longer ones, or among the shorter ones after them.
THEOREM BlocksTile ==
  ASSUME NEW N \in Nat, NEW P \in Nat \ {0}, NEW g \in 0..N - 1
  PROVE  \E p \in 0..P - 1 : g \in Cut(N, P, p) /\ \A o \in 0..P - 1 : g \in Cut(N, P, o) => o = p
<1>1. PICK q \in Nat, r \in 0..P - 1 :
        /\ N = P * q + r
        /\ \A p \in 0..P : /\ p * q \in Nat
                           /\ BlockStart(N, P, p) = p * q + (IF p <= r THEN p ELSE r)
                           /\ BlockSize(N, P, p) = q + (IF p < r THEN 1 ELSE 0)
  BY Layout
<1>2. \A a, b \in 0..P - 1 :
        a < b => BlockStart(N, P, a) + BlockSize(N, P, a) <= BlockStart(N, P, b)
  BY InOrder
<1>3. \A p \in 0..P : BlockStart(N, P, p) \in Int /\ BlockSize(N, P, p) \in Int
  BY <1>1
<1>4. \E p \in 0..P - 1 : g \in Cut(N, P, p)
  <2>1. CASE g < r * (q + 1)
    <3> DEFINE p == g \div (q + 1)
    <3>1. q + 1 \in Nat \ {0} /\ g \in Nat
      OBVIOUS
    <3>2. p \in Nat /\ g % (q + 1) \in 0..q /\ g = (q + 1) * p + (g % (q + 1))
      <4> DEFINE n == q + 1
      <4>1. n \in Nat \ {0}
        BY <3>1
      <4>2. n - 1 = q
        OBVIOUS
      <4> HIDE DEF n
      <4>3. g \div n \in Nat /\ g % n \in 0..n - 1 /\ g = n * (g \div n) + (g % n)
        BY <3>1, <4>1, Quotient
      <4> QED
        BY <4>2, <4>3 DEF n
    <3> HIDE DEF p
    <3>3. p < r
      <4>1. SUFFICES ASSUME r <= p PROVE FALSE
        BY <3>2
      <4>2. r * (q + 1) <= p * (q + 1)
        BY <3>1, <3>2, <4>1, Grows
      <4>3. p * (q + 1) = (q + 1) * p
        BY <3>2
      <4> DEFINE u == r * (q + 1)
                 v == (q + 1) * p
      <4>4. u <= v /\ g < u /\ g = v + (g % (q + 1)) /\ v \in Nat /\ u \in Nat
        BY <2>1, <3>2, <4>2, <4>3
      <4> HIDE DEF u, v
      <4> QED
        BY <3>1, <3>2, <4>4
    <3>4. p \in 0..P - 1 /\ p \in 0..P
      BY <3>2, <3>3
    <3>5. BlockStart(N, P, p) = p * q + p /\ BlockSize(N, P, p) = q + 1 /\ p * q \in Nat
      BY <1>1, <3>3, <3>4
    <3>6. (q + 1) * p = p * q + p
      BY <3>2
    <3> QED
      BY <3>2, <3>4, <3>5, <3>6 DEF Cut
  <2>2. CASE g >= r * (q + 1)
    <3> DEFINE w == g - r * (q + 1)
               p == r + w \div q
    <3>1. r * (q + 1) = r * q + r /\ r * q \in Nat
      BY <1>1
    <3>2. w \in Nat
      BY <2>2, <3>1
    <3>3. (P - r) * q = P * q - r * q /\ P * q \in Nat /\ P - r \in Nat
      BY <1>1
    <3>4. w < (P - r) * q
      BY <1>1, <3>1, <3>3
    <3> HIDE DEF w
    <3>5. q # 0
      BY <3>2, <3>3, <3>4
    <3>6. w \div q \in Nat /\ w % q \in 0..q - 1 /\ w = q * (w \div q) + (w % q)
      BY <3>2, <3>5, Quotient
    <3> DEFINE m == w \div q
    <3>7. m \in Nat /\ p = r + m
      BY <3>6
    <3>8. m < P - r
      <4>1. SUFFICES ASSUME P - r <= m PROVE FALSE
        BY <3>3, <3>7
      <4>2. (P - r) * q <= m * q
        BY <3>3, <3>7, <4>1, Grows
      <4>3. m * q = q * m
        BY <3>7
      <4> QED
        BY <3>2, <3>4, <3>6, <3>7, <4>2, <4>3
    <3>9. p \in 0..P - 1 /\ p \in 0..P /\ p >= r
      BY <3>7, <3>8
    <3>10. BlockStart(N, P, p) = p * q + r /\ BlockSize(N, P, p) = q
      BY <1>1, <3>9
    <3>11. p * q = r * q + q * m
      BY <3>7
    <3>12. g = r * q + r + w
      BY <3>1, <3>2 DEF w
    <3> DEFINE u == r * q
               v == q * m
    <3>13. u \in Nat /\ v \in Nat /\ v <= w /\ w <= v + q - 1
      BY <3>1, <3>2, <3>6, <3>7
    <3>14. BlockStart(N, P, p) = u + v + r /\ g = u + r + w
      BY <3>10, <3>11, <3>12
    <3> HIDE DEF p, m, u, v
    <3>15. g \in BlockStart(N, P, p)..BlockStart(N, P, p) + BlockSize(N, P, p) - 1
      BY <3>2, <3>10, <3>13, <3>14
    <3> QED
      BY <3>9, <3>15 DEF Cut
  <2> QED
    <3>1. r * (q + 1) \in Nat
      OBVIOUS
    <3> QED
      BY <2>1, <2>2, <3>1
<1>5. PICK p \in 0..P - 1 : g \in Cut(N, P, p)
  BY <1>4
<1>6. ASSUME NEW o \in 0..P - 1, g \in Cut(N, P, o) PROVE o = p
  <2>1. ~(o < p)
    BY <1>2, <1>3, <1>5, <1>6 DEF Cut
  <2>2. ~(p < o)
    BY <1>2, <1>3, <1>5, <1>6 DEF Cut
  <2> QED
    BY <2>1, <2>2
<1> QED
  BY <1>5, <1>6

\* No block is empty exactly when there are no more ranks than cells on the
\* axis, which is what Fits asks of a layout.
THEOREM NoEmptyBlock ==
  ASSUME NEW N \in Nat, NEW P \in Nat \ {0}
  PROVE  P <= N <=> \A p \in 0..P - 1 : BlockSize(N, P, p) >= 1
<1>1. PICK q \in Nat, r \in 0..P - 1 :
        /\ N = P * q + r
        /\ \A p \in 0..P : /\ p * q \in Nat
                           /\ BlockStart(N, P, p) = p * q + (IF p <= r THEN p ELSE r)
                           /\ BlockSize(N, P, p) = q + (IF p < r THEN 1 ELSE 0)
  BY Layout
<1>2. P <= N <=> q >= 1
  <2>1. CASE q = 0
    <3>1. N = r
      BY <1>1, <2>1
    <3> QED
      BY <2>1, <3>1
  <2>2. CASE q >= 1
    <3>1. 1 * P <= q * P /\ q * P = P * q /\ q * P \in Nat
      BY <2>2, Grows
    <3> QED
      BY <1>1, <2>2, <3>1
  <2> QED
    BY <2>1, <2>2
<1>3. BlockSize(N, P, P - 1) = q
  BY <1>1
<1>4. \A p \in 0..P - 1 : BlockSize(N, P, p) >= q
  BY <1>1
<1>5. \A p \in 0..P - 1 : BlockSize(N, P, p) \in Int
  BY <1>1
<1> QED
  BY <1>2, <1>3, <1>4, <1>5

-----------------------------------------------------------------------------
(* The layout.  An automatic one exists because a finite set has a largest *)
(* element: of the divisors up to the root, and of the candidates.         *)

LEMMA Largest ==
  ASSUME NEW S, IsFiniteSet(S), S # {}, NEW f \in [S -> Int]
  PROVE  \E x \in S : \A y \in S : f[x] >= f[y]
<1> DEFINE Good == {T \in SUBSET S : T # {} => \E x \in T : \A y \in T : f[x] >= f[y]}
<1>1. ASSUME NEW T \in SUBSET S, \A U \in SUBSET T : U # T => U \in Good
      PROVE  T \in Good
  <2> SUFFICES ASSUME T # {} PROVE \E x \in T : \A y \in T : f[x] >= f[y]
    OBVIOUS
  <2>1. PICK e \in T : TRUE
    OBVIOUS
  <2> DEFINE U == T \ {e}
  <2>2. CASE U = {}
    <3>1. \A y \in T : y = e
      BY <2>2
    <3>2. f[e] >= f[e]
      OBVIOUS
    <3> QED  BY <3>1, <3>2
  <2>3. CASE U # {}
    <3>1. U \in SUBSET T /\ U # T
      BY <2>1
    <3>2. U \in Good
      BY <1>1, <3>1
    <3>3. PICK x \in U : \A y \in U : f[x] >= f[y]
      BY <2>3, <3>2
    <3>4. x \in T /\ f[x] \in Int /\ f[e] \in Int /\ \A y \in T : f[y] \in Int
      BY <3>1, <3>3
    <3>5. \A y \in T : y = e \/ y \in U
      OBVIOUS
    <3>6. CASE f[x] >= f[e]
      BY <3>3, <3>4, <3>5, <3>6
    <3>7. CASE f[e] >= f[x]
      <4>1. \A y \in T : f[e] >= f[y]
        BY <3>3, <3>4, <3>5, <3>7
      <4> QED  BY <2>1, <4>1
    <3> QED  BY <3>4, <3>6, <3>7
  <2> QED  BY <2>2, <2>3
<1> HIDE DEF Good
<1>2. S \in Good
  BY <1>1, SubsetInduction
<1> QED  BY <1>2 DEF Good

LEMMA MaxIs ==
  ASSUME NEW S \in SUBSET Int, IsFiniteSet(S), S # {}
  PROVE  Max(S) \in S /\ \A y \in S : Max(S) >= y
<1> DEFINE f == [x \in S |-> x]
<1>1. f \in [S -> Int]
  OBVIOUS
<1>2. \E x \in S : \A y \in S : f[x] >= f[y]
  <2> HIDE DEF f
  <2> QED  BY <1>1, Largest
<1>3. \E x \in S : \A y \in S : x >= y
  BY <1>2
<1> QED  BY <1>3 DEF Max

LEMMA DivisorsAre ==
  ASSUME NEW size \in Nat \ {0}
  PROVE  /\ IsFiniteSet(Divisors(size)) /\ 1 \in Divisors(size)
         /\ \A x \in Divisors(size) :
              /\ x \in Nat \ {0} /\ size \div x \in Nat \ {0}
              /\ x * (size \div x) = size
<1>1. IsFiniteSet(Divisors(size))
  <2>1. IsFiniteSet(1..size)
    BY FS_Interval
  <2> QED  BY <2>1, FS_Subset DEF Divisors
<1>2. 1 \in Divisors(size)
  BY DEF Divisors
<1>3. ASSUME NEW x \in Divisors(size)
      PROVE  x \in Nat \ {0} /\ size \div x \in Nat \ {0} /\ x * (size \div x) = size
  <2>1. x \in Nat \ {0} /\ size % x = 0
    BY DEF Divisors
  <2>2. size \div x \in Nat /\ size = x * (size \div x) + (size % x)
    BY <2>1, Quotient
  <2> DEFINE q == size \div x
  <2> HIDE DEF q
  <2>3. q \in Nat /\ x * q = size
    <3>1. q \in Nat /\ size = x * q + 0
      BY <2>1, <2>2 DEF q
    <3>2. x * q \in Nat
      BY <2>1, <3>1
    <3> QED  BY <3>1, <3>2
  <2>4. q # 0
    BY <2>1, <2>3
  <2> QED  BY <2>1, <2>3, <2>4 DEF q
<1> QED  BY <1>1, <1>2, <1>3

\* A factorization in positive numbers.
Factors(size, layout) ==
  layout.px \in Nat \ {0} /\ layout.py \in Nat \ {0} /\ layout.px * layout.py = size

LEMMA DimsAreFactors ==
  ASSUME NEW size \in Nat \ {0}
  PROVE  LET dims == DimsCreate(size)
         IN /\ dims.large \in Nat \ {0} /\ dims.small \in Nat \ {0}
            /\ dims.large * dims.small = size
<1> DEFINE S == {x \in Divisors(size) : x * x <= size}
<1>1. S \in SUBSET Int /\ IsFiniteSet(S) /\ S # {}
  <2>1. /\ IsFiniteSet(Divisors(size)) /\ 1 \in Divisors(size)
        /\ \A x \in Divisors(size) : x \in Nat
    BY DivisorsAre
  <2>2. S \subseteq Divisors(size)
    OBVIOUS
  <2>3. 1 \in S
    BY <2>1
  <2> HIDE DEF S
  <2>4. IsFiniteSet(S)
    BY <2>1, <2>2, FS_Subset
  <2>5. \A x \in S : x \in Int
    BY <2>1, <2>2
  <2> QED  BY <2>3, <2>4, <2>5
<1>2. Max(S) \in S
  <2> HIDE DEF S
  <2> QED  BY <1>1, MaxIs
<1> DEFINE m == Max(S)
<1>3. m \in Divisors(size)
  BY <1>2
<1>4. m \in Nat \ {0} /\ size \div m \in Nat \ {0} /\ m * (size \div m) = size
  BY <1>3, DivisorsAre
<1>5. DimsCreate(size).large = size \div m /\ DimsCreate(size).small = m
  BY DEF DimsCreate
<1> HIDE DEF m
<1> DEFINE q == size \div m
<1> HIDE DEF q
<1>6. m \in Nat /\ q \in Nat /\ q # 0 /\ m # 0 /\ m * q = size
  BY <1>4 DEF q
<1>7. q * m = m * q
  BY <1>6
<1> QED  BY <1>5, <1>6, <1>7 DEF q

LEMMA CandidatesAre ==
  ASSUME NEW nx \in Nat \ {0}, NEW ny \in Nat \ {0}, NEW size \in Nat \ {0}
  PROVE  /\ IsFiniteSet(Candidates(nx, ny, size))
         /\ \A l \in Candidates(nx, ny, size) : Factors(size, l) /\ Fits(nx, ny, l)
         /\ \A x, y \in Nat \ {0} :
              x * y = size /\ x <= nx /\ y <= ny
                => [px |-> x, py |-> y] \in Candidates(nx, ny, size)
<1> DEFINE All == {[px |-> x, py |-> size \div x] : x \in Divisors(size)}
<1>1. IsFiniteSet(All)
  <2> DEFINE g == [x \in Divisors(size) |-> [px |-> x, py |-> size \div x]]
  <2>1. g \in Surjection(Divisors(size), All)
    BY DEF Surjection
  <2> HIDE DEF g, All
  <2> QED  BY <2>1, DivisorsAre, FS_Surjection
<1>2. IsFiniteSet(Candidates(nx, ny, size))
  <2>1. Candidates(nx, ny, size) \subseteq All
    BY DEF Candidates
  <2> HIDE DEF All
  <2> QED  BY <1>1, <2>1, FS_Subset
<1>3. ASSUME NEW l \in Candidates(nx, ny, size) PROVE Factors(size, l) /\ Fits(nx, ny, l)
  <2>1. Fits(nx, ny, l) /\ \E x \in Divisors(size) : l = [px |-> x, py |-> size \div x]
    BY DEF Candidates
  <2>2. PICK x \in Divisors(size) : l = [px |-> x, py |-> size \div x]
    BY <2>1
  <2>3. /\ x \in Nat \ {0} /\ size \div x \in Nat \ {0}
        /\ x * (size \div x) = size
    BY DivisorsAre
  <2>4. l.px = x /\ l.py = size \div x
    BY <2>2
  <2> QED  BY <2>1, <2>3, <2>4 DEF Factors
<1>4. ASSUME NEW x \in Nat \ {0}, NEW y \in Nat \ {0}, x * y = size, x <= nx, y <= ny
      PROVE  [px |-> x, py |-> y] \in Candidates(nx, ny, size)
  <2>1. size \div x \in Nat /\ size % x \in 0..x - 1
        /\ size = x * (size \div x) + (size % x)
    BY Quotient
  <2> DEFINE q == size \div x
             r == size % x
  <2>2. q \in Nat /\ r \in 0..x - 1 /\ x * y = x * q + r /\ x \in Nat
    BY <1>4, <2>1
  <2> HIDE DEF q, r
  <2>3. x * y \in Nat /\ x * q \in Nat /\ (y + 1) * x = x * y + x /\ (q + 1) * x = x * q + x
    BY <2>2
  <2>4. ~(y + 1 <= q)
    <3> SUFFICES ASSUME y + 1 <= q PROVE FALSE
      OBVIOUS
    <3>1. (y + 1) * x <= q * x /\ q * x = x * q
      BY <2>2, Grows
    <3> QED  BY <2>2, <2>3, <3>1
  <2>5. ~(q + 1 <= y)
    <3> SUFFICES ASSUME q + 1 <= y PROVE FALSE
      OBVIOUS
    <3>1. (q + 1) * x <= y * x /\ y * x = x * y
      BY <2>2, Grows
    <3> QED  BY <2>2, <2>3, <3>1
  <2>6. q = y /\ r = 0
    <3>1. q = y
      BY <2>2, <2>4, <2>5
    <3> QED  BY <2>2, <2>3, <3>1
  <2>7. x <= size
    <3>1. 1 * x <= y * x
      BY <2>2, Grows
    <3>2. 1 * x = x /\ y * x = x * y
      BY <2>2
    <3> QED  BY <1>4, <3>1, <3>2
  <2>8. x \in Divisors(size)
    BY <2>6, <2>7 DEF Divisors, r
  <2> QED  BY <1>4, <2>6, <2>8 DEF Candidates, Fits, q
<1> QED  BY <1>2, <1>3, <1>4

LEMMA BestIs ==
  ASSUME NEW nx \in Nat \ {0}, NEW ny \in Nat \ {0}, NEW size \in Nat \ {0},
         Candidates(nx, ny, size) # {}
  PROVE  Best(nx, ny, Candidates(nx, ny, size)) \in Candidates(nx, ny, size)
<1> DEFINE C == Candidates(nx, ny, size)
<1>1. IsFiniteSet(C) /\ C # {} /\ \A l \in C : Factors(size, l)
  BY CandidatesAre
<1>2. \A l \in C : l.px \in Int /\ Extent(nx, ny, l) \in Int
  BY <1>1 DEF Factors, Extent, Smaller
<1> HIDE DEF C
<1> DEFINE f == [l \in C |-> Extent(nx, ny, l)]
<1>3. f \in [C -> Int]
  BY <1>2
<1>4. \E x \in C : \A y \in C : f[x] >= f[y]
  <2> HIDE DEF f
  <2> QED  BY <1>1, <1>3, Largest
<1>5. PICK x \in C : \A y \in C : Extent(nx, ny, x) >= Extent(nx, ny, y)
  BY <1>4
<1> DEFINE D == {y \in C : Extent(nx, ny, y) = Extent(nx, ny, x)}
           g == [y \in D |-> -y.px]
<1>6. IsFiniteSet(D) /\ D # {} /\ g \in [D -> Int]
  BY <1>1, <1>2, FS_Subset
<1>7. \E z \in D : \A y \in D : g[z] >= g[y]
  <2> HIDE DEF D, g
  <2> QED  BY <1>6, Largest
<1>8. PICK z \in D : \A y \in D : -z.px >= -y.px
  BY <1>7
<1>9. ASSUME NEW m \in C
      PROVE  \/ Extent(nx, ny, z) > Extent(nx, ny, m)
             \/ Extent(nx, ny, z) = Extent(nx, ny, m) /\ z.px <= m.px
  <2>1. /\ Extent(nx, ny, z) = Extent(nx, ny, x) /\ z \in C /\ z.px \in Int /\ m.px \in Int
        /\ Extent(nx, ny, x) \in Int /\ Extent(nx, ny, m) \in Int
        /\ Extent(nx, ny, x) >= Extent(nx, ny, m)
    BY <1>2, <1>5
  <2>2. CASE Extent(nx, ny, m) = Extent(nx, ny, x)
    <3>1. m \in D
      BY <2>2
    <3>2. -z.px >= -m.px
      BY <1>8, <3>1
    <3> QED  BY <2>1, <2>2, <3>2
  <2>3. CASE Extent(nx, ny, m) # Extent(nx, ny, x)
    BY <2>1, <2>3
  <2> QED  BY <2>2, <2>3
<1>10. z \in C
  OBVIOUS
<1>11. Best(nx, ny, C) \in C
  BY <1>9, <1>10 DEF Best
<1> QED  BY <1>11 DEF C

(***************************************************************************)
(* An automatic layout is a factorization of the ranks, and it leaves no   *)
(* block empty unless every factorization does (chooseDecomposition).      *)
(***************************************************************************)
THEOREM AutomaticFits ==
  ASSUME NEW nx \in Nat \ {0}, NEW ny \in Nat \ {0}, NEW size \in Nat \ {0}
  PROVE  /\ Factors(size, Automatic(nx, ny, size))
         /\ \A x, y \in Nat \ {0} :
              x * y = size /\ x <= nx /\ y <= ny => Fits(nx, ny, Automatic(nx, ny, size))
<1> DEFINE dims == DimsCreate(size)
           balanced == IF nx >= ny THEN [px |-> dims.large, py |-> dims.small]
                                   ELSE [px |-> dims.small, py |-> dims.large]
<1>1. Factors(size, balanced)
  <2>1. /\ dims.large \in Nat \ {0} /\ dims.small \in Nat \ {0}
        /\ dims.large * dims.small = size
    BY DimsAreFactors
  <2> HIDE DEF dims
  <2>2. dims.small * dims.large = dims.large * dims.small
    BY <2>1
  <2>3. CASE nx >= ny
    BY <2>1, <2>3 DEF Factors
  <2>4. CASE ~(nx >= ny)
    BY <2>1, <2>2, <2>4 DEF Factors
  <2> QED  BY <2>3, <2>4
<1>2. Automatic(nx, ny, size) =
        IF Fits(nx, ny, balanced) \/ Candidates(nx, ny, size) = {} THEN balanced
        ELSE Best(nx, ny, Candidates(nx, ny, size))
  BY DEF Automatic
<1> HIDE DEF balanced
<1>3. CASE Fits(nx, ny, balanced)
  BY <1>1, <1>2, <1>3
<1>4. CASE ~Fits(nx, ny, balanced) /\ Candidates(nx, ny, size) = {}
  <2>1. Automatic(nx, ny, size) = balanced
    BY <1>2, <1>4
  <2>2. \A x, y \in Nat \ {0} : ~(x * y = size /\ x <= nx /\ y <= ny)
    BY <1>4, CandidatesAre
  <2> QED  BY <1>1, <2>1, <2>2
<1>5. CASE ~Fits(nx, ny, balanced) /\ Candidates(nx, ny, size) # {}
  <2>1. Automatic(nx, ny, size) \in Candidates(nx, ny, size)
    BY <1>2, <1>5, BestIs
  <2> QED  BY <2>1, CandidatesAre
<1> QED  BY <1>3, <1>4, <1>5

-----------------------------------------------------------------------------
(* The ids of a block: its cells and columns in the order of the loops.    *)

\* The layers of a column from one up to another, as cells.
Stack(x, y, from, to) == {<<x, y, k>> : k \in from..to - 1}

LEMMA StackCount ==
  ASSUME NEW x, NEW y, NEW from \in Nat, NEW to \in Nat, from <= to
  PROVE  IsFiniteSet(Stack(x, y, from, to)) /\ Cardinality(Stack(x, y, from, to)) = to - from
<1> DEFINE S == from..to - 1
           T == Stack(x, y, from, to)
           f == [k \in S |-> <<x, y, k>>]
<1>1. IsFiniteSet(S) /\ Cardinality(S) = to - from
  <2>1. from \in Int /\ to - 1 \in Int
    OBVIOUS
  <2>2. IsFiniteSet(S) /\ Cardinality(S) = IF from > to - 1 THEN 0 ELSE (to - 1) - from + 1
    BY <2>1, FS_Interval
  <2> HIDE DEF S
  <2> QED  BY <2>2
<1>2. f \in Bijection(S, T)
  <2>1. \A k \in S : f[k] \in T /\ f[k] = <<x, y, k>> /\ f[k][3] = k
    BY DEF Stack
  <2>2. \A c \in T : \E k \in S : f[k] = c
    BY DEF Stack
  <2>3. f = [k \in S |-> f[k]]
    OBVIOUS
  <2> HIDE DEF S, T, f
  <2>4. f \in [S -> T]
    BY <2>1, <2>3
  <2>5. \A k, l \in S : f[k] = f[l] => k = l
    BY <2>1
  <2> QED  BY <2>2, <2>4, <2>5 DEF Bijection, Injection, Surjection, IsInjective
<1> HIDE DEF f, S, T
<1>3. ExistsBijection(S, T)
  BY <1>2 DEF ExistsBijection
<1>4. IsFiniteSet(T) /\ Cardinality(T) = Cardinality(S)
  BY <1>1, <1>3, FS_Bijection
<1> QED  BY <1>1, <1>4 DEF T

\* A block's columns with an active layer, and the order of columns and cells
\* in which they are numbered.
Wet(b, ktop, nz) == {c \in Interior(b) : ktop[Global(b, c)] < nz}
ColumnOrder(S) == {p \in S \X S : Earlier(p[1], p[2])}
Sooner(a, b) == Earlier(a, b) \/ (a[1] = b[1] /\ a[2] = b[2] /\ a[3] < b[3])
CellOrder(S) == {p \in S \X S : Sooner(p[1], p[2])}

\* A block of a grid under a mask.
Masked(b, ktop, nz) ==
  /\ b.nxl \in Nat /\ b.nyl \in Nat /\ nz \in Nat \ {0}
  /\ \A c \in Interior(b) : ktop[Global(b, c)] \in 0..nz

LEMMA ActiveIs ==
  ASSUME NEW b, NEW ktop, NEW nz, Masked(b, ktop, nz)
  PROVE  LET cells == Active(b, ktop, nz)
         IN /\ \A c \in cells : /\ <<c[1], c[2]>> \in Interior(b) /\ c[3] \in 0..nz - 1
                                /\ c[1] \in Int /\ c[2] \in Int /\ c = <<c[1], c[2], c[3]>>
                                /\ c[3] >= ktop[Global(b, <<c[1], c[2]>>)]
            /\ \A x, y : <<x, y>> \in Interior(b) =>
                 /\ x \in Int /\ y \in Int /\ ktop[Global(b, <<x, y>>)] \in 0..nz
                 /\ \A k \in 0..nz - 1 :
                      <<x, y, k>> \in cells <=> k >= ktop[Global(b, <<x, y>>)]
            /\ \A c \in Interior(b) : c = <<c[1], c[2]>> /\ c[1] \in Int /\ c[2] \in Int
            /\ IsFiniteSet(Interior(b)) /\ IsFiniteSet(cells)
            /\ Columns(cells) = Wet(b, ktop, nz) /\ IsFiniteSet(Columns(cells))
<1> DEFINE cells == Active(b, ktop, nz)
           m == b.nxl
           n == b.nyl
<1>0. m \in Nat /\ n \in Nat /\ nz \in Nat \ {0} /\ Interior(b) = (1..m) \X (1..n)
  BY DEF Masked, Interior
<1>1. cells = {c \in (1..m) \X (1..n) \X (0..nz - 1) : c[3] >= ktop[Global(b, <<c[1], c[2]>>)]}
  BY DEF Active
<1> HIDE DEF cells, m, n
<1>2. \A c \in cells : /\ c[1] \in 1..m /\ c[2] \in 1..n /\ c[3] \in 0..nz - 1
                       /\ c = <<c[1], c[2], c[3]>>
                       /\ c[3] >= ktop[Global(b, <<c[1], c[2]>>)]
  BY <1>1
<1>3. \A x \in 1..m, y \in 1..n, k \in 0..nz - 1 :
        <<x, y, k>> \in cells <=> k >= ktop[Global(b, <<x, y>>)]
  BY <1>1
<1>4. \A x, y : <<x, y>> \in Interior(b) <=> x \in 1..m /\ y \in 1..n
  BY <1>0
<1>5. \A c \in Interior(b) : c = <<c[1], c[2]>> /\ c[1] \in 1..m /\ c[2] \in 1..n
  BY <1>0
<1>6. IsFiniteSet(Interior(b))
  <2>1. 1 \in Int /\ m \in Int /\ n \in Int
    BY <1>0
  <2>2. IsFiniteSet(1..m) /\ IsFiniteSet(1..n)
    BY <2>1, FS_Interval
  <2> QED  BY <1>0, <2>2, FS_Product
<1>7. IsFiniteSet(cells)
  <2> DEFINE T == Interior(b) \X (0..nz - 1)
             f == [c \in cells |-> <<<<c[1], c[2]>>, c[3]>>]
  <2>1. IsFiniteSet(0..nz - 1)
    <3>1. 0 \in Int /\ nz - 1 \in Int
      BY <1>0
    <3> QED  BY <3>1, FS_Interval
  <2>2. IsFiniteSet(T)
    BY <1>6, <2>1, FS_Product
  <2>3. \A c \in cells : f[c] \in T /\ f[c] = <<<<c[1], c[2]>>, c[3]>>
    BY <1>2, <1>4
  <2>4. f = [c \in cells |-> f[c]]
    OBVIOUS
  <2> HIDE DEF f, T
  <2>5. \A c, e \in cells : f[c] = f[e] => c = e
    <3> SUFFICES ASSUME NEW c \in cells, NEW e \in cells, f[c] = f[e] PROVE c = e
      OBVIOUS
    <3>1. <<<<c[1], c[2]>>, c[3]>> = <<<<e[1], e[2]>>, e[3]>>
      BY <2>3
    <3>2. c[1] = e[1] /\ c[2] = e[2] /\ c[3] = e[3]
      BY <3>1
    <3> QED  BY <1>2, <3>2
  <2>6. f \in Injection(cells, T)
    BY <2>3, <2>4, <2>5 DEF Injection, IsInjective
  <2> QED  BY <2>2, <2>6, FS_Injection
<1>8. Columns(cells) = Wet(b, ktop, nz)
  <2>1. ASSUME NEW c \in Columns(cells) PROVE c \in Wet(b, ktop, nz)
    <3>1. PICK e \in cells : c = <<e[1], e[2]>>
      BY DEF Columns
    <3>2. c \in Interior(b)
      BY <1>2, <1>4, <3>1
    <3>3. ktop[Global(b, c)] \in 0..nz
      BY <3>2 DEF Masked
    <3>4. e[3] \in 0..nz - 1 /\ e[3] >= ktop[Global(b, c)]
      BY <1>2, <3>1
    <3> QED  BY <1>0, <3>2, <3>3, <3>4 DEF Wet
  <2>2. ASSUME NEW c \in Wet(b, ktop, nz) PROVE c \in Columns(cells)
    <3>1. c \in Interior(b) /\ ktop[Global(b, c)] < nz /\ ktop[Global(b, c)] \in 0..nz
      BY DEF Wet, Masked
    <3>2. c = <<c[1], c[2]>> /\ c[1] \in 1..m /\ c[2] \in 1..n
      BY <1>5, <3>1
    <3> DEFINE e == <<c[1], c[2], nz - 1>>
    <3>3. nz - 1 \in 0..nz - 1 /\ nz - 1 >= ktop[Global(b, c)]
      BY <1>0, <3>1
    <3>4. e \in cells
      BY <1>3, <3>2, <3>3
    <3>5. <<e[1], e[2]>> = c
      BY <3>2
    <3> QED  BY <3>4, <3>5 DEF Columns
  <2> QED  BY <2>1, <2>2
<1>9. IsFiniteSet(Columns(cells))
  <2>1. Wet(b, ktop, nz) \in SUBSET Interior(b)
    BY DEF Wet
  <2> QED  BY <1>6, <1>8, <2>1, FS_Subset
<1>10. \A x, y : <<x, y>> \in Interior(b) => ktop[Global(b, <<x, y>>)] \in 0..nz
  BY DEF Masked
<1>11. \A x \in 1..m, y \in 1..n : x \in Int /\ y \in Int
  OBVIOUS
<1>12. \A c \in cells : /\ <<c[1], c[2]>> \in Interior(b) /\ c[3] \in 0..nz - 1
                        /\ c[1] \in Int /\ c[2] \in Int /\ c = <<c[1], c[2], c[3]>>
                        /\ c[3] >= ktop[Global(b, <<c[1], c[2]>>)]
  BY <1>2, <1>4, <1>11
<1>13. \A x, y : <<x, y>> \in Interior(b) =>
                 /\ x \in Int /\ y \in Int /\ ktop[Global(b, <<x, y>>)] \in 0..nz
                 /\ \A k \in 0..nz - 1 :
                      <<x, y, k>> \in cells <=> k >= ktop[Global(b, <<x, y>>)]
  BY <1>3, <1>4, <1>10, <1>11
<1>14. \A c \in Interior(b) : c = <<c[1], c[2]>> /\ c[1] \in Int /\ c[2] \in Int
  BY <1>5, <1>11
<1> QED  BY <1>6, <1>7, <1>8, <1>9, <1>12, <1>13, <1>14 DEF cells

\* The number of a column is its place among the block's columns, and that of
\* a cell its place among the block's cells.
LEMMA IdsArePlaces ==
  ASSUME NEW b, NEW ktop, NEW nz, Masked(b, ktop, nz), NEW o2 \in Int, NEW o3 \in Int,
         NEW c \in Interior(b)
  PROVE  LET cells == Active(b, ktop, nz)
             cols  == Columns(cells)
             ids   == ColumnIds(c, o2, o3, cells, nz)
             top   == ktop[Global(b, c)]
         IN /\ top = nz => ids.gid2 = Inactive /\ ids.gid3 = [k \in 0..nz - 1 |-> Inactive]
            /\ top < nz => /\ c \in cols
                           /\ ids.gid2 = o2 + Place(cols, ColumnOrder(cols), c)
                           /\ DOMAIN ids.gid3 = 0..nz - 1
                           /\ \A k \in 0..nz - 1 :
                                ids.gid3[k] = IF k < top THEN Inactive
                                              ELSE o3 + Place(cells, CellOrder(cells), <<c[1], c[2], k>>)
<1> DEFINE cells == Active(b, ktop, nz)
           cols == Columns(cells)
           ids == ColumnIds(c, o2, o3, cells, nz)
           top == ktop[Global(b, c)]
           before == {e \in cells : Earlier(e, c)}
           own == {e \in cells : e[1] = c[1] /\ e[2] = c[2]}
           first == nz - Cardinality(own)
           x == c[1]
           y == c[2]
<1>0. nz \in Nat \ {0} /\ top \in 0..nz
  BY DEF Masked
<1>1. c = <<x, y>> /\ x \in Int /\ y \in Int
  BY ActiveIs
<1>2. /\ \A e \in cells : /\ <<e[1], e[2]>> \in Interior(b) /\ e[3] \in 0..nz - 1
                          /\ e[1] \in Int /\ e[2] \in Int /\ e = <<e[1], e[2], e[3]>>
                          /\ e[3] >= ktop[Global(b, <<e[1], e[2]>>)]
      /\ IsFiniteSet(cells) /\ IsFiniteSet(cols)
  BY ActiveIs
<1>3. c \in cols <=> top < nz
  <2>1. cols = Wet(b, ktop, nz)
    BY ActiveIs
  <2> QED  BY <2>1 DEF Wet
<1>4. ids = IF c \notin cols
            THEN [gid2 |-> Inactive, gid3 |-> [k \in 0..nz - 1 |-> Inactive]]
            ELSE [gid2 |-> o2 + Cardinality(Columns(before)),
                  gid3 |-> [k \in 0..nz - 1 |->
                              IF k < first THEN Inactive
                              ELSE o3 + Cardinality(before) + k - first]]
  BY DEF ColumnIds
<1>5. \A k \in 0..nz - 1 : <<x, y, k>> \in cells <=> k >= top
  BY <1>1, ActiveIs
<1> HIDE DEF cells, cols, ids, top, x, y
<1>6. ASSUME NEW k \in top..nz PROVE Stack(x, y, top, k) = {e \in own : e[3] < k}
  <2>1. ASSUME NEW e \in Stack(x, y, top, k) PROVE e \in own /\ e[3] < k
    <3>1. PICK j \in top..k - 1 : e = <<x, y, j>>
      BY DEF Stack
    <3>2. j \in 0..nz - 1 /\ j >= top /\ j < k
      BY <1>0
    <3>3. e \in cells
      BY <1>5, <3>1, <3>2
    <3>4. e[1] = c[1] /\ e[2] = c[2] /\ e[3] < k
      BY <3>1, <3>2 DEF x, y
    <3> QED  BY <3>3, <3>4
  <2>2. ASSUME NEW e \in own, e[3] < k PROVE e \in Stack(x, y, top, k)
    <3>1. /\ e \in cells /\ e = <<e[1], e[2], e[3]>> /\ e[3] \in 0..nz - 1 /\ e[3] >= top
          /\ e[1] = x /\ e[2] = y
      <4>1. e \in cells /\ e[1] = x /\ e[2] = y
        BY DEF x, y
      <4>2. e = <<e[1], e[2], e[3]>> /\ e[3] \in 0..nz - 1
        BY <1>2, <4>1
      <4>3. e = <<x, y, e[3]>>
        BY <4>1, <4>2
      <4>4. e[3] >= top
        BY <1>5, <4>1, <4>2, <4>3
      <4> QED  BY <4>1, <4>2, <4>4
    <3>2. e[3] \in top..k - 1 /\ e = <<x, y, e[3]>>
      BY <1>0, <2>2, <3>1
    <3> QED  BY <3>2 DEF Stack
  <2> QED  BY <2>1, <2>2
<1>7. own = Stack(x, y, top, nz)
  <2>1. nz \in top..nz
    BY <1>0
  <2>2. ASSUME NEW e \in own PROVE e[3] < nz
    <3>1. e[3] \in 0..nz - 1
      BY <1>2
    <3> QED  BY <1>0, <3>1
  <2> QED  BY <1>6, <2>1, <2>2
<1>8. first = top
  <2>1. top \in Nat /\ nz \in Nat /\ top <= nz
    BY <1>0
  <2>2. Cardinality(own) = nz - top
    BY <1>7, <2>1, StackCount
  <2> HIDE DEF own
  <2> QED  BY <2>1, <2>2
<1> HIDE DEF first
<1>9. ASSUME c \in cols
      PROVE  Cardinality(Columns(before)) = Place(cols, ColumnOrder(cols), c)
  <2> DEFINE sooner == {d \in cols : <<d, c>> \in ColumnOrder(cols)}
  <2>1. \A d \in cols : <<d, c>> \in ColumnOrder(cols) <=> Earlier(d, c)
    BY <1>9 DEF ColumnOrder
  <2>2. ASSUME NEW d \in Columns(before) PROVE d \in sooner
    <3>1. PICK e \in before : d = <<e[1], e[2]>>
      BY DEF Columns
    <3>2. d \in cols
      BY <3>1 DEF cols, Columns
    <3>3. Earlier(d, c)
      BY <3>1 DEF Earlier
    <3> QED  BY <2>1, <3>2, <3>3
  <2>3. ASSUME NEW d \in sooner PROVE d \in Columns(before)
    <3>1. d \in cols /\ Earlier(d, c)
      BY <2>1
    <3>2. PICK e \in cells : d = <<e[1], e[2]>>
      BY <3>1 DEF cols, Columns
    <3>3. Earlier(e, c)
      BY <3>1, <3>2 DEF Earlier
    <3> QED  BY <3>2, <3>3 DEF Columns
  <2>4. Columns(before) = sooner
    BY <2>2, <2>3
  <2> QED  BY <2>4 DEF Place
<1>10. ASSUME NEW k \in top..nz - 1
       PROVE  Place(cells, CellOrder(cells), <<x, y, k>>) = Cardinality(before) + k - first
  <2> DEFINE e == <<x, y, k>>
             stack == Stack(x, y, top, k)
             sooner == {d \in cells : <<d, e>> \in CellOrder(cells)}
  <2>1. e \in cells /\ e[1] = x /\ e[2] = y /\ e[3] = k
    BY <1>0, <1>5
  <2> HIDE DEF e
  <2>2. \A d \in cells : <<d, e>> \in CellOrder(cells)
                           <=> Earlier(d, c) \/ (d[1] = c[1] /\ d[2] = c[2] /\ d[3] < k)
    BY <2>1 DEF CellOrder, Sooner, Earlier, x, y
  <2>3. k \in top..nz /\ k \in Nat /\ top \in Nat /\ top <= k
    BY <1>0
  <2>4. stack = {d \in own : d[3] < k}
    BY <1>6, <2>3
  <2>5. sooner = before \cup stack
    BY <2>2, <2>4
  <2>6. before \cap stack = {}
    <3> SUFFICES ASSUME NEW d \in before, d \in stack PROVE FALSE
      OBVIOUS
    <3>1. Earlier(d, c) /\ d[1] = c[1] /\ d[2] = c[2]
      BY <2>4
    <3>2. c[1] \in Int /\ c[2] \in Int
      BY <1>1 DEF x, y
    <3> QED  BY <3>1, <3>2 DEF Earlier
  <2>7. IsFiniteSet(before) /\ Cardinality(before) \in Nat
    <3>1. before \in SUBSET cells
      OBVIOUS
    <3>2. IsFiniteSet(before)
      BY <1>2, <3>1, FS_Subset
    <3> QED  BY <3>2, FS_CardinalityType
  <2>8. IsFiniteSet(stack) /\ Cardinality(stack) = k - top
    BY <2>3, StackCount
  <2> HIDE DEF before, stack, sooner
  <2>9. Cardinality(sooner) = Cardinality(before) + Cardinality(stack) - Cardinality(before \cap stack)
    BY <2>5, <2>7, <2>8, FS_Union
  <2>10. Cardinality(before \cap stack) = 0
    BY <2>6, FS_EmptySet
  <2>11. Cardinality(sooner) = Cardinality(before) + k - first
    BY <1>8, <2>3, <2>7, <2>8, <2>9, <2>10
  <2> QED  BY <2>11 DEF Place, sooner, e
<1>11. ASSUME c \in cols
       PROVE  /\ ids.gid2 = o2 + Place(cols, ColumnOrder(cols), c)
              /\ DOMAIN ids.gid3 = 0..nz - 1
              /\ \A k \in 0..nz - 1 :
                   ids.gid3[k] = IF k < top THEN Inactive
                                 ELSE o3 + Place(cells, CellOrder(cells), <<x, y, k>>)
  <2> DEFINE g == [k \in 0..nz - 1 |->
                     IF k < first THEN Inactive ELSE o3 + Cardinality(before) + k - first]
  <2>1. ids.gid2 = o2 + Cardinality(Columns(before)) /\ ids.gid3 = g
    BY <1>4, <1>11
  <2>2. \A k \in 0..nz - 1 :
          g[k] = IF k < first THEN Inactive ELSE o3 + Cardinality(before) + k - first
    OBVIOUS
  <2>3. DOMAIN g = 0..nz - 1
    OBVIOUS
  <2>4. Cardinality(before) \in Nat
    <3>1. before \in SUBSET cells
      OBVIOUS
    <3>2. IsFiniteSet(before)
      BY <1>2, <3>1, FS_Subset
    <3> QED  BY <3>2, FS_CardinalityType
  <2> HIDE DEF g, before
  <2>5. ASSUME NEW k \in 0..nz - 1
        PROVE  g[k] = IF k < top THEN Inactive
                      ELSE o3 + Place(cells, CellOrder(cells), <<x, y, k>>)
    <3>1. CASE k < top
      BY <1>8, <2>2, <3>1
    <3>2. CASE ~(k < top)
      <4>1. k \in top..nz - 1
        BY <1>0, <3>2
      <4>2. g[k] = o3 + Cardinality(before) + k - first
        BY <1>8, <2>2, <3>2
      <4>3. Place(cells, CellOrder(cells), <<x, y, k>>) = Cardinality(before) + k - first
        BY <1>10, <4>1 DEF before
      <4>4. o3 + Cardinality(before) + k - first = o3 + (Cardinality(before) + k - first)
        BY <1>0, <1>8, <2>4
      <4> QED  BY <3>2, <4>2, <4>3, <4>4
    <3> QED  BY <3>1, <3>2
  <2> QED  BY <1>9, <1>11, <2>1, <2>3, <2>5 DEF before
<1>12. top = nz => ids.gid2 = Inactive /\ ids.gid3 = [k \in 0..nz - 1 |-> Inactive]
  BY <1>0, <1>3, <1>4
<1> QED  BY <1>3, <1>11, <1>12 DEF cells, cols, ids, top, x, y

\* Both orders are strict and total.
LEMMA OrdersAreTotal ==
  ASSUME NEW b, NEW ktop, NEW nz, Masked(b, ktop, nz)
  PROVE  LET cells == Active(b, ktop, nz)
             cols  == Columns(cells)
         IN /\ \A c \in cols : <<c, c>> \notin ColumnOrder(cols)
            /\ \A c, d, e \in cols :
                 <<c, d>> \in ColumnOrder(cols) /\ <<d, e>> \in ColumnOrder(cols)
                   => <<c, e>> \in ColumnOrder(cols)
            /\ \A c, d \in cols : \/ c = d
                                  \/ <<c, d>> \in ColumnOrder(cols)
                                  \/ <<d, c>> \in ColumnOrder(cols)
            /\ \A c \in cells : <<c, c>> \notin CellOrder(cells)
            /\ \A c, d, e \in cells :
                 <<c, d>> \in CellOrder(cells) /\ <<d, e>> \in CellOrder(cells)
                   => <<c, e>> \in CellOrder(cells)
            /\ \A c, d \in cells : \/ c = d
                                   \/ <<c, d>> \in CellOrder(cells)
                                   \/ <<d, c>> \in CellOrder(cells)
<1> DEFINE cells == Active(b, ktop, nz)
           cols == Columns(cells)
<1>1. \A c \in cols : c[1] \in Int /\ c[2] \in Int /\ c = <<c[1], c[2]>>
  <2>1. cols = Wet(b, ktop, nz) /\ \A c \in Interior(b) : c = <<c[1], c[2]>> /\ c[1] \in Int /\ c[2] \in Int
    BY ActiveIs
  <2> QED  BY <2>1 DEF Wet
<1>2. \A c \in cells : c[1] \in Int /\ c[2] \in Int /\ c[3] \in Int /\ c = <<c[1], c[2], c[3]>>
  <2>1. ASSUME NEW c \in cells
        PROVE  c[3] \in 0..nz - 1 /\ c[1] \in Int /\ c[2] \in Int /\ c = <<c[1], c[2], c[3]>>
    <3>1. /\ <<c[1], c[2]>> \in Interior(b) /\ c[3] \in 0..nz - 1
          /\ c = <<c[1], c[2], c[3]>> /\ c[3] >= ktop[Global(b, <<c[1], c[2]>>)]
      BY ActiveIs
    <3>2. c[1] \in Int /\ c[2] \in Int
      BY ActiveIs
    <3> QED  BY <3>1, <3>2
  <2>2. \A k \in 0..nz - 1 : k \in Int
    OBVIOUS
  <2> HIDE DEF cells
  <2> QED  BY <2>1, <2>2
<1> HIDE DEF cells, cols
<1>3. \A c, d \in cols : <<c, d>> \in ColumnOrder(cols) <=> Earlier(c, d)
  BY DEF ColumnOrder
<1>4. \A c, d \in cells : <<c, d>> \in CellOrder(cells) <=> Sooner(c, d)
  BY DEF CellOrder
<1>5. \A c \in cols : ~Earlier(c, c)
  BY <1>1 DEF Earlier
<1>6. ASSUME NEW c \in cols, NEW d \in cols, NEW e \in cols, Earlier(c, d), Earlier(d, e)
      PROVE  Earlier(c, e)
  BY <1>1, <1>6 DEF Earlier
<1>7. ASSUME NEW c \in cols, NEW d \in cols, ~Earlier(c, d), ~Earlier(d, c) PROVE c = d
  <2>1. c[1] = d[1] /\ c[2] = d[2]
    BY <1>1, <1>7 DEF Earlier
  <2> QED  BY <1>1, <2>1
<1>8. \A c \in cells : ~Sooner(c, c)
  BY <1>2 DEF Sooner, Earlier
<1>9. ASSUME NEW c \in cells, NEW d \in cells, NEW e \in cells, Sooner(c, d), Sooner(d, e)
      PROVE  Sooner(c, e)
  BY <1>2, <1>9 DEF Sooner, Earlier
<1>10. ASSUME NEW c \in cells, NEW d \in cells, ~Sooner(c, d), ~Sooner(d, c) PROVE c = d
  <2>1. c[1] = d[1] /\ c[2] = d[2] /\ c[3] = d[3]
    BY <1>2, <1>10 DEF Sooner, Earlier
  <2> QED  BY <1>2, <2>1
<1>11. /\ \A c \in cols : <<c, c>> \notin ColumnOrder(cols)
       /\ \A c, d, e \in cols :
            <<c, d>> \in ColumnOrder(cols) /\ <<d, e>> \in ColumnOrder(cols)
              => <<c, e>> \in ColumnOrder(cols)
       /\ \A c, d \in cols : \/ c = d
                             \/ <<c, d>> \in ColumnOrder(cols)
                             \/ <<d, c>> \in ColumnOrder(cols)
  BY <1>3, <1>5, <1>6, <1>7
<1>12. /\ \A c \in cells : <<c, c>> \notin CellOrder(cells)
       /\ \A c, d, e \in cells :
            <<c, d>> \in CellOrder(cells) /\ <<d, e>> \in CellOrder(cells)
              => <<c, e>> \in CellOrder(cells)
       /\ \A c, d \in cells : \/ c = d
                              \/ <<c, d>> \in CellOrder(cells)
                              \/ <<d, c>> \in CellOrder(cells)
  BY <1>4, <1>8, <1>9, <1>10
<1> QED  BY <1>11, <1>12 DEF cells, cols

(***************************************************************************)
(* The ids of a block are consecutive: its active columns have the ids     *)
(* from the offset on, without a gap, its active cells likewise, and       *)
(* nothing else in the block has an id.                                    *)
(***************************************************************************)
THEOREM IdsAreConsecutive ==
  ASSUME NEW b, NEW ktop, NEW nz, Masked(b, ktop, nz), NEW o2 \in Nat, NEW o3 \in Nat
  PROVE  LET cells  == Active(b, ktop, nz)
             cols   == Columns(cells)
             ids(c) == ColumnIds(c, o2, o3, cells, nz)
         IN /\ {ids(c).gid2 : c \in Interior(b)} \ {Inactive} = o2..o2 + Cardinality(cols) - 1
            /\ (UNION {Range(ids(c).gid3) : c \in Interior(b)}) \ {Inactive}
                 = o3..o3 + Cardinality(cells) - 1
            /\ \A c \in Interior(b) :
                 /\ ids(c).gid2 # Inactive <=> ktop[Global(b, c)] < nz
                 /\ \A k \in 0..nz - 1 : ids(c).gid3[k] # Inactive <=> k >= ktop[Global(b, c)]
<1> DEFINE cells == Active(b, ktop, nz)
           cols == Columns(cells)
           ids(c) == ColumnIds(c, o2, o3, cells, nz)
           top(c) == ktop[Global(b, c)]
           place2(c) == Place(cols, ColumnOrder(cols), c)
           place3(e) == Place(cells, CellOrder(cells), e)
           n2 == Cardinality(cols)
           n3 == Cardinality(cells)
<1>1. /\ n2 \in Nat
      /\ \A c \in cols : place2(c) \in 0..n2 - 1
      /\ \A i \in 0..n2 - 1 : \E c \in cols : place2(c) = i
  <2>1. IsFiniteSet(cols)
    BY ActiveIs
  <2>2. /\ \A c \in cols : <<c, c>> \notin ColumnOrder(cols)
        /\ \A c, d, e \in cols :
             <<c, d>> \in ColumnOrder(cols) /\ <<d, e>> \in ColumnOrder(cols)
               => <<c, e>> \in ColumnOrder(cols)
        /\ \A c, d \in cols : \/ c = d
                              \/ <<c, d>> \in ColumnOrder(cols)
                              \/ <<d, c>> \in ColumnOrder(cols)
    BY OrdersAreTotal
  <2> HIDE DEF cols
  <2> QED  BY <2>1, <2>2, PlacesAreRows
<1>2. /\ n3 \in Nat
      /\ \A e \in cells : place3(e) \in 0..n3 - 1
      /\ \A i \in 0..n3 - 1 : \E e \in cells : place3(e) = i
  <2>1. IsFiniteSet(cells)
    BY ActiveIs
  <2>2. /\ \A c \in cells : <<c, c>> \notin CellOrder(cells)
        /\ \A c, d, e \in cells :
             <<c, d>> \in CellOrder(cells) /\ <<d, e>> \in CellOrder(cells)
               => <<c, e>> \in CellOrder(cells)
        /\ \A c, d \in cells : \/ c = d
                               \/ <<c, d>> \in CellOrder(cells)
                               \/ <<d, c>> \in CellOrder(cells)
    BY OrdersAreTotal
  <2> HIDE DEF cells
  <2> QED  BY <2>1, <2>2, PlacesAreRows
<1>3. nz \in Nat \ {0} /\ \A c \in Interior(b) : top(c) \in 0..nz
  BY DEF Masked
<1>4. \A c \in Interior(b) : c \in cols <=> top(c) < nz
  <2>1. cols = Wet(b, ktop, nz)
    BY ActiveIs
  <2> QED  BY <2>1 DEF Wet
<1>5. \A c \in cols : c \in Interior(b)
  <2>1. cols = Wet(b, ktop, nz)
    BY ActiveIs
  <2> QED  BY <2>1 DEF Wet
<1>6. \A e \in cells : /\ <<e[1], e[2]>> \in Interior(b) /\ e[3] \in 0..nz - 1
                       /\ e = <<e[1], e[2], e[3]>> /\ e[3] >= top(<<e[1], e[2]>>)
  <2> SUFFICES ASSUME NEW e \in cells
               PROVE  /\ <<e[1], e[2]>> \in Interior(b) /\ e[3] \in 0..nz - 1
                      /\ e = <<e[1], e[2], e[3]>> /\ e[3] >= ktop[Global(b, <<e[1], e[2]>>)]
    OBVIOUS
  <2> QED  BY ActiveIs
<1>7. \A c \in Interior(b) : /\ c = <<c[1], c[2]>>
                             /\ \A k \in 0..nz - 1 : <<c[1], c[2], k>> \in cells <=> k >= top(c)
  <2> SUFFICES ASSUME NEW c \in Interior(b)
               PROVE  /\ c = <<c[1], c[2]>>
                      /\ \A k \in 0..nz - 1 : <<c[1], c[2], k>> \in cells <=> k >= top(c)
    OBVIOUS
  <2>1. c = <<c[1], c[2]>>
    BY ActiveIs
  <2>2. <<c[1], c[2]>> \in Interior(b)
    BY <2>1
  <2>3. \A k \in 0..nz - 1 :
          <<c[1], c[2], k>> \in cells <=> k >= ktop[Global(b, <<c[1], c[2]>>)]
    BY <2>2, ActiveIs
  <2> HIDE DEF cells
  <2> QED  BY <2>1, <2>3
<1>8. ASSUME NEW c \in Interior(b)
      PROVE  /\ top(c) = nz => ids(c).gid2 = Inactive /\ ids(c).gid3 = [k \in 0..nz - 1 |-> Inactive]
             /\ top(c) < nz => /\ ids(c).gid2 = o2 + place2(c)
                               /\ DOMAIN ids(c).gid3 = 0..nz - 1
                               /\ \A k \in 0..nz - 1 :
                                    ids(c).gid3[k] = IF k < top(c) THEN Inactive
                                                     ELSE o3 + place3(<<c[1], c[2], k>>)
  <2>1. o2 \in Int /\ o3 \in Int
    OBVIOUS
  <2> QED  BY <2>1, IdsArePlaces
<1>9. \A c \in Interior(b) : top(c) = nz \/ top(c) < nz
  BY <1>3
<1> HIDE DEF cells, cols, ids, top, place2, place3, n2, n3
<1>10. ASSUME NEW c \in Interior(b), top(c) < nz PROVE ids(c).gid2 \in o2..o2 + n2 - 1
  <2>1. place2(c) \in 0..n2 - 1 /\ ids(c).gid2 = o2 + place2(c)
    BY <1>1, <1>4, <1>8, <1>10
  <2> QED  BY <1>1, <2>1
<1>11. ASSUME NEW c \in Interior(b), NEW k \in 0..nz - 1, k >= top(c)
       PROVE  ids(c).gid3[k] \in o3..o3 + n3 - 1 /\ top(c) < nz
  <2>1. top(c) < nz
    BY <1>3, <1>11
  <2>2. <<c[1], c[2], k>> \in cells
    BY <1>7, <1>11
  <2>3. place3(<<c[1], c[2], k>>) \in 0..n3 - 1
    BY <1>2, <2>2
  <2>4. ~(k < top(c))
    BY <1>3, <1>11
  <2>5. ids(c).gid3[k] = o3 + place3(<<c[1], c[2], k>>)
    BY <1>8, <2>1, <2>4
  <2> QED  BY <1>2, <2>1, <2>3, <2>5
<1>12. ASSUME NEW c \in Interior(b), NEW k \in 0..nz - 1, ~(k >= top(c))
       PROVE  ids(c).gid3[k] = Inactive
  <2>1. CASE top(c) = nz
    BY <1>8, <2>1
  <2>2. CASE top(c) < nz
    <3>1. k < top(c)
      BY <1>3, <1>12
    <3> QED  BY <1>8, <2>2, <3>1
  <2> QED  BY <1>9, <2>1, <2>2
<1>13. \A i \in o2..o2 + n2 - 1 : i # Inactive /\ i \in Int
  BY DEF Inactive
<1>14. \A i \in o3..o3 + n3 - 1 : i # Inactive /\ i \in Int
  BY DEF Inactive
<1>15. {ids(c).gid2 : c \in Interior(b)} \ {Inactive} = o2..o2 + n2 - 1
  <2>1. ASSUME NEW c \in Interior(b), ids(c).gid2 # Inactive PROVE ids(c).gid2 \in o2..o2 + n2 - 1
    BY <1>8, <1>9, <1>10, <2>1
  <2>2. ASSUME NEW i \in o2..o2 + n2 - 1 PROVE \E c \in Interior(b) : ids(c).gid2 = i
    <3>1. i - o2 \in 0..n2 - 1 /\ o2 + (i - o2) = i
      BY <1>1
    <3>2. PICK c \in cols : place2(c) = i - o2
      BY <1>1, <3>1
    <3>3. c \in Interior(b) /\ top(c) < nz
      BY <1>4, <1>5
    <3>4. ids(c).gid2 = o2 + place2(c)
      BY <1>8, <3>3
    <3> QED  BY <3>1, <3>2, <3>3, <3>4
  <2> QED  BY <1>13, <2>1, <2>2
<1>16. (UNION {Range(ids(c).gid3) : c \in Interior(b)}) \ {Inactive} = o3..o3 + n3 - 1
  <2>1. ASSUME NEW c \in Interior(b), NEW i \in Range(ids(c).gid3), i # Inactive
        PROVE  i \in o3..o3 + n3 - 1
    <3>1. DOMAIN ids(c).gid3 = 0..nz - 1
      BY <1>8, <1>9
    <3>2. PICK k \in 0..nz - 1 : ids(c).gid3[k] = i
      BY <3>1 DEF Range
    <3>3. k >= top(c)
      BY <1>12, <2>1, <3>2
    <3> QED  BY <1>11, <3>2, <3>3
  <2>2. ASSUME NEW i \in o3..o3 + n3 - 1 PROVE \E c \in Interior(b) : i \in Range(ids(c).gid3)
    <3>1. i - o3 \in 0..n3 - 1 /\ o3 + (i - o3) = i
      BY <1>2
    <3>2. PICK e \in cells : place3(e) = i - o3
      BY <1>2, <3>1
    <3> DEFINE c == <<e[1], e[2]>>
    <3>3. c \in Interior(b) /\ e[3] \in 0..nz - 1 /\ e[3] >= top(c) /\ e = <<c[1], c[2], e[3]>>
      BY <1>6
    <3> HIDE DEF c
    <3>4. top(c) < nz /\ ~(e[3] < top(c))
      BY <1>3, <3>3
    <3>5. ids(c).gid3[e[3]] = o3 + place3(e)
      BY <1>8, <3>3, <3>4
    <3>6. DOMAIN ids(c).gid3 = 0..nz - 1
      BY <1>8, <3>3, <3>4
    <3>7. ids(c).gid3[e[3]] = i
      BY <3>1, <3>2, <3>5
    <3>8. i \in Range(ids(c).gid3)
      BY <3>3, <3>6, <3>7 DEF Range
    <3> QED  BY <3>3, <3>8
  <2>3. \A i \in (UNION {Range(ids(c).gid3) : c \in Interior(b)}) \ {Inactive} : i \in o3..o3 + n3 - 1
    BY <2>1
  <2>4. \A i \in o3..o3 + n3 - 1 : i \in (UNION {Range(ids(c).gid3) : c \in Interior(b)}) \ {Inactive}
    BY <1>14, <2>2
  <2> QED  BY <2>3, <2>4
<1>17. ASSUME NEW c \in Interior(b)
       PROVE  /\ ids(c).gid2 # Inactive <=> top(c) < nz
              /\ \A k \in 0..nz - 1 : ids(c).gid3[k] # Inactive <=> k >= top(c)
  <2>1. ids(c).gid2 # Inactive <=> top(c) < nz
    <3>1. CASE top(c) = nz
      <4>1. ~(top(c) < nz)
        BY <1>3, <3>1
      <4> QED  BY <1>8, <3>1, <4>1
    <3>2. CASE top(c) < nz
      BY <1>10, <1>13, <3>2
    <3> QED  BY <1>9, <3>1, <3>2
  <2> QED  BY <1>11, <1>12, <1>14, <2>1
<1> QED  BY <1>15, <1>16, <1>17 DEF cells, cols, ids, top, n2, n3
-----------------------------------------------------------------------------
(***************************************************************************)
(* The ranks: one request, and every rank's place in it.                   *)
(***************************************************************************)

\* An accepted layout is a factorization of the ranks, requested or automatic.
Layout0(q) == ChooseDecomposition(q.nx, q.ny, q.size, q.mpiNx, q.mpiNy)
AcceptedBy(q) == Accepted(q.nx, q.ny, q.size, Layout0(q))

LEMMA Extents ==
  ASSUME NEW q \in Requests
  PROVE  /\ q.nx \in Nat \ {0} /\ q.ny \in Nat \ {0} /\ q.nz \in Nat \ {0}
         /\ q.size \in Nat \ {0} /\ q.mpiNx \in Nat /\ q.mpiNy \in Nat
         /\ q.ktop \in [(0..q.nx - 1) \X (0..q.ny - 1) -> 0..q.nz]
         /\ DOMAIN q.ktop = (0..q.nx - 1) \X (0..q.ny - 1)
<1>1. /\ {q.nx, q.ny, q.nz, q.size} \subseteq Nat \ {0} /\ {q.mpiNx, q.mpiNy} \subseteq Nat
      /\ q.ktop \in [(0..q.nx - 1) \X (0..q.ny - 1) -> 0..q.nz]
  BY HaloAssumption
<1> QED  BY <1>1

LEMMA AcceptedFactors ==
  ASSUME NEW q \in Requests, AcceptedBy(q)
  PROVE  Factors(q.size, Layout0(q)) /\ Fits(q.nx, q.ny, Layout0(q))
<1> DEFINE l == Layout0(q)
<1>1. l.px * l.py = q.size /\ Fits(q.nx, q.ny, l)
  BY DEF AcceptedBy, Accepted
<1>2. CASE q.mpiNx = 0 /\ q.mpiNy = 0
  <2>1. l = Automatic(q.nx, q.ny, q.size)
    BY <1>2 DEF Layout0, ChooseDecomposition
  <2>2. Factors(q.size, Automatic(q.nx, q.ny, q.size))
    BY Extents, AutomaticFits
  <2> QED  BY <1>1, <2>1, <2>2
<1>3. CASE ~(q.mpiNx = 0 /\ q.mpiNy = 0)
  <2>1. l = Requested(q.size, q.mpiNx, q.mpiNy)
    BY <1>3 DEF Layout0, ChooseDecomposition
  <2>2. l.px \in Nat /\ l.py \in Nat
    <3>1. CASE q.mpiNx > 0 /\ q.mpiNy > 0
      <4>1. l.px = q.mpiNx /\ l.py = q.mpiNy
        BY <2>1, <3>1 DEF Requested
      <4> QED  BY <4>1, Extents
    <3>2. CASE q.mpiNx > 0 /\ ~(q.mpiNy > 0)
      <4>1. l.px = q.mpiNx /\ l.py = q.size \div q.mpiNx
        BY <2>1, <3>2 DEF Requested
      <4>2. q.size \in Nat /\ q.mpiNx \in Nat \ {0}
        <5>1. q.size \in Nat /\ q.mpiNx \in Nat
          BY Extents
        <5> QED  BY <3>2, <5>1
      <4>3. q.size \div q.mpiNx \in Nat
        BY <4>2, Quotient
      <4> QED  BY <4>1, <4>2, <4>3
    <3>3. CASE ~(q.mpiNx > 0)
      <4>1. l.px = q.size \div q.mpiNy /\ l.py = q.mpiNy
        BY <2>1, <3>3 DEF Requested
      <4>2. q.size \in Nat /\ q.mpiNy \in Nat \ {0}
        <5>1. q.size \in Nat /\ q.mpiNx \in Nat /\ q.mpiNy \in Nat
          BY Extents
        <5> QED  BY <1>3, <3>3, <5>1
      <4>3. q.size \div q.mpiNy \in Nat
        BY <4>2, Quotient
      <4> QED  BY <4>1, <4>2, <4>3
    <3> QED  BY <3>1, <3>2, <3>3
  <2> HIDE DEF l
  <2>3. l.px # 0 /\ l.py # 0
    <3> DEFINE x == l.px
               y == l.py
    <3>1. x \in Nat /\ y \in Nat /\ x * y = q.size /\ q.size # 0
      BY <1>1, <2>2, Extents
    <3> HIDE DEF x, y
    <3>2. x # 0 /\ y # 0
      BY <3>1
    <3> QED  BY <3>2 DEF x, y
  <2> QED  BY <1>1, <2>2, <2>3 DEF Factors, l
<1> QED  BY <1>2, <1>3

-----------------------------------------------------------------------------
(* Ranks are counted along x first. *)

LEMMA PlaceOf ==
  ASSUME NEW size \in Nat \ {0}, NEW l, Factors(size, l), NEW rank \in 0..size - 1
  PROVE  /\ Pi(l, rank) \in 0..l.px - 1 /\ Pj(l, rank) \in 0..l.py - 1
         /\ rank = l.px * Pj(l, rank) + Pi(l, rank)
<1> DEFINE px == l.px
           py == l.py
           i == rank % l.px
           j == rank \div l.px
<1>1. px \in Nat \ {0} /\ py \in Nat \ {0} /\ px * py = size
  BY DEF Factors
<1> HIDE DEF px, py
<1>2. j \in Nat /\ i \in 0..px - 1 /\ rank = px * j + i
  <2>1. rank \in Nat
    OBVIOUS
  <2> QED  BY <1>1, <2>1, Quotient DEF px
<1> HIDE DEF i, j
<1>3. j < py
  <2> SUFFICES ASSUME py <= j PROVE FALSE
    BY <1>1, <1>2
  <2>1. py * px <= j * px
    BY <1>1, <1>2, Grows
  <2>2. py * px = px * py /\ j * px = px * j /\ px * j \in Nat
    BY <1>1, <1>2
  <2> QED  BY <1>1, <1>2, <2>1, <2>2
<1>4. i \in 0..px - 1 /\ j \in 0..py - 1 /\ rank = px * j + i
  BY <1>1, <1>2, <1>3
<1> QED  BY <1>4 DEF Pi, Pj, i, j, px, py

LEMMA RankAt ==
  ASSUME NEW size \in Nat \ {0}, NEW l, Factors(size, l),
         NEW i \in 0..l.px - 1, NEW j \in 0..l.py - 1
  PROVE  /\ l.px * j + i \in 0..size - 1
         /\ Pi(l, l.px * j + i) = i /\ Pj(l, l.px * j + i) = j
<1> DEFINE px == l.px
           py == l.py
           r == px * j + i
<1>1. px \in Nat \ {0} /\ py \in Nat \ {0} /\ px * py = size /\ i \in 0..px - 1 /\ j \in 0..py - 1
  BY DEF Factors
<1> HIDE DEF px, py
<1>2. px * j \in Nat /\ px * (j + 1) = px * j + px
  BY <1>1
<1>3. (j + 1) * px <= py * px /\ (j + 1) * px = px * (j + 1) /\ py * px = px * py
  BY <1>1, Grows
<1>4. r \in 0..size - 1
  BY <1>1, <1>2, <1>3
<1> DEFINE b == r % px
           a == r \div px
<1>5. a \in Nat /\ b \in 0..px - 1 /\ r = px * a + b /\ px * a \in Nat
  <2>0. r \in Nat
    BY <1>4
  <2> HIDE DEF r
  <2>1. a \in Nat /\ b \in 0..px - 1 /\ r = px * a + b
    BY <1>1, <2>0, Quotient
  <2> HIDE DEF a
  <2> QED  BY <1>1, <2>1
<1> HIDE DEF a, b
<1>6. ~(a + 1 <= j)
  <2> SUFFICES ASSUME a + 1 <= j PROVE FALSE
    OBVIOUS
  <2>1. (a + 1) * px <= j * px /\ j * px = px * j
    BY <1>1, <1>5, Grows
  <2>2. (a + 1) * px = px * a + px
    BY <1>1, <1>5
  <2> QED  BY <1>1, <1>2, <1>5, <2>1, <2>2
<1>7. ~(j + 1 <= a)
  <2> SUFFICES ASSUME j + 1 <= a PROVE FALSE
    OBVIOUS
  <2>1. (j + 1) * px <= a * px /\ a * px = px * a
    BY <1>1, <1>5, Grows
  <2> QED  BY <1>1, <1>2, <1>3, <1>5, <2>1
<1>8. a = j
  BY <1>1, <1>5, <1>6, <1>7
<1>9. b = i
  BY <1>1, <1>2, <1>5, <1>8
<1> QED  BY <1>4, <1>8, <1>9 DEF Pi, Pj, a, b, px, py

-----------------------------------------------------------------------------
(* The constructor leaves every rank its block and its neighbours, and     *)
(* nothing changes them afterwards.                                        *)

Shape == Layout0(request)

LayoutInv ==
  /\ request \in Requests /\ status \in {"starting", "running", "fatal"}
  /\ status = "running" =>
       /\ AcceptedBy(request)
       /\ block = [r \in Ranks |-> Block(request.nx, request.ny, Shape, r)]
       /\ neighbor = [r \in Ranks |-> [d \in Directions |-> Neighbor(Shape, r, d)]]
  /\ status = "fatal" => ~AcceptedBy(request)

LEMMA LayoutInvHolds == Spec => []LayoutInv
<1>1. Init => LayoutInv
  BY DEF Init, LayoutInv
<1>2. LayoutInv /\ [Next]_vars => LayoutInv'
  <2> SUFFICES ASSUME LayoutInv, [Next]_vars PROVE LayoutInv'
    OBVIOUS
  <2>1. CASE Construct
    BY <2>1 DEF Construct, LayoutInv, AcceptedBy, Layout0, Shape, Ranks
  <2>2. CASE UNCHANGED grid
    BY <2>2 DEF grid, LayoutInv, AcceptedBy, Layout0, Shape, Ranks
  <2>3. ASSUME NEW r \in Ranks, RankStep(r) PROVE UNCHANGED grid
    BY <2>3 DEF RankStep, EnterSum, LeaveSum, Post, Complete
  <2>4. UNCHANGED vars => UNCHANGED grid
    BY DEF vars
  <2> QED  BY <2>1, <2>2, <2>3, <2>4 DEF Next
<1> QED  BY <1>1, <1>2, PTL DEF Spec

\* The ranges a rank's block covers on the two axes.
Along(r) == Cut(request.nx, Shape.px, Pi(Shape, r))
Up(r) == Cut(request.ny, Shape.py, Pj(Shape, r))

\* What the proofs below take from the invariant.
LEMMA Blocks ==
  ASSUME LayoutInv, status = "running"
  PROVE  /\ request.nx \in Nat \ {0} /\ request.ny \in Nat \ {0} /\ request.size \in Nat \ {0}
         /\ Factors(request.size, Shape)
         /\ Shape.px \in Nat \ {0} /\ Shape.py \in Nat \ {0}
         /\ Shape.px <= request.nx /\ Shape.py <= request.ny
         /\ \A r \in Ranks :
              /\ Pi(Shape, r) \in 0..Shape.px - 1 /\ Pj(Shape, r) \in 0..Shape.py - 1
              /\ r = Shape.px * Pj(Shape, r) + Pi(Shape, r)
              /\ block[r].i0 = BlockStart(request.nx, Shape.px, Pi(Shape, r))
              /\ block[r].j0 = BlockStart(request.ny, Shape.py, Pj(Shape, r))
              /\ block[r].nxl = BlockSize(request.nx, Shape.px, Pi(Shape, r))
              /\ block[r].nyl = BlockSize(request.ny, Shape.py, Pj(Shape, r))
              /\ \A d \in Directions : neighbor[r][d] = Neighbor(Shape, r, d)
<1>1. request \in Requests /\ AcceptedBy(request)
  BY DEF LayoutInv
<1>2. request.nx \in Nat \ {0} /\ request.ny \in Nat \ {0} /\ request.size \in Nat \ {0}
  BY <1>1, Extents
<1>3. Factors(request.size, Shape) /\ Fits(request.nx, request.ny, Shape)
  BY <1>1, AcceptedFactors DEF Shape
<1>4. ASSUME NEW r \in Ranks
      PROVE  /\ Pi(Shape, r) \in 0..Shape.px - 1 /\ Pj(Shape, r) \in 0..Shape.py - 1
             /\ r = Shape.px * Pj(Shape, r) + Pi(Shape, r)
  BY <1>2, <1>3, PlaceOf DEF Ranks
<1>5. ASSUME NEW r \in Ranks
      PROVE  /\ block[r] = Block(request.nx, request.ny, Shape, r)
             /\ \A d \in Directions : neighbor[r][d] = Neighbor(Shape, r, d)
  BY DEF LayoutInv
<1>6. ASSUME NEW r \in Ranks
      PROVE  /\ block[r].i0 = BlockStart(request.nx, Shape.px, Pi(Shape, r))
             /\ block[r].j0 = BlockStart(request.ny, Shape.py, Pj(Shape, r))
             /\ block[r].nxl = BlockSize(request.nx, Shape.px, Pi(Shape, r))
             /\ block[r].nyl = BlockSize(request.ny, Shape.py, Pj(Shape, r))
  <2>1. block[r] = [i0  |-> BlockStart(request.nx, Shape.px, Pi(Shape, r)),
                    j0  |-> BlockStart(request.ny, Shape.py, Pj(Shape, r)),
                    nxl |-> BlockSize(request.nx, Shape.px, Pi(Shape, r)),
                    nyl |-> BlockSize(request.ny, Shape.py, Pj(Shape, r))]
    BY <1>5 DEF Block
  <2>2. /\ block[r].i0 = BlockStart(request.nx, Shape.px, Pi(Shape, r))
        /\ block[r].j0 = BlockStart(request.ny, Shape.py, Pj(Shape, r))
    BY <2>1
  <2>3. /\ block[r].nxl = BlockSize(request.nx, Shape.px, Pi(Shape, r))
        /\ block[r].nyl = BlockSize(request.ny, Shape.py, Pj(Shape, r))
    BY <2>1
  <2> QED  BY <2>2, <2>3
<1> QED  BY <1>2, <1>3, <1>4, <1>5, <1>6 DEF Factors, Fits

\* A block is not empty and lies within the axis.
LEMMA BlockWithin ==
  ASSUME NEW N \in Nat \ {0}, NEW P \in Nat \ {0}, P <= N, NEW p \in 0..P - 1
  PROVE  /\ BlockStart(N, P, p) \in 0..N - 1 /\ BlockSize(N, P, p) \in Nat \ {0}
         /\ BlockStart(N, P, p) + BlockSize(N, P, p) <= N
         /\ BlockStart(N, P, p) \in Cut(N, P, p)
         /\ BlockStart(N, P, p) + BlockSize(N, P, p) - 1 \in Cut(N, P, p)
<1>1. BlockStart(N, P, p) \in Nat /\ BlockSize(N, P, p) \in Nat
  <2>1. PICK q \in Nat, r \in 0..P - 1 :
          /\ N = P * q + r
          /\ \A z \in 0..P : /\ z * q \in Nat
                             /\ BlockStart(N, P, z) = z * q + (IF z <= r THEN z ELSE r)
                             /\ BlockSize(N, P, z) = q + (IF z < r THEN 1 ELSE 0)
    BY Layout
  <2>2. p \in 0..P /\ p \in Nat
    OBVIOUS
  <2>3. /\ p * q \in Nat
        /\ BlockStart(N, P, p) = p * q + (IF p <= r THEN p ELSE r)
        /\ BlockSize(N, P, p) = q + (IF p < r THEN 1 ELSE 0)
    BY <2>1, <2>2
  <2> DEFINE s == p * q
  <2>4. s \in Nat /\ BlockStart(N, P, p) = s + (IF p <= r THEN p ELSE r)
    BY <2>3
  <2> HIDE DEF s
  <2> QED  BY <2>2, <2>3, <2>4
<1>2. BlockSize(N, P, p) >= 1
  BY NoEmptyBlock
<1>3. BlockStart(N, P, p) + BlockSize(N, P, p) <= N
  BY BlocksAbut, InOrder
<1> QED  BY <1>1, <1>2, <1>3 DEF Cut

\* A rank owns what its ranges cover.
LEMMA OwnersAre ==
  ASSUME LayoutInv, status = "running", NEW x \in Int, NEW y \in Int, NEW r \in Ranks
  PROVE  r \in Owners(<<x, y>>) <=> x \in Along(r) /\ y \in Up(r)
<1> DEFINE i0 == block[r].i0
           j0 == block[r].j0
           m == block[r].nxl
           n == block[r].nyl
<1>1. /\ i0 \in Nat /\ j0 \in Nat /\ m \in Nat /\ n \in Nat
      /\ Along(r) = i0..i0 + m - 1 /\ Up(r) = j0..j0 + n - 1
  <2>1. /\ i0 = BlockStart(request.nx, Shape.px, Pi(Shape, r))
        /\ j0 = BlockStart(request.ny, Shape.py, Pj(Shape, r))
        /\ m = BlockSize(request.nx, Shape.px, Pi(Shape, r))
        /\ n = BlockSize(request.ny, Shape.py, Pj(Shape, r))
    BY Blocks
  <2>2. i0 \in Nat /\ m \in Nat /\ j0 \in Nat /\ n \in Nat
    <3> HIDE DEF i0, j0, m, n
    <3>1. i0 \in Nat /\ m \in Nat
      BY <2>1, Blocks, BlockWithin
    <3>2. j0 \in Nat /\ n \in Nat
      BY <2>1, Blocks, BlockWithin
    <3> QED  BY <3>1, <3>2
  <2> QED  BY <2>1, <2>2 DEF Along, Up, Cut
<1>2. r \in Owners(<<x, y>>)
        <=> \E c \in (1..m) \X (1..n) : i0 + c[1] - 1 = x /\ j0 + c[2] - 1 = y
  BY DEF Owners, Interior, Global
<1> HIDE DEF i0, j0, m, n
<1>3. ASSUME NEW c \in (1..m) \X (1..n), i0 + c[1] - 1 = x, j0 + c[2] - 1 = y
      PROVE  x \in Along(r) /\ y \in Up(r)
  <2>1. c[1] \in 1..m /\ c[2] \in 1..n
    OBVIOUS
  <2> QED  BY <1>1, <1>3, <2>1
<1>4. ASSUME x \in Along(r), y \in Up(r)
      PROVE  \E c \in (1..m) \X (1..n) : i0 + c[1] - 1 = x /\ j0 + c[2] - 1 = y
  <2> DEFINE u == x - i0 + 1
             v == y - j0 + 1
  <2>1. u \in 1..m /\ v \in 1..n /\ i0 + u - 1 = x /\ j0 + v - 1 = y
    BY <1>1, <1>4
  <2> HIDE DEF u, v
  <2>2. <<u, v>> \in (1..m) \X (1..n) /\ <<u, v>>[1] = u /\ <<u, v>>[2] = v
    BY <2>1
  <2> QED  BY <2>1, <2>2
<1> QED  BY <1>2, <1>3, <1>4

\* The one owner of a cell, from the blocks of the two axes that cover it.
LEMMA OneOwner ==
  ASSUME LayoutInv, status = "running",
         NEW i \in 0..Shape.px - 1, NEW j \in 0..Shape.py - 1,
         NEW x \in Cut(request.nx, Shape.px, i), NEW y \in Cut(request.ny, Shape.py, j)
  PROVE  Shape.px * j + i \in Ranks /\ Owners(<<x, y>>) = {Shape.px * j + i}
<1> DEFINE px == Shape.px
           py == Shape.py
           rank == px * j + i
<1>1. /\ request.nx \in Nat \ {0} /\ request.ny \in Nat \ {0}
      /\ px \in Nat \ {0} /\ py \in Nat \ {0} /\ px <= request.nx /\ py <= request.ny
  BY Blocks
<1>2. x \in 0..request.nx - 1 /\ y \in 0..request.ny - 1
  <2>1. /\ BlockStart(request.nx, px, i) \in 0..request.nx - 1
        /\ BlockSize(request.nx, px, i) \in Nat
        /\ BlockStart(request.nx, px, i) + BlockSize(request.nx, px, i) <= request.nx
    BY <1>1, BlockWithin
  <2>2. /\ BlockStart(request.ny, py, j) \in 0..request.ny - 1
        /\ BlockSize(request.ny, py, j) \in Nat
        /\ BlockStart(request.ny, py, j) + BlockSize(request.ny, py, j) <= request.ny
    BY <1>1, BlockWithin
  <2>3. x \in 0..request.nx - 1
    BY <1>1, <2>1 DEF Cut
  <2>4. y \in 0..request.ny - 1
    BY <1>1, <2>2 DEF Cut
  <2> QED  BY <2>3, <2>4
<1>3. rank \in Ranks /\ Pi(Shape, rank) = i /\ Pj(Shape, rank) = j
  <2>1. request.size \in Nat \ {0} /\ Factors(request.size, Shape)
    BY Blocks
  <2>2. /\ rank \in 0..request.size - 1
        /\ Pi(Shape, rank) = i /\ Pj(Shape, rank) = j
    BY <2>1, RankAt
  <2> QED  BY <2>2 DEF Ranks
<1>4. rank \in Owners(<<x, y>>)
  <2>1. x \in Along(rank) /\ y \in Up(rank)
    BY <1>3 DEF Along, Up
  <2> HIDE DEF rank
  <2> QED  BY <1>2, <1>3, <2>1, OwnersAre
<1>5. ASSUME NEW r \in Owners(<<x, y>>) PROVE r = rank
  <2>1. r \in Ranks
    BY DEF Owners
  <2>2. x \in Cut(request.nx, px, Pi(Shape, r)) /\ y \in Cut(request.ny, py, Pj(Shape, r))
    BY <1>2, <2>1, OwnersAre DEF Along, Up
  <2>3. /\ Pi(Shape, r) \in 0..px - 1 /\ Pj(Shape, r) \in 0..py - 1
        /\ r = px * Pj(Shape, r) + Pi(Shape, r)
    BY <2>1, Blocks
  <2>4. Pi(Shape, r) = i
    <3>1. request.nx \in Nat
      BY <1>1
    <3>2. PICK p \in 0..px - 1 : \A o \in 0..px - 1 : x \in Cut(request.nx, px, o) => o = p
      BY <1>1, <1>2, <3>1, BlocksTile
    <3> QED  BY <2>2, <2>3, <3>2
  <2>5. Pj(Shape, r) = j
    <3>1. request.ny \in Nat
      BY <1>1
    <3>2. PICK p \in 0..py - 1 : \A o \in 0..py - 1 : y \in Cut(request.ny, py, o) => o = p
      BY <1>1, <1>2, <3>1, BlocksTile
    <3> QED  BY <2>2, <2>3, <3>2
  <2> QED  BY <2>3, <2>4, <2>5
<1> QED  BY <1>3, <1>4, <1>5

LEMMA NotEmpty ==
  ASSUME LayoutInv, status = "running", NEW r \in Ranks
  PROVE  Interior(block[r]) # {}
<1>1. block[r].nxl \in Nat \ {0} /\ block[r].nyl \in Nat \ {0}
  <2>1. block[r].nxl \in Nat \ {0}
    BY Blocks, BlockWithin
  <2>2. block[r].nyl \in Nat \ {0}
    BY Blocks, BlockWithin
  <2> QED  BY <2>1, <2>2
<1>2. <<1, 1>> \in Interior(block[r])
  BY <1>1 DEF Interior
<1> QED  BY <1>2

\* The cells beyond a side lie in the row of blocks, or of columns of blocks,
\* next to the rank's own.
LEMMA Beyond ==
  ASSUME LayoutInv, status = "running", NEW r \in Ranks, NEW d \in Directions,
         NEW c \in WithHalo(block[r]), Receives(block[r], d, c, FALSE)
  PROVE  LET cell == Global(block[r], c)
             i    == Pi(Shape, r)
             j    == Pj(Shape, r)
         IN /\ cell = <<cell[1], cell[2]>>
            /\ d = West  => cell[1] = BlockStart(request.nx, Shape.px, i) - 1 /\ cell[2] \in Up(r)
            /\ d = East  => cell[1] = BlockStart(request.nx, Shape.px, i + 1) /\ cell[2] \in Up(r)
            /\ d = South => cell[2] = BlockStart(request.ny, Shape.py, j) - 1 /\ cell[1] \in Along(r)
            /\ d = North => cell[2] = BlockStart(request.ny, Shape.py, j + 1) /\ cell[1] \in Along(r)
<1> DEFINE b == block[r]
           i == Pi(Shape, r)
           j == Pj(Shape, r)
<1>1. /\ b.i0 = BlockStart(request.nx, Shape.px, i) /\ b.j0 = BlockStart(request.ny, Shape.py, j)
      /\ b.nxl = BlockSize(request.nx, Shape.px, i) /\ b.nyl = BlockSize(request.ny, Shape.py, j)
      /\ i \in 0..Shape.px - 1 /\ j \in 0..Shape.py - 1
      /\ request.nx \in Nat \ {0} /\ request.ny \in Nat \ {0}
      /\ Shape.px \in Nat \ {0} /\ Shape.py \in Nat \ {0}
      /\ Shape.px <= request.nx /\ Shape.py <= request.ny
  BY Blocks
<1>2. b.i0 \in Nat /\ b.nxl \in Nat \ {0}
  BY <1>1, BlockWithin
<1>3. b.j0 \in Nat /\ b.nyl \in Nat \ {0}
  BY <1>1, BlockWithin
<1>4. BlockStart(request.nx, Shape.px, i + 1) = b.i0 + b.nxl
  BY <1>1, BlocksAbut
<1>5. BlockStart(request.ny, Shape.py, j + 1) = b.j0 + b.nyl
  BY <1>1, BlocksAbut
<1>6. Along(r) = b.i0..b.i0 + b.nxl - 1 /\ Up(r) = b.j0..b.j0 + b.nyl - 1
  BY <1>1 DEF Along, Up, Cut
<1>7. Global(b, c) = <<b.i0 + c[1] - 1, b.j0 + c[2] - 1>>
  BY DEF Global
<1>8. c[1] \in 0..b.nxl + 1 /\ c[2] \in 0..b.nyl + 1
  BY DEF WithHalo
<1>9. /\ d = West => c[1] = 0 /\ c[2] \in 1..b.nyl
      /\ d = East => c[1] = b.nxl + 1 /\ c[2] \in 1..b.nyl
      /\ d = South => c[2] = 0 /\ c[1] \in 1..b.nxl
      /\ d = North => c[2] = b.nyl + 1 /\ c[1] \in 1..b.nxl
  BY <1>2, <1>3, <1>8 DEF Receives, Across, Row, RowCells, RowStart, ReceivePlane, AlongX,
     West, East, South, North
<1> DEFINE x == Global(b, c)[1]
           y == Global(b, c)[2]
           i0 == b.i0
           j0 == b.j0
           m == b.nxl
           n == b.nyl
<1>10. /\ Global(b, c) = <<x, y>> /\ x = i0 + c[1] - 1 /\ y = j0 + c[2] - 1
  BY <1>7
<1>11. /\ i0 \in Nat /\ j0 \in Nat /\ m \in Nat /\ n \in Nat
       /\ Along(r) = i0..i0 + m - 1 /\ Up(r) = j0..j0 + n - 1
  BY <1>2, <1>3, <1>6
<1>12. /\ d = West => c[1] = 0 /\ c[2] \in 1..n
       /\ d = East => c[1] = m + 1 /\ c[2] \in 1..n
       /\ d = South => c[2] = 0 /\ c[1] \in 1..m
       /\ d = North => c[2] = n + 1 /\ c[1] \in 1..m
  BY <1>9
<1>13. /\ i0 = BlockStart(request.nx, Shape.px, i) /\ j0 = BlockStart(request.ny, Shape.py, j)
       /\ BlockStart(request.nx, Shape.px, i + 1) = i0 + m
       /\ BlockStart(request.ny, Shape.py, j + 1) = j0 + n
  BY <1>1, <1>4, <1>5
<1> DEFINE u == c[1]
           v == c[2]
<1>14. x = i0 + u - 1 /\ y = j0 + v - 1
  BY <1>10
<1>15. /\ d = West => u = 0 /\ v \in 1..n
       /\ d = East => u = m + 1 /\ v \in 1..n
       /\ d = South => v = 0 /\ u \in 1..m
       /\ d = North => v = n + 1 /\ u \in 1..m
  BY <1>12
<1> HIDE DEF i0, j0, m, n, x, y, b, i, j, u, v
<1>16. d = West => x = i0 - 1 /\ y \in Up(r)
  BY <1>11, <1>14, <1>15
<1>17. d = East => x = i0 + m /\ y \in Up(r)
  BY <1>11, <1>14, <1>15
<1>18. d = South => y = j0 - 1 /\ x \in Along(r)
  BY <1>11, <1>14, <1>15
<1>19. d = North => y = j0 + n /\ x \in Along(r)
  BY <1>11, <1>14, <1>15
<1> QED  BY <1>10, <1>13, <1>16, <1>17, <1>18, <1>19 DEF x, y, b, i, j

LEMMA Beside ==
  ASSUME LayoutInv, status = "running", NEW r \in Ranks, NEW d \in Directions,
         NEW c \in WithHalo(block[r]), Receives(block[r], d, c, FALSE)
  PROVE  IF neighbor[r][d] = ProcNull THEN ~InDomain(Global(block[r], c))
         ELSE Owners(Global(block[r], c)) = {neighbor[r][d]}
<1> DEFINE i == Pi(Shape, r)
           j == Pj(Shape, r)
           px == Shape.px
           py == Shape.py
           nx == request.nx
           ny == request.ny
           cell == Global(block[r], c)
<1>1. /\ i \in 0..px - 1 /\ j \in 0..py - 1 /\ r = px * j + i
      /\ nx \in Nat \ {0} /\ ny \in Nat \ {0} /\ px \in Nat \ {0} /\ py \in Nat \ {0}
      /\ px <= nx /\ py <= ny /\ neighbor[r][d] = Neighbor(Shape, r, d)
  BY Blocks
<1>2. /\ cell = <<cell[1], cell[2]>>
      /\ d = West  => cell[1] = BlockStart(nx, px, i) - 1 /\ cell[2] \in Up(r)
      /\ d = East  => cell[1] = BlockStart(nx, px, i + 1) /\ cell[2] \in Up(r)
      /\ d = South => cell[2] = BlockStart(ny, py, j) - 1 /\ cell[1] \in Along(r)
      /\ d = North => cell[2] = BlockStart(ny, py, j + 1) /\ cell[1] \in Along(r)
  BY Beyond
<1>3. Along(r) = Cut(nx, px, i) /\ Up(r) = Cut(ny, py, j)
  BY DEF Along, Up
<1>4. InDomain(cell) <=> cell[1] \in 0..nx - 1 /\ cell[2] \in 0..ny - 1
  BY DEF InDomain
<1>5. /\ BlockStart(nx, px, 0) = 0 /\ BlockStart(nx, px, px) = nx
      /\ \A p \in 0..px - 1 : BlockStart(nx, px, p + 1) = BlockStart(nx, px, p) + BlockSize(nx, px, p)
  BY <1>1, BlocksAbut
<1>6. /\ BlockStart(ny, py, 0) = 0 /\ BlockStart(ny, py, py) = ny
      /\ \A p \in 0..py - 1 : BlockStart(ny, py, p + 1) = BlockStart(ny, py, p) + BlockSize(ny, py, p)
  BY <1>1, BlocksAbut
<1>7. r \in Nat
  BY Blocks DEF Ranks
<1> HIDE DEF i, j, px, py, nx, ny, cell
<1>8. ASSUME NEW a \in 0..px - 1, NEW b \in 0..py - 1,
             cell[1] \in Cut(nx, px, a), cell[2] \in Cut(ny, py, b)
      PROVE  px * b + a \in Nat /\ Owners(cell) = {px * b + a}
  <2>1. /\ px * b + a \in Ranks
        /\ Owners(<<cell[1], cell[2]>>) = {px * b + a}
    BY <1>8, OneOwner DEF px, py, nx, ny
  <2> QED  BY <1>2, <2>1, Blocks DEF Ranks
<1>9. CASE d = West
  <2>1. CASE i > 0
    <3>1. Neighbor(Shape, r, d) = r - 1
      BY <1>9, <2>1 DEF Neighbor, i
    <3>2. i - 1 \in 0..px - 1 /\ (i - 1) + 1 = i
      BY <1>1, <2>1
    <3>3. BlockStart(nx, px, i) = BlockStart(nx, px, i - 1) + BlockSize(nx, px, i - 1)
      BY <1>5, <3>2
    <3>4. /\ BlockStart(nx, px, i - 1) \in Int /\ BlockSize(nx, px, i - 1) \in Int
          /\ BlockStart(nx, px, i - 1) + BlockSize(nx, px, i - 1) - 1 \in Cut(nx, px, i - 1)
      BY <1>1, <3>2, BlockWithin
    <3>5. Owners(cell) = {px * j + (i - 1)} /\ px * j + (i - 1) \in Nat
      <4>0. cell[1] = BlockStart(nx, px, i) - 1
        BY <1>2, <1>9
      <4>1. cell[1] \in Cut(nx, px, i - 1)
        <5> DEFINE w == i - 1
        <5> HIDE DEF w
        <5>1. /\ BlockStart(nx, px, i) = BlockStart(nx, px, w) + BlockSize(nx, px, w)
              /\ BlockStart(nx, px, w) \in Int /\ BlockSize(nx, px, w) \in Int
              /\ BlockStart(nx, px, w) + BlockSize(nx, px, w) - 1 \in Cut(nx, px, w)
          BY <3>3, <3>4 DEF w
        <5>2. cell[1] \in Cut(nx, px, w)
          BY <4>0, <5>1
        <5> QED  BY <5>2 DEF w
      <4>2. cell[2] \in Cut(ny, py, j)
        BY <1>2, <1>3, <1>9
      <4> QED  BY <1>1, <1>8, <3>2, <4>1, <4>2
    <3>6. px * j + (i - 1) = r - 1
      BY <1>1
    <3> QED  BY <1>1, <3>1, <3>5, <3>6 DEF ProcNull, cell
  <2>2. CASE i = 0
    <3>1. Neighbor(Shape, r, d) = ProcNull
      BY <1>9, <2>2 DEF Neighbor, i
    <3>2. cell[1] = -1
      BY <1>2, <1>5, <1>9, <2>2
    <3> QED  BY <1>1, <1>4, <3>1, <3>2 DEF cell
  <2> QED  BY <1>1, <2>1, <2>2
<1>10. CASE d = East
  <2>1. CASE i + 1 < px
    <3>1. Neighbor(Shape, r, d) = r + 1
      BY <1>10, <2>1 DEF Neighbor, i, px, West, East
    <3>2. i + 1 \in 0..px - 1
      BY <1>1, <2>1
    <3>3. BlockStart(nx, px, i + 1) \in Cut(nx, px, i + 1)
      BY <1>1, <3>2, BlockWithin
    <3>4. Owners(cell) = {px * j + (i + 1)} /\ px * j + (i + 1) \in Nat
      BY <1>1, <1>2, <1>3, <1>8, <1>10, <3>2, <3>3
    <3>5. px * j + (i + 1) = r + 1
      BY <1>1
    <3> QED  BY <1>1, <1>7, <3>1, <3>4, <3>5 DEF ProcNull, cell
  <2>2. CASE ~(i + 1 < px)
    <3>1. Neighbor(Shape, r, d) = ProcNull
      BY <1>10, <2>2 DEF Neighbor, i, px, West, East
    <3>2. cell[1] = nx
      BY <1>1, <1>2, <1>5, <1>10, <2>2
    <3> QED  BY <1>1, <1>4, <3>1, <3>2 DEF cell
  <2> QED  BY <2>1, <2>2
<1>11. CASE d = South
  <2>1. CASE j > 0
    <3>1. Neighbor(Shape, r, d) = r - px
      BY <1>11, <2>1 DEF Neighbor, j, px, West, East, South
    <3>2. j - 1 \in 0..py - 1 /\ (j - 1) + 1 = j
      BY <1>1, <2>1
    <3>3. BlockStart(ny, py, j) = BlockStart(ny, py, j - 1) + BlockSize(ny, py, j - 1)
      BY <1>6, <3>2
    <3>4. /\ BlockStart(ny, py, j - 1) \in Int /\ BlockSize(ny, py, j - 1) \in Int
          /\ BlockStart(ny, py, j - 1) + BlockSize(ny, py, j - 1) - 1 \in Cut(ny, py, j - 1)
      BY <1>1, <3>2, BlockWithin
    <3>5. Owners(cell) = {px * (j - 1) + i} /\ px * (j - 1) + i \in Nat
      <4>0. cell[2] = BlockStart(ny, py, j) - 1
        BY <1>2, <1>11
      <4>1. cell[2] \in Cut(ny, py, j - 1)
        <5> DEFINE w == j - 1
        <5> HIDE DEF w
        <5>1. /\ BlockStart(ny, py, j) = BlockStart(ny, py, w) + BlockSize(ny, py, w)
              /\ BlockStart(ny, py, w) \in Int /\ BlockSize(ny, py, w) \in Int
              /\ BlockStart(ny, py, w) + BlockSize(ny, py, w) - 1 \in Cut(ny, py, w)
          BY <3>3, <3>4 DEF w
        <5>2. cell[2] \in Cut(ny, py, w)
          BY <4>0, <5>1
        <5> QED  BY <5>2 DEF w
      <4>2. cell[1] \in Cut(nx, px, i)
        BY <1>2, <1>3, <1>11
      <4> QED  BY <1>1, <1>8, <3>2, <4>1, <4>2
    <3>6. px * (j - 1) + i = r - px
      BY <1>1
    <3> QED  BY <1>1, <3>1, <3>5, <3>6 DEF ProcNull, cell
  <2>2. CASE j = 0
    <3>1. Neighbor(Shape, r, d) = ProcNull
      BY <1>11, <2>2 DEF Neighbor, j, West, East, South
    <3>2. cell[2] = -1
      BY <1>2, <1>6, <1>11, <2>2
    <3> QED  BY <1>1, <1>4, <3>1, <3>2 DEF cell
  <2> QED  BY <1>1, <2>1, <2>2
<1>12. CASE d = North
  <2>1. CASE j + 1 < py
    <3>1. Neighbor(Shape, r, d) = r + px
      BY <1>12, <2>1 DEF Neighbor, j, px, py, West, East, South, North
    <3>2. j + 1 \in 0..py - 1
      BY <1>1, <2>1
    <3>3. BlockStart(ny, py, j + 1) \in Cut(ny, py, j + 1)
      BY <1>1, <3>2, BlockWithin
    <3>4. Owners(cell) = {px * (j + 1) + i} /\ px * (j + 1) + i \in Nat
      BY <1>1, <1>2, <1>3, <1>8, <1>12, <3>2, <3>3
    <3>5. px * (j + 1) + i = r + px
      BY <1>1
    <3> QED  BY <1>1, <1>7, <3>1, <3>4, <3>5 DEF ProcNull, cell
  <2>2. CASE ~(j + 1 < py)
    <3>1. Neighbor(Shape, r, d) = ProcNull
      BY <1>12, <2>2 DEF Neighbor, j, py, West, East, South, North
    <3>2. cell[2] = ny
      BY <1>1, <1>2, <1>6, <1>12, <2>2
    <3> QED  BY <1>1, <1>4, <3>1, <3>2 DEF cell
  <2> QED  BY <2>1, <2>2
<1> QED  BY <1>9, <1>10, <1>11, <1>12 DEF Directions

LEMMA CellOwner ==
  ASSUME LayoutInv, status = "running", NEW cell \in DOMAIN request.ktop
  PROVE  \E r \in Ranks : Owners(cell) = {r}
<1>1. cell \in (0..request.nx - 1) \X (0..request.ny - 1)
  BY Extents DEF LayoutInv
<1>2. PICK x \in 0..request.nx - 1, y \in 0..request.ny - 1 : cell = <<x, y>>
  BY <1>1
<1>3. /\ request.nx \in Nat /\ request.ny \in Nat
      /\ Shape.px \in Nat \ {0} /\ Shape.py \in Nat \ {0}
  BY Blocks
<1>4. PICK i \in 0..Shape.px - 1 : x \in Cut(request.nx, Shape.px, i)
  BY <1>3, BlocksTile
<1>5. PICK j \in 0..Shape.py - 1 : y \in Cut(request.ny, Shape.py, j)
  BY <1>3, BlocksTile
<1>6. Shape.px * j + i \in Ranks /\ Owners(cell) = {Shape.px * j + i}
  BY <1>2, <1>4, <1>5, OneOwner
<1> QED  BY <1>6

(***************************************************************************)
(* Whatever the request and the mask, the blocks tile the domain, none of  *)
(* them is empty, the neighbour of a rank owns the cells beyond its side,  *)
(* and the constructor gives up on an automatic layout only when no        *)
(* factorization of the ranks fits the extents.                            *)
(***************************************************************************)
THEOREM LayoutIsSound == Spec => []LayoutSound
<1>1. LayoutInv => LayoutSound
  <2> SUFFICES ASSUME LayoutInv PROVE LayoutSound
    OBVIOUS
  <2>1. ASSUME status = "running", NEW cell \in DOMAIN request.ktop
        PROVE  Cardinality(Owners(cell)) = 1
    BY <2>1, CellOwner, FS_Singleton
  <2>2. ASSUME status = "fatal", request.mpiNx = 0, request.mpiNy = 0,
               NEW x \in 1..request.size, NEW y \in 1..request.size, x * y = request.size
        PROVE  x > request.nx \/ y > request.ny
    <3>1. request \in Requests /\ ~AcceptedBy(request)
      BY <2>2 DEF LayoutInv
    <3>2. /\ request.nx \in Nat \ {0} /\ request.ny \in Nat \ {0}
          /\ request.size \in Nat \ {0}
      BY <3>1, Extents
    <3> DEFINE l == Automatic(request.nx, request.ny, request.size)
    <3>3. Layout0(request) = l
      BY <2>2 DEF Layout0, ChooseDecomposition
    <3>4. l.px * l.py = request.size
      BY <3>2, AutomaticFits DEF Factors
    <3>5. ~Fits(request.nx, request.ny, l)
      BY <3>1, <3>3, <3>4 DEF AcceptedBy, Accepted
    <3>6. x \in Nat \ {0} /\ y \in Nat \ {0}
      BY <3>2
    <3> HIDE DEF l
    <3>7. ~(x <= request.nx /\ y <= request.ny)
      BY <2>2, <3>2, <3>5, <3>6, AutomaticFits DEF l
    <3> QED  BY <3>2, <3>6, <3>7
  <2> QED  BY <2>1, <2>2, NotEmpty, Beside DEF LayoutSound
<1> QED  BY <1>1, LayoutInvHolds, PTL

(* The program all ranks run. *)

Positions == {p \in [part : 1..Parts, phase : 1..5] : p.phase <= Len(Program[p.part])}
PhaseAt(p) == Program[p.part][p.phase]
Finish == [part |-> Parts + 1, phase |-> 1]
Precedes(p, q) == p.part < q.part \/ (p.part = q.part /\ p.phase < q.phase)

LEMMA CallsAre ==
  /\ Len(Calls) \in Nat /\ Parts \in Nat /\ Parts >= 2
  /\ \A n \in 1..Len(Calls) : Calls[n].fields \in SUBSET Fields /\ Calls[n].corners \in BOOLEAN
<1>1. Calls \in Seq([fields : SUBSET Fields, corners : BOOLEAN])
  BY HaloAssumption
<1>2. Len(Calls) \in Nat
  BY <1>1
<1>3. ASSUME NEW n \in 1..Len(Calls)
      PROVE  Calls[n].fields \in SUBSET Fields /\ Calls[n].corners \in BOOLEAN
  <2> DEFINE S == [fields : SUBSET Fields, corners : BOOLEAN]
  <2>1. Calls[n] \in S
    <3>1. Calls \in Seq(S)
      BY <1>1
    <3> HIDE DEF S
    <3> QED  BY <3>1
  <2> QED  BY <2>1
<1> QED  BY <1>2, <1>3 DEF Parts

LEMMA PartIs ==
  ASSUME NEW part \in 1..Parts
  PROVE  /\ part <= 2 => Program[part] = Build(part) /\ Len(Program[part]) = 5
         /\ part > 2 => /\ part - 2 \in 1..Len(Calls) /\ Program[part] = Phases(part - 2)
                        /\ Len(Program[part]) = IF Calls[part - 2].corners THEN 2 ELSE 1
<1>1. Program[part] = IF part <= 2 THEN Build(part) ELSE Phases(part - 2)
  BY DEF Program
<1>2. CASE part <= 2
  <2>1. Len(Build(part)) = 5
    BY DEF Build
  <2> QED  BY <1>1, <1>2, <2>1
<1>3. CASE part > 2
  <2>1. part - 2 \in 1..Len(Calls)
    BY <1>3, CallsAre DEF Parts
  <2>2. Len(Phases(part - 2)) = IF Calls[part - 2].corners THEN 2 ELSE 1
    BY DEF Phases
  <2> QED  BY <1>1, <1>3, <2>1, <2>2
<1> QED  BY <1>2, <1>3

\* The directions and tags of a phase: the receives answer the sends.
Paired(phase) ==
  /\ DOMAIN phase.sends \subseteq Directions /\ DOMAIN phase.receives \subseteq Directions
  /\ \A d \in Directions :
       /\ d \in DOMAIN phase.sends <=> Opposite(d) \in DOMAIN phase.receives
       /\ d \in DOMAIN phase.sends =>
            phase.sends[d] \in Tags /\ phase.sends[d] = phase.receives[Opposite(d)]
  /\ \A d, e \in DOMAIN phase.sends : phase.sends[d] = phase.sends[e] => d = e

LEMMA Opposites ==
  /\ Opposite(West) = East /\ Opposite(East) = West
  /\ Opposite(South) = North /\ Opposite(North) = South
  /\ \A d \in Directions : Opposite(d) \in Directions /\ Opposite(Opposite(d)) = d
BY DEF Opposite, Directions, West, East, South, North

LEMMA SendRecvIs ==
  ASSUME NEW d \in Directions, NEW tag \in Tags, NEW phase, phase = SendRecv(d, tag)
  PROVE  /\ phase.kind = "ids" /\ phase.fields = {"gid"} /\ phase.wide = FALSE
         /\ DOMAIN phase.receives = {Opposite(d)} /\ Paired(phase)
<1>1. /\ phase.kind = "ids" /\ phase.fields = {"gid"} /\ phase.wide = FALSE
      /\ phase.sends = [e \in {d} |-> tag] /\ phase.receives = [e \in {Opposite(d)} |-> tag]
  BY DEF SendRecv
<1>2. \A e \in Directions : Opposite(e) = Opposite(d) => e = d
  BY Opposites
<1>3. Paired(phase)
  BY <1>1, <1>2, Opposites DEF Paired
<1> QED  BY <1>1, <1>3

\* The same of the tags of an exchange.
LEMMA TagsAre ==
  ASSUME NEW phase, NEW directions \in SUBSET Directions,
         \A d \in directions : Opposite(d) \in directions,
         phase.sends = [d \in directions |-> 200 + Opposite(d)],
         phase.receives = [d \in directions |-> 200 + d]
  PROVE  DOMAIN phase.receives = directions /\ Paired(phase)
<1>1. \A d \in Directions : d \in Int /\ Opposite(d) \in 0..3
  BY DEF Opposite, Directions, West, East, South, North
<1>2. \A d, e \in Directions : Opposite(d) = Opposite(e) => d = e
  BY Opposites
<1>3. ASSUME NEW d \in directions
      PROVE  /\ phase.sends[d] = 200 + Opposite(d) /\ Opposite(d) \in directions
             /\ phase.receives[Opposite(d)] = 200 + Opposite(d) /\ 200 + Opposite(d) \in Tags
  <2>1. d \in Directions
    OBVIOUS
  <2> QED  BY <1>1, <2>1 DEF Tags
<1>4. DOMAIN phase.sends = directions /\ DOMAIN phase.receives = directions
  OBVIOUS
<1>5. ASSUME NEW d \in Directions, Opposite(d) \in directions PROVE d \in directions
  BY <1>5, Opposites
<1>6. ASSUME NEW d \in directions, NEW e \in directions, phase.sends[d] = phase.sends[e]
      PROVE  d = e
  <2>1. 200 + Opposite(d) = 200 + Opposite(e) /\ Opposite(d) \in Int /\ Opposite(e) \in Int
    BY <1>1, <1>3, <1>6
  <2> QED  BY <1>2, <2>1
<1>7. ASSUME NEW d \in Directions
      PROVE  /\ d \in DOMAIN phase.sends <=> Opposite(d) \in DOMAIN phase.receives
             /\ d \in DOMAIN phase.sends =>
                  phase.sends[d] \in Tags /\ phase.sends[d] = phase.receives[Opposite(d)]
  BY <1>3, <1>4, <1>5
<1>8. \A d, e \in DOMAIN phase.sends : phase.sends[d] = phase.sends[e] => d = e
  BY <1>4, <1>6
<1>9. Paired(phase)
  BY <1>4, <1>7, <1>8, Zenon DEF Paired
<1> QED  BY <1>4, <1>9

\* What a position of the program is.
InBuild(p) == p.part <= 2 /\ p.phase > 1
InExchange(p) == p.part > 2

\* The direction a phase of a numbering receives from, as the place of the phase.
Slot(d) == IF d = East THEN 2 ELSE IF d = West THEN 3 ELSE IF d = North THEN 4 ELSE 5

LEMMA PhaseIs ==
  ASSUME NEW p \in Positions
  PROVE  /\ p.part \in 1..Parts /\ p.phase \in 1..5 /\ p = [part |-> p.part, phase |-> p.phase]
         /\ Paired(PhaseAt(p))
         /\ p.part <= 2 /\ p.phase = 1 =>
              /\ PhaseAt(p).kind = "sum"
              /\ DOMAIN PhaseAt(p).sends = {} /\ DOMAIN PhaseAt(p).receives = {}
         /\ InBuild(p) =>
              /\ PhaseAt(p).kind = "ids" /\ PhaseAt(p).fields = {"gid"} /\ PhaseAt(p).wide = FALSE
              /\ \A d \in Directions : d \in DOMAIN PhaseAt(p).receives <=> Slot(d) = p.phase
         /\ InExchange(p) =>
              /\ p.part - 2 \in 1..Len(Calls)
              /\ PhaseAt(p).fields = Calls[p.part - 2].fields /\ PhaseAt(p).call = p.part - 2
              /\ p.phase \in 1..2
              /\ PhaseAt(p).kind = (IF p.phase = 1 THEN "first" ELSE "next")
              /\ p.phase = 1 => PhaseAt(p).wide = FALSE
              /\ p.phase = 2 => PhaseAt(p).wide = TRUE /\ Calls[p.part - 2].corners
              /\ DOMAIN PhaseAt(p).receives = IF ~Calls[p.part - 2].corners THEN Directions
                                              ELSE IF p.phase = 1 THEN {West, East}
                                              ELSE {South, North}
<1> DEFINE part == p.part
           h == p.phase
           phase == PhaseAt(p)
<1>1. /\ part \in 1..Parts /\ h \in 1..5 /\ p = [part |-> part, phase |-> h]
      /\ h <= Len(Program[part]) /\ phase = Program[part][h]
  BY DEF Positions, PhaseAt
<1> HIDE DEF phase, part, h
<1>2. ASSUME part <= 2
      PROVE  /\ Paired(phase)
             /\ h = 1 => /\ phase.kind = "sum"
                         /\ DOMAIN phase.sends = {} /\ DOMAIN phase.receives = {}
             /\ h > 1 => /\ phase.kind = "ids" /\ phase.fields = {"gid"} /\ phase.wide = FALSE
                         /\ \A d \in Directions : d \in DOMAIN phase.receives <=> Slot(d) = h
  <2>1. Program[part] = Build(part)
    BY <1>1, <1>2, PartIs
  <2>2. CASE h = 1
    <3>1. phase = [kind |-> "sum", sends |-> <<>>, receives |-> <<>>, fields |-> {},
                   wide |-> FALSE, call |-> part]
      BY <1>1, <2>1, <2>2 DEF Build
    <3>2. phase.kind = "sum" /\ phase.sends = <<>> /\ phase.receives = <<>>
      BY <3>1
    <3>3. DOMAIN phase.sends = {} /\ DOMAIN phase.receives = {}
      BY <3>2
    <3> QED  BY <2>2, <3>2, <3>3 DEF Paired
  <2>3. ASSUME NEW e \in Directions, NEW tag \in Tags, phase = SendRecv(e, tag), h > 1,
               Slot(Opposite(e)) = h
        PROVE  /\ h > 1 /\ h # 1 /\ Paired(phase)
               /\ phase.kind = "ids" /\ phase.fields = {"gid"} /\ phase.wide = FALSE
               /\ \A d \in Directions : d \in DOMAIN phase.receives <=> Slot(d) = h
    <3>0. h # 1
      BY <2>3
    <3>1. /\ phase.kind = "ids" /\ phase.fields = {"gid"} /\ phase.wide = FALSE
          /\ DOMAIN phase.receives = {Opposite(e)} /\ Paired(phase)
      BY <2>3, SendRecvIs
    <3>2. \A d, g \in Directions : Slot(d) = Slot(g) => d = g
      BY DEF Slot, Directions, West, East, South, North
    <3>3. \A d \in Directions : d \in DOMAIN phase.receives <=> Slot(d) = h
      BY <2>3, <3>1, <3>2, Opposites
    <3> QED  BY <2>3, <3>0, <3>1, <3>3
  <2>4. /\ Slot(Opposite(West)) = 2 /\ Slot(Opposite(East)) = 3
        /\ Slot(Opposite(South)) = 4 /\ Slot(Opposite(North)) = 5
    BY DEF Slot, Opposite, West, East, South, North
  <2>5. {West, East, South, North} = Directions /\ {100, 101, 102, 103} \subseteq Tags
    BY DEF Directions, Tags
  <2>6. /\ h = 2 => phase = SendRecv(West, 100)
        /\ h = 3 => phase = SendRecv(East, 101)
        /\ h = 4 => phase = SendRecv(South, 102)
        /\ h = 5 => phase = SendRecv(North, 103)
    BY <1>1, <2>1 DEF Build
  <2>7. CASE h = 2
    <3>1. /\ phase = SendRecv(West, 100) /\ h > 1 /\ Slot(Opposite(West)) = h
          /\ West \in Directions /\ 100 \in Tags
      BY <2>4, <2>5, <2>6, <2>7
    <3> QED  BY <2>3, <3>1
  <2>8. CASE h = 3
    <3>1. /\ phase = SendRecv(East, 101) /\ h > 1 /\ Slot(Opposite(East)) = h
          /\ East \in Directions /\ 101 \in Tags
      BY <2>4, <2>5, <2>6, <2>8
    <3> QED  BY <2>3, <3>1
  <2>9. CASE h = 4
    <3>1. /\ phase = SendRecv(South, 102) /\ h > 1 /\ Slot(Opposite(South)) = h
          /\ South \in Directions /\ 102 \in Tags
      BY <2>4, <2>5, <2>6, <2>9
    <3> QED  BY <2>3, <3>1
  <2>10. CASE h = 5
    <3>1. /\ phase = SendRecv(North, 103) /\ h > 1 /\ Slot(Opposite(North)) = h
          /\ North \in Directions /\ 103 \in Tags
      BY <2>4, <2>5, <2>6, <2>10
    <3> QED  BY <2>3, <3>1
  <2>11. h = 1 \/ h = 2 \/ h = 3 \/ h = 4 \/ h = 5
    BY <1>1
  <2> QED  BY <2>2, <2>7, <2>8, <2>9, <2>10, <2>11, Zenon
<1>3. ASSUME part > 2
      PROVE  /\ Paired(phase) /\ part - 2 \in 1..Len(Calls)
             /\ phase.fields = Calls[part - 2].fields /\ phase.call = part - 2
             /\ h \in 1..2 /\ phase.kind = (IF h = 1 THEN "first" ELSE "next")
             /\ (h = 1 => phase.wide = FALSE)
             /\ (h = 2 => phase.wide = TRUE /\ Calls[part - 2].corners)
             /\ DOMAIN phase.receives = IF ~Calls[part - 2].corners THEN Directions
                                        ELSE IF h = 1 THEN {West, East} ELSE {South, North}
  <2> DEFINE n == part - 2
  <2>1. /\ n \in 1..Len(Calls) /\ Program[part] = Phases(n)
        /\ Len(Program[part]) = IF Calls[n].corners THEN 2 ELSE 1
    BY <1>1, <1>3, PartIs
  <2> HIDE DEF n
  <2>2. /\ \A d \in {West, East} : Opposite(d) \in {West, East}
        /\ \A d \in {South, North} : Opposite(d) \in {South, North}
        /\ \A d \in Directions : Opposite(d) \in Directions
        /\ {West, East} \in SUBSET Directions /\ {South, North} \in SUBSET Directions
    BY Opposites DEF Directions
  <2>3. CASE Calls[n].corners /\ h = 1
    <3>1. /\ phase.kind = "first" /\ phase.fields = Calls[n].fields /\ phase.wide = FALSE
          /\ phase.call = n /\ phase.sends = [d \in {West, East} |-> 200 + Opposite(d)]
          /\ phase.receives = [d \in {West, East} |-> 200 + d]
      BY <1>1, <2>1, <2>3 DEF Phases, Exchange
    <3>2. DOMAIN phase.receives = {West, East} /\ Paired(phase)
      BY <2>2, <3>1, TagsAre
    <3>3. part - 2 = n
      BY DEF n
    <3> QED  BY <2>1, <2>3, <3>1, <3>2, <3>3
  <2>4. CASE Calls[n].corners /\ h = 2
    <3>1. /\ phase.kind = "next" /\ phase.fields = Calls[n].fields /\ phase.wide = TRUE
          /\ phase.call = n /\ phase.sends = [d \in {South, North} |-> 200 + Opposite(d)]
          /\ phase.receives = [d \in {South, North} |-> 200 + d]
      BY <1>1, <2>1, <2>4 DEF Phases, Exchange
    <3>2. DOMAIN phase.receives = {South, North} /\ Paired(phase)
      BY <2>2, <3>1, TagsAre
    <3>3. part - 2 = n
      BY DEF n
    <3> QED  BY <2>1, <2>4, <3>1, <3>2, <3>3
  <2>5. CASE ~Calls[n].corners /\ h = 1
    <3>1. /\ phase.kind = "first" /\ phase.fields = Calls[n].fields /\ phase.wide = FALSE
          /\ phase.call = n /\ phase.sends = [d \in Directions |-> 200 + Opposite(d)]
          /\ phase.receives = [d \in Directions |-> 200 + d]
      BY <1>1, <2>1, <2>5 DEF Phases, Exchange
    <3>2. DOMAIN phase.receives = Directions /\ Paired(phase)
      BY <2>2, <3>1, TagsAre
    <3>3. part - 2 = n
      BY DEF n
    <3> QED  BY <2>1, <2>5, <3>1, <3>2, <3>3
  <2>6. (Calls[n].corners /\ h = 1) \/ (Calls[n].corners /\ h = 2) \/ (~Calls[n].corners /\ h = 1)
    BY <1>1, <2>1
  <2> QED  BY <2>3, <2>4, <2>5, <2>6, Zenon
<1>4. part <= 2 \/ part > 2
  BY <1>1
<1>5. Paired(phase)
  BY <1>2, <1>3, <1>4, Zenon
<1> QED  BY <1>1, <1>2, <1>3, <1>5, Zenon DEF phase, part, h, InBuild, InExchange

-----------------------------------------------------------------------------
(* Two neighbours: their places, and how their blocks lie.                 *)

\* The rank at a place of the layout.
LEMMA AtPlace ==
  ASSUME LayoutInv, status = "running",
         NEW i \in 0..Shape.px - 1, NEW j \in 0..Shape.py - 1, NEW s, s = Shape.px * j + i
  PROVE  s \in Ranks /\ Pi(Shape, s) = i /\ Pj(Shape, s) = j
<1>1. request.size \in Nat \ {0} /\ Factors(request.size, Shape)
  BY Blocks
<1>2. s \in 0..request.size - 1 /\ Pi(Shape, s) = i /\ Pj(Shape, s) = j
  BY <1>1, RankAt
<1> QED  BY <1>2 DEF Ranks

LEMMA BlockTypes ==
  ASSUME LayoutInv, status = "running", NEW r \in Ranks
  PROVE  /\ block[r].i0 \in Nat /\ block[r].j0 \in Nat
         /\ block[r].nxl \in Nat \ {0} /\ block[r].nyl \in Nat \ {0}
         /\ block[r].i0 + block[r].nxl <= request.nx /\ block[r].j0 + block[r].nyl <= request.ny
<1>1. /\ block[r].i0 \in Nat /\ block[r].nxl \in Nat \ {0}
      /\ block[r].i0 + block[r].nxl <= request.nx
  BY Blocks, BlockWithin
<1>2. /\ block[r].j0 \in Nat /\ block[r].nyl \in Nat \ {0}
      /\ block[r].j0 + block[r].nyl <= request.ny
  BY Blocks, BlockWithin
<1> QED  BY <1>1, <1>2

\* Two blocks of one axis that follow each other.
Follows(a, b, d) ==
  IF AlongX(d) THEN b.i0 = a.i0 + a.nxl /\ b.j0 = a.j0 /\ b.nyl = a.nyl
  ELSE b.j0 = a.j0 + a.nyl /\ b.i0 = a.i0 /\ b.nxl = a.nxl

LEMMA StepEast ==
  ASSUME LayoutInv, status = "running", NEW r \in Ranks, NEW s \in Ranks,
         Pi(Shape, s) = Pi(Shape, r) + 1, Pj(Shape, s) = Pj(Shape, r)
  PROVE  /\ Follows(block[r], block[s], East) /\ Follows(block[r], block[s], West)
         /\ s = r + 1 /\ neighbor[r][East] = s /\ neighbor[s][West] = r
<1> DEFINE i == Pi(Shape, r)
           j == Pj(Shape, r)
           px == Shape.px
<1>1. /\ i \in 0..px - 1 /\ i + 1 \in 0..px - 1 /\ r = px * j + i /\ s = px * j + (i + 1)
      /\ j \in Int /\ px \in Nat \ {0} /\ r \in Int
      /\ neighbor[r][East] = Neighbor(Shape, r, East)
      /\ neighbor[s][West] = Neighbor(Shape, s, West)
  BY Blocks DEF Directions, Ranks
<1>2. /\ block[s].i0 = block[r].i0 + block[r].nxl
      /\ block[s].j0 = block[r].j0 /\ block[s].nyl = block[r].nyl
  BY <1>1, Blocks, BlocksAbut
<1>3. s = r + 1
  <2> DEFINE m == px * j
  <2>1. m \in Int
    BY <1>1
  <2> HIDE DEF m, i, j, px
  <2>2. r = m + i /\ s = m + (i + 1) /\ i \in Int
    BY <1>1 DEF m
  <2> QED  BY <2>1, <2>2
<1>4. Neighbor(Shape, r, East) = r + 1 /\ Neighbor(Shape, s, West) = s - 1
  <2>1. Pi(Shape, r) + 1 < Shape.px /\ Pi(Shape, s) > 0
    BY <1>1
  <2> QED  BY <2>1 DEF Neighbor, West, East
<1>5. s - 1 = r
  BY <1>1, <1>3
<1> QED  BY <1>1, <1>2, <1>3, <1>4, <1>5 DEF Follows, AlongX

LEMMA StepNorth ==
  ASSUME LayoutInv, status = "running", NEW r \in Ranks, NEW s \in Ranks,
         Pj(Shape, s) = Pj(Shape, r) + 1, Pi(Shape, s) = Pi(Shape, r)
  PROVE  /\ Follows(block[r], block[s], North) /\ Follows(block[r], block[s], South)
         /\ s = r + Shape.px /\ neighbor[r][North] = s /\ neighbor[s][South] = r
<1> DEFINE i == Pi(Shape, r)
           j == Pj(Shape, r)
           px == Shape.px
           py == Shape.py
<1>1. /\ j \in 0..py - 1 /\ j + 1 \in 0..py - 1 /\ r = px * j + i /\ s = px * (j + 1) + i
      /\ j \in Int /\ i \in Int /\ px \in Nat \ {0} /\ py \in Nat \ {0} /\ r \in Int
      /\ neighbor[r][North] = Neighbor(Shape, r, North)
      /\ neighbor[s][South] = Neighbor(Shape, s, South)
  BY Blocks DEF Directions, Ranks
<1>2. /\ block[s].j0 = block[r].j0 + block[r].nyl
      /\ block[s].i0 = block[r].i0 /\ block[s].nxl = block[r].nxl
  BY <1>1, Blocks, BlocksAbut
<1>3. s = r + px
  <2> HIDE DEF i, j, px
  <2>1. px * (j + 1) = px * j + px /\ px * j \in Int
    BY <1>1
  <2> DEFINE m == px * j
             n == px * (j + 1)
  <2>2. m \in Int /\ n = m + px /\ r = m + i /\ s = n + i
    BY <1>1, <2>1
  <2> HIDE DEF m, n
  <2> QED  BY <1>1, <2>2
<1>4. Neighbor(Shape, r, North) = r + px /\ Neighbor(Shape, s, South) = s - px
  BY <1>1 DEF Neighbor, West, East, South, North
<1>5. s - px = r
  <2> HIDE DEF px
  <2> QED  BY <1>1, <1>3
<1> QED  BY <1>1, <1>2, <1>3, <1>4, <1>5 DEF Follows, AlongX, West, East, South, North

\* Neighbours are mutual, and their blocks follow each other.
LEMMA Faces ==
  ASSUME LayoutInv, status = "running", NEW r \in Ranks, NEW d \in Directions,
         neighbor[r][d] # ProcNull
  PROVE  LET s == neighbor[r][d]
         IN /\ s \in Ranks /\ neighbor[s][Opposite(d)] = r
            /\ d \in {West, South} => Follows(block[s], block[r], d)
            /\ d \in {East, North} => Follows(block[r], block[s], d)
<1> DEFINE i == Pi(Shape, r)
           j == Pj(Shape, r)
           px == Shape.px
           py == Shape.py
<1>1. /\ i \in 0..px - 1 /\ j \in 0..py - 1 /\ r = px * j + i
      /\ px \in Nat \ {0} /\ py \in Nat \ {0} /\ r \in Int
      /\ neighbor[r][d] = Neighbor(Shape, r, d)
  BY Blocks DEF Ranks
<1>2. CASE d = West
  <2>1. i > 0 /\ neighbor[r][d] = r - 1
    BY <1>1, <1>2 DEF Neighbor
  <2>2. i - 1 \in 0..px - 1 /\ px * j + (i - 1) = r - 1 /\ (i - 1) + 1 = i
    BY <1>1, <2>1
  <2>3. r - 1 \in Ranks /\ Pi(Shape, r - 1) = i - 1 /\ Pj(Shape, r - 1) = j
    BY <1>1, <2>2, AtPlace
  <2>4. Follows(block[r - 1], block[r], West) /\ neighbor[r - 1][East] = r
    BY <2>2, <2>3, StepEast
  <2> QED  BY <1>2, <2>1, <2>3, <2>4, Opposites DEF West, East, South, North
<1>3. CASE d = East
  <2>1. i + 1 < px /\ neighbor[r][d] = r + 1
    BY <1>1, <1>3 DEF Neighbor, West, East
  <2>2. i + 1 \in 0..px - 1 /\ px * j + (i + 1) = r + 1
    BY <1>1, <2>1
  <2>3. r + 1 \in Ranks /\ Pi(Shape, r + 1) = i + 1 /\ Pj(Shape, r + 1) = j
    BY <1>1, <2>2, AtPlace
  <2>4. Follows(block[r], block[r + 1], East) /\ neighbor[r + 1][West] = r
    BY <2>2, <2>3, StepEast
  <2> QED  BY <1>3, <2>1, <2>3, <2>4, Opposites DEF West, East, South, North
<1>4. CASE d = South
  <2>1. j > 0 /\ neighbor[r][d] = r - px
    BY <1>1, <1>4 DEF Neighbor, West, East, South
  <2>2. j - 1 \in 0..py - 1 /\ px * (j - 1) + i = r - px /\ (j - 1) + 1 = j
    BY <1>1, <2>1
  <2>3. r - px \in Ranks /\ Pi(Shape, r - px) = i /\ Pj(Shape, r - px) = j - 1
    BY <1>1, <2>2, AtPlace
  <2>4. Follows(block[r - px], block[r], South) /\ neighbor[r - px][North] = r
    BY <2>2, <2>3, StepNorth
  <2> QED  BY <1>4, <2>1, <2>3, <2>4, Opposites DEF West, East, South, North
<1>5. CASE d = North
  <2>1. j + 1 < py /\ neighbor[r][d] = r + px
    BY <1>1, <1>5 DEF Neighbor, West, East, South, North
  <2>2. j + 1 \in 0..py - 1 /\ px * (j + 1) + i = r + px
    BY <1>1, <2>1
  <2>3. r + px \in Ranks /\ Pi(Shape, r + px) = i /\ Pj(Shape, r + px) = j + 1
    BY <1>1, <2>2, AtPlace
  <2>4. Follows(block[r], block[r + px], North) /\ neighbor[r + px][South] = r
    BY <2>2, <2>3, StepNorth
  <2> QED  BY <1>5, <2>1, <2>3, <2>4, Opposites DEF West, East, South, North
<1> QED  BY <1>2, <1>3, <1>4, <1>5 DEF Directions

\* Where a received row comes from: the cell of the neighbour's plane that is
\* the same place of the grid.
Facing(r, d, c, wide) ==
  SendCell(block[neighbor[r][d]], Opposite(d), Row(d, c, wide), wide)

LEMMA FacingIs ==
  ASSUME LayoutInv, status = "running", NEW r \in Ranks, NEW d \in Directions,
         neighbor[r][d] # ProcNull, NEW wide,
         NEW c \in WithHalo(block[r]), Receives(block[r], d, c, wide)
  PROVE  LET s == neighbor[r][d]
             own == Facing(r, d, c, wide)
         IN /\ RowCells(block[s], Opposite(d), wide) = RowCells(block[r], d, wide)
            /\ Row(d, c, wide) \in 0..RowCells(block[s], Opposite(d), wide) - 1
            /\ Global(block[s], own) = Global(block[r], c)
            /\ AlongX(d) => own \in Interior(block[s])
            /\ ~AlongX(d) /\ c[1] \in 1..block[r].nxl => own \in Interior(block[s])
<1> DEFINE s == neighbor[r][d]
           a == block[s]
           b == block[r]
           o == Opposite(d)
           own == Facing(r, d, c, wide)
           row == Row(d, c, wide)
           x == c[1]
           y == c[2]
<1>1. s \in Ranks /\ /\ d \in {West, South} => Follows(a, b, d)
                     /\ d \in {East, North} => Follows(b, a, d)
  BY Faces
<1>2. /\ a.i0 \in Nat /\ a.j0 \in Nat /\ a.nxl \in Nat \ {0} /\ a.nyl \in Nat \ {0}
      /\ b.i0 \in Nat /\ b.j0 \in Nat /\ b.nxl \in Nat \ {0} /\ b.nyl \in Nat \ {0}
  BY <1>1, BlockTypes
<1>3. x \in 0..b.nxl + 1 /\ y \in 0..b.nyl + 1
  BY DEF WithHalo
<1>4. /\ Across(d, c) = ReceivePlane(b, d) /\ row \in 0..RowCells(b, d, wide) - 1
      /\ Global(b, c) = <<b.i0 + x - 1, b.j0 + y - 1>>
      /\ own = SendCell(a, o, row, wide)
  BY DEF Receives, Global, Facing
<1> HIDE DEF s, a, b, own, row
<1>5. CASE d \in {West, East}
  <2>1. AlongX(d) /\ AlongX(o) /\ o \in {West, East}
    BY <1>5, Opposites DEF AlongX
  <2>2. /\ RowCells(b, d, wide) = b.nyl /\ RowCells(a, o, wide) = a.nyl /\ a.nyl = b.nyl
        /\ a.j0 = b.j0
    BY <1>1, <1>5, <2>1 DEF RowCells, Follows
  <2>3. row = y - 1 /\ RowStart(o, wide) = 1
    BY <2>1 DEF Row, RowStart, row, AlongX
  <2>4. own = <<SendPlane(a, o), y>>
    <3>1. own = <<SendPlane(a, o), row + 1>>
      BY <1>4, <2>1, <2>3 DEF SendCell
    <3>2. row + 1 = y
      BY <1>2, <1>3, <2>3
    <3> QED  BY <3>1, <3>2
  <2>5. y \in 1..a.nyl
    BY <1>2, <1>3, <1>4, <2>2, <2>3
  <2>6. /\ d = West => SendPlane(a, o) = a.nxl /\ x = 0 /\ b.i0 = a.i0 + a.nxl
        /\ d = East => SendPlane(a, o) = 1 /\ x = b.nxl + 1 /\ a.i0 = b.i0 + b.nxl
    BY <1>1, <1>4, <2>1, Opposites
       DEF SendPlane, ReceivePlane, Across, Follows, West, East, South, North, AlongX
  <2>7. SendPlane(a, o) \in 1..a.nxl /\ a.i0 + SendPlane(a, o) - 1 = b.i0 + x - 1
    <3>1. CASE d = West
      BY <1>2, <2>6, <3>1
    <3>2. CASE d = East
      BY <1>2, <2>6, <3>2
    <3> QED  BY <1>5, <3>1, <3>2
  <2>8. Global(a, own) = <<a.i0 + SendPlane(a, o) - 1, a.j0 + y - 1>>
    BY <2>4 DEF Global
  <2>9. Global(a, own) = Global(b, c)
    BY <1>4, <2>2, <2>7, <2>8
  <2>10. own \in Interior(a)
    BY <2>4, <2>5, <2>7 DEF Interior
  <2> QED  BY <1>4, <2>1, <2>2, <2>9, <2>10 DEF s, a, b, own, row
<1>6. CASE d \in {South, North}
  <2>1. ~AlongX(d) /\ ~AlongX(o) /\ o \in {South, North}
    BY <1>6, Opposites DEF AlongX, West, East, South, North
  <2>2. /\ RowCells(a, o, wide) = RowCells(b, d, wide) /\ a.nxl = b.nxl /\ a.i0 = b.i0
    BY <1>1, <1>6, <2>1 DEF RowCells, Follows
  <2>3. RowStart(o, wide) = RowStart(d, wide) /\ RowStart(d, wide) \in Int
    BY <2>1 DEF RowStart
  <2>4. own = <<x, SendPlane(a, o)>>
    <3>1. own = <<row + RowStart(o, wide), SendPlane(a, o)>>
      BY <1>4, <2>1 DEF SendCell
    <3>2. row = x - RowStart(d, wide)
      BY <2>1 DEF row, Row
    <3>3. row + RowStart(o, wide) = x
      BY <1>2, <1>3, <2>3, <3>2
    <3> QED  BY <3>1, <3>3
  <2>5. /\ d = South => SendPlane(a, o) = a.nyl /\ y = 0 /\ b.j0 = a.j0 + a.nyl
        /\ d = North => SendPlane(a, o) = 1 /\ y = b.nyl + 1 /\ a.j0 = b.j0 + b.nyl
    BY <1>1, <1>4, <2>1, Opposites
       DEF SendPlane, ReceivePlane, Across, Follows, West, East, South, North, AlongX
  <2>6. SendPlane(a, o) \in 1..a.nyl /\ a.j0 + SendPlane(a, o) - 1 = b.j0 + y - 1
    <3>1. CASE d = South
      BY <1>2, <2>5, <3>1
    <3>2. CASE d = North
      BY <1>2, <2>5, <3>2
    <3> QED  BY <1>6, <3>1, <3>2
  <2>7. Global(a, own) = <<a.i0 + x - 1, a.j0 + SendPlane(a, o) - 1>>
    BY <2>4 DEF Global
  <2>8. Global(a, own) = Global(b, c)
    BY <1>4, <2>2, <2>6, <2>7
  <2>9. x \in 1..b.nxl => own \in Interior(a)
    BY <2>2, <2>4, <2>6 DEF Interior
  <2> QED  BY <1>4, <2>1, <2>2, <2>8, <2>9 DEF s, a, b, own, row
<1> QED  BY <1>5, <1>6 DEF Directions

\* A row that is not wide comes from the neighbour's block.
LEMMA FacingOwn ==
  ASSUME LayoutInv, status = "running", NEW r \in Ranks, NEW d \in Directions,
         neighbor[r][d] # ProcNull,
         NEW c \in WithHalo(block[r]), Receives(block[r], d, c, FALSE)
  PROVE  LET s == neighbor[r][d]
             own == Facing(r, d, c, FALSE)
         IN /\ own \in Interior(block[s]) /\ Global(block[s], own) = Global(block[r], c)
            /\ InDomain(Global(block[r], c))
<1> DEFINE s == neighbor[r][d]
           own == Facing(r, d, c, FALSE)
           b == block[r]
           x == c[1]
           m == b.nxl
<1>1. /\ Global(block[s], own) = Global(b, c)
      /\ AlongX(d) => own \in Interior(block[s])
      /\ ~AlongX(d) /\ x \in 1..m => own \in Interior(block[s])
  BY FacingIs
<1>2. s \in Ranks
  BY Faces
<1>3. ~AlongX(d) => x \in 1..m
  <2>1. ~AlongX(d) => Row(d, c, FALSE) = x - 1 /\ RowCells(b, d, FALSE) = m
    BY DEF Row, RowStart, RowCells
  <2>2. Row(d, c, FALSE) \in 0..RowCells(b, d, FALSE) - 1
    BY DEF Receives
  <2>3. x \in Int /\ m \in Int
    BY BlockTypes DEF WithHalo
  <2> HIDE DEF x, m
  <2>4. x - 1 \in 0..m - 1 => x \in 1..m
    BY <2>3
  <2> QED  BY <2>1, <2>2, <2>4
<1>4. own \in Interior(block[s])
  BY <1>1, <1>3
<1>5. InDomain(Global(b, c))
  <2>1. /\ block[s].i0 \in Nat /\ block[s].j0 \in Nat
        /\ block[s].nxl \in Nat /\ block[s].nyl \in Nat
        /\ block[s].i0 + block[s].nxl <= request.nx
        /\ block[s].j0 + block[s].nyl <= request.ny
        /\ request.nx \in Nat /\ request.ny \in Nat
    BY <1>2, Blocks, BlockTypes
  <2>2. own[1] \in 1..block[s].nxl /\ own[2] \in 1..block[s].nyl
    BY <1>4 DEF Interior
  <2>3. /\ Global(b, c)[1] = block[s].i0 + own[1] - 1
        /\ Global(b, c)[2] = block[s].j0 + own[2] - 1
    BY <1>1 DEF Global
  <2>4. /\ block[s].i0 + own[1] - 1 \in 0..request.nx - 1
        /\ block[s].j0 + own[2] - 1 \in 0..request.ny - 1
    <3> HIDE DEF s, own
    <3> QED  BY <2>1, <2>2
  <2> QED  BY <2>3, <2>4 DEF InDomain
<1> QED  BY <1>1, <1>4, <1>5

LEMMA SendCellIs ==
  ASSUME LayoutInv, status = "running", NEW r \in Ranks, NEW d \in Directions, NEW wide,
         NEW row \in 0..RowCells(block[r], d, wide) - 1
  PROVE  LET cell == SendCell(block[r], d, row, wide)
         IN /\ cell \in WithHalo(block[r]) /\ cell[2] \in 1..block[r].nyl
            /\ AlongX(d) \/ ~wide => cell \in Interior(block[r])
<1> DEFINE b == block[r]
           place == row + RowStart(d, wide)
           plane == SendPlane(b, d)
           cell == SendCell(b, d, row, wide)
<1>1. b.nxl \in Nat \ {0} /\ b.nyl \in Nat \ {0}
  BY BlockTypes
<1>2. row \in 0..RowCells(b, d, wide) - 1
  OBVIOUS
<1> HIDE DEF b
<1>3. CASE AlongX(d)
  <2>1. place \in 1..b.nyl
    BY <1>1, <1>2, <1>3 DEF RowCells, RowStart
  <2>2. plane \in 1..b.nxl
    BY <1>1, <1>3 DEF SendPlane, AlongX, West, East, North
  <2>3. cell = <<plane, place>>
    BY <1>3 DEF SendCell
  <2> HIDE DEF place, plane, cell
  <2>4. cell \in Interior(b) /\ cell \in WithHalo(b) /\ cell[2] \in 1..b.nyl
    BY <1>1, <2>1, <2>2, <2>3 DEF Interior, WithHalo
  <2> QED  BY <2>4 DEF cell, b
<1>4. CASE ~AlongX(d)
  <2>1. /\ place \in 0..b.nxl + 1
        /\ ~wide => place \in 1..b.nxl
    BY <1>1, <1>2, <1>4 DEF RowCells, RowStart
  <2>2. plane \in 1..b.nyl
    BY <1>1, <1>4 DEF SendPlane, AlongX, West, East, North, South, Directions
  <2>3. cell = <<place, plane>>
    BY <1>4 DEF SendCell
  <2> HIDE DEF place, plane, cell
  <2>4. /\ cell \in WithHalo(b) /\ cell[2] \in 1..b.nyl
        /\ ~wide => cell \in Interior(b)
    BY <1>1, <2>1, <2>2, <2>3 DEF Interior, WithHalo
  <2> QED  BY <1>4, <2>4 DEF cell, b
<1> QED  BY <1>3, <1>4

-----------------------------------------------------------------------------
(* How far the ranks are.                                                  *)

\* A rank has posted the messages of a position; it has yet to complete it.
Sent(r, p) == Precedes(p, at[r]) \/ (p = at[r] /\ posted[r])
Open(r, p) == ~Precedes(p, at[r])

ProgressInv ==
  /\ at \in [Ranks -> Positions \union {Finish}] /\ posted \in [Ranks -> BOOLEAN]
  /\ \A r \in Ranks : at[r] = Finish => ~posted[r]
  /\ status # "running" => \A r \in Ranks : at[r] = [part |-> 1, phase |-> 1] /\ ~posted[r]

LEMMA Order ==
  /\ \A p, q \in Positions \union {Finish} :
       /\ p.part \in Int /\ p.phase \in Int
       /\ p = q <=> p.part = q.part /\ p.phase = q.phase
       /\ ~Precedes(p, q) /\ ~Precedes(q, p) => p = q
       /\ ~(Precedes(p, q) /\ Precedes(q, p)) /\ ~Precedes(p, p)
  /\ \A p, q, s \in Positions \union {Finish} :
       /\ Precedes(p, q) /\ Precedes(q, s) => Precedes(p, s)
       /\ ~Precedes(q, p) /\ Precedes(q, s) => Precedes(p, s)
       /\ Precedes(p, q) /\ ~Precedes(s, q) => Precedes(p, s)
  /\ \A p \in Positions : Precedes(p, Finish) /\ p # Finish
<1>1. ASSUME NEW p \in Positions \union {Finish}
      PROVE  p = [part |-> p.part, phase |-> p.phase] /\ p.part \in Int /\ p.phase \in Int
  BY CallsAre DEF Positions, Finish
<1>2. \A p, q \in Positions \union {Finish} : p = q <=> p.part = q.part /\ p.phase = q.phase
  BY <1>1
<1>3. ASSUME NEW p \in Positions PROVE Precedes(p, Finish) /\ p # Finish
  <2>1. p.part \in 1..Parts /\ Finish.part = Parts + 1 /\ Parts \in Int
    BY CallsAre DEF Positions, Finish
  <2> QED  BY <2>1 DEF Precedes
<1> QED  BY <1>1, <1>2, <1>3 DEF Precedes

LEMMA AtPosition ==
  ASSUME ProgressInv, NEW r \in Ranks
  PROVE  /\ at[r] \in Positions \union {Finish} /\ posted[r] \in BOOLEAN
         /\ ~Done(r) <=> at[r] \in Positions
         /\ PhaseOf(r) = PhaseAt(at[r])
<1>1. at[r] \in Positions \union {Finish} /\ posted[r] \in BOOLEAN
  BY DEF ProgressInv
<1>2. \A p \in Positions : p.part \in 1..Parts
  BY DEF Positions
<1>3. Finish.part = Parts + 1 /\ Parts \in Int
  BY CallsAre DEF Finish
<1>4. ~Done(r) <=> at[r] \in Positions
  BY <1>1, <1>2, <1>3 DEF Done
<1> QED  BY <1>1, <1>4 DEF PhaseOf, PhaseAt

LEMMA LengthIs ==
  ASSUME NEW part \in 1..Parts
  PROVE  Len(Program[part]) \in 1..5
<1>1. part \in Int
  BY CallsAre
<1>2. CASE part <= 2
  <2>1. Len(Program[part]) = 5
    BY <1>2, PartIs
  <2> QED  BY <2>1
<1>3. CASE part > 2
  <2>1. Len(Program[part]) = IF Calls[part - 2].corners THEN 2 ELSE 1
    BY <1>3, PartIs
  <2>2. Len(Program[part]) = 2 \/ Len(Program[part]) = 1
    BY <2>1, Zenon
  <2> QED  BY <2>2
<1> QED  BY <1>1, <1>2, <1>3

\* The next position follows at once.
LEMMA OnwardIs ==
  ASSUME ProgressInv, NEW r \in Ranks, at[r] \in Positions
  PROVE  /\ Onward(r) \in Positions \union {Finish}
         /\ \A p \in Positions : Precedes(p, Onward(r)) <=> Precedes(p, at[r]) \/ p = at[r]
         /\ Onward(r) # [part |-> 1, phase |-> 1]
<1> DEFINE part == at[r].part
           h == at[r].phase
           n == Len(Program[part])
<1>1. /\ part \in 1..Parts /\ h \in 1..5 /\ h <= n /\ at[r] = [part |-> part, phase |-> h]
  BY DEF Positions
<1>2. n \in 1..5 /\ Parts \in Nat
  BY <1>1, CallsAre, LengthIs
<1>3. Onward(r) = IF h < n THEN [part |-> part, phase |-> h + 1]
                  ELSE [part |-> part + 1, phase |-> 1]
  BY <1>1 DEF Onward
<1>4. \A p \in Positions : p.part \in 1..Parts /\ p.phase \in 1..5 /\ p.phase <= Len(Program[p.part])
  BY DEF Positions
<1>5. ASSUME NEW k \in 1..Parts, NEW m \in 1..5, m <= Len(Program[k])
      PROVE  [part |-> k, phase |-> m] \in Positions
  BY <1>5 DEF Positions
<1>6. Onward(r) \in Positions \union {Finish}
  <2>1. CASE h < n
    <3>1. h + 1 \in 1..5 /\ h + 1 <= n
      <4> HIDE DEF h, n
      <4> QED  BY <1>1, <1>2, <2>1
    <3> QED  BY <1>1, <1>3, <1>5, <2>1, <3>1
  <2>2. CASE ~(h < n) /\ part < Parts
    <3>1. part + 1 \in 1..Parts /\ 1 \in 1..5
      BY <1>1, <1>2, <2>2
    <3>2. 1 <= Len(Program[part + 1])
      BY <3>1, LengthIs
    <3> QED  BY <1>3, <1>5, <2>2, <3>1, <3>2
  <2>3. CASE ~(h < n) /\ ~(part < Parts)
    <3>1. part = Parts
      BY <1>1, <1>2, <2>3
    <3> QED  BY <1>3, <2>3, <3>1 DEF Finish
  <2> QED  BY <2>1, <2>2, <2>3
<1>7. ASSUME NEW p \in Positions
      PROVE  Precedes(p, Onward(r)) <=> Precedes(p, at[r]) \/ p = at[r]
  <2>1. /\ p.part \in Int /\ p.phase \in 1..5 /\ p.phase <= Len(Program[p.part])
        /\ p = at[r] <=> p.part = part /\ p.phase = h
    BY <1>4, Order
  <2> DEFINE k == p.part
             m == p.phase
  <2>2. k = part => m <= n
    BY <2>1
  <2>3. Onward(r).part = (IF h < n THEN part ELSE part + 1)
        /\ Onward(r).phase = IF h < n THEN h + 1 ELSE 1
    BY <1>3
  <2> HIDE DEF k, m, n, part, h
  <2>4. /\ Precedes(p, Onward(r)) <=> k < Onward(r).part \/ (k = Onward(r).part /\ m < Onward(r).phase)
        /\ Precedes(p, at[r]) <=> k < part \/ (k = part /\ m < h)
    BY DEF Precedes, k, m, part, h
  <2>5. k \in Int /\ m \in 1..5 /\ (p = at[r] <=> k = part /\ m = h)
    BY <2>1 DEF k, m, part, h
  <2>6. CASE h < n
    BY <1>1, <1>2, <2>2, <2>3, <2>4, <2>5, <2>6
  <2>7. CASE ~(h < n)
    BY <1>1, <1>2, <2>2, <2>3, <2>4, <2>5, <2>7
  <2> QED  BY <2>6, <2>7
<1>8. Onward(r) # [part |-> 1, phase |-> 1]
  BY <1>1, <1>3
<1> QED  BY <1>6, <1>7, <1>8

\* The two kinds of a rank's steps: it posts a phase, or completes it.
Posts(r) == at' = at /\ posted' = [posted EXCEPT ![r] = TRUE]
Leaves(r) == at' = [at EXCEPT ![r] = Onward(r)] /\ posted' = [posted EXCEPT ![r] = FALSE]

LEMMA StepIs ==
  ASSUME ProgressInv, NEW r \in Ranks, RankStep(r)
  PROVE  /\ status = "running" /\ at[r] \in Positions /\ UNCHANGED grid
         /\ (EnterSum(r) \/ Post(r)) => ~posted[r] /\ Posts(r)
         /\ (LeaveSum(r) \/ Complete(r)) => posted[r] /\ Leaves(r)
<1>1. CASE EnterSum(r)
  BY <1>1, AtPosition DEF EnterSum, Posts, In, LeaveSum, Complete
<1>2. CASE LeaveSum(r)
  BY <1>2, AtPosition DEF LeaveSum, Leaves, In, EnterSum, Post
<1>3. CASE Post(r)
  BY <1>3, AtPosition DEF Post, Posts, In, LeaveSum, Complete
<1>4. CASE Complete(r)
  BY <1>4, AtPosition DEF Complete, Leaves, In, EnterSum, Post
<1> QED  BY <1>1, <1>2, <1>3, <1>4 DEF RankStep

\* What a step does to the messages a rank has sent and has yet to take.
LEMMA Posted ==
  ASSUME ProgressInv, NEW r \in Ranks, at[r] \in Positions, ~posted[r], UNCHANGED grid, Posts(r)
  PROVE  /\ ProgressInv' \/ status # "running"
         /\ \A q \in Ranks, p \in Positions :
              /\ Sent(q, p)' <=> Sent(q, p) \/ (q = r /\ p = at[r])
              /\ Open(q, p)' <=> Open(q, p)
<1>1. Ranks' = Ranks /\ status' = status
  BY DEF Ranks, grid
<1>2. \A q \in Ranks : posted[q]' = (IF q = r THEN TRUE ELSE posted[q]) /\ at[q]' = at[q]
  BY DEF Posts, ProgressInv
<1>3. at[r] # Finish
  BY Order
<1>4. ASSUME status = "running" PROVE ProgressInv'
  BY <1>1, <1>2, <1>3, <1>4 DEF ProgressInv, Posts
<1>5. ASSUME NEW q \in Ranks, NEW p \in Positions
      PROVE  /\ Sent(q, p)' <=> Sent(q, p) \/ (q = r /\ p = at[r])
             /\ Open(q, p)' <=> Open(q, p)
  BY <1>2 DEF Sent, Open, Precedes
<1> QED  BY <1>4, <1>5

LEMMA Left ==
  ASSUME ProgressInv, NEW r \in Ranks, at[r] \in Positions, posted[r], UNCHANGED grid, Leaves(r)
  PROVE  /\ ProgressInv' \/ status # "running"
         /\ \A q \in Ranks, p \in Positions :
              /\ Sent(q, p)' <=> Sent(q, p)
              /\ Open(q, p)' <=> Open(q, p) /\ ~(q = r /\ p = at[r])
<1>1. Ranks' = Ranks /\ status' = status
  BY DEF Ranks, grid
<1>2. \A q \in Ranks : /\ posted'[q] = (IF q = r THEN FALSE ELSE posted[q])
                       /\ at'[q] = IF q = r THEN Onward(r) ELSE at[q]
  BY DEF Leaves, ProgressInv
<1>3. /\ Onward(r) \in Positions \union {Finish}
      /\ \A p \in Positions : Precedes(p, Onward(r)) <=> Precedes(p, at[r]) \/ p = at[r]
  BY OnwardIs
<1>4. ASSUME status = "running" PROVE ProgressInv'
  BY <1>1, <1>2, <1>3, <1>4 DEF ProgressInv, Leaves
<1>5. ASSUME NEW q \in Ranks, NEW p \in Positions, q = r
      PROVE  /\ Sent(q, p)' <=> Sent(q, p)
             /\ Open(q, p)' <=> Open(q, p) /\ ~(q = r /\ p = at[r])
  <2>1. Precedes(p, at'[r]) <=> Precedes(p, at[r]) \/ p = at[r]
    BY <1>2, <1>3
  <2>2. ~posted'[r]
    BY <1>2
  <2>3. Sent(q, p)' <=> Sent(q, p)
    BY <1>5, <2>1, <2>2 DEF Sent
  <2>4. Open(q, p)' <=> Open(q, p) /\ p # at[r]
    BY <1>5, <2>1 DEF Open
  <2> QED  BY <1>5, <2>3, <2>4
<1>6. ASSUME NEW q \in Ranks, NEW p \in Positions, q # r
      PROVE  /\ Sent(q, p)' <=> Sent(q, p)
             /\ Open(q, p)' <=> Open(q, p)
  BY <1>2, <1>6 DEF Sent, Open, Precedes
<1> QED  BY <1>4, <1>5, <1>6

\* A rank that has passed a position, or has posted it, has sent its messages.
LEMMA SentOrder ==
  ASSUME ProgressInv, NEW q \in Ranks, NEW p \in Positions, NEW s \in Positions, Sent(q, s)
  PROVE  /\ Precedes(p, s) => Sent(q, p)
         /\ ~Precedes(s, p) => Sent(q, p)
<1>1. at[q] \in Positions \union {Finish}
  BY DEF ProgressInv
<1>2. Precedes(p, s) => Sent(q, p)
  BY <1>1, Order DEF Sent
<1>3. ASSUME ~Precedes(s, p) PROVE Sent(q, p)
  <2>1. p = s \/ Precedes(p, s)
    BY <1>3, Order
  <2> QED  BY <1>2, <2>1
<1> QED  BY <1>2, <1>3

-----------------------------------------------------------------------------
(* A rank gets past a position only after those it waits for have posted.  *)

GateInv ==
  \A r \in Ranks, p \in Positions : Precedes(p, at[r]) =>
    /\ PhaseAt(p).kind = "sum" => \A q \in Ranks : Sent(q, p)
    /\ \A d \in DOMAIN PhaseAt(p).receives :
         neighbor[r][d] # ProcNull => Sent(neighbor[r][d], p)

\* The other end of a channel posts the same position under the same tag.
LEMMA Ends ==
  ASSUME LayoutInv, status = "running", NEW r \in Ranks, NEW p \in Positions, NEW d \in Directions,
         neighbor[r][d] # ProcNull
  PROVE  /\ neighbor[r][d] \in Ranks /\ Opposite(d) \in Directions
         /\ neighbor[neighbor[r][d]][Opposite(d)] = r /\ r # ProcNull
         /\ d \in DOMAIN PhaseAt(p).receives <=> Opposite(d) \in DOMAIN PhaseAt(p).sends
         /\ d \in DOMAIN PhaseAt(p).sends <=> Opposite(d) \in DOMAIN PhaseAt(p).receives
         /\ d \in DOMAIN PhaseAt(p).receives =>
              PhaseAt(p).receives[d] = PhaseAt(p).sends[Opposite(d)]
         /\ d \in DOMAIN PhaseAt(p).sends =>
              PhaseAt(p).sends[d] = PhaseAt(p).receives[Opposite(d)]
<1>1. Paired(PhaseAt(p))
  BY PhaseIs
<1>2. Opposite(d) \in Directions /\ Opposite(Opposite(d)) = d
  BY Opposites
<1>3. neighbor[r][d] \in Ranks /\ neighbor[neighbor[r][d]][Opposite(d)] = r
  BY Faces
<1>4. r # ProcNull
  BY DEF Ranks, ProcNull
<1> QED  BY <1>1, <1>2, <1>3, <1>4 DEF Paired

LEMMA PartOne ==
  ASSUME ProgressInv, NEW r \in Ranks, at[r] \in Positions, PhaseOf(r).kind = "sum"
  PROVE  at[r].part \in 1..2 /\ at[r].phase = 1
<1>1. PhaseAt(at[r]).kind = "sum"
  BY AtPosition
<1> DEFINE p == at[r]
           k == p.part
           h == p.phase
<1>2. k \in 1..Parts /\ h \in 1..5 /\ Parts \in Nat
  BY PhaseIs, CallsAre
<1>3. ~InBuild(p) /\ ~InExchange(p)
  <2>1. InBuild(p) => PhaseAt(p).kind = "ids"
    BY PhaseIs
  <2>2. InExchange(p) => PhaseAt(p).kind \in {"first", "next"}
    BY PhaseIs
  <2> QED  BY <1>1, <2>1, <2>2
<1> QED  BY <1>2, <1>3 DEF InBuild, InExchange

\* Who has entered a collective sum has posted its position.
LEMMA EnteredIs ==
  ASSUME ProgressInv, NEW q \in Ranks, NEW p \in Positions, p.phase = 1, Entered(q, p.part)
  PROVE  Sent(q, p)
<1>1. at[q] \in Positions \union {Finish} /\ p.part \in Int
  BY Order DEF ProgressInv
<1> DEFINE a == at[q].part
           h == at[q].phase
           k == p.part
<1>2. a \in Int /\ h \in Int /\ (p = at[q] <=> k = a /\ 1 = h)
  BY <1>1, Order
<1>3. at[q].phase >= 1
  BY <1>1 DEF Positions, Finish
<1>4. a > k \/ (a = k /\ (h > 1 \/ posted[q]))
  BY DEF Entered
<1>5. Precedes(p, at[q]) <=> k < a \/ (k = a /\ 1 < h)
  BY DEF Precedes
<1> HIDE DEF a, h, k
<1>6. Precedes(p, at[q]) \/ (p = at[q] /\ posted[q])
  BY <1>1, <1>2, <1>3, <1>4, <1>5 DEF h
<1> QED  BY <1>6 DEF Sent

-----------------------------------------------------------------------------
(* What is in transit: what the sender has posted and the receiver has yet *)
(* to take, in the order of the positions.                                 *)

Value(r, p, f, c) ==
  IF f = "gid" THEN Numbered(r, p.part)[c]
  ELSE [cell |-> Global(block[r], c), call |-> PhaseAt(p).call]
Message(r, p, d) ==
  [f \in PhaseAt(p).fields |->
     [row \in 0..RowCells(block[r], d, PhaseAt(p).wide) - 1 |->
        Value(r, p, f, SendCell(block[r], d, row, PhaseAt(p).wide))]]

Channels == Ranks \X Ranks \X Tags

Uses(k, d, p) ==
  /\ d \in DOMAIN PhaseAt(p).sends /\ k[2] = neighbor[k[1]][d] /\ k[2] # ProcNull
  /\ k[3] = PhaseAt(p).sends[d]

InTransit(k, pos) ==
  /\ Len(pos) = Len(wire[k])
  /\ \A i, j \in 1..Len(pos) : i < j => Precedes(pos[i], pos[j])
  /\ \A i \in 1..Len(pos) :
       /\ Sent(k[1], pos[i]) /\ Open(k[2], pos[i])
       /\ \E d \in Directions : Uses(k, d, pos[i]) /\ wire[k][i] = Message(k[1], pos[i], d)
  /\ \A p \in Positions, d \in Directions :
       Sent(k[1], p) /\ Open(k[2], p) /\ Uses(k, d, p) => \E i \in 1..Len(pos) : pos[i] = p

Messages == {Message(r, p, d) : r \in Ranks, p \in Positions, d \in Directions}

WireInv ==
  /\ wire \in [Channels -> Seq(Messages)]
  /\ \A k \in Channels : \E pos \in Seq(Positions) : InTransit(k, pos)

\* The tag of a phase belongs to one direction.
LEMMA UsesOne ==
  ASSUME NEW k, NEW p \in Positions, NEW d, NEW e, Uses(k, d, p), Uses(k, e, p)
  PROVE  d = e /\ d \in Directions
<1>1. Paired(PhaseAt(p))
  BY PhaseIs
<1> QED  BY <1>1 DEF Paired, Uses

\* What a rank waits for is the first message of its channel, and the one its
\* neighbour sent at the same position.
LEMMA Arrived ==
  ASSUME LayoutInv, ProgressInv, WireInv, status = "running", NEW r \in Ranks, at[r] \in Positions,
         NEW d \in DOMAIN PhaseAt(at[r]).receives, neighbor[r][d] # ProcNull,
         NEW k, k = <<neighbor[r][d], r, PhaseAt(at[r]).receives[d]>>, wire[k] # <<>>
  PROVE  /\ k \in Channels /\ Sent(neighbor[r][d], at[r])
         /\ Head(wire[k]) = Message(neighbor[r][d], at[r], Opposite(d))
         /\ \A pos \in Seq(Positions) : InTransit(k, pos) => pos # <<>> /\ pos[1] = at[r]
<1> DEFINE s == neighbor[r][d]
           p == at[r]
           o == Opposite(d)
<1>1. d \in Directions /\ Paired(PhaseAt(p))
  BY PhaseIs DEF Paired
<1>2. /\ s \in Ranks /\ neighbor[s][o] = r /\ r # ProcNull /\ o \in Directions
      /\ o \in DOMAIN PhaseAt(p).sends /\ PhaseAt(p).receives[d] = PhaseAt(p).sends[o]
  BY <1>1, Ends
<1>3. /\ k[1] = s /\ k[2] = r /\ k[3] = PhaseAt(p).sends[o]
  BY <1>2
<1>4. k \in Channels
  <2>1. PhaseAt(p).sends[o] \in Tags
    BY <1>1, <1>2 DEF Paired
  <2> QED  BY <1>2, <2>1 DEF Channels
<1>5. Uses(k, o, p)
  BY <1>2, <1>3 DEF Uses
<1>6. ASSUME NEW pos \in Seq(Positions), InTransit(k, pos)
      PROVE  /\ pos # <<>> /\ pos[1] = p /\ Sent(s, p)
             /\ wire[k][1] = Message(s, p, o)
  <2>1. wire[k] \in Seq(Messages) /\ Len(wire[k]) \in Nat /\ Len(wire[k]) # 0
    BY <1>4 DEF WireInv
  <2>2. 1 \in 1..Len(pos) /\ Len(pos) = Len(wire[k]) /\ pos # <<>>
    BY <1>6, <2>1 DEF InTransit
  <2>3. pos[1] \in Positions /\ Sent(s, pos[1]) /\ ~Precedes(pos[1], p)
    <3>1. pos[1] \in Positions
      <4> HIDE DEF InTransit
      <4> QED  BY <2>2
    <3>2. Sent(k[1], pos[1]) /\ Open(k[2], pos[1])
      BY <1>6, <2>2 DEF InTransit
    <3> QED  BY <1>3, <3>1, <3>2 DEF Open
  <2>4. Sent(s, p)
    BY <1>2, <2>3, SentOrder
  <2>5. Open(r, p)
    BY Order DEF Open
  <2>6. PICK i \in 1..Len(pos) : pos[i] = p
    BY <1>2, <1>3, <1>5, <1>6, <2>4, <2>5 DEF InTransit
  <2>7. i = 1
    <3> SUFFICES ASSUME i # 1 PROVE FALSE
      OBVIOUS
    <3>1. 1 < i
      BY <2>1, <2>2
    <3>2. Precedes(pos[1], pos[i])
      BY <1>6, <2>2, <3>1 DEF InTransit
    <3> QED  BY <2>3, <2>6, <3>2
  <2>8. PICK e \in Directions : Uses(k, e, pos[1]) /\ wire[k][1] = Message(s, pos[1], e)
    BY <1>3, <1>6, <2>2 DEF InTransit
  <2>9. e = o
    BY <1>5, <2>6, <2>7, <2>8, UsesOne
  <2> QED  BY <2>2, <2>4, <2>6, <2>7, <2>8, <2>9
<1>7. PICK pos \in Seq(Positions) : InTransit(k, pos)
  BY <1>4 DEF WireInv
<1>8. Head(wire[k]) = wire[k][1]
  BY <1>4 DEF WireInv
<1> QED  BY <1>4, <1>6, <1>7, <1>8

-----------------------------------------------------------------------------
LEMMA NextGate ==
  ASSUME LayoutInv, ProgressInv, WireInv, GateInv, NEW r \in Ranks, RankStep(r)
  PROVE  GateInv'
<1>1. status = "running" /\ at[r] \in Positions /\ UNCHANGED grid
  BY StepIs
<1>2. Ranks' = Ranks /\ neighbor' = neighbor
  BY <1>1 DEF grid, Ranks
<1>3. ASSUME NEW q \in Ranks, NEW p \in Positions, Precedes(p, at[q])' => Precedes(p, at[q]),
             \A s \in Ranks : Sent(s, p) => Sent(s, p)'
      PROVE  Precedes(p, at[q])' =>
               /\ PhaseAt(p).kind = "sum" => \A s \in Ranks : Sent(s, p)'
               /\ \A d \in DOMAIN PhaseAt(p).receives :
                    neighbor[q][d] # ProcNull => Sent(neighbor[q][d], p)'
  <2>1. ASSUME NEW d \in DOMAIN PhaseAt(p).receives, neighbor[q][d] # ProcNull
        PROVE  neighbor[q][d] \in Ranks
    <3>1. d \in Directions
      BY PhaseIs DEF Paired
    <3> QED  BY <1>1, <2>1, <3>1, Ends
  <2> QED  BY <1>2, <1>3, <2>1 DEF GateInv
<1>4. CASE EnterSum(r) \/ Post(r)
  <2>1. ~posted[r] /\ Posts(r)
    BY <1>4, StepIs
  <2>2. \A q \in Ranks, p \in Positions : Sent(q, p) => Sent(q, p)'
    BY <1>1, <2>1, Posted
  <2>3. at' = at
    BY <2>1 DEF Posts
  <2> QED  BY <1>2, <1>3, <2>2, <2>3 DEF GateInv, Precedes
<1>5. CASE LeaveSum(r) \/ Complete(r)
  <2>1. posted[r] /\ Leaves(r)
    BY <1>5, StepIs
  <2>2. \A q \in Ranks, p \in Positions :
          (Sent(q, p)' <=> Sent(q, p)) /\ (Open(q, p)' <=> Open(q, p) /\ ~(q = r /\ p = at[r]))
    BY <1>1, <2>1, Left
  <2>3. ASSUME PhaseAt(at[r]).kind = "sum", NEW q \in Ranks PROVE Sent(q, at[r])
    <3>1. PhaseOf(r).kind = "sum"
      BY <2>3, AtPosition
    <3>2. LeaveSum(r)
      BY <1>5, <3>1 DEF Complete, In
    <3>3. Entered(q, at[r].part)
      BY <3>2 DEF LeaveSum
    <3>4. at[r].phase = 1
      BY <1>1, <3>1, PartOne
    <3> QED  BY <1>1, <3>3, <3>4, EnteredIs
  <2>4. ASSUME NEW d \in DOMAIN PhaseAt(at[r]).receives, neighbor[r][d] # ProcNull
        PROVE  Sent(neighbor[r][d], at[r])
    <3>1. CASE LeaveSum(r)
      <4>1. neighbor[r][d] \in Ranks
        <5>1. d \in Directions
          BY <1>1, PhaseIs DEF Paired
        <5> QED  BY <1>1, <2>4, <5>1, Ends
      <4>2. PhaseAt(at[r]).kind = "sum"
        BY <3>1, AtPosition DEF LeaveSum, In
      <4> QED  BY <2>3, <4>1, <4>2
    <3>2. CASE Complete(r)
      <4> DEFINE k == <<neighbor[r][d], r, PhaseAt(at[r]).receives[d]>>
      <4>1. PhaseOf(r) = PhaseAt(at[r])
        BY AtPosition
      <4>2. d \in DOMAIN Incoming(r) /\ Incoming(r)[d] = k
        BY <2>4, <4>1 DEF Incoming
      <4>3. k \in Range(Incoming(r))
        BY <4>2 DEF Range
      <4>4. wire[k] # <<>>
        BY <3>2, <4>3 DEF Complete
      <4> QED  BY <1>1, <2>4, <4>4, Arrived
    <3> QED  BY <1>5, <3>1, <3>2
  <2>5. ASSUME NEW q \in Ranks, NEW p \in Positions, Precedes(p, at[q])'
        PROVE  Precedes(p, at[q]) \/ (q = r /\ p = at[r])
    <3>1. ~Open(q, p)'
      BY <2>5 DEF Open, Precedes
    <3> QED  BY <2>2, <3>1 DEF Open
  <2>6. ASSUME NEW q \in Ranks, NEW p \in Positions
        PROVE  Precedes(p, at[q])' =>
               /\ PhaseAt(p).kind = "sum" => \A s \in Ranks : Sent(s, p)'
               /\ \A d \in DOMAIN PhaseAt(p).receives :
                    neighbor[q][d] # ProcNull => Sent(neighbor[q][d], p)'
    <3>1. CASE q = r /\ p = at[r]
      <4>1. ASSUME NEW d \in DOMAIN PhaseAt(p).receives, neighbor[q][d] # ProcNull
            PROVE  neighbor[q][d] \in Ranks
        <5>1. d \in Directions
          BY PhaseIs DEF Paired
        <5> QED  BY <1>1, <4>1, <5>1, Ends
      <4> QED  BY <1>2, <2>2, <2>3, <2>4, <3>1, <4>1
    <3>2. CASE ~(q = r /\ p = at[r])
      BY <1>3, <2>2, <2>5, <3>2
    <3> QED  BY <3>1, <3>2
  <2> QED  BY <1>2, <2>6 DEF GateInv, Precedes
<1> QED  BY <1>4, <1>5 DEF RankStep

LEMMA SameNumbers ==
  ASSUME UNCHANGED grid
  PROVE  /\ Ranks' = Ranks /\ Channels' = Channels
         /\ \A r, round : Numbered(r, round)' = Numbered(r, round)
<1>1. Ranks' = Ranks /\ Channels' = Channels
  BY DEF grid, Ranks, Channels
<1>2. ASSUME NEW r, NEW round PROVE Numbered(r, round)' = Numbered(r, round)
  BY DEF grid, Numbered, ActiveOf, Mask, Offset2, Offset3, Columns2Of, Cells3Of, NoIds, Ranks
<1> QED  BY <1>1, <1>2

LEMMA SameMessages ==
  ASSUME UNCHANGED grid
  PROVE  /\ \A k, d, p : Uses(k, d, p)' <=> Uses(k, d, p)
         /\ \A r, p, d : Message(r, p, d)' = Message(r, p, d)
         /\ Messages' = Messages
<1>1. Ranks' = Ranks /\ block' = block /\ neighbor' = neighbor
  BY DEF grid, Ranks
<1>2. ASSUME NEW r, NEW p, NEW f, NEW c PROVE Value(r, p, f, c)' = Value(r, p, f, c)
  BY <1>1, SameNumbers DEF Value
<1>3. ASSUME NEW r, NEW p, NEW d PROVE Message(r, p, d)' = Message(r, p, d)
  BY <1>1, <1>2 DEF Message
<1>4. Messages' = Messages
  BY <1>1, <1>3 DEF Messages
<1>5. ASSUME NEW k, NEW d, NEW p PROVE Uses(k, d, p)' <=> Uses(k, d, p)
  BY <1>1 DEF Uses
<1> QED  BY <1>3, <1>4, <1>5

\* The values of a rank's fields that a phase packs.
Packing(r) == IF PhaseOf(r).kind = "first" THEN Fresh(r, PhaseOf(r).call) ELSE field[r]

LEMMA WireOfSum ==
  ASSUME ProgressInv, WireInv, NEW r \in Ranks, EnterSum(r) \/ LeaveSum(r)
  PROVE  WireInv'
<1>1. at[r] \in Positions /\ UNCHANGED grid /\ wire' = wire
  BY StepIs DEF RankStep, EnterSum, LeaveSum
<1>2. PhaseOf(r).kind = "sum"
  BY DEF EnterSum, LeaveSum, In
<1>3. at[r].part <= 2 /\ at[r].phase = 1
  BY <1>1, <1>2, PartOne
<1>4. DOMAIN PhaseAt(at[r]).sends = {}
  BY <1>1, <1>3, PhaseIs
<1>5. \A k, d : ~Uses(k, d, at[r])
  BY <1>4 DEF Uses
<1>6. ASSUME NEW q \in Ranks, NEW p \in Positions, p # at[r]
      PROVE  (Sent(q, p)' <=> Sent(q, p)) /\ (Open(q, p)' <=> Open(q, p))
  <2>1. CASE EnterSum(r)
    BY <1>1, <1>6, <2>1, StepIs, Posted DEF RankStep
  <2>2. CASE LeaveSum(r)
    BY <1>1, <1>6, <2>2, StepIs, Left DEF RankStep
  <2> QED  BY <2>1, <2>2
<1>7. ASSUME NEW k \in Channels, NEW pos \in Seq(Positions), InTransit(k, pos)
      PROVE  InTransit(k, pos)'
  <2>1. k[1] \in Ranks /\ k[2] \in Ranks
    BY DEF Channels
  <2>2. \A i \in 1..Len(pos) : pos[i] \in Positions
    <3> HIDE DEF Positions
    <3> QED  OBVIOUS
  <2>3. ASSUME NEW i \in 1..Len(pos)
        PROVE  /\ Sent(k[1], pos[i])' /\ Open(k[2], pos[i])'
               /\ \E d \in Directions : Uses(k, d, pos[i])' /\ wire'[k][i] = Message(k[1], pos[i], d)'
    <3>1. /\ Sent(k[1], pos[i]) /\ Open(k[2], pos[i])
          /\ \E d \in Directions : Uses(k, d, pos[i]) /\ wire[k][i] = Message(k[1], pos[i], d)
      BY <1>7 DEF InTransit
    <3>2. pos[i] \in Positions /\ pos[i] # at[r]
      BY <1>5, <2>2, <3>1
    <3> QED  BY <1>1, <1>6, <2>1, <3>1, <3>2, SameMessages
  <2>4. ASSUME NEW p \in Positions, NEW d \in Directions, Sent(k[1], p)', Open(k[2], p)',
               Uses(k, d, p)'
        PROVE  \E i \in 1..Len(pos) : pos[i] = p
    <3>1. Uses(k, d, p) /\ p # at[r]
      BY <1>1, <1>5, <2>4, SameMessages
    <3>2. Sent(k[1], p) /\ Open(k[2], p)
      BY <1>6, <2>1, <2>4, <3>1
    <3> QED  BY <1>7, <3>1, <3>2 DEF InTransit
  <2>5. /\ Len(pos) = Len(wire'[k])
        /\ \A i, j \in 1..Len(pos) : i < j => Precedes(pos[i], pos[j])
    BY <1>1, <1>7 DEF InTransit
  <2> QED  BY <2>3, <2>4, <2>5 DEF InTransit
<1>8. wire' \in [Channels' -> Seq(Messages')]
  BY <1>1, SameNumbers, SameMessages DEF WireInv
<1>9. \A k \in Channels' : \E pos \in Seq(Positions) : InTransit(k, pos)'
  BY <1>1, <1>7, SameNumbers DEF WireInv
<1> QED  BY <1>8, <1>9 DEF WireInv

\* A phase's messages are the last of their channels.
LEMMA WireOfPost ==
  ASSUME LayoutInv, ProgressInv, WireInv, GateInv, NEW r \in Ranks, Post(r),
         NEW now \in Positions, now = at[r],
         \A d \in DOMAIN Outgoing(r) :
           Pack(Packing(r), block[r], d, PhaseOf(r)) = Message(r, now, d)
  PROVE  WireInv'
<1> DEFINE out == Outgoing(r)
<1>1. status = "running" /\ now \in Positions /\ UNCHANGED grid /\ ~posted[r] /\ Posts(r)
  BY StepIs DEF RankStep
<1>2. /\ Ranks' = Ranks /\ Channels' = Channels /\ Messages' = Messages
      /\ \A k, d, p : Uses(k, d, p)' <=> Uses(k, d, p)
      /\ \A q, p, d : Message(q, p, d)' = Message(q, p, d)
  BY <1>1, SameNumbers, SameMessages
<1>3. \A q \in Ranks, p \in Positions :
        (Sent(q, p)' <=> Sent(q, p) \/ (q = r /\ p = now)) /\ (Open(q, p)' <=> Open(q, p))
  BY <1>1, Posted
<1>4. PhaseOf(r) = PhaseAt(now)
  BY AtPosition
<1>5. \A k, d : k[1] = r => (Uses(k, d, now) => d \in DOMAIN out)
  BY <1>4 DEF Uses, Outgoing
<1>6. ASSUME NEW d \in DOMAIN out
      PROVE  /\ out[d] \in Channels /\ out[d][1] = r /\ Uses(out[d], d, now) /\ d \in Directions
             /\ Open(out[d][2], now)
  <2>1. d \in DOMAIN PhaseAt(now).sends /\ neighbor[r][d] # ProcNull
    BY <1>4 DEF Outgoing
  <2>2. out[d] = <<r, neighbor[r][d], PhaseAt(now).sends[d]>>
    BY <1>4 DEF Outgoing
  <2>3. d \in Directions /\ PhaseAt(now).sends[d] \in Tags
    BY <1>1, <2>1, PhaseIs DEF Paired
  <2>4. /\ neighbor[r][d] \in Ranks /\ neighbor[neighbor[r][d]][Opposite(d)] = r /\ r # ProcNull
        /\ Opposite(d) \in DOMAIN PhaseAt(now).receives
    BY <1>1, <2>1, <2>3, Ends
  <2>5. out[d] \in Channels
    BY <2>2, <2>3, <2>4 DEF Channels
  <2>6. Uses(out[d], d, now)
    BY <2>1, <2>2 DEF Uses
  <2>7. Open(neighbor[r][d], now)
    <3> SUFFICES ASSUME Precedes(now, at[neighbor[r][d]]) PROVE FALSE
      BY DEF Open
    <3>1. Sent(r, now)
      BY <1>1, <2>4 DEF GateInv
    <3> QED  BY <1>1, <3>1, Order DEF Sent
  <2> QED  BY <2>2, <2>3, <2>5, <2>6, <2>7
<1>7. ASSUME NEW k \in Channels, k \notin Range(out)
      PROVE  wire'[k] = wire[k] /\ (k[1] = r => \A d : ~Uses(k, d, now))
  <2>1. wire'[k] = wire[k]
    BY <1>7 DEF Post, WireInv
  <2>2. ASSUME k[1] = r, NEW d, Uses(k, d, now) PROVE FALSE
    <3>1. d \in DOMAIN out
      BY <1>5, <2>2
    <3>2. out[d] = <<k[1], k[2], k[3]>>
      BY <1>4, <2>2, <3>1 DEF Uses, Outgoing
    <3>3. k = <<k[1], k[2], k[3]>>
      BY DEF Channels
    <3> QED  BY <1>7, <3>1, <3>2, <3>3 DEF Range
  <2> QED  BY <2>1, <2>2
<1>8. ASSUME NEW k \in Channels, k \in Range(out)
      PROVE  \E d \in DOMAIN out : out[d] = k /\ wire'[k] = Append(wire[k], Message(r, now, d))
  <2> DEFINE e == CHOOSE d \in DOMAIN out : out[d] = k
  <2>1. e \in DOMAIN out /\ out[e] = k
    BY <1>8 DEF Range
  <2>2. wire'[k] = Append(wire[k], Pack(Packing(r), block[r], e, PhaseOf(r)))
    BY <1>8 DEF Post, WireInv, Packing
  <2> QED  BY <2>1, <2>2
<1> HIDE DEF out
<1>9. ASSUME NEW k \in Channels, k \notin Range(out), NEW pos \in Seq(Positions), InTransit(k, pos)
      PROVE  InTransit(k, pos)'
  <2>1. k[1] \in Ranks /\ k[2] \in Ranks /\ \A i \in 1..Len(pos) : pos[i] \in Positions
    <3>1. \A i \in 1..Len(pos) : pos[i] \in Positions
      <4> HIDE DEF Positions
      <4> QED  OBVIOUS
    <3> QED  BY <3>1 DEF Channels
  <2>2. ASSUME NEW i \in 1..Len(pos)
        PROVE  /\ Sent(k[1], pos[i])' /\ Open(k[2], pos[i])'
               /\ \E d \in Directions : Uses(k, d, pos[i])' /\ wire'[k][i] = Message(k[1], pos[i], d)'
    BY <1>2, <1>3, <1>7, <1>9, <2>1 DEF InTransit
  <2>3. ASSUME NEW p \in Positions, NEW d \in Directions, Sent(k[1], p)', Open(k[2], p)',
               Uses(k, d, p)'
        PROVE  \E i \in 1..Len(pos) : pos[i] = p
    <3>1. Uses(k, d, p) /\ Open(k[2], p) /\ Sent(k[1], p)
      BY <1>2, <1>3, <1>7, <1>9, <2>1, <2>3
    <3> QED  BY <1>9, <3>1 DEF InTransit
  <2>4. /\ Len(pos) = Len(wire'[k])
        /\ \A i, j \in 1..Len(pos) : i < j => Precedes(pos[i], pos[j])
    BY <1>7, <1>9 DEF InTransit
  <2> QED  BY <2>2, <2>3, <2>4 DEF InTransit
<1>10. ASSUME NEW k \in Channels, NEW d \in DOMAIN out, out[d] = k,
              wire'[k] = Append(wire[k], Message(r, now, d)),
              NEW pos \in Seq(Positions), InTransit(k, pos)
       PROVE  Append(pos, now) \in Seq(Positions) /\ InTransit(k, Append(pos, now))'
  <2> DEFINE more == Append(pos, now)
             n == Len(pos)
  <2>1. /\ k[1] = r /\ k[2] \in Ranks /\ Uses(k, d, now) /\ d \in Directions /\ Open(k[2], now)
    BY <1>6, <1>10 DEF Channels
  <2>2. /\ more \in Seq(Positions) /\ n \in Nat /\ Len(more) = n + 1 /\ more[n + 1] = now
        /\ \A i \in 1..n : more[i] = pos[i] /\ pos[i] \in Positions
    <3> HIDE DEF Positions
    <3> QED  BY <1>1
  <2>3. /\ wire[k] \in Seq(Messages) /\ Len(wire[k]) = n
    BY <1>10 DEF InTransit, WireInv
  <2>4. /\ Len(wire'[k]) = n + 1 /\ wire'[k][n + 1] = Message(r, now, d)
        /\ \A i \in 1..n : wire'[k][i] = wire[k][i]
    BY <1>10, <2>3
  <2> HIDE DEF more, n
  <2>5. \A i \in 1..Len(more) : i \in 1..n \/ i = n + 1
    BY <2>2
  <2>6. ASSUME NEW i \in 1..n
        PROVE  /\ Sent(r, pos[i]) /\ Open(k[2], pos[i]) /\ Precedes(pos[i], now)
               /\ \E e \in Directions : Uses(k, e, pos[i]) /\ wire[k][i] = Message(r, pos[i], e)
    <3>1. /\ Sent(r, pos[i]) /\ Open(k[2], pos[i])
          /\ \E e \in Directions : Uses(k, e, pos[i]) /\ wire[k][i] = Message(r, pos[i], e)
      BY <1>10, <2>1 DEF InTransit, n
    <3>2. Precedes(pos[i], now)
      BY <1>1, <3>1 DEF Sent
    <3> QED  BY <3>1, <3>2
  <2>7. ASSUME NEW i \in 1..Len(more), NEW j \in 1..Len(more), i < j
        PROVE  Precedes(more[i], more[j])
    <3>1. i \in 1..n /\ (j \in 1..n \/ j = n + 1)
      BY <2>2, <2>7
    <3>2. CASE j \in 1..n
      <4>1. Precedes(pos[i], pos[j])
        BY <1>10, <2>7, <3>1, <3>2 DEF InTransit, n
      <4> QED  BY <2>2, <3>1, <3>2, <4>1
    <3>3. CASE j = n + 1
      BY <2>2, <2>6, <3>1, <3>3
    <3> QED  BY <3>1, <3>2, <3>3
  <2>8. ASSUME NEW i \in 1..Len(more)
        PROVE  /\ Sent(k[1], more[i])' /\ Open(k[2], more[i])'
               /\ \E e \in Directions : Uses(k, e, more[i])' /\ wire'[k][i] = Message(k[1], more[i], e)'
    <3>1. CASE i \in 1..n
      <4>1. Sent(k[1], pos[i])' /\ Open(k[2], pos[i])'
        BY <1>3, <2>1, <2>2, <2>6, <3>1
      <4>2. more'[i] = pos[i] /\ more[i] = pos[i]
        BY <2>2, <3>1 DEF more
      <4> QED  BY <1>2, <2>1, <2>4, <2>6, <3>1, <4>1, <4>2
    <3>2. CASE i = n + 1
      <4>1. Sent(k[1], now)' /\ Open(k[2], now)'
        BY <1>1, <1>3, <2>1
      <4> QED  BY <1>2, <2>1, <2>2, <2>4, <3>2, <4>1
    <3> QED  BY <2>5, <3>1, <3>2
  <2>9. ASSUME NEW p \in Positions, NEW e \in Directions, Sent(k[1], p)', Open(k[2], p)',
               Uses(k, e, p)'
        PROVE  \E i \in 1..Len(more) : more[i] = p
    <3>1. CASE p = now
      BY <2>2, <3>1
    <3>2. CASE p # now
      <4>1. Sent(k[1], p) /\ Open(k[2], p) /\ Uses(k, e, p)
        BY <1>2, <1>3, <2>1, <2>9, <3>2
      <4>2. PICK i \in 1..n : pos[i] = p
        BY <1>10, <4>1 DEF InTransit, n
      <4> QED  BY <2>2, <4>2
    <3> QED  BY <3>1, <3>2
  <2>10. Len(more) = Len(wire'[k])
    BY <2>2, <2>4
  <2>11. InTransit(k, more)'
    BY <2>7, <2>8, <2>9, <2>10 DEF InTransit
  <2> QED  BY <2>2, <2>11 DEF more
<1>11. wire' \in [Channels -> Seq(Messages)]
  <2>1. \A k \in Channels : wire[k] \in Seq(Messages)
    BY DEF WireInv
  <2>2. wire' = [k \in Channels |-> wire'[k]]
    BY DEF Post, WireInv
  <2>3. ASSUME NEW k \in Channels PROVE wire'[k] \in Seq(Messages)
    <3>1. CASE k \in Range(out)
      <4>1. PICK d \in DOMAIN out : wire'[k] = Append(wire[k], Message(r, now, d))
        BY <1>8, <3>1
      <4>2. Message(r, now, d) \in Messages
        BY <1>1, <1>6 DEF Messages
      <4> HIDE DEF Messages
      <4> QED  BY <2>1, <4>1, <4>2
    <3>2. CASE k \notin Range(out)
      BY <1>7, <2>1, <3>2
    <3> QED  BY <3>1, <3>2
  <2> QED  BY <2>2, <2>3
<1>12. ASSUME NEW k \in Channels PROVE \E pos \in Seq(Positions) : InTransit(k, pos)'
  <2>1. PICK pos \in Seq(Positions) : InTransit(k, pos)
    BY DEF WireInv
  <2>2. CASE k \in Range(out)
    <3>1. PICK d \in DOMAIN out : out[d] = k /\ wire'[k] = Append(wire[k], Message(r, now, d))
      BY <1>8, <2>2
    <3> QED  BY <1>10, <2>1, <3>1
  <2>3. CASE k \notin Range(out)
    BY <1>9, <2>1, <2>3
  <2> QED  BY <2>2, <2>3
<1> QED  BY <1>2, <1>11, <1>12 DEF WireInv

\* A rank takes the first message of each channel it waits for.
LEMMA WireOfComplete ==
  ASSUME LayoutInv, ProgressInv, WireInv, GateInv, NEW r \in Ranks, Complete(r),
         NEW now \in Positions, now = at[r]
  PROVE  WireInv'
<1> DEFINE in == Incoming(r)
<1>1. status = "running" /\ UNCHANGED grid /\ posted[r] /\ Leaves(r)
  BY StepIs DEF RankStep
<1>2. /\ Ranks' = Ranks /\ Channels' = Channels /\ Messages' = Messages
      /\ \A k, d, p : Uses(k, d, p)' <=> Uses(k, d, p)
      /\ \A q, p, d : Message(q, p, d)' = Message(q, p, d)
  BY <1>1, SameNumbers, SameMessages
<1>3. \A q \in Ranks, p \in Positions :
        (Sent(q, p)' <=> Sent(q, p)) /\ (Open(q, p)' <=> Open(q, p) /\ ~(q = r /\ p = now))
  BY <1>1, Left
<1>4. PhaseOf(r) = PhaseAt(now)
  BY AtPosition
<1>5. ASSUME NEW k \in Channels, k \in Range(in)
      PROVE  /\ wire[k] # <<>> /\ wire'[k] = Tail(wire[k])
             /\ \A pos \in Seq(Positions) : InTransit(k, pos) => pos # <<>> /\ pos[1] = now
  <2>1. wire[k] # <<>> /\ wire'[k] = Tail(wire[k])
    BY <1>5 DEF Complete, WireInv
  <2>2. PICK d \in DOMAIN in : in[d] = k
    BY <1>5 DEF Range
  <2>3. /\ d \in DOMAIN PhaseAt(now).receives /\ neighbor[r][d] # ProcNull
        /\ k = <<neighbor[r][d], r, PhaseAt(now).receives[d]>>
    BY <1>4, <2>2 DEF Incoming
  <2>4. \A pos \in Seq(Positions) : InTransit(k, pos) => pos # <<>> /\ pos[1] = now
    BY <1>1, <2>1, <2>3, Arrived
  <2> QED  BY <2>1, <2>4
<1>6. ASSUME NEW k \in Channels, k \notin Range(in)
      PROVE  wire'[k] = wire[k] /\ (k[2] = r => \A d : ~Uses(k, d, now))
  <2>1. wire'[k] = wire[k]
    BY <1>6 DEF Complete, WireInv
  <2>2. ASSUME k[2] = r, NEW d, Uses(k, d, now) PROVE FALSE
    <3> DEFINE s == k[1]
               o == Opposite(d)
    <3>1. s \in Ranks /\ k = <<s, r, k[3]>>
      BY <2>2 DEF Channels
    <3>2. /\ d \in DOMAIN PhaseAt(now).sends /\ neighbor[s][d] = r /\ r # ProcNull
          /\ k[3] = PhaseAt(now).sends[d]
      BY <2>2 DEF Uses
    <3>3. d \in Directions
      BY <3>2, PhaseIs DEF Paired
    <3>4. /\ neighbor[r][o] = s /\ s # ProcNull /\ o \in DOMAIN PhaseAt(now).receives
          /\ PhaseAt(now).receives[o] = k[3]
      BY <1>1, <3>1, <3>2, <3>3, Ends
    <3>5. o \in DOMAIN in /\ in[o] = k
      BY <1>4, <3>1, <3>4 DEF Incoming
    <3> QED  BY <1>6, <3>5 DEF Range
  <2> QED  BY <2>1, <2>2
<1> HIDE DEF in
<1>7. ASSUME NEW k \in Channels, k \notin Range(in), NEW pos \in Seq(Positions), InTransit(k, pos)
      PROVE  InTransit(k, pos)'
  <2>1. k[1] \in Ranks /\ k[2] \in Ranks /\ \A i \in 1..Len(pos) : pos[i] \in Positions
    <3>1. \A i \in 1..Len(pos) : pos[i] \in Positions
      <4> HIDE DEF Positions
      <4> QED  OBVIOUS
    <3> QED  BY <3>1 DEF Channels
  <2>2. ASSUME NEW i \in 1..Len(pos)
        PROVE  /\ Sent(k[1], pos[i])' /\ Open(k[2], pos[i])'
               /\ \E d \in Directions : Uses(k, d, pos[i])' /\ wire'[k][i] = Message(k[1], pos[i], d)'
    <3>1. /\ Sent(k[1], pos[i]) /\ Open(k[2], pos[i])
          /\ \E d \in Directions : Uses(k, d, pos[i]) /\ wire[k][i] = Message(k[1], pos[i], d)
      BY <1>7 DEF InTransit
    <3>2. ~(k[2] = r /\ pos[i] = now)
      BY <1>6, <1>7, <3>1
    <3> QED  BY <1>2, <1>3, <1>6, <1>7, <2>1, <3>1, <3>2
  <2>3. ASSUME NEW p \in Positions, NEW d \in Directions, Sent(k[1], p)', Open(k[2], p)',
               Uses(k, d, p)'
        PROVE  \E i \in 1..Len(pos) : pos[i] = p
    <3>1. Uses(k, d, p) /\ Open(k[2], p) /\ Sent(k[1], p)
      BY <1>2, <1>3, <2>1, <2>3
    <3> QED  BY <1>7, <3>1 DEF InTransit
  <2>4. /\ Len(pos) = Len(wire'[k])
        /\ \A i, j \in 1..Len(pos) : i < j => Precedes(pos[i], pos[j])
    BY <1>6, <1>7 DEF InTransit
  <2> QED  BY <2>2, <2>3, <2>4 DEF InTransit
<1>8. ASSUME NEW k \in Channels, k \in Range(in), NEW pos \in Seq(Positions), InTransit(k, pos)
      PROVE  Tail(pos) \in Seq(Positions) /\ InTransit(k, Tail(pos))'
  <2> DEFINE rest == Tail(pos)
             n == Len(pos)
  <2>1. /\ k[1] \in Ranks /\ k[2] \in Ranks /\ wire[k] \in Seq(Messages) /\ Len(wire[k]) = n
        /\ wire'[k] = Tail(wire[k]) /\ wire[k] # <<>>
    BY <1>5, <1>8 DEF Channels, WireInv, InTransit
  <2>2. pos # <<>> /\ pos[1] = now
    BY <1>5, <1>8
  <2>3. /\ rest \in Seq(Positions) /\ n \in Nat /\ n >= 1 /\ Len(rest) = n - 1
        /\ \A i \in 1..n - 1 : rest[i] = pos[i + 1]
        /\ \A i \in 1..n : pos[i] \in Positions
    <3> HIDE DEF Positions
    <3> QED  BY <2>2
  <2>4. /\ Len(wire'[k]) = n - 1 /\ \A i \in 1..n - 1 : wire'[k][i] = wire[k][i + 1]
    BY <2>1, <2>3
  <2> HIDE DEF rest, n
  <2>5. \A i \in 1..n - 1 : i + 1 \in 1..n /\ 1 < i + 1
    BY <2>3
  <2>6. 1 \in 1..n
    BY <2>3
  <2>7. ASSUME NEW i \in 1..n - 1, NEW j \in 1..n - 1, i < j
        PROVE  Precedes(rest[i], rest[j])
    <3>1. i + 1 \in 1..n /\ j + 1 \in 1..n /\ i + 1 < j + 1
      BY <2>3, <2>7
    <3>2. Precedes(pos[i + 1], pos[j + 1])
      BY <1>8, <3>1 DEF InTransit, n
    <3> QED  BY <2>3, <3>2
  <2>8. ASSUME NEW i \in 1..n - 1
        PROVE  /\ Sent(k[1], rest[i])' /\ Open(k[2], rest[i])'
               /\ \E e \in Directions : Uses(k, e, rest[i])' /\ wire'[k][i] = Message(k[1], rest[i], e)'
    <3>1. /\ Sent(k[1], pos[i + 1]) /\ Open(k[2], pos[i + 1])
          /\ \E e \in Directions :
               Uses(k, e, pos[i + 1]) /\ wire[k][i + 1] = Message(k[1], pos[i + 1], e)
      BY <1>8, <2>5 DEF InTransit, n
    <3>2. Precedes(pos[1], pos[i + 1])
      BY <1>8, <2>5, <2>6 DEF InTransit, n
    <3>3. pos[i + 1] \in Positions /\ pos[i + 1] # now
      BY <2>2, <2>3, <2>5, <3>2, Order
    <3>4. Sent(k[1], pos[i + 1])' /\ Open(k[2], pos[i + 1])'
      BY <1>3, <2>1, <3>1, <3>3
    <3>5. rest[i] = pos[i + 1] /\ wire'[k][i] = wire[k][i + 1]
      BY <2>3, <2>4
    <3> QED  BY <1>2, <3>1, <3>4, <3>5
  <2>9. ASSUME NEW p \in Positions, NEW e \in Directions, Sent(k[1], p)', Open(k[2], p)',
               Uses(k, e, p)'
        PROVE  \E i \in 1..n - 1 : rest[i] = p
    <3>1. k[2] = r
      <4>1. PICK d \in DOMAIN in : in[d] = k
        BY <1>8 DEF Range
      <4> QED  BY <4>1 DEF Incoming, in
    <3>2. Sent(k[1], p) /\ Open(k[2], p) /\ Uses(k, e, p) /\ p # now
      BY <1>2, <1>3, <2>1, <2>9, <3>1
    <3>3. PICK i \in 1..n : pos[i] = p
      BY <1>8, <3>2 DEF InTransit, n
    <3>4. i # 1 /\ i - 1 \in 1..n - 1 /\ (i - 1) + 1 = i
      BY <2>2, <2>3, <3>2, <3>3
    <3>5. rest[i - 1] = pos[(i - 1) + 1]
      BY <2>3, <3>4
    <3> QED  BY <3>3, <3>4, <3>5
  <2>10. InTransit(k, rest)'
    BY <2>3, <2>4, <2>7, <2>8, <2>9 DEF InTransit
  <2> QED  BY <2>3, <2>10 DEF rest
<1>9. wire' \in [Channels -> Seq(Messages)]
  <2>1. \A k \in Channels : wire[k] \in Seq(Messages)
    BY DEF WireInv
  <2>2. wire' = [k \in Channels |-> wire'[k]]
    BY DEF Complete, WireInv
  <2>3. ASSUME NEW k \in Channels PROVE wire'[k] \in Seq(Messages)
    <3>1. CASE k \in Range(in)
      <4>1. wire'[k] = Tail(wire[k]) /\ wire[k] # <<>> /\ wire[k] \in Seq(Messages)
        BY <1>5, <2>1, <3>1
      <4> HIDE DEF Messages
      <4> QED  BY <4>1
    <3>2. CASE k \notin Range(in)
      BY <1>6, <2>1, <3>2
    <3> QED  BY <3>1, <3>2
  <2> QED  BY <2>2, <2>3
<1>10. ASSUME NEW k \in Channels PROVE \E pos \in Seq(Positions) : InTransit(k, pos)'
  <2>1. PICK pos \in Seq(Positions) : InTransit(k, pos)
    BY DEF WireInv
  <2> QED  BY <1>7, <1>8, <2>1
<1> QED  BY <1>2, <1>9, <1>10 DEF WireInv

-----------------------------------------------------------------------------
(* What a rank's fields hold: first the ids.                               *)

\* The parts of a rank's halo: the planes it receives, and the corners.
LEMMA Planes ==
  ASSUME LayoutInv, status = "running", NEW r \in Ranks, NEW c \in WithHalo(block[r])
  PROVE  /\ c \in Interior(block[r]) <=> c[1] \in 1..block[r].nxl /\ c[2] \in 1..block[r].nyl
         /\ Corner(block[r], c) <=> c[1] \notin 1..block[r].nxl /\ c[2] \notin 1..block[r].nyl
         /\ \A d \in Directions : Receives(block[r], d, c, FALSE) =>
              c \notin Interior(block[r]) /\ ~Corner(block[r], c)
         /\ \A d, e \in Directions :
              Receives(block[r], d, c, FALSE) /\ Receives(block[r], e, c, FALSE) => d = e
         /\ c \in Interior(block[r]) \/ Corner(block[r], c)
              \/ \E d \in Directions : Receives(block[r], d, c, FALSE)
<1> DEFINE m == block[r].nxl
           n == block[r].nyl
           x == c[1]
           y == c[2]
<1>1. /\ m \in Nat \ {0} /\ n \in Nat \ {0} /\ x \in 0..m + 1 /\ y \in 0..n + 1 /\ c = <<x, y>>
  BY BlockTypes DEF WithHalo
<1>2. /\ Corner(block[r], c) <=> x \in {0, m + 1} /\ y \in {0, n + 1}
      /\ c \in Interior(block[r]) <=> x \in 1..m /\ y \in 1..n
  BY <1>1 DEF Corner, Interior
<1>3. /\ Receives(block[r], West, c, FALSE) <=> x = 0 /\ y - 1 \in 0..n - 1
      /\ Receives(block[r], East, c, FALSE) <=> x = m + 1 /\ y - 1 \in 0..n - 1
      /\ Receives(block[r], South, c, FALSE) <=> y = 0 /\ x - 1 \in 0..m - 1
      /\ Receives(block[r], North, c, FALSE) <=> y = n + 1 /\ x - 1 \in 0..m - 1
  BY DEF Receives, Across, Row, RowStart, RowCells, ReceivePlane, AlongX, West, East, South, North
<1>4. /\ West \in Directions /\ East \in Directions /\ South \in Directions /\ North \in Directions
      /\ \A d \in Directions : d = West \/ d = East \/ d = South \/ d = North
  BY DEF Directions
<1> HIDE DEF m, n, x, y
<1>5. /\ x \in {0, m + 1} <=> x \notin 1..m
      /\ y \in {0, n + 1} <=> y \notin 1..n
      /\ x - 1 \in 0..m - 1 <=> x \in 1..m
      /\ y - 1 \in 0..n - 1 <=> y \in 1..n
      /\ x = 0 \/ x = m + 1 \/ x \in 1..m
      /\ y = 0 \/ y = n + 1 \/ y \in 1..n
      /\ 0 \notin 1..m /\ m + 1 \notin 1..m /\ 0 \notin 1..n /\ n + 1 \notin 1..n
      /\ m + 1 # 0 /\ n + 1 # 0
  BY <1>1
<1>6. Corner(block[r], c) <=> x \notin 1..m /\ y \notin 1..n
  BY <1>2, <1>5
<1>7. ASSUME NEW d \in Directions, Receives(block[r], d, c, FALSE)
      PROVE  /\ (x \in 1..m /\ y \notin 1..n) \/ (x \notin 1..m /\ y \in 1..n)
             /\ d = West <=> x = 0
             /\ d = East <=> x = m + 1
             /\ d = South <=> y = 0
             /\ d = North <=> y = n + 1
  BY <1>3, <1>4, <1>5, <1>7 DEF West, East, South, North
<1>8. ASSUME c \notin Interior(block[r]), ~Corner(block[r], c)
      PROVE  \E d \in Directions : Receives(block[r], d, c, FALSE)
  BY <1>2, <1>3, <1>4, <1>5, <1>6, <1>8
<1>9. ASSUME NEW d \in Directions, NEW e \in Directions,
             Receives(block[r], d, c, FALSE), Receives(block[r], e, c, FALSE)
      PROVE  d = e
  BY <1>4, <1>7, <1>9
<1>10. ASSUME NEW d \in Directions, Receives(block[r], d, c, FALSE)
       PROVE  c \notin Interior(block[r]) /\ ~Corner(block[r], c)
  BY <1>2, <1>6, <1>7, <1>10
<1> QED  BY <1>2, <1>6, <1>8, <1>9, <1>10 DEF m, n, x, y

\* The numbering a rank's ids are of, and the sides it has received.
Round(r) == IF at[r].part > 2 THEN 2 ELSE IF at[r].phase > 1 THEN at[r].part ELSE at[r].part - 1
Got(r, d) == at[r].part > Round(r) \/ at[r].phase > Slot(d)

IdsOf(r) ==
  LET gid == field[r].gid
  IN IF Round(r) = 0 THEN \A c \in WithHalo(block[r]) : gid[c] = NoIds
     ELSE /\ \A c \in Interior(block[r]) : gid[c] = Numbered(r, Round(r))[c]
          /\ \A d \in Directions, c \in WithHalo(block[r]) : Receives(block[r], d, c, FALSE) =>
               gid[c] = IF neighbor[r][d] # ProcNull /\ Got(r, d)
                        THEN Numbered(neighbor[r][d], Round(r))[Facing(r, d, c, FALSE)]
                        ELSE NoIds
          /\ \A c \in WithHalo(block[r]) : Corner(block[r], c) => gid[c] = NoIds

Registered ==
  /\ DOMAIN field = Ranks
  /\ \A r \in Ranks : DOMAIN field[r] = Fields \union {"gid"}

LEMMA SameIds ==
  ASSUME UNCHANGED grid, NEW q \in Ranks, IdsOf(q), field'[q].gid = field[q].gid,
         Round(q)' = Round(q), \A d \in Directions : Got(q, d)' <=> Got(q, d)
  PROVE  IdsOf(q)'
<1>1. block' = block /\ neighbor' = neighbor
  BY DEF grid
<1>2. NoIds' = NoIds
  BY DEF grid, NoIds
<1>3. \A d, c, wide : Facing(q, d, c, wide)' = Facing(q, d, c, wide)
  BY <1>1 DEF Facing
<1>4. \A s, c : Numbered(s, Round(q))'[c] = Numbered(s, Round(q))[c]
  <2>1. ASSUME NEW s, NEW round, round = Round(q)
        PROVE  Numbered(s, Round(q))' = Numbered(s, Round(q))
    <3>1. Numbered(s, round)' = Numbered(s, round)
      BY SameNumbers
    <3> QED  BY <2>1, <3>1
  <2> QED  BY <2>1
<1>5. CASE Round(q) = 0
  BY <1>1, <1>2, <1>5 DEF IdsOf
<1>6. CASE Round(q) # 0
  <2>1. \A c \in Interior(block[q]) : field[q].gid[c] = Numbered(q, Round(q))[c]
    BY <1>6 DEF IdsOf
  <2>2. \A c \in WithHalo(block[q]) : Corner(block[q], c) => field[q].gid[c] = NoIds
    BY <1>6 DEF IdsOf
  <2>3. \A d \in Directions, c \in WithHalo(block[q]) : Receives(block[q], d, c, FALSE) =>
          field[q].gid[c] = IF neighbor[q][d] # ProcNull /\ Got(q, d)
                            THEN Numbered(neighbor[q][d], Round(q))[Facing(q, d, c, FALSE)]
                            ELSE NoIds
    BY <1>6 DEF IdsOf
  <2>4. \A c \in Interior(block'[q]) : field'[q].gid[c] = Numbered(q, Round(q))'[c]
    BY <1>1, <1>4, <2>1
  <2>5. \A c \in WithHalo(block'[q]) : Corner(block'[q], c) => field'[q].gid[c] = NoIds'
    BY <1>1, <1>2, <2>2
  <2>6. ASSUME NEW d \in Directions, NEW c \in WithHalo(block'[q]),
               Receives(block'[q], d, c, FALSE), NEW s, s = neighbor[q][d]
        PROVE  field'[q].gid[c] = IF s # ProcNull /\ Got(q, d)'
                                  THEN Numbered(s, Round(q))'[Facing(q, d, c, FALSE)']
                                  ELSE NoIds'
    <3>1. field[q].gid[c] = IF s # ProcNull /\ Got(q, d)
                            THEN Numbered(s, Round(q))[Facing(q, d, c, FALSE)] ELSE NoIds
      BY <1>1, <2>3, <2>6
    <3>2. Numbered(s, Round(q))'[Facing(q, d, c, FALSE)]
            = Numbered(s, Round(q))[Facing(q, d, c, FALSE)]
      BY <1>4
    <3> QED  BY <1>2, <1>3, <3>1, <3>2
  <2>7. \A d \in Directions, c \in WithHalo(block'[q]) : Receives(block'[q], d, c, FALSE) =>
          field'[q].gid[c] = IF neighbor'[q][d] # ProcNull /\ Got(q, d)'
                             THEN Numbered(neighbor[q][d], Round(q))'[Facing(q, d, c, FALSE)']
                             ELSE NoIds'
    BY <1>1, <2>6
  <2> QED  BY <1>6, <2>4, <2>5, <2>7 DEF IdsOf
<1> QED  BY <1>5, <1>6

\* How a rank that completes a position gets on with its ids.
LEMMA RoundIs ==
  ASSUME ProgressInv, NEW r \in Ranks, at[r] \in Positions, Leaves(r)
  PROVE  /\ at[r].part <= 2 /\ at[r].phase = 1 =>
              Round(r)' = at[r].part /\ \A d \in Directions : ~Got(r, d)'
         /\ InBuild(at[r]) =>
              /\ Round(r) = at[r].part /\ Round(r)' = at[r].part
              /\ \A d \in Directions : /\ Got(r, d) <=> Slot(d) < at[r].phase
                                       /\ Got(r, d)' <=> Slot(d) <= at[r].phase
         /\ InExchange(at[r]) =>
              Round(r)' = Round(r) /\ \A d \in Directions : Got(r, d)' <=> Got(r, d)
<1> DEFINE p == at[r].part
           h == at[r].phase
           q == at'[r].part
           g == at'[r].phase
           n == Len(Program[p])
<1>1. p \in 1..Parts /\ Parts \in Nat /\ h \in 1..5
  BY PhaseIs, CallsAre
<1>2. at'[r] = Onward(r)
  BY DEF Leaves, ProgressInv
<1>3. /\ h < n => q = p /\ g = h + 1
      /\ ~(h < n) => q = p + 1 /\ g = 1
  <2>1. h < n => at'[r] = [at[r] EXCEPT !.phase = @ + 1]
    BY <1>2 DEF Onward
  <2>2. ~(h < n) => at'[r] = [part |-> p + 1, phase |-> 1]
    BY <1>2 DEF Onward
  <2>3. at[r] = [part |-> p, phase |-> h]
    BY PhaseIs
  <2> QED  BY <2>1, <2>2, <2>3
<1>4. p <= 2 => n = 5
  BY <1>1, PartIs
<1>5. /\ Round(r) = IF p > 2 THEN 2 ELSE IF h > 1 THEN p ELSE p - 1
      /\ Round(r)' = IF q > 2 THEN 2 ELSE IF g > 1 THEN q ELSE q - 1
      /\ \A d \in Directions : /\ Got(r, d) <=> p > Round(r) \/ h > Slot(d)
                               /\ Got(r, d)' <=> q > Round(r)' \/ g > Slot(d)
                               /\ Slot(d) \in 2..5
  BY DEF Round, Got, Slot
<1>6. /\ InBuild(at[r]) <=> p <= 2 /\ h > 1
      /\ InExchange(at[r]) <=> p > 2
  BY DEF InBuild, InExchange
<1> HIDE DEF p, h, q, g, n
<1>7. ASSUME p <= 2, h = 1 PROVE Round(r)' = p /\ \A d \in Directions : ~Got(r, d)'
  <2>1. q = p /\ g = 2
    BY <1>3, <1>4, <1>7
  <2>2. Round(r)' = p
    BY <1>1, <1>5, <1>7, <2>1
  <2>3. \A d \in Directions : ~(q > Round(r)') /\ ~(g > Slot(d))
    BY <1>1, <1>5, <2>1, <2>2
  <2> QED  BY <1>5, <2>2, <2>3
<1>8. ASSUME p <= 2, h > 1
      PROVE  /\ Round(r) = p /\ Round(r)' = p
             /\ \A d \in Directions : /\ Got(r, d) <=> Slot(d) < h
                                      /\ Got(r, d)' <=> Slot(d) <= h
  <2>1. Round(r) = p
    BY <1>1, <1>5, <1>8
  <2>2. \A d \in Directions : p > Round(r) \/ h > Slot(d) <=> Slot(d) < h
    BY <1>1, <1>5, <2>1
  <2>3. (q = p /\ g = h + 1 /\ h < 5) \/ (q = p + 1 /\ g = 1 /\ h = 5)
    BY <1>1, <1>3, <1>4, <1>8
  <2>4. Round(r)' = p
    BY <1>1, <1>5, <1>8, <2>3
  <2>5. \A d \in Directions : q > Round(r)' \/ g > Slot(d) <=> Slot(d) <= h
    BY <1>1, <1>5, <1>8, <2>3, <2>4
  <2> QED  BY <1>5, <2>1, <2>2, <2>4, <2>5
<1>9. ASSUME p > 2
      PROVE  Round(r)' = Round(r) /\ \A d \in Directions : Got(r, d)' <=> Got(r, d)
  <2>1. q > 2 /\ q \in Int
    BY <1>1, <1>3, <1>9
  <2>2. Round(r) = 2 /\ Round(r)' = 2
    BY <1>5, <1>9, <2>1
  <2>3. p > Round(r) /\ q > Round(r)'
    BY <1>9, <2>1, <2>2
  <2> QED  BY <1>5, <2>2, <2>3
<1> QED  BY <1>6, <1>7, <1>8, <1>9 DEF p, h

\* A step of one rank leaves what the others are and have.
LEMMA Others ==
  ASSUME NEW r \in Ranks, RankStep(r), Registered, ProgressInv
  PROVE  /\ UNCHANGED grid /\ Registered'
         /\ \A q \in Ranks \ {r} : /\ field'[q] = field[q] /\ at'[q] = at[q]
                                   /\ posted'[q] = posted[q]
<1>1. UNCHANGED grid
  BY StepIs
<1>2. Ranks' = Ranks
  BY <1>1, SameNumbers
<1>3. \A q \in Ranks \ {r} : at'[q] = at[q] /\ posted'[q] = posted[q]
  BY StepIs DEF ProgressInv, Posts, Leaves, RankStep
<1>4. CASE EnterSum(r)
  BY <1>1, <1>2, <1>3, <1>4 DEF EnterSum, Registered
<1>5. CASE LeaveSum(r)
  BY <1>1, <1>2, <1>3, <1>5 DEF LeaveSum, Registered
<1>6. CASE Post(r)
  <2> DEFINE values == IF PhaseOf(r).kind = "first" THEN Fresh(r, PhaseOf(r).call) ELSE field[r]
  <2>1. DOMAIN values = DOMAIN field[r]
    BY DEF Fresh
  <2>2. field' = [field EXCEPT ![r] = values]
    BY <1>6 DEF Post
  <2> HIDE DEF values
  <2> QED  BY <1>1, <1>2, <1>3, <2>1, <2>2 DEF Registered
<1>7. CASE Complete(r)
  <2> DEFINE values ==
        [f \in DOMAIN field[r] |->
           IF f \notin PhaseOf(r).fields THEN field[r][f]
           ELSE [c \in WithHalo(block[r]) |->
                   LET Side == {d \in DOMAIN Incoming(r) :
                                  Receives(block[r], d, c, PhaseOf(r).wide)}
                       d == CHOOSE d \in Side : TRUE
                   IN IF Side = {} THEN field[r][f][c]
                      ELSE Head(wire[Incoming(r)[d]])[f][Row(d, c, PhaseOf(r).wide)]]]
  <2>1. field' = [field EXCEPT ![r] = values]
    BY <1>7 DEF Complete
  <2>2. DOMAIN values = DOMAIN field[r]
    OBVIOUS
  <2> HIDE DEF values
  <2> QED  BY <1>1, <1>2, <1>3, <2>1, <2>2 DEF Registered
<1> QED  BY <1>4, <1>5, <1>6, <1>7 DEF RankStep

\* What a numbering assigns is not in the halo.
LEMMA IdsAfterSum ==
  ASSUME LayoutInv, ProgressInv, Registered, NEW r \in Ranks, LeaveSum(r)
  PROVE  IdsOf(r)'
<1> DEFINE n == at[r].part
           b == block[r]
<1>1. status = "running" /\ at[r] \in Positions /\ UNCHANGED grid /\ Leaves(r)
  BY StepIs DEF RankStep
<1>2. n \in 1..2 /\ at[r].phase = 1
  BY <1>1, PartOne DEF LeaveSum, In
<1>3. Round(r)' = n /\ \A d \in Directions : ~Got(r, d)'
  BY <1>1, <1>2, RoundIs
<1>4. field'[r].gid = Numbered(r, n)
  BY DEF LeaveSum, Registered
<1>5. block' = block /\ neighbor' = neighbor /\ NoIds' = NoIds
  BY <1>1 DEF grid, NoIds
<1>6. Numbered(r, Round(r))' = Numbered(r, n)
  <2>1. ASSUME NEW round, round = n PROVE Numbered(r, Round(r))' = Numbered(r, round)
    <3>1. Numbered(r, round)' = Numbered(r, round)
      BY <1>1, SameNumbers
    <3> QED  BY <1>3, <2>1, <3>1
  <2> QED  BY <2>1
<1>7. \A c \in WithHalo(b) : c \notin Interior(b) => Numbered(r, n)[c] = NoIds
  BY DEF Numbered
<1>8. \A c \in Interior(b) : field'[r].gid[c] = Numbered(r, Round(r))'[c]
  BY <1>4, <1>6
<1>9. \A d \in Directions, c \in WithHalo(b) : Receives(b, d, c, FALSE) =>
        field'[r].gid[c] = NoIds
  BY <1>1, <1>4, <1>7, Planes
<1>10. \A c \in WithHalo(b) : Corner(b, c) => field'[r].gid[c] = NoIds
  <2>1. \A c \in WithHalo(b) : Corner(b, c) => c \notin Interior(b)
    BY <1>1, Planes
  <2> QED  BY <1>4, <1>7, <2>1
<1>11. Round(r)' # 0
  BY <1>2, <1>3
<1> QED  BY <1>3, <1>5, <1>8, <1>9, <1>10, <1>11 DEF IdsOf

\* The sides in which a rank unpacks a cell.
Sides(r, c) == {d \in DOMAIN Incoming(r) : Receives(block[r], d, c, PhaseOf(r).wide)}

LEMMA Unpacked ==
  ASSUME LayoutInv, ProgressInv, WireInv, Registered, NEW r \in Ranks, Complete(r),
         NEW f \in Fields \union {"gid"}, NEW c \in WithHalo(block[r])
  PROVE  /\ f \notin PhaseOf(r).fields => field'[r][f] = field[r][f]
         /\ Sides(r, c) = {} => field'[r][f][c] = field[r][f][c]
         /\ f \in PhaseOf(r).fields /\ Sides(r, c) # {} =>
              \E d \in Sides(r, c) :
                /\ neighbor[r][d] \in Ranks
                /\ field'[r][f][c]
                     = Value(neighbor[r][d], at[r], f, Facing(r, d, c, PhaseOf(r).wide))
<1> DEFINE phase == PhaseOf(r)
           in == Incoming(r)
           side == CHOOSE d \in Sides(r, c) : TRUE
<1>1. status = "running" /\ at[r] \in Positions /\ phase = PhaseAt(at[r])
  BY StepIs, AtPosition DEF RankStep
<1>2. field'[r] = [g \in DOMAIN field[r] |->
                     IF g \notin phase.fields THEN field[r][g]
                     ELSE [e \in WithHalo(block[r]) |->
                             IF Sides(r, e) = {} THEN field[r][g][e]
                             ELSE LET d == CHOOSE d \in Sides(r, e) : TRUE
                                  IN Head(wire[in[d]])[g][Row(d, e, phase.wide)]]]
  BY DEF Complete, Sides, Registered
<1>3. DOMAIN field[r] = Fields \union {"gid"}
  BY DEF Registered
<1>4. field'[r][f] = IF f \notin phase.fields THEN field[r][f]
                     ELSE [e \in WithHalo(block[r]) |->
                             IF Sides(r, e) = {} THEN field[r][f][e]
                             ELSE LET d == CHOOSE d \in Sides(r, e) : TRUE
                                  IN Head(wire[in[d]])[f][Row(d, e, phase.wide)]]
  BY <1>2, <1>3
<1>5. f \in phase.fields =>
        field'[r][f][c] = IF Sides(r, c) = {} THEN field[r][f][c]
                          ELSE Head(wire[in[side]])[f][Row(side, c, phase.wide)]
  BY <1>4
<1>6. ASSUME f \in phase.fields, NEW d, d \in Sides(r, c)
      PROVE  /\ neighbor[r][d] \in Ranks
             /\ Head(wire[in[d]])[f][Row(d, c, phase.wide)]
                  = Value(neighbor[r][d], at[r], f, Facing(r, d, c, phase.wide))
  <2> DEFINE s == neighbor[r][d]
             o == Opposite(d)
             row == Row(d, c, phase.wide)
  <2>1. /\ d \in DOMAIN phase.receives /\ s # ProcNull /\ in[d] = <<s, r, phase.receives[d]>>
        /\ d \in DOMAIN in /\ Receives(block[r], d, c, phase.wide)
    BY <1>6 DEF Sides, Incoming
  <2>2. d \in Directions
    BY <1>1, <2>1, PhaseIs DEF Paired
  <2>3. wire[in[d]] # <<>>
    BY <2>1 DEF Complete, Range
  <2>4. Head(wire[in[d]]) = Message(s, at[r], o)
    BY <1>1, <2>1, <2>3, Arrived
  <2>5. row \in 0..RowCells(block[s], o, phase.wide) - 1
    BY <1>1, <2>1, <2>2, FacingIs
  <2>6. Message(s, at[r], o)[f][row] = Value(s, at[r], f, SendCell(block[s], o, row, phase.wide))
    BY <1>1, <1>6, <2>5 DEF Message
  <2>7. s \in Ranks
    BY <1>1, <2>1, <2>2, Ends
  <2> QED  BY <2>4, <2>6, <2>7 DEF Facing
<1> HIDE DEF phase, in
<1>7. Sides(r, c) # {} => side \in Sides(r, c)
  OBVIOUS
<1> QED  BY <1>4, <1>5, <1>6, <1>7 DEF phase

\* A position is a sum, a phase of a numbering, or one of an exchange.
LEMMA WhichPhase ==
  ASSUME ProgressInv, NEW r \in Ranks, at[r] \in Positions
  PROVE  /\ PhaseOf(r).kind = "sum" => at[r].part \in 1..2 /\ at[r].phase = 1
         /\ PhaseOf(r).kind # "sum" => InBuild(at[r]) \/ InExchange(at[r])
<1>1. at[r].part \in 1..Parts /\ at[r].phase \in 1..5 /\ Parts \in Nat
  BY PhaseIs, CallsAre
<1>2. PhaseOf(r) = PhaseAt(at[r])
  BY AtPosition
<1>3. at[r].part <= 2 /\ at[r].phase = 1 => PhaseAt(at[r]).kind = "sum"
  BY PhaseIs
<1>4. ASSUME PhaseOf(r).kind # "sum" PROVE InBuild(at[r]) \/ InExchange(at[r])
  <2> DEFINE part == at[r].part
             h == at[r].phase
  <2>1. part \in Int /\ h \in 1..5 /\ ~(part <= 2 /\ h = 1)
    BY <1>1, <1>2, <1>3, <1>4
  <2> HIDE DEF part, h
  <2>2. (part <= 2 /\ h > 1) \/ part > 2
    BY <2>1
  <2> QED  BY <2>2 DEF InBuild, InExchange, part, h
<1> QED  BY <1>4, PartOne

LEMMA IdsAfterComplete ==
  ASSUME LayoutInv, ProgressInv, WireInv, Registered, NEW r \in Ranks, Complete(r), IdsOf(r)
  PROVE  IdsOf(r)'
<1> DEFINE b == block[r]
           n == at[r].part
           h == at[r].phase
<1>1. status = "running" /\ at[r] \in Positions /\ UNCHANGED grid /\ Leaves(r)
  BY StepIs DEF RankStep
<1>2. PhaseOf(r) = PhaseAt(at[r]) /\ PhaseOf(r).kind # "sum"
  BY AtPosition DEF Complete, In
<1>3. CASE InExchange(at[r])
  <2>1. "gid" \notin PhaseOf(r).fields
    <3>1. PhaseOf(r).fields = Calls[n - 2].fields /\ n - 2 \in 1..Len(Calls)
      BY <1>1, <1>2, <1>3, PhaseIs
    <3>2. PhaseOf(r).fields \in SUBSET Fields
      BY <3>1, CallsAre
    <3> QED  BY <3>2, HaloAssumption
  <2>2. field'[r].gid = field[r].gid
    <3>1. field'[r] = [f \in DOMAIN field[r] |-> field'[r][f]]
      BY DEF Complete, Registered
    <3>2. WithHalo(b) # {}
      <4>1. <<0, 0>> \in WithHalo(b)
        BY <1>1, BlockTypes DEF WithHalo
      <4> QED  BY <4>1
    <3>3. field'[r]["gid"] = field[r]["gid"]
      BY <2>1, <3>2, Unpacked
    <3> QED  BY <3>3
  <2>3. Round(r)' = Round(r) /\ \A d \in Directions : Got(r, d)' <=> Got(r, d)
    BY <1>1, <1>3, RoundIs
  <2> QED  BY <1>1, <2>2, <2>3, SameIds
<1>4. CASE InBuild(at[r])
  <2>1. /\ Round(r) = n /\ Round(r)' = n
        /\ \A d \in Directions : (Got(r, d) <=> Slot(d) < h) /\ (Got(r, d)' <=> Slot(d) <= h)
    BY <1>1, <1>4, RoundIs
  <2>2. /\ PhaseOf(r).fields = {"gid"} /\ PhaseOf(r).wide = FALSE
        /\ \A d \in Directions : d \in DOMAIN PhaseOf(r).receives <=> Slot(d) = h
    BY <1>1, <1>2, <1>4, PhaseIs
  <2>3. ASSUME NEW d
        PROVE  d \in DOMAIN Incoming(r)
                 <=> d \in Directions /\ Slot(d) = h /\ neighbor[r][d] # ProcNull
    <3>1. d \in DOMAIN PhaseOf(r).receives => d \in Directions
      BY <1>1, <1>2, PhaseIs DEF Paired
    <3>2. d \in DOMAIN Incoming(r) <=> d \in DOMAIN PhaseOf(r).receives /\ neighbor[r][d] # ProcNull
      BY DEF Incoming
    <3> QED  BY <2>2, <3>1, <3>2
  <2>4. block' = block /\ neighbor' = neighbor /\ NoIds' = NoIds
    BY <1>1 DEF grid, NoIds
  <2>5. \A d, c, wide : Facing(r, d, c, wide)' = Facing(r, d, c, wide)
    BY <2>4 DEF Facing
  <2>6. \A s : Numbered(s, Round(r))' = Numbered(s, n)
    <3>1. ASSUME NEW s, NEW round, round = n PROVE Numbered(s, Round(r))' = Numbered(s, round)
      <4>1. Numbered(s, round)' = Numbered(s, round)
        BY <1>1, SameNumbers
      <4> QED  BY <2>1, <3>1, <4>1
    <3> QED  BY <3>1
  <2>7. n # 0 /\ n \in Int /\ h \in Int
    <3>1. n \in 1..Parts /\ h \in 1..5 /\ Parts \in Nat
      BY <1>1, PhaseIs, CallsAre
    <3> HIDE DEF n, h
    <3> QED  BY <3>1
  <2>8. ASSUME NEW c \in WithHalo(b)
        PROVE  Sides(r, c) = {} => field'[r].gid[c] = field[r].gid[c]
    BY Unpacked
  <2>9. \A c \in WithHalo(b) : c \in Interior(b) \/ Corner(b, c) => Sides(r, c) = {}
    BY <1>1, <2>2, <2>3, Planes DEF Sides
  <2>10. /\ \A c \in Interior(b) : field[r].gid[c] = Numbered(r, n)[c]
         /\ \A c \in WithHalo(b) : Corner(b, c) => field[r].gid[c] = NoIds
         /\ \A d \in Directions, c \in WithHalo(b) : Receives(b, d, c, FALSE) =>
              field[r].gid[c] = IF neighbor[r][d] # ProcNull /\ Got(r, d)
                                THEN Numbered(neighbor[r][d], n)[Facing(r, d, c, FALSE)]
                                ELSE NoIds
    BY <2>1, <2>7 DEF IdsOf
  <2>11. \A c \in Interior(b) : c \in WithHalo(b)
    BY <1>1, BlockTypes DEF Interior, WithHalo
  <2>12. \A c \in Interior(block'[r]) : field'[r].gid[c] = Numbered(r, Round(r))'[c]
    BY <2>4, <2>6, <2>8, <2>9, <2>10, <2>11
  <2>13. \A c \in WithHalo(block'[r]) : Corner(block'[r], c) => field'[r].gid[c] = NoIds'
    BY <2>4, <2>8, <2>9, <2>10
  <2>14. ASSUME NEW d \in Directions, NEW c \in WithHalo(b), Receives(b, d, c, FALSE)
         PROVE  field'[r].gid[c] = IF neighbor[r][d] # ProcNull /\ Got(r, d)'
                                   THEN Numbered(neighbor[r][d], n)[Facing(r, d, c, FALSE)]
                                   ELSE NoIds
    <3>1. \A e \in Sides(r, c) : e = d /\ Slot(d) = h /\ neighbor[r][d] # ProcNull
      BY <1>1, <2>2, <2>3, <2>14, Planes DEF Sides
    <3>2. CASE Sides(r, c) # {}
      <4>1. PICK e \in Sides(r, c) :
              field'[r].gid[c] = Value(neighbor[r][e], at[r], "gid", Facing(r, e, c, FALSE))
        <5>1. "gid" \in Fields \union {"gid"} /\ "gid" \in PhaseOf(r).fields
          BY <2>2
        <5>2. \E e \in Sides(r, c) :
                field'[r]["gid"][c]
                  = Value(neighbor[r][e], at[r], "gid", Facing(r, e, c, PhaseOf(r).wide))
          BY <3>2, <5>1, Unpacked
        <5> QED  BY <2>2, <5>2
      <4>2. e = d /\ Slot(d) = h /\ neighbor[r][d] # ProcNull
        BY <3>1
      <4>3. Got(r, d)'
        BY <2>1, <2>7, <4>2
      <4>4. field'[r].gid[c] = Numbered(neighbor[r][d], n)[Facing(r, d, c, FALSE)]
        BY <4>1, <4>2 DEF Value
      <4> QED  BY <4>2, <4>3, <4>4
    <3>3. CASE Sides(r, c) = {}
      <4>1. ~(Slot(d) = h /\ neighbor[r][d] # ProcNull)
        BY <2>2, <2>3, <2>14, <3>3 DEF Sides
      <4>2. neighbor[r][d] # ProcNull => (Got(r, d)' <=> Got(r, d))
        <5>1. Slot(d) \in Int
          BY DEF Slot
        <5>2. Slot(d) # h => (Slot(d) <= h <=> Slot(d) < h)
          BY <2>7, <5>1
        <5> QED  BY <2>1, <4>1, <5>2
      <4> QED  BY <2>8, <2>10, <2>14, <3>3, <4>2
    <3> QED  BY <3>2, <3>3
  <2>15. \A d \in Directions, c \in WithHalo(block'[r]) : Receives(block'[r], d, c, FALSE) =>
           field'[r].gid[c] = IF neighbor'[r][d] # ProcNull /\ Got(r, d)'
                              THEN Numbered(neighbor[r][d], Round(r))'[Facing(r, d, c, FALSE)']
                              ELSE NoIds'
    <3>1. \A d \in Directions, c \in WithHalo(b) :
            Numbered(neighbor[r][d], Round(r))'[Facing(r, d, c, FALSE)']
              = Numbered(neighbor[r][d], n)[Facing(r, d, c, FALSE)]
      BY <2>4, <2>5, <2>6
    <3> QED  BY <2>4, <2>14, <3>1
  <2>16. Round(r)' # 0
    BY <2>1, <2>7
  <2> QED  BY <2>12, <2>13, <2>15, <2>16 DEF IdsOf
<1> QED  BY <1>1, <1>2, <1>3, <1>4, WhichPhase

LEMMA NextIds ==
  ASSUME LayoutInv, ProgressInv, WireInv, Registered, NEW r \in Ranks, RankStep(r),
         \A q \in Ranks : IdsOf(q)
  PROVE  \A q \in Ranks : IdsOf(q)'
<1>1. /\ UNCHANGED grid /\ status = "running"
      /\ \A q \in Ranks \ {r} : field'[q] = field[q] /\ at'[q] = at[q]
  BY Others, StepIs
<1>2. ASSUME NEW q \in Ranks, field'[q].gid = field[q].gid, at'[q] = at[q] PROVE IdsOf(q)'
  BY <1>1, <1>2, SameIds DEF Round, Got
<1>3. IdsOf(r)'
  <2>1. CASE EnterSum(r)
    BY <1>2, <2>1 DEF EnterSum
  <2>2. CASE Post(r)
    <3>1. field'[r].gid = field[r].gid
      BY <2>2 DEF Post, Registered, Fresh
    <3>2. at' = at
      BY <2>2 DEF Post
    <3> QED  BY <1>2, <3>1, <3>2
  <2> QED  BY <2>1, <2>2, IdsAfterSum, IdsAfterComplete DEF RankStep
<1> QED  BY <1>1, <1>2, <1>3

-----------------------------------------------------------------------------
(* The other fields.                                                       *)

Is(r, f, c, n) == field[r][f][c] = [cell |-> Global(block[r], c), call |-> n]
InCall(r) == at[r].part \in 3..Parts /\ (posted[r] \/ at[r].phase = 2)

FieldOf(r) ==
  /\ \A f \in Fields, c \in WithHalo(block[r]) :
       field[r][f][c].cell \in {Global(block[r], c), NoValue.cell}
  /\ InCall(r) => \A f \in Fields, c \in Written(block[r]) : Is(r, f, c, at[r].part - 2)
  /\ InCall(r) /\ at[r].phase = 2 =>
       \A f \in Calls[at[r].part - 2].fields, c \in WithHalo(block[r]) :
         c[2] \in 1..block[r].nyl => Is(r, f, c, at[r].part - 2)
  /\ at[r].part > 3 /\ at[r].phase = 1 /\ ~posted[r] => CallCurrent(r, at[r].part - 3)

LEMMA SameFields ==
  ASSUME UNCHANGED grid, NEW q \in Ranks, FieldOf(q), \A f \in Fields : field'[q][f] = field[q][f],
         at'[q] = at[q], InCall(q)' => InCall(q),
         at[q].part > 3 /\ at[q].phase = 1 /\ ~posted'[q] => ~posted[q],
         at[q] \in Positions \union {Finish}
  PROVE  FieldOf(q)'
<1>1. block' = block /\ \A b, c : Written(b)' = Written(b)
  BY DEF grid, Written, InDomain
<1>2. \A f \in Fields : \A c, n : Is(q, f, c, n)' <=> Is(q, f, c, n)
  BY <1>1 DEF Is
<1>3. ASSUME InCall(q)'
      PROVE  /\ \A f \in Fields, c \in Written(block[q]) : Is(q, f, c, at[q].part - 2)
             /\ at[q].part - 2 \in 1..Len(Calls)
  <2>1. InCall(q)
    BY <1>3
  <2>2. at[q].part - 2 \in 1..Len(Calls)
    BY <2>1, CallsAre DEF InCall, Parts
  <2> QED  BY <2>1, <2>2 DEF FieldOf
<1>4. ASSUME at[q].part > 3, at[q].phase = 1, ~posted'[q], NEW n, n = at[q].part - 3
      PROVE  CallCurrent(q, n)'
  <2>1. n \in 1..Len(Calls)
    <3>1. at[q].part \in 1..Parts + 1 /\ Parts = 2 + Len(Calls) /\ Len(Calls) \in Nat
      BY CallsAre DEF Positions, Finish, Parts
    <3> QED  BY <1>4, <3>1
  <2>2. Calls[n].fields \in SUBSET Fields
    BY <2>1, CallsAre
  <2>3. CallCurrent(q, n)
    BY <1>4 DEF FieldOf
  <2>4. \A c : InDomain(c)' <=> InDomain(c)
    BY DEF grid, InDomain
  <2> QED  BY <1>1, <2>2, <2>3, <2>4 DEF CallCurrent
<1>5. \A f \in Fields, c \in WithHalo(block'[q]) :
        field'[q][f][c].cell \in {Global(block'[q], c), NoValue.cell}
  BY <1>1 DEF FieldOf
<1>6. ASSUME InCall(q)' PROVE \A f \in Fields, c \in Written(block[q])' : Is(q, f, c, at[q].part - 2)'
  <2>1. ASSUME NEW n, n = at[q].part - 2, NEW f \in Fields, NEW c \in Written(block[q])'
        PROVE  Is(q, f, c, n)'
    <3>1. c \in Written(block[q])
      BY <1>1
    <3>2. Is(q, f, c, n)
      BY <1>3, <1>6, <2>1, <3>1
    <3> QED  BY <1>2, <3>2
  <2> QED  BY <2>1
<1>7. ASSUME InCall(q)', at'[q].phase = 2
      PROVE  \A f \in Calls[at[q].part - 2].fields, c \in WithHalo(block'[q]) :
               c[2] \in 1..block'[q].nyl => Is(q, f, c, at[q].part - 2)'
  <2>1. ASSUME NEW n, n = at[q].part - 2, NEW f \in Calls[n].fields, NEW c \in WithHalo(block[q]),
               c[2] \in 1..block[q].nyl
        PROVE  Is(q, f, c, n)'
    <3>1. f \in Fields
      BY <1>3, <1>7, <2>1, CallsAre
    <3>2. Is(q, f, c, n)
      BY <1>7, <2>1 DEF FieldOf
    <3> QED  BY <1>2, <3>1, <3>2
  <2> QED  BY <1>1, <2>1
<1>8. at'[q].part > 3 /\ at'[q].phase = 1 /\ ~posted'[q] => CallCurrent(q, at[q].part - 3)'
  <2>1. ASSUME at[q].part > 3, at[q].phase = 1, ~posted'[q]
        PROVE  CallCurrent(q, at[q].part - 3)'
    <3>1. ASSUME NEW n, n = at[q].part - 3 PROVE CallCurrent(q, n)'
      BY <1>4, <2>1, <3>1
    <3> QED  BY <3>1
  <2> QED  BY <2>1
<1> QED  BY <1>5, <1>6, <1>7, <1>8 DEF FieldOf

\* A cell beyond a side that has no neighbour is outside the domain, a corner
\* of the halo too.
LEMMA NoNeighbor ==
  ASSUME LayoutInv, status = "running", NEW r \in Ranks, NEW d \in Directions, NEW wide \in BOOLEAN,
         NEW c \in WithHalo(block[r]), Receives(block[r], d, c, wide), neighbor[r][d] = ProcNull
  PROVE  ~InDomain(Global(block[r], c))
<1> DEFINE b == block[r]
           x == c[1]
           y == c[2]
           along == IF AlongX(d) THEN <<x, 1>> ELSE <<1, y>>
<1>1. /\ b.i0 \in Nat /\ b.j0 \in Nat /\ b.nxl \in Nat \ {0} /\ b.nyl \in Nat \ {0}
      /\ b.i0 + b.nxl <= request.nx /\ b.j0 + b.nyl <= request.ny
  BY BlockTypes
<1>2. x \in 0..b.nxl + 1 /\ y \in 0..b.nyl + 1 /\ request.nx \in Nat /\ request.ny \in Nat
  BY Blocks DEF WithHalo
<1>3. Across(d, c) = ReceivePlane(b, d)
  BY DEF Receives
<1>4. CASE AlongX(d)
  <2>1. along = <<x, 1>> /\ x = ReceivePlane(b, d)
    BY <1>3, <1>4 DEF Across
  <2>2. along \in WithHalo(b)
    <3> HIDE DEF x, b
    <3> QED  BY <1>1, <1>2, <2>1 DEF WithHalo
  <2>3. Receives(b, d, along, FALSE)
    <3>1. Row(d, along, FALSE) = 1 - 1 /\ RowCells(b, d, FALSE) = b.nyl
      BY <1>4, <2>1 DEF Row, RowStart, RowCells
    <3> DEFINE m == b.nyl
               row == Row(d, along, FALSE)
               cells == RowCells(b, d, FALSE)
    <3>3. m \in Nat \ {0} /\ row = 1 - 1 /\ cells = m
      BY <1>1, <3>1
    <3>2. Row(d, along, FALSE) \in 0..RowCells(b, d, FALSE) - 1
      <4> HIDE DEF m, row, cells
      <4>1. row \in 0..cells - 1
        BY <3>3
      <4> QED  BY <4>1 DEF row, cells
    <3> QED  BY <1>4, <2>1, <3>2 DEF Receives, Across
  <2>4. ~InDomain(Global(b, along))
    BY <2>2, <2>3, Beside
  <2>5. Global(b, along) = <<b.i0 + x - 1, b.j0 + 1 - 1>> /\ Global(b, c) = <<b.i0 + x - 1, b.j0 + y - 1>>
    BY <2>1 DEF Global
  <2> HIDE DEF x, y, along, b
  <2>6. b.j0 + 1 - 1 \in 0..request.ny - 1
    BY <1>1, <1>2
  <2>7. b.i0 + x - 1 \notin 0..request.nx - 1
    BY <2>4, <2>5, <2>6 DEF InDomain
  <2> QED  BY <2>5, <2>7 DEF InDomain, b
<1>5. CASE ~AlongX(d)
  <2>1. along = <<1, y>> /\ y = ReceivePlane(b, d)
    BY <1>3, <1>5 DEF Across
  <2>2. along \in WithHalo(b)
    <3> HIDE DEF y, b
    <3> QED  BY <1>1, <1>2, <2>1 DEF WithHalo
  <2>3. Receives(b, d, along, FALSE)
    <3>1. Row(d, along, FALSE) = 1 - 1 /\ RowCells(b, d, FALSE) = b.nxl
      BY <1>5, <2>1 DEF Row, RowStart, RowCells
    <3> DEFINE m == b.nxl
               row == Row(d, along, FALSE)
               cells == RowCells(b, d, FALSE)
    <3>3. m \in Nat \ {0} /\ row = 1 - 1 /\ cells = m
      BY <1>1, <3>1
    <3>2. Row(d, along, FALSE) \in 0..RowCells(b, d, FALSE) - 1
      <4> HIDE DEF m, row, cells
      <4>1. row \in 0..cells - 1
        BY <3>3
      <4> QED  BY <4>1 DEF row, cells
    <3> QED  BY <1>5, <2>1, <3>2 DEF Receives, Across
  <2>4. ~InDomain(Global(b, along))
    BY <2>2, <2>3, Beside
  <2>5. Global(b, along) = <<b.i0 + 1 - 1, b.j0 + y - 1>> /\ Global(b, c) = <<b.i0 + x - 1, b.j0 + y - 1>>
    BY <2>1 DEF Global
  <2> HIDE DEF x, y, along, b
  <2>6. b.i0 + 1 - 1 \in 0..request.nx - 1
    BY <1>1, <1>2
  <2>7. b.j0 + y - 1 \notin 0..request.ny - 1
    BY <2>4, <2>5, <2>6 DEF InDomain
  <2> QED  BY <2>5, <2>7 DEF InDomain, b
<1> QED  BY <1>4, <1>5

\* What a rank packs is the message of its position.
LEMMA Packed ==
  ASSUME LayoutInv, ProgressInv, Registered, NEW r \in Ranks, Post(r), IdsOf(r), FieldOf(r)
  PROVE  \A d \in DOMAIN Outgoing(r) :
           Pack(Packing(r), block[r], d, PhaseOf(r)) = Message(r, at[r], d)
<1> DEFINE p == at[r]
           phase == PhaseAt(p)
           b == block[r]
<1>1. /\ status = "running" /\ p \in Positions /\ PhaseOf(r) = phase /\ phase.kind # "sum"
      /\ InBuild(p) \/ InExchange(p)
  BY StepIs, AtPosition, WhichPhase DEF RankStep, Post, In
<1>2. SUFFICES ASSUME NEW d \in DOMAIN Outgoing(r), NEW f \in phase.fields,
                      NEW row \in 0..RowCells(b, d, phase.wide) - 1
               PROVE  Packing(r)[f][SendCell(b, d, row, phase.wide)]
                        = Value(r, p, f, SendCell(b, d, row, phase.wide))
  BY <1>1 DEF Pack, Message
<1> DEFINE c == SendCell(b, d, row, phase.wide)
<1>3. d \in Directions
  <2>1. d \in DOMAIN phase.sends
    BY <1>1 DEF Outgoing
  <2> QED  BY <1>1, <2>1, PhaseIs DEF Paired
<1>4. /\ c \in WithHalo(b) /\ c[2] \in 1..b.nyl
      /\ AlongX(d) \/ ~phase.wide => c \in Interior(b)
  BY <1>1, <1>3, SendCellIs
<1> HIDE DEF c
<1>5. CASE InBuild(p)
  <2>1. phase.kind = "ids" /\ f = "gid" /\ phase.wide = FALSE
    <3>1. phase.kind = "ids" /\ phase.fields = {"gid"} /\ phase.wide = FALSE
      BY <1>1, <1>5, PhaseIs
    <3>2. f \in phase.fields
      BY <1>2
    <3> HIDE DEF phase
    <3> QED  BY <3>1, <3>2
  <2>2. Packing(r)[f] = field[r].gid
    BY <1>1, <2>1 DEF Packing
  <2>3. Round(r) = p.part /\ Round(r) # 0
    <3>1. p.part <= 2 /\ p.phase > 1 /\ p.part \in 1..Parts /\ Parts \in Nat
      BY <1>1, <1>5, PhaseIs, CallsAre DEF InBuild
    <3>2. Round(r) = p.part
      BY <3>1 DEF Round
    <3> QED  BY <3>1, <3>2
  <2>4. field[r].gid[c] = Numbered(r, p.part)[c]
    BY <1>4, <2>1, <2>3 DEF IdsOf
  <2> QED  BY <2>1, <2>2, <2>4 DEF Value, c
<1>6. CASE InExchange(p)
  <2>1. /\ f \in Calls[p.part - 2].fields /\ phase.call = p.part - 2 /\ p.phase \in 1..2
        /\ phase.kind = (IF p.phase = 1 THEN "first" ELSE "next") /\ p.part - 2 \in 1..Len(Calls)
        /\ p.phase = 1 => phase.wide = FALSE
    BY <1>1, <1>6, PhaseIs
  <2>2. f \in Fields /\ f # "gid"
    BY <2>1, CallsAre, HaloAssumption
  <2>3. Value(r, p, f, c) = [cell |-> Global(b, c), call |-> p.part - 2]
    BY <2>1, <2>2 DEF Value
  <2>4. CASE p.phase = 1
    <3>1. Packing(r) = Fresh(r, p.part - 2) /\ c \in Interior(b)
      BY <1>1, <1>4, <2>1, <2>4 DEF Packing
    <3>2. c \in Written(b)
      BY <1>4, <3>1 DEF Written
    <3>3. Fresh(r, p.part - 2)[f][c] = [cell |-> Global(b, c), call |-> p.part - 2]
      BY <1>4, <2>2, <3>2 DEF Fresh, Registered
    <3> QED  BY <2>3, <3>1, <3>3 DEF c
  <2>5. CASE p.phase = 2
    <3>1. Packing(r) = field[r]
      BY <1>1, <2>1, <2>5 DEF Packing
    <3>2. InCall(r)
      <4>1. p.part > 2 /\ p.part \in 1..Parts /\ Parts \in Nat
        BY <1>1, <1>6, PhaseIs, CallsAre DEF InExchange
      <4> QED  BY <2>5, <4>1 DEF InCall
    <3>3. Is(r, f, c, p.part - 2)
      BY <1>4, <2>1, <2>5, <3>2 DEF FieldOf
    <3> QED  BY <2>3, <3>1, <3>3 DEF Is, c
  <2>6. p.phase = 1 \/ p.phase = 2
    BY <2>1
  <2> QED  BY <2>4, <2>5, <2>6
<1> QED  BY <1>1, <1>5, <1>6

LEMMA FieldsAfterPost ==
  ASSUME LayoutInv, ProgressInv, Registered, NEW r \in Ranks, Post(r), FieldOf(r)
  PROVE  FieldOf(r)'
<1> DEFINE p == at[r]
           n == p.part - 2
           b == block[r]
<1>1. /\ status = "running" /\ p \in Positions /\ UNCHANGED grid /\ PhaseOf(r) = PhaseAt(p)
      /\ InBuild(p) \/ InExchange(p)
  BY StepIs, AtPosition, WhichPhase DEF RankStep, Post, In
<1>2. at' = at /\ posted'[r] /\ block' = block
  BY <1>1 DEF Post, ProgressInv, grid
<1>3. p.part \in 1..Parts /\ p.phase \in 1..5 /\ Parts \in Nat
  BY <1>1, PhaseIs, CallsAre
<1>4. ASSUME PhaseAt(p).kind # "first" PROVE FieldOf(r)'
  <2>1. field'[r] = field[r]
    BY <1>1, <1>4 DEF Post, Registered
  <2>2. InCall(r)' => InCall(r)
    <3>1. ASSUME p.part > 2 PROVE p.phase = 2
      <4>1. p.phase \in 1..2 /\ PhaseAt(p).kind = (IF p.phase = 1 THEN "first" ELSE "next")
        BY <1>1, <3>1, PhaseIs DEF InExchange
      <4>2. p.phase # 1
        BY <1>4, <4>1
      <4> QED  BY <4>1, <4>2
    <3>2. InCall(r)' => p.part > 2 /\ p.part \in 3..Parts
      BY <1>2, <1>3 DEF InCall
    <3> QED  BY <3>1, <3>2 DEF InCall
  <2> QED  BY <1>1, <1>2, <2>1, <2>2, SameFields
<1>5. ASSUME PhaseAt(p).kind = "first" PROVE FieldOf(r)'
  <2>1. InExchange(p)
    <3>1. InBuild(p) => PhaseAt(p).kind = "ids"
      BY <1>1, PhaseIs
    <3> QED  BY <1>1, <1>5, <3>1
  <2>2. PhaseAt(p).call = n /\ p.phase \in 1..2 /\ PhaseAt(p).kind = (IF p.phase = 1 THEN "first" ELSE "next")
    BY <1>1, <2>1, PhaseIs
  <2>3. p.phase = 1
    BY <1>5, <2>2
  <2>4. field'[r] = Fresh(r, n)
    BY <1>1, <1>5, <2>2 DEF Post, Registered
  <2>5. ASSUME NEW f \in Fields, NEW c \in WithHalo(b)
        PROVE  field'[r][f][c] = IF c \in Written(b) THEN [cell |-> Global(b, c), call |-> n]
                                 ELSE field[r][f][c]
    <3>1. f \in DOMAIN field[r] /\ f # "gid"
      BY HaloAssumption DEF Registered
    <3> QED  BY <2>4, <3>1 DEF Fresh
  <2>6. \A f \in Fields, c \in WithHalo(b) : field'[r][f][c].cell \in {Global(b, c), NoValue.cell}
    <3>1. \A f \in Fields, c \in WithHalo(b) : field[r][f][c].cell \in {Global(b, c), NoValue.cell}
      BY DEF FieldOf
    <3>2. \A cell : [cell |-> cell, call |-> n].cell = cell
      OBVIOUS
    <3> HIDE DEF n, b
    <3> QED  BY <2>5, <3>1, <3>2
  <2>7. \A f \in Fields, c \in Written(b) : field'[r][f][c] = [cell |-> Global(b, c), call |-> n]
    BY <2>5 DEF Written
  <2>8. Written(b)' = Written(b)
    BY <1>1 DEF grid, Written, InDomain
  <2> QED  BY <1>2, <2>3, <2>6, <2>7, <2>8 DEF FieldOf, Is
<1> QED  BY <1>4, <1>5

\* Where a rank is after it completes a position.
LEMMA NextPlace ==
  ASSUME ProgressInv, NEW r \in Ranks, at[r] \in Positions, Leaves(r)
  PROVE  /\ ~posted'[r] /\ at[r].part \in 1..Parts /\ Parts \in Nat /\ at[r].phase \in 1..5
         /\ at[r].part <= 2 => at'[r].part \in 1..3 /\ (at'[r].part = 3 => at'[r].phase = 1)
         /\ at[r].part > 2 =>
              IF Calls[at[r].part - 2].corners /\ at[r].phase = 1
              THEN at'[r].part = at[r].part /\ at'[r].phase = 2
              ELSE at'[r].part = at[r].part + 1 /\ at'[r].phase = 1
<1> DEFINE p == at[r].part
           h == at[r].phase
           n == Len(Program[p])
<1>1. p \in 1..Parts /\ Parts \in Nat /\ h \in 1..5 /\ h <= n /\ at[r] = [part |-> p, phase |-> h]
  BY PhaseIs, CallsAre DEF Positions
<1>2. at'[r] = Onward(r) /\ ~posted'[r]
  BY DEF Leaves, ProgressInv
<1>3. at'[r] = IF h < n THEN [part |-> p, phase |-> h + 1] ELSE [part |-> p + 1, phase |-> 1]
  BY <1>1, <1>2 DEF Onward
<1>4. /\ h < n => at'[r].part = p /\ at'[r].phase = h + 1
      /\ ~(h < n) => at'[r].part = p + 1 /\ at'[r].phase = 1
  BY <1>3
<1> HIDE DEF h, n, p
<1>5. ASSUME p <= 2 PROVE at'[r].part \in 1..3 /\ (at'[r].part = 3 => at'[r].phase = 1)
  BY <1>1, <1>4, <1>5
<1>6. ASSUME p > 2
      PROVE  IF Calls[p - 2].corners /\ h = 1 THEN at'[r].part = p /\ at'[r].phase = 2
             ELSE at'[r].part = p + 1 /\ at'[r].phase = 1
  <2>1. n = IF Calls[p - 2].corners THEN 2 ELSE 1
    BY <1>1, <1>6, PartIs DEF n
  <2>2. CASE Calls[p - 2].corners
    <3>1. n = 2
      BY <2>1, <2>2
    <3>2. CASE h = 1
      <4>1. h < n /\ h + 1 = 2
        BY <3>1, <3>2
      <4> QED  BY <1>4, <2>2, <3>2, <4>1
    <3>3. CASE h # 1
      <4>1. ~(h < n)
        BY <1>1, <3>1, <3>3
      <4> QED  BY <1>4, <3>3, <4>1
    <3> QED  BY <3>2, <3>3
  <2>3. CASE ~Calls[p - 2].corners
    <3>1. n = 1
      BY <2>1, <2>3
    <3>2. ~(h < n)
      BY <1>1, <3>1
    <3> QED  BY <1>4, <2>3, <3>2
  <2> QED  BY <2>2, <2>3
<1> QED  BY <1>1, <1>2, <1>5, <1>6 DEF p, h

\* Before the first call nothing but their places is known of the fields.
LEMMA EarlyFields ==
  ASSUME ProgressInv, UNCHANGED grid, NEW r \in Ranks, at[r] \in Positions, FieldOf(r),
         at[r].part <= 2, \A f \in Fields : field'[r][f] = field[r][f],
         Leaves(r)
  PROVE  FieldOf(r)'
<1>1. ~posted'[r] /\ at'[r].part \in 1..3 /\ (at'[r].part = 3 => at'[r].phase = 1)
  BY NextPlace
<1>2. ~InCall(r)' /\ ~(at'[r].part > 3)
  <2>1. at'[r].part \in 3..Parts => at'[r].part = 3
    BY <1>1, CallsAre
  <2>2. at'[r].part = 3 => at'[r].phase # 2
    BY <1>1
  <2> QED  BY <1>1, <2>1, <2>2 DEF InCall
<1>3. \A f \in Fields, c \in WithHalo(block'[r]) :
        field'[r][f][c].cell \in {Global(block'[r], c), NoValue.cell}
  BY DEF grid, FieldOf
<1> QED  BY <1>2, <1>3 DEF FieldOf

LEMMA FieldsAfterSum ==
  ASSUME ProgressInv, Registered, NEW r \in Ranks, EnterSum(r) \/ LeaveSum(r), FieldOf(r)
  PROVE  FieldOf(r)'
<1>1. at[r] \in Positions /\ UNCHANGED grid
  BY StepIs DEF RankStep
<1>2. at[r].part \in 1..2 /\ at[r].part <= 2
  <2>1. at[r].part \in 1..2
    BY <1>1, WhichPhase DEF EnterSum, LeaveSum, In
  <2> QED  BY <2>1
<1>3. CASE EnterSum(r)
  <2>1. field' = field /\ at' = at
    BY <1>3 DEF EnterSum
  <2>2. ~(at[r].part \in 3..Parts) /\ ~(at[r].part > 3)
    BY <1>2, CallsAre
  <2> QED  BY <1>1, <2>1, <2>2, SameFields DEF InCall
<1>4. CASE LeaveSum(r)
  <2>1. Leaves(r)
    BY <1>4, StepIs DEF RankStep
  <2>2. \A f \in Fields : field'[r][f] = field[r][f]
    BY <1>4, HaloAssumption DEF LeaveSum, Registered
  <2> QED  BY <1>1, <1>2, <2>1, <2>2, EarlyFields
<1> QED  BY <1>3, <1>4

\* A call's unpacks bring the values of that call.
LEMMA FieldsAfterComplete ==
  ASSUME LayoutInv, ProgressInv, WireInv, Registered, NEW r \in Ranks, Complete(r), FieldOf(r)
  PROVE  FieldOf(r)'
<1> DEFINE p == at[r]
           n == p.part - 2
           b == block[r]
           phase == PhaseOf(r)
           New(f, c) == field'[r][f][c] = [cell |-> Global(b, c), call |-> n]
<1>1. /\ status = "running" /\ p \in Positions /\ UNCHANGED grid /\ Leaves(r) /\ posted[r]
      /\ phase = PhaseAt(p) /\ (InBuild(p) \/ InExchange(p))
  BY StepIs, AtPosition, WhichPhase DEF RankStep, Complete, In
<1>2. <<0, 0>> \in WithHalo(b)
  BY <1>1, BlockTypes DEF WithHalo
<1>3. CASE InBuild(p)
  <2>1. phase.fields = {"gid"} /\ p.part <= 2
    BY <1>1, <1>3, PhaseIs DEF InBuild
  <2>2. \A f \in Fields : f \notin phase.fields
    BY <2>1, HaloAssumption
  <2>3. \A f \in Fields : field'[r][f] = field[r][f]
    BY <1>2, <2>2, Unpacked
  <2> QED  BY <1>1, <2>1, <2>3, EarlyFields
<1>4. CASE InExchange(p)
  <2>1. /\ n \in 1..Len(Calls) /\ phase.fields = Calls[n].fields /\ phase.call = n
        /\ p.phase \in 1..2 /\ phase.wide \in BOOLEAN
        /\ p.phase = 1 => phase.wide = FALSE
        /\ p.phase = 2 => phase.wide = TRUE /\ Calls[n].corners
        /\ DOMAIN phase.receives = IF ~Calls[n].corners THEN Directions
                                   ELSE IF p.phase = 1 THEN {West, East} ELSE {South, North}
    <3>1. /\ n \in 1..Len(Calls) /\ phase.fields = Calls[n].fields /\ phase.call = n
          /\ p.phase \in 1..2
          /\ p.phase = 1 => phase.wide = FALSE
          /\ p.phase = 2 => phase.wide = TRUE /\ Calls[n].corners
          /\ DOMAIN phase.receives = IF ~Calls[n].corners THEN Directions
                                     ELSE IF p.phase = 1 THEN {West, East} ELSE {South, North}
      <4> HIDE DEF p
      <4>1. p \in Positions /\ InExchange(p) /\ phase = PhaseAt(p)
        BY <1>1, <1>4
      <4> HIDE DEF phase
      <4>2. /\ p.part - 2 \in 1..Len(Calls) /\ PhaseAt(p).fields = Calls[p.part - 2].fields
            /\ PhaseAt(p).call = p.part - 2 /\ p.phase \in 1..2
            /\ p.phase = 1 => PhaseAt(p).wide = FALSE
            /\ p.phase = 2 => PhaseAt(p).wide = TRUE /\ Calls[p.part - 2].corners
        BY <4>1, PhaseIs
      <4>3. DOMAIN PhaseAt(p).receives = IF ~Calls[p.part - 2].corners THEN Directions
                                         ELSE IF p.phase = 1 THEN {West, East} ELSE {South, North}
        BY <4>1, PhaseIs
      <4> QED  BY <4>1, <4>2, <4>3
    <3>2. p.phase = 1 \/ p.phase = 2
      BY <3>1
    <3>3. phase.wide = TRUE \/ phase.wide = FALSE
      BY <3>1, <3>2, Zenon
    <3> QED  BY <3>1, <3>3
  <2>2. Calls[n].fields \in SUBSET Fields /\ Calls[n].corners \in BOOLEAN
    BY <2>1, CallsAre
  <2>3. InCall(r)
    <3>1. p.part > 2 /\ p.part \in 1..Parts /\ Parts \in Nat
      BY <1>1, <1>4, PhaseIs, CallsAre DEF InExchange
    <3> QED  BY <1>1, <3>1 DEF InCall
  <2>4. /\ ~posted'[r]
        /\ IF Calls[n].corners /\ p.phase = 1
           THEN at'[r].part = p.part /\ at'[r].phase = 2
           ELSE at'[r].part = p.part + 1 /\ at'[r].phase = 1
    BY <1>1, <1>4, NextPlace DEF InExchange
  <2>5. ASSUME NEW f \in Fields, NEW c \in WithHalo(b)
        PROVE  /\ field'[r][f][c] = field[r][f][c] \/ New(f, c)
               /\ f \in phase.fields /\ Sides(r, c) # {} => New(f, c)
    <3>1. ASSUME NEW d \in Sides(r, c), neighbor[r][d] \in Ranks, f \in phase.fields,
                 field'[r][f][c] = Value(neighbor[r][d], at[r], f, Facing(r, d, c, phase.wide))
          PROVE  New(f, c)
      <4>1. /\ d \in DOMAIN phase.receives /\ neighbor[r][d] # ProcNull
            /\ Receives(b, d, c, phase.wide)
        BY DEF Sides, Incoming
      <4>2. d \in Directions
        BY <1>1, <4>1, PhaseIs DEF Paired
      <4>3. Global(block[neighbor[r][d]], Facing(r, d, c, phase.wide)) = Global(b, c)
        BY <1>1, <4>1, <4>2, FacingIs
      <4>4. f # "gid"
        BY HaloAssumption
      <4> QED  BY <1>1, <2>1, <3>1, <4>3, <4>4 DEF Value
    <3>2. CASE f \in phase.fields /\ Sides(r, c) # {}
      <4>1. PICK d \in Sides(r, c) :
              /\ neighbor[r][d] \in Ranks
              /\ field'[r][f][c] = Value(neighbor[r][d], at[r], f, Facing(r, d, c, phase.wide))
        BY <3>2, Unpacked
      <4> QED  BY <3>1, <3>2, <4>1
    <3>3. CASE ~(f \in phase.fields /\ Sides(r, c) # {})
      BY <3>3, Unpacked
    <3> QED  BY <3>2, <3>3
  <2>6. ASSUME NEW f \in Fields, NEW c \in WithHalo(b), Is(r, f, c, n) PROVE New(f, c)
    BY <2>5, <2>6 DEF Is
  <2>7. \A f \in Fields, c \in Written(b) : c \in WithHalo(b) /\ New(f, c)
    BY <2>3, <2>6 DEF FieldOf, Written
  <2>8. ASSUME NEW f \in phase.fields, NEW c \in WithHalo(b), NEW d \in DOMAIN phase.receives,
               Receives(b, d, c, phase.wide), ~Corner(b, c) \/ InDomain(Global(b, c))
        PROVE  New(f, c)
    <3>1. d \in Directions /\ f \in Fields
      BY <1>1, <2>1, <2>2, PhaseIs DEF Paired
    <3>2. CASE neighbor[r][d] = ProcNull
      <4>1. ~InDomain(Global(b, c))
        BY <1>1, <2>1, <2>8, <3>1, <3>2, NoNeighbor
      <4>2. c \in Written(b)
        BY <2>8, <4>1 DEF Written
      <4> QED  BY <2>7, <3>1, <4>2
    <3>3. CASE neighbor[r][d] # ProcNull
      <4>1. d \in Sides(r, c)
        BY <2>8, <3>3 DEF Sides, Incoming
      <4> QED  BY <2>5, <3>1, <4>1
    <3> QED  BY <3>2, <3>3
  <2>9. \A f \in Fields, c \in Interior(b) : c \in WithHalo(b) /\ New(f, c)
    <3>1. \A c \in Interior(b) : c \in Written(b)
      BY <1>1, BlockTypes DEF Interior, WithHalo, Written
    <3> QED  BY <2>7, <3>1
  <2>10. /\ block' = block /\ Written(b)' = Written(b)
         /\ \A c : InDomain(c)' <=> InDomain(c)
    BY <1>1 DEF grid, Written, InDomain
  <2>11. \A f \in Fields, c \in WithHalo(b) : field'[r][f][c].cell \in {Global(b, c), NoValue.cell}
    <3>1. \A f \in Fields, c \in WithHalo(b) : field[r][f][c].cell \in {Global(b, c), NoValue.cell}
      BY DEF FieldOf
    <3>2. \A cell : [cell |-> cell, call |-> n].cell = cell
      OBVIOUS
    <3> QED  BY <2>5, <3>1, <3>2
  <2> HIDE DEF New
  <2>12. CASE Calls[n].corners /\ p.phase = 1
    <3>1. ASSUME NEW f \in Calls[n].fields, NEW c \in WithHalo(b), c[2] \in 1..b.nyl
          PROVE  New(f, c)
      <4>1. f \in Fields
        BY <2>2
      <4>2. c \in Interior(b) \/ \E d \in Directions : Receives(b, d, c, FALSE)
        BY <1>1, <3>1, Planes
      <4>3. CASE c \in Interior(b)
        BY <2>9, <4>1, <4>3
      <4>4. ASSUME NEW d \in Directions, Receives(b, d, c, FALSE) PROVE New(f, c)
        <5>1. d \in {West, East}
          <6>1. d \in {South, North} => c[2] \notin 1..b.nyl
            <7>1. b.nyl \in Nat \ {0}
              BY <1>1, BlockTypes
            <7>2. d = South => c[2] = 0
              BY <4>4 DEF Receives, Across, ReceivePlane, AlongX, West, East, South, North
            <7>3. d = North => c[2] = b.nyl + 1
              BY <4>4 DEF Receives, Across, ReceivePlane, AlongX, West, East, South, North
            <7> HIDE DEF b
            <7> QED  BY <7>1, <7>2, <7>3
          <6> QED  BY <3>1, <4>4, <6>1 DEF Directions
        <5>2. d \in DOMAIN phase.receives /\ phase.wide = FALSE /\ f \in phase.fields
          BY <2>1, <2>12, <5>1
        <5>3. ~Corner(b, c)
          BY <1>1, <4>4, Planes
        <5> QED  BY <2>8, <4>4, <5>2, <5>3
      <4> QED  BY <4>2, <4>3, <4>4
    <3>2. at'[r].part - 2 = n /\ at'[r].phase = 2 /\ ~posted'[r]
      BY <2>4, <2>12
    <3> QED  BY <2>7, <2>10, <2>11, <3>1, <3>2 DEF FieldOf, Is, New
  <2>13. CASE ~(Calls[n].corners /\ p.phase = 1)
    <3>1. ASSUME NEW f \in Calls[n].fields, NEW c \in WithHalo(b),
                 ~Corner(b, c) \/ (Calls[n].corners /\ InDomain(Global(b, c)))
          PROVE  New(f, c)
      <4>0. f \in Fields /\ f \in phase.fields
        BY <2>1, <2>2
      <4>1. CASE c \in Interior(b)
        BY <2>9, <4>0, <4>1
      <4>2. CASE c \notin Interior(b) /\ ~Calls[n].corners
        <5>1. PICK d \in Directions : Receives(b, d, c, FALSE)
          BY <1>1, <3>1, <4>2, Planes
        <5>2. p.phase = 1
          BY <2>1, <4>2
        <5>3. d \in DOMAIN phase.receives /\ phase.wide = FALSE
          BY <2>1, <4>2, <5>2
        <5> QED  BY <2>8, <3>1, <4>0, <5>1, <5>3
      <4>3. CASE c \notin Interior(b) /\ Calls[n].corners
        <5>1. p.phase = 2 /\ phase.wide = TRUE /\ DOMAIN phase.receives = {South, North}
          <6>1. p.phase = 1 \/ p.phase = 2
            BY <2>1
          <6>2. p.phase = 2 /\ 2 # 1
            BY <2>13, <4>3, <6>1
          <6> QED  BY <2>1, <4>3, <6>2
        <5>2. CASE c[2] \in 1..b.nyl
          <6>1. Is(r, f, c, n)
            BY <2>3, <4>0, <5>1, <5>2 DEF FieldOf
          <6> QED  BY <2>6, <4>0, <6>1
        <5>3. CASE c[2] \notin 1..b.nyl
          <6>1. /\ b.nxl \in Nat \ {0} /\ b.nyl \in Nat \ {0}
                /\ c[1] \in 0..b.nxl + 1 /\ c[2] \in 0..b.nyl + 1
            BY <1>1, BlockTypes DEF WithHalo
          <6>2. \E d \in {South, North} : Receives(b, d, c, TRUE)
            <7>1. /\ Row(South, c, TRUE) = c[1] - 0 /\ Row(North, c, TRUE) = c[1] - 0
                  /\ RowCells(b, South, TRUE) = b.nxl + 2 /\ RowCells(b, North, TRUE) = b.nxl + 2
                  /\ Across(South, c) = c[2] /\ Across(North, c) = c[2]
                  /\ ReceivePlane(b, South) = 0 /\ ReceivePlane(b, North) = b.nyl + 1
              BY DEF Row, RowCells, RowStart, Across, ReceivePlane, AlongX, West, East, South, North
            <7> DEFINE x == c[1]
                       y == c[2]
                       m == b.nxl
                       k == b.nyl
            <7>2. m \in Nat /\ k \in Nat /\ x \in 0..m + 1 /\ y \in 0..k + 1 /\ y \notin 1..k
              BY <5>3, <6>1
            <7> HIDE DEF x, y, m, k
            <7>3. x - 0 \in 0..(m + 2) - 1 /\ (y = 0 \/ y = k + 1)
              BY <7>2
            <7>4. /\ Row(South, c, TRUE) \in 0..RowCells(b, South, TRUE) - 1
                  /\ Row(North, c, TRUE) \in 0..RowCells(b, North, TRUE) - 1
              BY <7>1, <7>3 DEF x, m
            <7>5. c[2] = 0 \/ c[2] = b.nyl + 1
              BY <7>3 DEF y, k
            <7>6. CASE c[2] = 0
              <8>1. Receives(b, South, c, TRUE)
                BY <7>1, <7>4, <7>6 DEF Receives
              <8> QED  BY <8>1
            <7>7. CASE c[2] = b.nyl + 1
              <8>1. Receives(b, North, c, TRUE)
                BY <7>1, <7>4, <7>7 DEF Receives
              <8> QED  BY <8>1
            <7> QED  BY <7>5, <7>6, <7>7
          <6>3. PICK d \in {South, North} : Receives(b, d, c, TRUE)
            BY <6>2
          <6> QED  BY <2>8, <3>1, <4>0, <5>1, <6>3
        <5> QED  BY <5>2, <5>3
      <4> QED  BY <4>1, <4>2, <4>3
    <3>2. at'[r].part = p.part + 1 /\ at'[r].phase = 1 /\ ~posted'[r]
      BY <2>4, <2>13
    <3>3. ~InCall(r)' /\ at'[r].part - 3 = n
      <4>1. p.part \in Int
        <5>1. p.part \in 1..Parts /\ Parts \in Nat
          BY <1>1, NextPlace
        <5> QED  BY <5>1
      <4> QED  BY <3>2, <4>1 DEF InCall
    <3>4. ASSUME NEW m, m = n PROVE CallCurrent(r, m)'
      <4>1. ASSUME NEW f \in Calls[m].fields, NEW c \in WithHalo(b)
            PROVE  IF ~Corner(b, c) \/ (Calls[m].corners /\ InDomain(Global(b, c)))
                   THEN field'[r][f][c] = [cell |-> Global(b, c), call |-> m]
                   ELSE field'[r][f][c].cell \in {Global(b, c), NoValue.cell}
        BY <2>2, <2>11, <3>1, <3>4, <4>1 DEF New
      <4> HIDE DEF b
      <4>2. \A f \in Calls[m].fields, c \in WithHalo(b) :
              IF ~Corner(b, c) \/ (Calls[m].corners /\ InDomain(Global(b, c))')
              THEN field'[r][f][c] = [cell |-> Global(b, c), call |-> m]
              ELSE field'[r][f][c].cell \in {Global(b, c), NoValue.cell}
        <5>1. \A c : InDomain(Global(b, c))' <=> InDomain(Global(b, c))
          BY <1>1 DEF grid, InDomain, b
        <5> QED  BY <4>1, <5>1
      <4> QED  BY <2>10, <4>2 DEF CallCurrent, b
    <3>5. ASSUME NEW m, m = at'[r].part - 3 PROVE CallCurrent(r, m)'
      BY <3>3, <3>4, <3>5
    <3> QED  BY <2>10, <2>11, <3>3, <3>5 DEF FieldOf
  <2> QED  BY <2>12, <2>13
<1> QED  BY <1>1, <1>3, <1>4

LEMMA NextFields ==
  ASSUME LayoutInv, ProgressInv, WireInv, Registered, NEW r \in Ranks, RankStep(r),
         \A q \in Ranks : FieldOf(q)
  PROVE  \A q \in Ranks : FieldOf(q)'
<1>1. /\ UNCHANGED grid /\ at[r] \in Positions
      /\ \A q \in Ranks \ {r} : field'[q] = field[q] /\ at'[q] = at[q] /\ posted'[q] = posted[q]
  BY Others, StepIs
<1>2. ASSUME NEW q \in Ranks \ {r} PROVE FieldOf(q)'
  <2>1. at[q] \in Positions \union {Finish}
    BY DEF ProgressInv
  <2>2. InCall(q)' => InCall(q)
    BY <1>1 DEF InCall
  <2> QED  BY <1>1, <2>1, <2>2, SameFields
<1>3. FieldOf(r)'
  BY FieldsAfterSum, FieldsAfterPost, FieldsAfterComplete DEF RankStep
<1> QED  BY <1>2, <1>3

-----------------------------------------------------------------------------
(* The invariant.                                                          *)

MessagesInv ==
  /\ ProgressInv
  /\ status # "running" => wire = [k \in Channels |-> <<>>]
  /\ status = "running" =>
       /\ GateInv /\ WireInv /\ Registered
       /\ \A r \in Ranks : IdsOf(r) /\ FieldOf(r)

LEMMA Begins == Init => MessagesInv
<1> SUFFICES ASSUME Init PROVE MessagesInv
  OBVIOUS
<1>1. [part |-> 1, phase |-> 1] \in Positions
  <2>1. 1 \in 1..Parts /\ 1 \in 1..5
    BY CallsAre
  <2>2. 1 <= Len(Program[1])
    BY <2>1, LengthIs
  <2> QED  BY <2>1, <2>2 DEF Positions
<1>2. [part |-> 1, phase |-> 1] # Finish
  BY <1>1, Order
<1>3. ProgressInv
  BY <1>1, <1>2 DEF Init, ProgressInv
<1> QED  BY <1>3 DEF Init, MessagesInv, Channels

LEMMA Constructed ==
  ASSUME LayoutInv, LayoutInv', MessagesInv, Construct PROVE MessagesInv'
<1>1. /\ status = "starting" /\ request' = request /\ at' = at /\ posted' = posted /\ wire' = wire
      /\ Ranks' = Ranks /\ Channels' = Channels
  BY DEF Construct, Ranks, Channels
<1>2. \A r \in Ranks : at[r] = [part |-> 1, phase |-> 1] /\ ~posted[r]
  BY <1>1 DEF MessagesInv, ProgressInv
<1>3. wire = [k \in Channels |-> <<>>]
  BY <1>1 DEF MessagesInv
<1>4. wire' = [k \in Channels' |-> <<>>]
  BY <1>1, <1>3
<1>5. ProgressInv'
  BY <1>1, <1>2 DEF MessagesInv, ProgressInv
<1>6. ASSUME NEW p \in Positions, NEW r \in Ranks PROVE ~Precedes(p, at[r]) /\ ~Sent(r, p)
  <2>1. p.part \in 1..Parts /\ p.phase \in 1..5 /\ Parts \in Nat
    BY PhaseIs, CallsAre
  <2>2. ~Precedes(p, at[r])
    BY <1>2, <2>1 DEF Precedes
  <2> QED  BY <1>2, <2>2 DEF Sent
<1>7. ASSUME status' = "running"
      PROVE  /\ GateInv' /\ WireInv' /\ Registered'
             /\ \A r \in Ranks : IdsOf(r)' /\ FieldOf(r)'
  <2>1. GateInv'
    BY <1>1, <1>6 DEF GateInv, Precedes
  <2>2. WireInv'
    <3>1. wire' \in [Channels' -> Seq(Messages')]
      <4>1. <<>> \in Seq(Messages')
        OBVIOUS
      <4> QED  BY <1>1, <1>3, <4>1
    <3>2. ASSUME NEW k \in Channels
          PROVE  \E pos \in Seq(Positions) : InTransit(k, pos)'
      <4>1. <<>> \in Seq(Positions) /\ Len(<<>>) = 0 /\ 1..0 = {}
        OBVIOUS
      <4>2. wire'[k] = <<>> /\ k[1] \in Ranks
        BY <1>1, <1>3 DEF Channels
      <4>3. \A p \in Positions : ~Sent(k[1], p)'
        BY <1>1, <1>6, <4>2 DEF Sent, Precedes
      <4>4. InTransit(k, <<>>)'
        BY <4>1, <4>2, <4>3 DEF InTransit
      <4> QED  BY <4>1, <4>4
    <3> QED  BY <1>1, <3>1, <3>2 DEF WireInv
  <2>3. field' = [r \in Ranks |-> Unset(block'[r])]
    BY <1>7 DEF Construct
  <2>4. Registered'
    BY <1>1, <2>3 DEF Registered, Unset
  <2>5. \A b : Unset(b) = [f \in Fields \union {"gid"} |-> [c \in WithHalo(b) |->
                             IF f = "gid" THEN NoIds ELSE NoValue]]
    BY DEF Unset
  <2>6. NoIds' = NoIds
    BY <1>1 DEF NoIds
  <2>7. ASSUME NEW r \in Ranks PROVE IdsOf(r)' /\ FieldOf(r)'
    <3>1. Round(r)' = 0
      BY <1>1, <1>2 DEF Round
    <3>2. field'[r] = Unset(block'[r])
      BY <2>3
    <3>3. \A c \in WithHalo(block'[r]) : field'[r].gid[c] = NoIds'
      BY <2>5, <2>6, <3>2
    <3>4. IdsOf(r)'
      BY <3>1, <3>3 DEF IdsOf
    <3>5. \A f \in Fields, c \in WithHalo(block'[r]) : field'[r][f][c].cell = NoValue.cell
      BY <2>5, <3>2, HaloAssumption
    <3>6. ~InCall(r)' /\ ~(at'[r].part > 3)
      BY <1>1, <1>2 DEF InCall
    <3>7. FieldOf(r)'
      BY <3>5, <3>6 DEF FieldOf
    <3> QED  BY <3>4, <3>7
  <2> QED  BY <2>1, <2>2, <2>4, <2>7
<1> QED  BY <1>1, <1>4, <1>5, <1>7 DEF MessagesInv

LEMMA Stepped ==
  ASSUME LayoutInv, MessagesInv, NEW r \in Ranks, RankStep(r) PROVE MessagesInv'
<1>1. ProgressInv
  BY DEF MessagesInv
<1>2. status = "running" /\ at[r] \in Positions /\ UNCHANGED grid
  BY <1>1, StepIs
<1>3. /\ GateInv /\ WireInv /\ Registered /\ \A q \in Ranks : IdsOf(q) /\ FieldOf(q)
  BY <1>2 DEF MessagesInv
<1>4. Ranks' = Ranks /\ status' = status
  BY <1>2 DEF grid, Ranks
<1>5. ProgressInv'
  <2>1. (EnterSum(r) \/ Post(r)) => ~posted[r] /\ Posts(r)
    BY <1>1, StepIs
  <2>2. (LeaveSum(r) \/ Complete(r)) => posted[r] /\ Leaves(r)
    BY <1>1, StepIs
  <2> QED  BY <1>1, <1>2, <2>1, <2>2, Posted, Left DEF RankStep
<1>6. GateInv'
  BY <1>1, <1>3, NextGate
<1>7. WireInv'
  <2>1. CASE EnterSum(r) \/ LeaveSum(r)
    BY <1>1, <1>3, <2>1, WireOfSum
  <2>2. CASE Post(r)
    <3>1. \A d \in DOMAIN Outgoing(r) :
            Pack(Packing(r), block[r], d, PhaseOf(r)) = Message(r, at[r], d)
      BY <1>1, <1>3, <2>2, Packed
    <3>2. PICK now \in Positions : now = at[r]
      BY <1>2
    <3> QED  BY <1>1, <1>3, <2>2, <3>1, <3>2, WireOfPost
  <2>3. CASE Complete(r)
    <3>1. PICK now \in Positions : now = at[r]
      BY <1>2
    <3> QED  BY <1>1, <1>3, <2>3, <3>1, WireOfComplete
  <2> QED  BY <2>1, <2>2, <2>3 DEF RankStep
<1>8. Registered'
  BY <1>1, <1>3, Others
<1>9. \A q \in Ranks : IdsOf(q)' /\ FieldOf(q)'
  BY <1>1, <1>3, NextIds, NextFields
<1> QED  BY <1>2, <1>4, <1>5, <1>6, <1>7, <1>8, <1>9 DEF MessagesInv

LEMMA Stands ==
  ASSUME MessagesInv, UNCHANGED vars PROVE MessagesInv'
<1>1. UNCHANGED grid /\ at' = at /\ posted' = posted /\ field' = field /\ wire' = wire
  BY DEF vars
<1>2. Ranks' = Ranks /\ Channels' = Channels /\ status' = status
  BY <1>1 DEF grid, Ranks, Channels
<1>3. \A r, p : Sent(r, p)' <=> Sent(r, p)
  BY <1>1 DEF Sent, Precedes
<1>4. \A r, p : Open(r, p)' <=> Open(r, p)
  BY <1>1 DEF Open, Precedes
<1>5. ProgressInv'
  BY <1>1, <1>2 DEF MessagesInv, ProgressInv
<1>6. ASSUME status = "running"
      PROVE  /\ GateInv' /\ WireInv' /\ Registered'
             /\ \A r \in Ranks : IdsOf(r)' /\ FieldOf(r)'
  <2>1. GateInv /\ WireInv /\ Registered /\ \A r \in Ranks : IdsOf(r) /\ FieldOf(r)
    BY <1>6 DEF MessagesInv
  <2>2. GateInv'
    BY <1>1, <1>2, <1>3, <2>1 DEF GateInv, Precedes, grid
  <2>3. \A k, pos : InTransit(k, pos)' <=> InTransit(k, pos)
    BY <1>1, <1>3, <1>4, SameMessages DEF InTransit
  <2>4. WireInv'
    BY <1>1, <1>2, <2>1, <2>3, SameMessages DEF WireInv
  <2>5. Registered'
    BY <1>1, <1>2, <2>1 DEF Registered
  <2>6. ASSUME NEW q \in Ranks PROVE IdsOf(q)' /\ FieldOf(q)'
    <3>1. IdsOf(q)'
      BY <1>1, <2>1, SameIds DEF Round, Got
    <3>2. at[q] \in Positions \union {Finish}
      BY DEF MessagesInv, ProgressInv
    <3>3. InCall(q)' => InCall(q)
      BY <1>1 DEF InCall
    <3> QED  BY <1>1, <2>1, <3>1, <3>2, <3>3, SameFields
  <2> QED  BY <2>2, <2>4, <2>5, <2>6
<1> QED  BY <1>1, <1>2, <1>5, <1>6 DEF MessagesInv

LEMMA MessagesInvHolds == Spec => []MessagesInv
<1>1. LayoutInv /\ LayoutInv' /\ MessagesInv /\ [Next]_vars => MessagesInv'
  BY Constructed, Stepped, Stands DEF Next
<1> QED  BY <1>1, Begins, LayoutInvHolds, PTL DEF Spec

\* Where the ids of a halo come from once a rank has received all its sides:
\* a neighbour that has done the same numbering, and no later one.
LEMMA SameRound ==
  ASSUME LayoutInv, MessagesInv, status = "running", NEW r \in Ranks, at[r].part \in 2..3,
         at[r].phase = 1, ~posted[r], NEW d \in Directions, neighbor[r][d] # ProcNull
  PROVE  /\ Round(r) = at[r].part - 1 /\ Round(r) \in 1..2 /\ Got(r, d)
         /\ neighbor[r][d] \in Ranks /\ Round(neighbor[r][d]) = Round(r)
<1> DEFINE s == neighbor[r][d]
           k == at[r].part - 1
           p == [part |-> k, phase |-> Slot(d)]
           q == [part |-> 2, phase |-> 1]
<1>1. ProgressInv /\ GateInv
  BY DEF MessagesInv
<1>2. k \in 1..2 /\ at[r].part = k + 1
  BY DEF k
<1>3. Round(r) = k /\ at[r].part > Round(r)
  <2>1. at[r].part = 2 \/ at[r].part = 3
    OBVIOUS
  <2> QED  BY <2>1 DEF Round
<1>4. s \in Ranks
  <2>1. at[r] \in Positions \union {Finish}
    BY <1>1 DEF ProgressInv
  <2> QED  BY Faces
<1>5. Slot(d) \in 2..5
  BY DEF Slot
<1>6. p \in Positions /\ q \in Positions
  <2>1. {1, 2} \subseteq 1..Parts /\ k \in {1, 2}
    BY <1>2, CallsAre
  <2>2. Len(Program[k]) = 5 /\ Len(Program[2]) = 5
    BY <2>1, PartIs
  <2> HIDE DEF k
  <2>3. p.part = k /\ p.phase = Slot(d) /\ q.part = 2 /\ q.phase = 1
    OBVIOUS
  <2>4. p \in [part : 1..Parts, phase : 1..5] /\ q \in [part : 1..Parts, phase : 1..5]
    BY <1>5, <2>1
  <2> HIDE DEF p, q
  <2>5. p.phase <= 5 /\ q.phase <= 5 /\ Len(Program[p.part]) = 5 /\ Len(Program[q.part]) = 5
    BY <1>5, <2>2, <2>3
  <2> QED  BY <2>4, <2>5 DEF Positions
<1>7. InBuild(p)
  BY <1>2, <1>5 DEF InBuild
<1>8. d \in DOMAIN PhaseAt(p).receives
  BY <1>6, <1>7, PhaseIs
<1>9. Precedes(p, at[r])
  BY <1>2 DEF Precedes
<1>10. Sent(s, p)
  BY <1>1, <1>6, <1>8, <1>9 DEF GateInv
<1>11. at[s] \in Positions \union {Finish} /\ at[s].part \in Int /\ at[s].phase \in Int
  BY <1>1, <1>4, Order DEF ProgressInv
<1>12. at[s].part > k \/ (at[s].part = k /\ at[s].phase > 1)
  <2>1. Precedes(p, at[s]) \/ p = at[s]
    BY <1>10 DEF Sent
  <2>2. k < at[s].part \/ (k = at[s].part /\ Slot(d) <= at[s].phase)
    BY <1>5, <1>11, <2>1 DEF Precedes
  <2> HIDE DEF k
  <2> QED  BY <1>2, <1>5, <1>11, <2>2
<1>13. k = 1 => at[s].part = 1 \/ (at[s].part = 2 /\ at[s].phase = 1)
  <2> SUFFICES ASSUME k = 1, ~(at[s].part = 1 \/ (at[s].part = 2 /\ at[s].phase = 1))
               PROVE  FALSE
    OBVIOUS
  <2>1. at[s].part >= 2 /\ (at[s].part = 2 => at[s].phase > 1)
    <3>1. at[s].phase >= 1
      BY <1>11 DEF Positions, Finish
    <3> QED  BY <1>11, <1>12, <2>1, <3>1
  <2>2. Precedes(q, at[s])
    BY <1>11, <2>1 DEF Precedes
  <2>3. PhaseAt(q).kind = "sum"
    <3>1. q.part = 2 /\ q.phase = 1
      OBVIOUS
    <3>2. q.part <= 2
      BY <3>1
    <3> HIDE DEF q
    <3> QED  BY <1>6, <3>1, <3>2, PhaseIs
  <2>4. Sent(r, q)
    BY <1>1, <1>4, <1>6, <2>2, <2>3 DEF GateInv
  <2>5. ~Precedes(q, at[r])
    BY <1>2 DEF Precedes
  <2> QED  BY <2>4, <2>5 DEF Sent
<1> HIDE DEF s, k
<1>14. Round(s) = k
  <2>1. CASE k = 1
    BY <1>11, <1>12, <1>13, <2>1 DEF Round
  <2>2. CASE k = 2
    BY <1>11, <1>12, <2>2 DEF Round
  <2> QED  BY <1>2, <2>1, <2>2
<1>15. Got(r, d)
  BY <1>3 DEF Got
<1> QED  BY <1>2, <1>3, <1>4, <1>14, <1>15 DEF s, k

(***************************************************************************)
(* Whatever the request, the mask, the calls, how far the ranks are apart  *)
(* and whether the library buffers: a call that returns on a rank has left *)
(* in its halo what the owners had after the kernels before that very      *)
(* call, and a numbering the owners' ids.                                  *)
(***************************************************************************)
THEOREM HaloIsCurrent == Spec => []HaloCurrent
<1>1. LayoutInv /\ MessagesInv => HaloCurrent
  <2> SUFFICES ASSUME LayoutInv, MessagesInv, status = "running",
                      NEW r \in Ranks, ~posted[r], at[r].phase = 1
               PROVE  /\ at[r].part \in 2..3 => IdsCurrent(r)
                      /\ at[r].part > 3 => CallCurrent(r, at[r].part - 3)
    BY DEF HaloCurrent
  <2> DEFINE b == block[r]
  <2>1. IdsOf(r) /\ FieldOf(r) /\ \A q \in Ranks : IdsOf(q)
    BY DEF MessagesInv
  <2>2. at[r].part > 3 => CallCurrent(r, at[r].part - 3)
    BY <2>1 DEF FieldOf
  <2>3. ASSUME at[r].part \in 2..3, NEW c \in WithHalo(b) \ Interior(b)
        PROVE  IF Corner(b, c) \/ ~InDomain(Global(b, c)) THEN field[r].gid[c] = NoIds
               ELSE \E q \in Ranks : \E own \in Interior(block[q]) :
                      Global(block[q], own) = Global(b, c) /\ field[q].gid[own] = field[r].gid[c]
    <3>1. Round(r) # 0
      <4>1. at[r].part = 2 \/ at[r].part = 3
        BY <2>3
      <4> QED  BY <4>1 DEF Round
    <3>2. CASE Corner(b, c)
      BY <2>1, <3>1, <3>2 DEF IdsOf
    <3>3. CASE ~Corner(b, c)
      <4>1. PICK d \in Directions : Receives(b, d, c, FALSE)
        BY <3>3, Planes
      <4>2. field[r].gid[c] = IF neighbor[r][d] # ProcNull /\ Got(r, d)
                              THEN Numbered(neighbor[r][d], Round(r))[Facing(r, d, c, FALSE)]
                              ELSE NoIds
        BY <2>1, <3>1, <4>1 DEF IdsOf
      <4>3. CASE neighbor[r][d] = ProcNull
        <5>1. ~InDomain(Global(b, c))
          BY <4>1, <4>3, Beside
        <5> QED  BY <3>3, <4>2, <4>3, <5>1
      <4>4. CASE neighbor[r][d] # ProcNull
        <5> DEFINE s == neighbor[r][d]
                   own == Facing(r, d, c, FALSE)
        <5>1. s \in Ranks /\ Round(s) = Round(r) /\ Got(r, d)
          BY <2>3, <4>4, SameRound
        <5>2. /\ own \in Interior(block[s]) /\ Global(block[s], own) = Global(b, c)
              /\ InDomain(Global(b, c))
          BY <4>1, <4>4, FacingOwn
        <5>3. field[s].gid[own] = Numbered(s, Round(r))[own]
          BY <2>1, <3>1, <5>1, <5>2 DEF IdsOf
        <5>4. field[r].gid[c] = field[s].gid[own]
          BY <4>2, <4>4, <5>1, <5>3
        <5> QED  BY <3>3, <5>1, <5>2, <5>4
      <4> QED  BY <4>3, <4>4
    <3> QED  BY <3>2, <3>3
  <2>4. at[r].part \in 2..3 => IdsCurrent(r)
    BY <2>3 DEF IdsCurrent
  <2> QED  BY <2>2, <2>4
<1> QED  BY <1>1, LayoutInvHolds, MessagesInvHolds, PTL

-----------------------------------------------------------------------------
(* The ids of all the ranks: their columns and cells share out the domain. *)

\* A block's cells are places of the domain, each place one cell's.
LEMMA GlobalIs ==
  ASSUME LayoutInv, status = "running", NEW r \in Ranks
  PROVE  /\ \A c \in Interior(block[r]) :
              Global(block[r], c) \in DOMAIN request.ktop /\ r \in Owners(Global(block[r], c))
         /\ \A c, d \in Interior(block[r]) :
              Global(block[r], c) = Global(block[r], d) => c = d
<1> DEFINE b == block[r]
           m == b.nxl
           n == b.nyl
<1>1. /\ b.i0 \in Nat /\ b.j0 \in Nat /\ m \in Nat /\ n \in Nat
      /\ b.i0 + m <= request.nx /\ b.j0 + n <= request.ny
  BY BlockTypes
<1>2. DOMAIN request.ktop = (0..request.nx - 1) \X (0..request.ny - 1)
  BY Extents DEF LayoutInv
<1>3. request.nx \in Nat /\ request.ny \in Nat
  BY Blocks
<1>4. \A c \in Interior(b) : c[1] \in 1..m /\ c[2] \in 1..n /\ c = <<c[1], c[2]>>
  BY DEF Interior
<1>5. ASSUME NEW c \in Interior(b)
      PROVE  Global(b, c) \in DOMAIN request.ktop /\ r \in Owners(Global(b, c))
  <2>1. Global(b, c) = <<b.i0 + c[1] - 1, b.j0 + c[2] - 1>>
    BY DEF Global
  <2>2. b.i0 + c[1] - 1 \in 0..request.nx - 1 /\ b.j0 + c[2] - 1 \in 0..request.ny - 1
    <3>1. c[1] \in 1..m /\ c[2] \in 1..n
      BY <1>4
    <3> HIDE DEF b, m, n
    <3> QED  BY <1>1, <1>3, <3>1
  <2>3. r \in Owners(Global(b, c))
    BY DEF Owners
  <2> HIDE DEF b
  <2> QED  BY <1>2, <2>1, <2>2, <2>3
<1>6. ASSUME NEW c \in Interior(b), NEW d \in Interior(b), Global(b, c) = Global(b, d)
      PROVE  c = d
  <2> DEFINE x == c[1]
             y == c[2]
             u == d[1]
             v == d[2]
  <2>1. <<b.i0 + x - 1, b.j0 + y - 1>> = <<b.i0 + u - 1, b.j0 + v - 1>>
    BY <1>6 DEF Global
  <2>2. x \in Int /\ y \in Int /\ u \in Int /\ v \in Int
    <3>1. x \in 1..m /\ y \in 1..n /\ u \in 1..m /\ v \in 1..n
      BY <1>4
    <3> HIDE DEF x, y, u, v
    <3> QED  BY <3>1
  <2>3. c = <<x, y>> /\ d = <<u, v>>
    BY <1>4
  <2>4. b.i0 \in Int /\ b.j0 \in Int
    BY <1>1
  <2> HIDE DEF b, m, n, x, y, u, v
  <2>5. b.i0 + x - 1 = b.i0 + u - 1 /\ b.j0 + y - 1 = b.j0 + v - 1
    BY <2>1
  <2>6. x = u /\ y = v
    BY <2>2, <2>4, <2>5
  <2> QED  BY <2>3, <2>6
<1> QED  BY <1>5, <1>6

LEMMA MaskIs ==
  ASSUME LayoutInv, status = "running", NEW round \in 1..2
  PROVE  /\ request.nz \in Nat \ {0}
         /\ \A g \in DOMAIN request.ktop : Mask(round)[g] \in 0..request.nz
         /\ \A r \in Ranks : Masked(block[r], Mask(round), request.nz)
         /\ Mask(2) = request.ktop
<1>1. /\ request.nz \in Nat \ {0}
      /\ request.ktop \in [(0..request.nx - 1) \X (0..request.ny - 1) -> 0..request.nz]
  BY Extents DEF LayoutInv
<1>2. \A g \in DOMAIN request.ktop : Mask(round)[g] \in 0..request.nz
  BY <1>1 DEF Mask
<1>3. ASSUME NEW r \in Ranks PROVE Masked(block[r], Mask(round), request.nz)
  <2>1. block[r].nxl \in Nat /\ block[r].nyl \in Nat
    BY BlockTypes
  <2>2. \A c \in Interior(block[r]) : Global(block[r], c) \in DOMAIN request.ktop
    BY GlobalIs
  <2> QED  BY <1>1, <1>2, <2>1, <2>2 DEF Masked
<1> QED  BY <1>1, <1>2, <1>3 DEF Mask

\* The active columns and cells of the whole domain under a mask, and a
\* rank's share of them.
ColumnsUnder(round) == {g \in DOMAIN request.ktop : Mask(round)[g] < request.nz}
CellsUnder(round) ==
  {c \in (0..request.nx - 1) \X (0..request.ny - 1) \X (0..request.nz - 1) :
     c[3] >= Mask(round)[<<c[1], c[2]>>]}
Raised(b, e) == <<Global(b, <<e[1], e[2]>>)[1], Global(b, <<e[1], e[2]>>)[2], e[3]>>
ColumnShare(r, round) == {Global(block[r], c) : c \in Columns(ActiveOf(r, round))}
CellShare(r, round) == {Raised(block[r], e) : e \in ActiveOf(r, round)}

\* A share is as large as what the rank counts.
LEMMA SharesCount ==
  ASSUME LayoutInv, status = "running", NEW round \in 1..2, NEW r \in Ranks
  PROVE  /\ IsFiniteSet(ColumnShare(r, round))
         /\ Cardinality(ColumnShare(r, round)) = Columns2Of(round)[r]
         /\ IsFiniteSet(CellShare(r, round))
         /\ Cardinality(CellShare(r, round)) = Cells3Of(round)[r]
         /\ Columns2Of(round)[r] \in Nat /\ Cells3Of(round)[r] \in Nat
<1> DEFINE b == block[r]
           cells == ActiveOf(r, round)
           cols == Columns(cells)
<1>1. Masked(b, Mask(round), request.nz)
  BY MaskIs
<1>2. cells = Active(b, Mask(round), request.nz)
  BY DEF ActiveOf
<1>3. /\ IsFiniteSet(cells) /\ IsFiniteSet(cols)
      /\ \A e \in cells : <<e[1], e[2]>> \in Interior(b) /\ e = <<e[1], e[2], e[3]>>
      /\ cols = Wet(b, Mask(round), request.nz)
  <2>1. IsFiniteSet(cells) /\ IsFiniteSet(cols) /\ cols = Wet(b, Mask(round), request.nz)
    BY <1>1, <1>2, ActiveIs
  <2>2. ASSUME NEW e \in cells
        PROVE  /\ <<e[1], e[2]>> \in Interior(b) /\ e[3] \in 0..request.nz - 1
               /\ e[1] \in Int /\ e[2] \in Int /\ e = <<e[1], e[2], e[3]>>
               /\ e[3] >= Mask(round)[Global(b, <<e[1], e[2]>>)]
    <3> HIDE DEF cells, b
    <3> QED  BY <1>1, <1>2, ActiveIs
  <2> QED  BY <2>1, <2>2
<1>4. \A c \in cols : c \in Interior(b)
  BY <1>3 DEF Wet
<1>5. \A c, d \in Interior(b) : Global(b, c) = Global(b, d) => c = d
  BY GlobalIs
<1>6. Columns2Of(round)[r] = Cardinality(cols) /\ Cells3Of(round)[r] = Cardinality(cells)
  BY DEF Columns2Of, Cells3Of
<1> HIDE DEF b, cells, cols
<1>7. IsFiniteSet(ColumnShare(r, round)) /\ Cardinality(ColumnShare(r, round)) = Cardinality(cols)
  <2> DEFINE T == ColumnShare(r, round)
             f == [c \in cols |-> Global(b, c)]
  <2>1. T = {Global(b, c) : c \in cols}
    BY DEF ColumnShare, b, cols, cells
  <2>2. \A c \in cols : f[c] = Global(b, c)
    OBVIOUS
  <2>3. f = [c \in cols |-> f[c]]
    OBVIOUS
  <2> HIDE DEF f, T
  <2>4. f \in [cols -> T]
    BY <2>1, <2>2, <2>3
  <2>5. \A c, d \in cols : f[c] = f[d] => c = d
    BY <1>4, <1>5, <2>2
  <2>6. \A t \in T : \E c \in cols : f[c] = t
    BY <2>1, <2>2
  <2>7. ExistsBijection(cols, T)
    BY <2>4, <2>5, <2>6 DEF ExistsBijection, Bijection, Injection, Surjection, IsInjective
  <2> QED  BY <1>3, <2>7, FS_Bijection DEF T
<1>8. IsFiniteSet(CellShare(r, round)) /\ Cardinality(CellShare(r, round)) = Cardinality(cells)
  <2> DEFINE T == CellShare(r, round)
             f == [e \in cells |-> Raised(b, e)]
  <2>1. T = {Raised(b, e) : e \in cells}
    BY DEF CellShare, b, cells
  <2>2. \A e \in cells : f[e] = Raised(b, e)
    OBVIOUS
  <2>3. f = [e \in cells |-> f[e]]
    OBVIOUS
  <2> HIDE DEF f, T
  <2>4. f \in [cells -> T]
    BY <2>1, <2>2, <2>3
  <2>5. ASSUME NEW c \in cells, NEW d \in cells, f[c] = f[d] PROVE c = d
    <3> DEFINE u == <<c[1], c[2]>>
               v == <<d[1], d[2]>>
    <3>1. Global(b, u)[1] = Global(b, v)[1] /\ Global(b, u)[2] = Global(b, v)[2] /\ c[3] = d[3]
      <4>1. Raised(b, c) = Raised(b, d)
        BY <2>2, <2>5
      <4> QED  BY <4>1 DEF Raised
    <3>2. Global(b, u) = Global(b, v)
      <4>1. \A w : Global(b, w) = <<Global(b, w)[1], Global(b, w)[2]>>
        BY DEF Global
      <4> HIDE DEF u, v
      <4> QED  BY <3>1, <4>1
    <3>3. u = v
      BY <1>3, <1>5, <3>2
    <3>4. c[1] = d[1] /\ c[2] = d[2]
      BY <3>3
    <3> QED  BY <1>3, <3>1, <3>4
  <2>6. \A t \in T : \E c \in cells : f[c] = t
    BY <2>1, <2>2
  <2>7. ExistsBijection(cells, T)
    BY <2>4, <2>5, <2>6 DEF ExistsBijection, Bijection, Injection, Surjection, IsInjective
  <2> QED  BY <1>3, <2>7, FS_Bijection DEF T
<1>9. Cardinality(cols) \in Nat /\ Cardinality(cells) \in Nat
  BY <1>3, FS_CardinalityType
<1> QED  BY <1>6, <1>7, <1>8, <1>9

\* The shares make up the domain, each place of it in one of them.
LEMMA SharesCover ==
  ASSUME LayoutInv, status = "running", NEW round \in 1..2
  PROVE  /\ UNION {ColumnShare(r, round) : r \in Ranks} = ColumnsUnder(round)
         /\ UNION {CellShare(r, round) : r \in Ranks} = CellsUnder(round)
         /\ \A r, q \in Ranks : r # q =>
              /\ ColumnShare(r, round) \cap ColumnShare(q, round) = {}
              /\ CellShare(r, round) \cap CellShare(q, round) = {}
<1> DEFINE m == Mask(round)
           nz == request.nz
<1>1. nz \in Nat \ {0} /\ \A r \in Ranks : Masked(block[r], m, nz)
  BY MaskIs
<1>2. DOMAIN request.ktop = (0..request.nx - 1) \X (0..request.ny - 1)
  BY Extents DEF LayoutInv
<1>3. \A r \in Ranks : \A c \in Interior(block[r]) :
        Global(block[r], c) \in DOMAIN request.ktop /\ r \in Owners(Global(block[r], c))
  BY GlobalIs
<1>4. ASSUME NEW g \in DOMAIN request.ktop
      PROVE  \E r \in Ranks : \E c \in Interior(block[r]) : Global(block[r], c) = g
  <2>1. PICK r \in Ranks : Owners(g) = {r}
    BY CellOwner
  <2> QED  BY <2>1 DEF Owners
<1>5. ASSUME NEW g \in DOMAIN request.ktop, NEW r \in Owners(g), NEW q \in Owners(g)
      PROVE  r = q
  BY CellOwner
<1>6. ASSUME NEW r \in Ranks
      PROVE  ColumnShare(r, round)
               = {Global(block[r], c) : c \in {d \in Interior(block[r]) : m[Global(block[r], d)] < nz}}
  <2>1. Columns(ActiveOf(r, round)) = {d \in Interior(block[r]) : m[Global(block[r], d)] < nz}
    BY <1>1, ActiveIs DEF ActiveOf, Wet
  <2> QED  BY <2>1 DEF ColumnShare
<1>7. ASSUME NEW r \in Ranks, NEW t
      PROVE  t \in CellShare(r, round) <=>
               \E c \in Interior(block[r]) : \E k \in 0..nz - 1 :
                 /\ k >= m[Global(block[r], c)]
                 /\ t = <<Global(block[r], c)[1], Global(block[r], c)[2], k>>
  <2> DEFINE b == block[r]
             cells == ActiveOf(r, round)
  <2>1. cells = Active(b, m, nz) /\ Masked(b, m, nz)
    BY <1>1 DEF ActiveOf
  <2>2. ASSUME NEW e \in cells
        PROVE  \E c \in Interior(b) : \E k \in 0..nz - 1 :
                 k >= m[Global(b, c)] /\ Raised(b, e) = <<Global(b, c)[1], Global(b, c)[2], k>>
    <3>1. /\ <<e[1], e[2]>> \in Interior(b) /\ e[3] \in 0..nz - 1
          /\ e[1] \in Int /\ e[2] \in Int /\ e = <<e[1], e[2], e[3]>>
          /\ e[3] >= m[Global(b, <<e[1], e[2]>>)]
      <4> HIDE DEF cells, b, m, nz
      <4> QED  BY <2>1, ActiveIs
    <3> QED  BY <3>1 DEF Raised
  <2>3. ASSUME NEW c \in Interior(b), NEW k \in 0..nz - 1, k >= m[Global(b, c)]
        PROVE  \E e \in cells : Raised(b, e) = <<Global(b, c)[1], Global(b, c)[2], k>>
    <3> DEFINE e == <<c[1], c[2], k>>
    <3>1. c = <<c[1], c[2]>>
      <4> HIDE DEF b, m, nz
      <4> QED  BY <2>1, ActiveIs
    <3>2. <<c[1], c[2]>> \in Interior(b)
      BY <3>1
    <3>3. e \in cells <=> k >= m[Global(b, <<c[1], c[2]>>)]
      <4> HIDE DEF b, m, nz
      <4> QED  BY <2>1, <3>2, ActiveIs
    <3>4. e \in cells
      BY <2>3, <3>1, <3>3
    <3>5. Raised(b, e) = <<Global(b, c)[1], Global(b, c)[2], k>>
      <4>1. e[1] = c[1] /\ e[2] = c[2] /\ e[3] = k
        OBVIOUS
      <4> HIDE DEF e, b
      <4> QED  BY <3>1, <4>1 DEF Raised
    <3> QED  BY <3>4, <3>5
  <2>4. t \in CellShare(r, round) <=> \E e \in cells : t = Raised(b, e)
    BY DEF CellShare
  <2> HIDE DEF cells, m, nz
  <2> QED  BY <2>2, <2>3, <2>4
<1>8. \A r \in Ranks : \A c \in Interior(block[r]) :
        Global(block[r], c) = <<Global(block[r], c)[1], Global(block[r], c)[2]>>
  BY DEF Global
<1>9. ColumnsUnder(round) = {g \in DOMAIN request.ktop : m[g] < nz}
  BY DEF ColumnsUnder
<1>10. \A t : t \in CellsUnder(round) <=>
         \E g \in DOMAIN request.ktop, k \in 0..nz - 1 : k >= m[g] /\ t = <<g[1], g[2], k>>
  <2> SUFFICES ASSUME NEW t
               PROVE  t \in CellsUnder(round) <=>
                        \E g \in DOMAIN request.ktop, k \in 0..nz - 1 :
                          k >= m[g] /\ t = <<g[1], g[2], k>>
    OBVIOUS
  <2>1. ASSUME t \in CellsUnder(round)
        PROVE  \E g \in DOMAIN request.ktop, k \in 0..nz - 1 : k >= m[g] /\ t = <<g[1], g[2], k>>
    <3>1. /\ t \in (0..request.nx - 1) \X (0..request.ny - 1) \X (0..request.nz - 1)
          /\ t[3] >= m[<<t[1], t[2]>>]
      BY <2>1 DEF CellsUnder
    <3>2. /\ t[1] \in 0..request.nx - 1 /\ t[2] \in 0..request.ny - 1 /\ t[3] \in 0..nz - 1
          /\ t = <<t[1], t[2], t[3]>>
      BY <3>1
    <3>3. <<t[1], t[2]>> \in DOMAIN request.ktop
      BY <1>2, <3>2
    <3> QED  BY <3>1, <3>2, <3>3
  <2>2. ASSUME NEW g \in DOMAIN request.ktop, NEW k \in 0..nz - 1, k >= m[g], t = <<g[1], g[2], k>>
        PROVE  t \in CellsUnder(round)
    <3>1. g[1] \in 0..request.nx - 1 /\ g[2] \in 0..request.ny - 1 /\ g = <<g[1], g[2]>>
      BY <1>2
    <3>2. t \in (0..request.nx - 1) \X (0..request.ny - 1) \X (0..request.nz - 1)
      BY <2>2, <3>1
    <3>3. t[1] = g[1] /\ t[2] = g[2] /\ t[3] = k
      BY <2>2
    <3>4. t[3] >= m[<<t[1], t[2]>>]
      BY <2>2, <3>1, <3>3
    <3> QED  BY <3>2, <3>4 DEF CellsUnder
  <2> QED  BY <2>1, <2>2
<1> HIDE DEF m, nz
<1>11. UNION {ColumnShare(r, round) : r \in Ranks} = ColumnsUnder(round)
  <2>1. ASSUME NEW r \in Ranks, NEW g \in ColumnShare(r, round) PROVE g \in ColumnsUnder(round)
    BY <1>3, <1>6, <1>9
  <2>2. ASSUME NEW g \in ColumnsUnder(round) PROVE \E r \in Ranks : g \in ColumnShare(r, round)
    <3>1. g \in DOMAIN request.ktop /\ m[g] < nz
      BY <1>9
    <3>2. PICK r \in Ranks : \E c \in Interior(block[r]) : Global(block[r], c) = g
      BY <1>4, <3>1
    <3> QED  BY <1>6, <3>1, <3>2
  <2> QED  BY <2>1, <2>2
<1>12. UNION {CellShare(r, round) : r \in Ranks} = CellsUnder(round)
  <2>1. ASSUME NEW r \in Ranks, NEW t \in CellShare(r, round) PROVE t \in CellsUnder(round)
    BY <1>3, <1>7, <1>10
  <2>2. ASSUME NEW t \in CellsUnder(round) PROVE \E r \in Ranks : t \in CellShare(r, round)
    <3>1. PICK g \in DOMAIN request.ktop, k \in 0..nz - 1 : k >= m[g] /\ t = <<g[1], g[2], k>>
      BY <1>10
    <3>2. PICK r \in Ranks : \E c \in Interior(block[r]) : Global(block[r], c) = g
      BY <1>4
    <3> QED  BY <1>7, <3>1, <3>2
  <2> QED  BY <2>1, <2>2
<1>13. ASSUME NEW r \in Ranks, NEW q \in Ranks, r # q
       PROVE  /\ ColumnShare(r, round) \cap ColumnShare(q, round) = {}
              /\ CellShare(r, round) \cap CellShare(q, round) = {}
  <2>1. ASSUME NEW c \in Interior(block[r]), NEW d \in Interior(block[q]),
               Global(block[r], c) = Global(block[q], d)
        PROVE  FALSE
    BY <1>3, <1>5, <1>13, <2>1
  <2>2. ASSUME NEW g \in ColumnShare(r, round), g \in ColumnShare(q, round) PROVE FALSE
    <3>1. PICK c \in Interior(block[r]) : Global(block[r], c) = g
      BY <1>6
    <3>2. PICK d \in Interior(block[q]) : Global(block[q], d) = g
      BY <1>6, <2>2
    <3> QED  BY <2>1, <3>1, <3>2
  <2>3. ASSUME NEW t \in CellShare(r, round), t \in CellShare(q, round) PROVE FALSE
    <3>1. PICK c \in Interior(block[r]), k \in 0..nz - 1 :
            t = <<Global(block[r], c)[1], Global(block[r], c)[2], k>>
      BY <1>7
    <3>2. PICK d \in Interior(block[q]), l \in 0..nz - 1 :
            t = <<Global(block[q], d)[1], Global(block[q], d)[2], l>>
      BY <1>7, <2>3
    <3>3. Global(block[r], c)[1] = Global(block[q], d)[1] /\ Global(block[r], c)[2] = Global(block[q], d)[2]
      BY <3>1, <3>2
    <3>4. Global(block[r], c) = Global(block[q], d)
      BY <1>8, <3>3
    <3> QED  BY <2>1, <3>4
  <2> QED  BY <2>2, <2>3
<1> QED  BY <1>11, <1>12, <1>13

\* The ids a rank gives out in a numbering.
Rows2(r, round) == {Numbered(r, round)[c].gid2 : c \in Interior(block[r])} \ {Inactive}
Rows3(r, round) == (UNION {Range(Numbered(r, round)[c].gid3) : c \in Interior(block[r])}) \ {Inactive}

\* The offset of a rank is what the ranks below it count.
LEMMA OffsetsAre ==
  ASSUME LayoutInv, status = "running", NEW round \in 1..2
  PROVE  /\ request.size \in Nat /\ Ranks = 0..request.size - 1
         /\ \A r \in Ranks : /\ Offset2(r, round) = Offset(Columns2Of(round), r)
                             /\ Offset3(r, round) = Offset(Cells3Of(round), r)
                             /\ Offset2(r, round) \in Nat /\ Offset3(r, round) \in Nat
                             /\ Columns2Of(round)[r] \in Nat /\ Cells3Of(round)[r] \in Nat
         /\ Offset(Columns2Of(round), request.size) = Cardinality(ColumnsUnder(round))
         /\ Offset(Cells3Of(round), request.size) = Cardinality(CellsUnder(round))
         /\ IsFiniteSet(ColumnsUnder(round)) /\ IsFiniteSet(CellsUnder(round))
<1> DEFINE n == request.size
           size2 == Columns2Of(round)
           size3 == Cells3Of(round)
           part2 == [r \in Ranks |-> ColumnShare(r, round)]
           part3 == [r \in Ranks |-> CellShare(r, round)]
<1>1. n \in Nat /\ Ranks = 0..n - 1
  BY Blocks DEF Ranks
<1>2. \A r \in Ranks : size2[r] \in Nat /\ size3[r] \in Nat
  BY SharesCount
<1>3. \A r \in Ranks : /\ IsFiniteSet(part2[r]) /\ size2[r] = Cardinality(part2[r])
                       /\ IsFiniteSet(part3[r]) /\ size3[r] = Cardinality(part3[r])
  BY SharesCount
<1>4. \A r, q \in Ranks : r # q => part2[r] \cap part2[q] = {} /\ part3[r] \cap part3[q] = {}
  BY SharesCover
<1>5. /\ UNION {part2[r] : r \in Ranks} = ColumnsUnder(round)
      /\ UNION {part3[r] : r \in Ranks} = CellsUnder(round)
  BY SharesCover
<1>6. \A r \in Ranks : Offset2(r, round) = Offset(size2, r) /\ Offset3(r, round) = Offset(size3, r)
  BY DEF Offset2, Offset3, Offset
<1> HIDE DEF n, size2, size3, part2, part3
<1>7. \A r \in 0..n : Offset(size2, r) \in Nat /\ Offset(size3, r) \in Nat
  BY <1>1, <1>2, OffsetNext
<1>8. IsFiniteSet(ColumnsUnder(round)) /\ Cardinality(ColumnsUnder(round)) = Offset(size2, n)
  <2> DEFINE all == UNION {part2[r] : r \in 0..n - 1}
  <2>1. all = ColumnsUnder(round)
    BY <1>1, <1>5
  <2>2. \A r \in 0..n - 1 : IsFiniteSet(part2[r]) /\ size2[r] = Cardinality(part2[r])
    BY <1>1, <1>3
  <2>3. \A r, q \in 0..n - 1 : r # q => part2[r] \cap part2[q] = {}
    BY <1>1, <1>4
  <2>4. IsFiniteSet(all) /\ Cardinality(all) = Offset(size2, n)
    BY <1>1, <2>2, <2>3, PartsCount
  <2> HIDE DEF all
  <2> QED  BY <2>1, <2>4
<1>9. IsFiniteSet(CellsUnder(round)) /\ Cardinality(CellsUnder(round)) = Offset(size3, n)
  <2> DEFINE all == UNION {part3[r] : r \in 0..n - 1}
  <2>1. all = CellsUnder(round)
    BY <1>1, <1>5
  <2>2. \A r \in 0..n - 1 : IsFiniteSet(part3[r]) /\ size3[r] = Cardinality(part3[r])
    BY <1>1, <1>3
  <2>3. \A r, q \in 0..n - 1 : r # q => part3[r] \cap part3[q] = {}
    BY <1>1, <1>4
  <2>4. IsFiniteSet(all) /\ Cardinality(all) = Offset(size3, n)
    BY <1>1, <2>2, <2>3, PartsCount
  <2> HIDE DEF all
  <2> QED  BY <2>1, <2>4
<1>10. \A r \in Ranks : Offset(size2, r) \in Nat /\ Offset(size3, r) \in Nat
  <2>1. \A r \in Ranks : r \in 0..n
    BY <1>1
  <2> QED  BY <1>7, <2>1
<1> QED  BY <1>1, <1>2, <1>6, <1>8, <1>9, <1>10 DEF n, size2, size3

\* What a rank gives out: the rows from its offset on, as many as it counts.
LEMMA RowsAre ==
  ASSUME LayoutInv, status = "running", NEW round \in 1..2, NEW r \in Ranks
  PROVE  /\ Rows2(r, round)
              = Offset2(r, round)..Offset2(r, round) + Columns2Of(round)[r] - 1
         /\ Rows3(r, round)
              = Offset3(r, round)..Offset3(r, round) + Cells3Of(round)[r] - 1
         /\ \A c \in Interior(block[r]) :
              LET top == Mask(round)[Global(block[r], c)]
                  ids == Numbered(r, round)[c]
              IN /\ ids.gid2 # Inactive <=> top < request.nz
                 /\ \A k \in 0..request.nz - 1 : ids.gid3[k] # Inactive <=> k >= top
                 /\ DOMAIN ids.gid3 = 0..request.nz - 1
<1> DEFINE b == block[r]
           m == Mask(round)
           nz == request.nz
           o2 == Offset2(r, round)
           o3 == Offset3(r, round)
           cells == Active(b, m, nz)
           ids(c) == ColumnIds(c, o2, o3, cells, nz)
<1>1. Masked(b, m, nz)
  BY MaskIs
<1>2. o2 \in Nat /\ o3 \in Nat
  BY OffsetsAre
<1>3. \A c \in Interior(b) : c \in WithHalo(b)
  <2>1. b.nxl \in Nat /\ b.nyl \in Nat
    BY BlockTypes
  <2>2. \A x \in 1..b.nxl, y \in 1..b.nyl : x \in 0..b.nxl + 1 /\ y \in 0..b.nyl + 1
    BY <2>1
  <2> QED  BY <2>2 DEF Interior, WithHalo
<1>4. \A c \in Interior(b) : Numbered(r, round)[c] = ids(c)
  BY <1>3 DEF Numbered, ActiveOf
<1>5. /\ Columns2Of(round)[r] = Cardinality(Columns(cells))
      /\ Cells3Of(round)[r] = Cardinality(cells)
  BY DEF Columns2Of, Cells3Of, ActiveOf
<1>6. \A c \in Interior(b) : DOMAIN ids(c).gid3 = 0..nz - 1
  <2>1. \A c \in Interior(b) : \/ ids(c).gid3 = [k \in 0..nz - 1 |-> Inactive]
                               \/ DOMAIN ids(c).gid3 = 0..nz - 1
    BY DEF ColumnIds
  <2> QED  BY <2>1
<1> HIDE DEF b, m, nz, o2, o3
<1>7. /\ {ids(c).gid2 : c \in Interior(b)} \ {Inactive} = o2..o2 + Cardinality(Columns(cells)) - 1
      /\ (UNION {Range(ids(c).gid3) : c \in Interior(b)}) \ {Inactive} = o3..o3 + Cardinality(cells) - 1
      /\ \A c \in Interior(b) :
           /\ ids(c).gid2 # Inactive <=> m[Global(b, c)] < nz
           /\ \A k \in 0..nz - 1 : ids(c).gid3[k] # Inactive <=> k >= m[Global(b, c)]
  BY <1>1, <1>2, IdsAreConsecutive
<1> HIDE DEF cells, ids
<1>8. Rows2(r, round) = {ids(c).gid2 : c \in Interior(b)} \ {Inactive}
  BY <1>4 DEF Rows2, b
<1>9. Rows3(r, round) = (UNION {Range(ids(c).gid3) : c \in Interior(b)}) \ {Inactive}
  BY <1>4 DEF Rows3, b
<1>10. \A c \in Interior(b) :
         /\ Numbered(r, round)[c].gid2 # Inactive <=> m[Global(b, c)] < nz
         /\ \A k \in 0..nz - 1 : Numbered(r, round)[c].gid3[k] # Inactive <=> k >= m[Global(b, c)]
         /\ DOMAIN Numbered(r, round)[c].gid3 = 0..nz - 1
  BY <1>4, <1>6, <1>7
<1> QED  BY <1>5, <1>7, <1>8, <1>9, <1>10 DEF b, m, nz, o2, o3

\* Together the ranks give out all rows, and none of a higher rank comes
\* before one of a lower.
LEMMA RowsTogether ==
  ASSUME LayoutInv, status = "running", NEW round \in 1..2
  PROVE  /\ UNION {Rows2(r, round) : r \in Ranks} = 0..Cardinality(ColumnsUnder(round)) - 1
         /\ UNION {Rows3(r, round) : r \in Ranks} = 0..Cardinality(CellsUnder(round)) - 1
         /\ \A r, q \in Ranks : r < q =>
              /\ \A a \in Rows2(r, round), b \in Rows2(q, round) : a < b
              /\ \A a \in Rows3(r, round), b \in Rows3(q, round) : a < b
<1> DEFINE n == request.size
           size2 == Columns2Of(round)
           size3 == Cells3Of(round)
           N2 == Cardinality(ColumnsUnder(round))
           N3 == Cardinality(CellsUnder(round))
<1>1. /\ n \in Nat /\ Ranks = 0..n - 1
      /\ Offset(size2, n) = N2 /\ Offset(size3, n) = N3
      /\ N2 \in Nat /\ N3 \in Nat
  BY OffsetsAre, FS_CardinalityType
<1>2. \A r \in Ranks : /\ Offset(size2, r) \in Nat /\ size2[r] \in Nat
                       /\ Offset(size3, r) \in Nat /\ size3[r] \in Nat
  BY OffsetsAre
<1>3. \A r \in Ranks : /\ Rows2(r, round) = Offset(size2, r)..Offset(size2, r) + size2[r] - 1
                       /\ Rows3(r, round) = Offset(size3, r)..Offset(size3, r) + size3[r] - 1
  <2> SUFFICES ASSUME NEW r \in Ranks
               PROVE  /\ Rows2(r, round) = Offset(size2, r)..Offset(size2, r) + size2[r] - 1
                      /\ Rows3(r, round) = Offset(size3, r)..Offset(size3, r) + size3[r] - 1
    OBVIOUS
  <2>1. Offset2(r, round) = Offset(size2, r) /\ Offset3(r, round) = Offset(size3, r)
    BY OffsetsAre
  <2> QED  BY <2>1, RowsAre
<1> HIDE DEF n, size2, size3, N2, N3
<1>4. \A r \in Ranks : r \in 0..n - 1
  BY <1>1
<1>5. \A r \in Ranks : /\ Offset(size2, r) + size2[r] <= N2
                       /\ Offset(size3, r) + size3[r] <= N3
  <2> SUFFICES ASSUME NEW r \in Ranks
               PROVE  /\ Offset(size2, r) + size2[r] <= N2
                      /\ Offset(size3, r) + size3[r] <= N3
    OBVIOUS
  <2>1. r \in 0..n - 1 /\ n \in 0..n /\ r < n
    BY <1>1
  <2>2. Offset(size2, r) + size2[r] <= Offset(size2, n)
    BY <1>1, <1>2, <2>1, OffsetsGrow
  <2>3. Offset(size3, r) + size3[r] <= Offset(size3, n)
    BY <1>1, <1>2, <2>1, OffsetsGrow
  <2> QED  BY <1>1, <2>2, <2>3
<1>6. ASSUME NEW r \in Ranks, NEW q \in Ranks, r < q
      PROVE  /\ \A a \in Rows2(r, round), b \in Rows2(q, round) : a < b
             /\ \A a \in Rows3(r, round), b \in Rows3(q, round) : a < b
  <2>1. r \in 0..n - 1 /\ q \in 0..n
    BY <1>1
  <2>2. Offset(size2, r) + size2[r] <= Offset(size2, q)
    BY <1>1, <1>2, <1>6, <2>1, OffsetsGrow
  <2>3. Offset(size3, r) + size3[r] <= Offset(size3, q)
    BY <1>1, <1>2, <1>6, <2>1, OffsetsGrow
  <2>4. ASSUME NEW a \in Rows2(r, round), NEW b \in Rows2(q, round) PROVE a < b
    <3>1. /\ a \in Offset(size2, r)..Offset(size2, r) + size2[r] - 1
          /\ b \in Offset(size2, q)..Offset(size2, q) + size2[q] - 1
      BY <1>3
    <3> QED  BY <1>2, <2>2, <3>1
  <2>5. ASSUME NEW a \in Rows3(r, round), NEW b \in Rows3(q, round) PROVE a < b
    <3>1. /\ a \in Offset(size3, r)..Offset(size3, r) + size3[r] - 1
          /\ b \in Offset(size3, q)..Offset(size3, q) + size3[q] - 1
      BY <1>3
    <3> QED  BY <1>2, <2>3, <3>1
  <2> QED  BY <2>4, <2>5
<1>7. UNION {Rows2(r, round) : r \in Ranks} = 0..N2 - 1
  <2>1. ASSUME NEW r \in Ranks, NEW i \in Rows2(r, round) PROVE i \in 0..N2 - 1
    <3>1. i \in Offset(size2, r)..Offset(size2, r) + size2[r] - 1
      BY <1>3
    <3> QED  BY <1>1, <1>2, <1>5, <3>1
  <2>2. ASSUME NEW i \in 0..N2 - 1 PROVE \E r \in Ranks : i \in Rows2(r, round)
    <3>1. \E r \in 0..n - 1 : i \in Offset(size2, r)..Offset(size2, r) + size2[r] - 1
      <4>1. i \in 0..Offset(size2, n) - 1
        BY <1>1
      <4> QED  BY <1>1, <1>2, <4>1, OffsetsCover
    <3> QED  BY <1>1, <1>3, <3>1
  <2> QED  BY <2>1, <2>2
<1>8. UNION {Rows3(r, round) : r \in Ranks} = 0..N3 - 1
  <2>1. ASSUME NEW r \in Ranks, NEW i \in Rows3(r, round) PROVE i \in 0..N3 - 1
    <3>1. i \in Offset(size3, r)..Offset(size3, r) + size3[r] - 1
      BY <1>3
    <3> QED  BY <1>1, <1>2, <1>5, <3>1
  <2>2. ASSUME NEW i \in 0..N3 - 1 PROVE \E r \in Ranks : i \in Rows3(r, round)
    <3>1. \E r \in 0..n - 1 : i \in Offset(size3, r)..Offset(size3, r) + size3[r] - 1
      <4>1. i \in 0..Offset(size3, n) - 1
        BY <1>1
      <4> QED  BY <1>1, <1>2, <4>1, OffsetsCover
    <3> QED  BY <1>1, <1>3, <3>1
  <2> QED  BY <2>1, <2>2
<1> QED  BY <1>6, <1>7, <1>8 DEF N2, N3

(***************************************************************************)
(* After the second numbering, whatever the blocks and the mask, the ids   *)
(* of the active columns are 0 to n - 1 in the order of the ranks, those   *)
(* of the active cells likewise, and no inactive one has an id.            *)
(***************************************************************************)
THEOREM IdsArePetscRows == Spec => []IdsAreRows
<1>1. LayoutInv /\ MessagesInv => IdsAreRows
  <2> SUFFICES ASSUME LayoutInv, MessagesInv, status = "running", Renumbered
               PROVE  /\ UNION {Columns2(r) : r \in Ranks} = 0..Cardinality(ActiveColumns) - 1
                      /\ UNION {Layers3(r) : r \in Ranks} = 0..Cardinality(ActiveCells) - 1
                      /\ \A r, q \in Ranks : r < q =>
                           /\ \A a \in Columns2(r), b \in Columns2(q) : a < b
                           /\ \A a \in Layers3(r), b \in Layers3(q) : a < b
                      /\ \A r \in Ranks : \A c \in Interior(block[r]) :
                           LET ids == field[r].gid[c]
                               top == request.ktop[Global(block[r], c)]
                           IN /\ ids.gid2 # Inactive <=> top < request.nz
                              /\ \A k \in 0..request.nz - 1 : ids.gid3[k] # Inactive <=> k >= top
    BY DEF IdsAreRows
  <2>1. 2 \in 1..2 /\ Mask(2) = request.ktop
    BY MaskIs
  <2>2. \A r \in Ranks : Round(r) = 2
    BY DEF Renumbered, Round
  <2>3. \A r \in Ranks : \A c \in Interior(block[r]) : field[r].gid[c] = Numbered(r, 2)[c]
    <3> SUFFICES ASSUME NEW r \in Ranks
                 PROVE  \A c \in Interior(block[r]) : field[r].gid[c] = Numbered(r, 2)[c]
      OBVIOUS
    <3>1. IdsOf(r) /\ Round(r) = 2
      BY <2>2 DEF MessagesInv
    <3>2. \A c \in Interior(block[r]) : field[r].gid[c] = Numbered(r, Round(r))[c]
      BY <3>1 DEF IdsOf
    <3> QED  BY <3>1, <3>2
  <2>4. \A r \in Ranks : Columns2(r) = Rows2(r, 2) /\ Layers3(r) = Rows3(r, 2)
    BY <2>3 DEF Columns2, Layers3, Rows2, Rows3
  <2>5. ActiveColumns = ColumnsUnder(2) /\ ActiveCells = CellsUnder(2)
    BY <2>1 DEF ActiveColumns, ActiveCells, ColumnsUnder, CellsUnder
  <2>6. /\ UNION {Columns2(r) : r \in Ranks} = 0..Cardinality(ActiveColumns) - 1
        /\ UNION {Layers3(r) : r \in Ranks} = 0..Cardinality(ActiveCells) - 1
        /\ \A r, q \in Ranks : r < q =>
             /\ \A a \in Columns2(r), b \in Columns2(q) : a < b
             /\ \A a \in Layers3(r), b \in Layers3(q) : a < b
    <3>1. /\ UNION {Columns2(r) : r \in Ranks} = UNION {Rows2(r, 2) : r \in Ranks}
          /\ UNION {Layers3(r) : r \in Ranks} = UNION {Rows3(r, 2) : r \in Ranks}
      BY <2>4
    <3>2. /\ UNION {Rows2(r, 2) : r \in Ranks} = 0..Cardinality(ColumnsUnder(2)) - 1
          /\ UNION {Rows3(r, 2) : r \in Ranks} = 0..Cardinality(CellsUnder(2)) - 1
          /\ \A r, q \in Ranks : r < q =>
               /\ \A a \in Rows2(r, 2), b \in Rows2(q, 2) : a < b
               /\ \A a \in Rows3(r, 2), b \in Rows3(q, 2) : a < b
      BY <2>1, RowsTogether
    <3>3. /\ UNION {Columns2(r) : r \in Ranks} = 0..Cardinality(ActiveColumns) - 1
          /\ UNION {Layers3(r) : r \in Ranks} = 0..Cardinality(ActiveCells) - 1
      BY <2>5, <3>1, <3>2
    <3> QED  BY <2>4, <3>2, <3>3
  <2>7. \A r \in Ranks : \A c \in Interior(block[r]) :
          LET ids == field[r].gid[c]
              top == request.ktop[Global(block[r], c)]
          IN /\ ids.gid2 # Inactive <=> top < request.nz
             /\ \A k \in 0..request.nz - 1 : ids.gid3[k] # Inactive <=> k >= top
    BY <2>1, <2>3, RowsAre
  <2> QED  BY <2>6, <2>7
<1> QED  BY <1>1, LayoutInvHolds, MessagesInvHolds, PTL

-----------------------------------------------------------------------------
(* What the variables range over. *)

LEMMA TagIs ==
  ASSUME NEW p \in Positions, NEW d \in DOMAIN PhaseAt(p).sends
  PROVE  /\ d \in Directions
         /\ p.part <= 2 => p.phase > 1 /\ PhaseAt(p).sends[d] = 98 + p.phase
         /\ p.part > 2 => /\ PhaseAt(p).sends[d] \in 200..203
                          /\ d \in DOMAIN PhaseAt(p).receives
<1> DEFINE part == p.part
           h == p.phase
           phase == PhaseAt(p)
<1>1. /\ part \in 1..Parts /\ h \in 1..5 /\ h <= Len(Program[part]) /\ phase = Program[part][h]
  BY DEF Positions, PhaseAt
<1>2. d \in Directions /\ (d \in DOMAIN phase.sends <=> Opposite(d) \in DOMAIN phase.receives)
  BY PhaseIs DEF Paired
<1>3. p.part <= 2 /\ p.phase = 1 => DOMAIN phase.sends = {}
  BY PhaseIs
<1>4. InExchange(p) =>
        DOMAIN phase.receives = IF ~Calls[p.part - 2].corners THEN Directions
                                ELSE IF p.phase = 1 THEN {West, East} ELSE {South, North}
  BY PhaseIs
<1>5. /\ \A e \in {West, East} : Opposite(e) \in {West, East}
      /\ \A e \in {South, North} : Opposite(e) \in {South, North}
      /\ Opposite(Opposite(d)) = d
      /\ \A e \in Directions : Opposite(e) \in 0..3
  BY <1>2, Opposites DEF Directions, West, East, South, North
<1>6. p.part > 2 => d \in DOMAIN phase.receives
  BY <1>2, <1>4, <1>5 DEF InExchange
<1> HIDE DEF phase, part, h
<1>7. ASSUME part <= 2 PROVE h > 1 /\ phase.sends[d] = 98 + h
  <2>1. Program[part] = Build(part)
    BY <1>1, <1>7, PartIs
  <2>2. h \in 2..5
    BY <1>1, <1>3, <1>7 DEF part, h, phase
  <2>3. \A e, tag : SendRecv(e, tag).sends = [g \in {e} |-> tag]
    BY DEF SendRecv
  <2>4. /\ h = 2 => phase = SendRecv(West, 100)
        /\ h = 3 => phase = SendRecv(East, 101)
        /\ h = 4 => phase = SendRecv(South, 102)
        /\ h = 5 => phase = SendRecv(North, 103)
    BY <1>1, <2>1 DEF Build
  <2>5. ASSUME NEW e, NEW tag, phase = SendRecv(e, tag) PROVE phase.sends[d] = tag
    <3>1. phase.sends = [g \in {e} |-> tag]
      BY <2>3, <2>5
    <3>2. d = e
      BY <3>1 DEF phase
    <3> QED  BY <3>1, <3>2
  <2>6. h = 2 \/ h = 3 \/ h = 4 \/ h = 5
    BY <2>2
  <2>7. /\ h = 2 => phase.sends[d] = 100
        /\ h = 3 => phase.sends[d] = 101
        /\ h = 4 => phase.sends[d] = 102
        /\ h = 5 => phase.sends[d] = 103
    BY <2>4, <2>5
  <2> QED  BY <2>6, <2>7
<1>8. ASSUME part > 2 PROVE phase.sends[d] \in 200..203
  <2> DEFINE n == part - 2
  <2>1. Program[part] = Phases(n)
    BY <1>1, <1>8, PartIs
  <2> HIDE DEF n
  <2>2. \/ Calls[n].corners /\ h = 1
        \/ Calls[n].corners /\ h = 2
        \/ ~Calls[n].corners /\ h = 1
    <3>1. Len(Phases(n)) = IF Calls[n].corners THEN 2 ELSE 1
      BY DEF Phases
    <3> QED  BY <1>1, <2>1, <3>1
  <2>3. Calls[n].corners /\ h = 1 => phase.sends = [e \in {West, East} |-> 200 + Opposite(e)]
    BY <1>1, <2>1 DEF Phases, Exchange
  <2>4. Calls[n].corners /\ h = 2 => phase.sends = [e \in {South, North} |-> 200 + Opposite(e)]
    BY <1>1, <2>1 DEF Phases, Exchange
  <2>5. ~Calls[n].corners /\ h = 1 => phase.sends = [e \in Directions |-> 200 + Opposite(e)]
    BY <1>1, <2>1 DEF Phases, Exchange
  <2>6. ASSUME NEW dirs, phase.sends = [e \in dirs |-> 200 + Opposite(e)]
        PROVE  phase.sends[d] = 200 + Opposite(d)
    <3>1. d \in dirs
      BY <2>6 DEF phase
    <3> QED  BY <2>6, <3>1
  <2>7. phase.sends[d] = 200 + Opposite(d)
    BY <2>2, <2>3, <2>4, <2>5, <2>6
  <2>8. Opposite(d) \in 0..3
    BY <1>2, <1>5
  <2> QED  BY <2>7, <2>8
<1> QED  BY <1>2, <1>6, <1>7, <1>8 DEF part, h, phase

\* The program leaves at most two messages in a channel: a receiver that has
\* not taken the first has not posted what the sender waits for in the second.
LEMMA TwoInTransit ==
  ASSUME LayoutInv, MessagesInv, status = "running", NEW k \in Channels
  PROVE  Len(wire[k]) <= 2
<1>1. ProgressInv /\ GateInv /\ WireInv
  BY DEF MessagesInv
<1>2. PICK pos \in Seq(Positions) : InTransit(k, pos)
  BY <1>1 DEF WireInv
<1>3. Len(pos) = Len(wire[k]) /\ Len(pos) \in Nat
  BY <1>2 DEF InTransit
<1> SUFFICES ASSUME ~(Len(pos) <= 2) PROVE FALSE
  BY <1>3
<1>4. 1 \in 1..Len(pos) /\ 2 \in 1..Len(pos) /\ 3 \in 1..Len(pos)
  BY <1>3
<1> DEFINE first == pos[1]
           second == pos[2]
           third == pos[3]
           s == k[1]
           r == k[2]
<1>5. first \in Positions /\ second \in Positions /\ third \in Positions
  BY <1>4
<1>6. /\ Precedes(first, second) /\ Precedes(second, third)
      /\ Sent(s, third) /\ Open(r, first)
  BY <1>2, <1>4 DEF InTransit
<1>7. \E d \in Directions : Uses(k, d, first)
  BY <1>2, <1>4 DEF InTransit
<1>8. \E d \in Directions : Uses(k, d, second)
  BY <1>2, <1>4 DEF InTransit
<1>9. \E d \in Directions : Uses(k, d, third)
  BY <1>2, <1>4 DEF InTransit
<1> HIDE DEF first, second, third
<1>10. /\ s \in Ranks /\ r \in Ranks
       /\ at[s] \in Positions \union {Finish} /\ at[r] \in Positions \union {Finish}
  BY <1>1 DEF ProgressInv, Channels
<1>11. Precedes(second, at[s])
  BY <1>5, <1>6, <1>10, Order DEF Sent
<1>12. CASE second.part > 2
  <2>1. PICK d \in Directions : Uses(k, d, second)
    BY <1>8
  <2>2. d \in DOMAIN PhaseAt(second).receives
    BY <1>5, <1>12, <2>1, TagIs DEF Uses
  <2>3. neighbor[s][d] = r /\ neighbor[s][d] # ProcNull
    BY <2>1 DEF Uses
  <2>4. Sent(r, second)
    BY <1>1, <1>5, <1>10, <1>11, <2>2, <2>3 DEF GateInv
  <2>5. Precedes(first, at[r])
    BY <1>5, <1>6, <1>10, <2>4, Order DEF Sent
  <2> QED  BY <1>6, <2>5 DEF Open
<1>13. CASE ~(second.part > 2)
  <2> DEFINE P(p) == p.part
             H(p) == p.phase
  <2>1. ASSUME NEW p \in {first, second, third}
        PROVE  /\ p.part \in Nat \ {0} /\ p.phase \in Int
               /\ p.part <= 2 => k[3] = 98 + p.phase /\ p.phase \in 2..5
               /\ p.part > 2 => k[3] \in 200..203
    <3>1. p \in Positions /\ \E d \in Directions : Uses(k, d, p)
      BY <1>5, <1>7, <1>8, <1>9
    <3>2. PICK d \in Directions : Uses(k, d, p)
      BY <3>1
    <3>3. d \in DOMAIN PhaseAt(p).sends /\ k[3] = PhaseAt(p).sends[d]
      BY <3>2 DEF Uses
    <3>4. /\ p.part <= 2 => p.phase > 1 /\ k[3] = 98 + p.phase
          /\ p.part > 2 => k[3] \in 200..203
      BY <3>1, <3>3, TagIs
    <3>5. p.part \in 1..Parts /\ p.phase \in 1..5 /\ Parts \in Nat
      BY <3>1, PhaseIs, CallsAre
    <3> QED  BY <3>4, <3>5
  <2>2. /\ first.part < second.part \/ (first.part = second.part /\ first.phase < second.phase)
        /\ second.part < third.part \/ (second.part = third.part /\ second.phase < third.phase)
    BY <1>6 DEF Precedes
  <2> DEFINE a == first.part
             b == second.part
             c == third.part
             u == first.phase
             v == second.phase
             w == third.phase
             tag == k[3]
  <2>3. /\ a \in Nat \ {0} /\ b \in Nat \ {0} /\ c \in Nat \ {0}
        /\ u \in Int /\ v \in Int /\ w \in Int
        /\ a <= 2 => tag = 98 + u
        /\ b <= 2 => tag = 98 + v /\ v \in 2..5
        /\ c <= 2 => tag = 98 + w
        /\ c > 2 => tag \in 200..203
    BY <2>1
  <2>4. /\ a < b \/ (a = b /\ u < v)
        /\ b < c \/ (b = c /\ v < w)
        /\ ~(b > 2)
    BY <1>13, <2>2
  <2> HIDE DEF a, b, c, u, v, w, tag
  <2> QED  BY <2>3, <2>4
<1> QED  BY <1>12, <1>13

\* The ids of a numbering are rows of a domain with every cell active.
LEMMA IdRange ==
  ASSUME LayoutInv, status = "running", NEW round \in 1..2, NEW r \in Ranks,
         NEW c \in Interior(block[r])
  PROVE  /\ Numbered(r, round)[c].gid2 \in Inactive..request.nx * request.ny - 1
         /\ \A k \in 0..request.nz - 1 :
              Numbered(r, round)[c].gid3[k] \in Inactive..request.nx * request.ny * request.nz - 1
<1> DEFINE nx == request.nx
           ny == request.ny
           nz == request.nz
           X == 0..nx - 1
           Y == 0..ny - 1
           Z == 0..nz - 1
<1>1. nx \in Nat \ {0} /\ ny \in Nat \ {0} /\ nz \in Nat \ {0}
  BY Blocks, MaskIs
<1>2. nx * ny \in Nat /\ nx * ny * nz \in Nat
  <2> HIDE DEF nx, ny, nz
  <2> QED  BY <1>1
<1>3. /\ IsFiniteSet(X) /\ Cardinality(X) = nx
      /\ IsFiniteSet(Y) /\ Cardinality(Y) = ny
      /\ IsFiniteSet(Z) /\ Cardinality(Z) = nz
  <2>1. \A n \in Nat \ {0} : IsFiniteSet(0..n - 1) /\ Cardinality(0..n - 1) = n
    <3> SUFFICES ASSUME NEW n \in Nat \ {0}
                 PROVE  IsFiniteSet(0..n - 1) /\ Cardinality(0..n - 1) = n
      OBVIOUS
    <3>1. /\ IsFiniteSet(0..n - 1)
          /\ Cardinality(0..n - 1) = IF 0 > n - 1 THEN 0 ELSE (n - 1) - 0 + 1
      BY FS_Interval
    <3> QED  BY <3>1
  <2> HIDE DEF nx, ny, nz
  <2> QED  BY <1>1, <2>1
<1>4. DOMAIN request.ktop = X \X Y
  BY Extents DEF LayoutInv
<1> HIDE DEF nx, ny, nz, X, Y, Z
<1>5. IsFiniteSet(X \X Y) /\ Cardinality(X \X Y) = nx * ny
  BY <1>3, FS_Product
<1>6. Cardinality(ColumnsUnder(round)) <= nx * ny
  <2>1. ColumnsUnder(round) \in SUBSET (X \X Y)
    BY <1>4 DEF ColumnsUnder
  <2> QED  BY <1>5, <2>1, FS_Subset
<1>7. Cardinality(CellsUnder(round)) <= nx * ny * nz
  <2> DEFINE S == CellsUnder(round)
             T == (X \X Y) \X Z
             f == [e \in S |-> <<<<e[1], e[2]>>, e[3]>>]
  <2>1. IsFiniteSet(T) /\ Cardinality(T) = (nx * ny) * nz
    BY <1>3, <1>5, FS_Product
  <2>2. \A e \in S : e[1] \in X /\ e[2] \in Y /\ e[3] \in Z /\ e = <<e[1], e[2], e[3]>>
    BY DEF CellsUnder, X, Y, Z, nx, ny, nz
  <2> HIDE DEF S
  <2>3. f \in [S -> T]
    BY <2>2
  <2>4. \A d, e \in S : f[d] = f[e] => d = e
    BY <2>2
  <2>5. f \in Injection(S, T)
    BY <2>3, <2>4 DEF Injection, IsInjective
  <2> QED  BY <2>1, <2>5, FS_Injection DEF S
<1>8. Cardinality(ColumnsUnder(round)) \in Nat /\ Cardinality(CellsUnder(round)) \in Nat
  BY OffsetsAre, FS_CardinalityType
<1>9. \A i \in Rows2(r, round) : i \in 0..nx * ny - 1
  <2>1. Rows2(r, round) \subseteq 0..Cardinality(ColumnsUnder(round)) - 1
    BY RowsTogether
  <2> QED  BY <1>2, <1>6, <1>8, <2>1
<1>10. \A i \in Rows3(r, round) : i \in 0..nx * ny * nz - 1
  <2>1. Rows3(r, round) \subseteq 0..Cardinality(CellsUnder(round)) - 1
    BY RowsTogether
  <2> QED  BY <1>2, <1>7, <1>8, <2>1
<1> DEFINE ids == Numbered(r, round)[c]
<1>11. ids.gid2 \in Rows2(r, round) \union {Inactive}
  BY DEF Rows2
<1>12. ASSUME NEW k \in 0..request.nz - 1
       PROVE  ids.gid3[k] \in Rows3(r, round) \union {Inactive}
  <2>1. DOMAIN ids.gid3 = 0..request.nz - 1
    BY RowsAre
  <2>2. ids.gid3[k] \in Range(ids.gid3)
    BY <2>1 DEF Range
  <2> QED  BY <2>2 DEF Rows3
<1>13. Inactive = -1
  BY DEF Inactive
<1> HIDE DEF ids
<1>14. ids.gid2 \in Inactive..nx * ny - 1
  BY <1>2, <1>9, <1>11, <1>13
<1>15. \A k \in 0..request.nz - 1 : ids.gid3[k] \in Inactive..nx * ny * nz - 1
  BY <1>2, <1>10, <1>12, <1>13
<1> QED  BY <1>14, <1>15 DEF ids, nx, ny, nz

\* So are those a rank has of its neighbours.
LEMMA IdsInRange ==
  ASSUME LayoutInv, MessagesInv, status = "running", NEW r \in Ranks, NEW c \in WithHalo(block[r])
  PROVE  /\ field[r].gid[c].gid2 \in Inactive..request.nx * request.ny - 1
         /\ \A k \in 0..request.nz - 1 :
              field[r].gid[c].gid3[k] \in Inactive..request.nx * request.ny * request.nz - 1
<1> DEFINE ids == field[r].gid[c]
           n2 == request.nx * request.ny
           n3 == request.nx * request.ny * request.nz
           Bounded(i) == /\ i.gid2 \in Inactive..n2 - 1
                      /\ \A k \in 0..request.nz - 1 : i.gid3[k] \in Inactive..n3 - 1
<1>1. IdsOf(r) /\ ProgressInv
  BY DEF MessagesInv
<1>2. Bounded(NoIds)
  <2>1. request.nx \in Nat \ {0} /\ request.ny \in Nat \ {0} /\ request.nz \in Nat \ {0}
    BY Blocks, MaskIs
  <2>2. n2 \in Nat /\ n3 \in Nat
    BY <2>1
  <2> HIDE DEF n2, n3
  <2>3. Inactive \in Inactive..n2 - 1 /\ Inactive \in Inactive..n3 - 1
    BY <2>2 DEF Inactive
  <2>4. NoIds.gid2 = Inactive /\ NoIds.gid3 = [k \in 0..request.nz - 1 |-> Inactive]
    BY DEF NoIds
  <2> QED  BY <2>3, <2>4
<1>3. Round(r) \in 0..2
  <2>1. at[r] \in Positions \union {Finish} /\ at[r].part \in Int /\ at[r].phase \in Int
    BY <1>1, Order DEF ProgressInv
  <2>2. at[r].part >= 1
    <3>1. \A p \in Positions : p.part >= 1
      BY DEF Positions
    <3>2. Finish.part >= 1
      BY CallsAre DEF Finish
    <3> QED  BY <2>1, <3>1, <3>2
  <2> QED  BY <2>1, <2>2 DEF Round
<1>4. CASE Round(r) = 0
  BY <1>1, <1>2, <1>4 DEF IdsOf
<1>5. CASE Round(r) # 0
  <2>1. Round(r) \in 1..2
    BY <1>3, <1>5
  <2>2. CASE c \in Interior(block[r])
    <3>1. ids = Numbered(r, Round(r))[c]
      BY <1>1, <1>5, <2>2 DEF IdsOf
    <3> QED  BY <2>1, <2>2, <3>1, IdRange
  <2>3. CASE Corner(block[r], c)
    BY <1>1, <1>2, <1>5, <2>3 DEF IdsOf
  <2>4. ASSUME NEW d \in Directions, Receives(block[r], d, c, FALSE) PROVE Bounded(ids)
    <3> DEFINE s == neighbor[r][d]
               own == Facing(r, d, c, FALSE)
    <3>1. ids = IF s # ProcNull /\ Got(r, d) THEN Numbered(s, Round(r))[own] ELSE NoIds
      BY <1>1, <1>5, <2>4 DEF IdsOf
    <3>2. CASE s # ProcNull
      <4>1. s \in Ranks
        BY <3>2, Faces
      <4>2. own \in Interior(block[s])
        BY <2>4, <3>2, FacingOwn
      <4>3. Bounded(Numbered(s, Round(r))[own])
        <5> HIDE DEF s, own
        <5> QED  BY <2>1, <4>1, <4>2, IdRange
      <4> QED  BY <1>2, <3>1, <4>3
    <3> QED  BY <1>2, <3>1, <3>2
  <2> QED  BY <2>2, <2>3, <2>4, Planes
<1> QED  BY <1>4, <1>5

(***************************************************************************)
(* The type invariant, with the two facts of it that are more than types:  *)
(* an id any rank has of any cell is a row of the domain or none, and no   *)
(* channel ever holds more than two messages.                              *)
(***************************************************************************)
THEOREM TypeCorrect == Spec => []TypeOK
<1>1. LayoutInv /\ MessagesInv => TypeOK
  <2> SUFFICES ASSUME LayoutInv, MessagesInv PROVE TypeOK
    OBVIOUS
  <2>1. ProgressInv
    BY DEF MessagesInv
  <2>2. ASSUME NEW r \in Ranks PROVE at[r].part \in 1..Parts + 1 /\ posted[r] \in BOOLEAN
    <3>1. at[r] \in Positions \union {Finish} /\ posted[r] \in BOOLEAN
      BY <2>1 DEF ProgressInv
    <3>2. CASE at[r] \in Positions
      <4>1. at[r].part \in 1..Parts
        BY <3>2 DEF Positions
      <4> QED  BY <3>1, <4>1, CallsAre
    <3>3. CASE at[r] = Finish
      <4>1. at[r].part = Parts + 1
        BY <3>3 DEF Finish
      <4> QED  BY <3>1, <4>1, CallsAre
    <3> QED  BY <3>1, <3>2, <3>3
  <2>3. \A k \in DOMAIN wire : Len(wire[k]) <= 2
    <3>1. CASE status = "running"
      <4>1. DOMAIN wire = Channels
        BY <3>1 DEF MessagesInv, WireInv
      <4> QED  BY <3>1, <4>1, TwoInTransit
    <3>2. CASE status # "running"
      BY <3>2 DEF MessagesInv
    <3> QED  BY <3>1, <3>2
  <2>4. request \in Requests /\ status \in {"starting", "running", "fatal"}
    BY DEF LayoutInv
  <2> QED  BY <2>2, <2>3, <2>4, IdsInRange DEF TypeOK
<1> QED  BY <1>1, LayoutInvHolds, MessagesInvHolds, PTL
=============================================================================
