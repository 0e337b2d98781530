---------------------------- MODULE SumTheorems ----------------------------
(***************************************************************************)
(* Facts about SumFunctionOnSet of the community modules, for finite sets  *)
(* of any size: what it is on the empty set, that any element can be taken *)
(* out of a sum first, that it is an integer, and what a change of one     *)
(* summand does to it.                                                     *)
(*                                                                         *)
(* The sum is a recursive function on the subsets of its set, so the facts *)
(* are proved by induction on finite sets.  The library's induction rules  *)
(* range over predicates; the rule here ranges over the set of the subsets *)
(* that are known to be good, which the provers can instantiate.           *)
(*                                                                         *)
(* From the sums: the places of the elements of a finite total order, and  *)
(* the offsets of parts that follow one another.                           *)
(***************************************************************************)
EXTENDS Integers, Functions, FiniteSetTheorems, WellFoundedInduction, TLAPS

\* If every subset of S is good whose proper subsets are, S is good.
THEOREM SubsetInduction ==
  ASSUME NEW S, IsFiniteSet(S), NEW Good,
         ASSUME NEW T \in SUBSET S, \A U \in SUBSET T : U # T => U \in Good
         PROVE  T \in Good
  PROVE  S \in Good
<1> DEFINE Bad == {T \in SUBSET S : T \notin Good}
<1>1. IsWellFoundedOn(StrictSubsetOrdering(S), SUBSET S)
  BY FS_FiniteSubsetsOfFinite, FS_StrictSubsetOrderingWellFounded
<1> SUFFICES ASSUME S \notin Good PROVE FALSE
  OBVIOUS
<1>2. Bad # {} /\ Bad \subseteq SUBSET S
  OBVIOUS
<1> HIDE DEF Bad
<1>3. PICK T \in Bad : \A U \in Bad : <<U, T>> \notin StrictSubsetOrdering(S)
  BY <1>1, <1>2, WFMin
<1>4. T \in SUBSET S /\ T \notin Good
  BY DEF Bad
<1>5. ASSUME NEW U \in SUBSET T, U # T, U \notin Good PROVE FALSE
  <2>1. U \in Bad
    BY <1>4, <1>5 DEF Bad
  <2>2. <<U, T>> \in StrictSubsetOrdering(S)
    BY <1>4, <1>5 DEF StrictSubsetOrdering
  <2> QED  BY <1>3, <2>1, <2>2
<1> QED  BY <1>4, <1>5

-----------------------------------------------------------------------------
\* The element the sum of s begins with, and the rest.
First(s) == CHOOSE x \in s : TRUE
Rest(s)  == s \ {First(s)}

\* g is the table of the sums of f over the subsets of S.
IsTable(f, S, g) ==
  g = [s \in SUBSET S |-> IF s = {} THEN 0 ELSE f[First(s)] + g[Rest(s)]]

Table(f, S) == CHOOSE g : IsTable(f, S, g)

\* The sum is the entry of its own set in the table of that set.
LEMMA SumIsInTable == \A f, S : SumFunctionOnSet(f, S) = Table(f, S)[S]
BY DEF SumFunctionOnSet, FoldFunctionOnSet, MapThenFoldSet, Table, IsTable, First, Rest

\* The rest of a set is a proper subset, which is what the induction goes down.
LEMMA RestIsSmaller ==
  ASSUME NEW s, s # {}
  PROVE  First(s) \in s /\ Rest(s) \in SUBSET s /\ Rest(s) # s
BY DEF First, Rest

\* Two tables agree where both are defined.
LEMMA TablesAgree ==
  ASSUME NEW f, NEW S, NEW T, NEW g, NEW h, IsTable(f, S, g), IsTable(f, T, h),
         NEW V, IsFiniteSet(V), V \subseteq S, V \subseteq T
  PROVE  g[V] = h[V]
<1> DEFINE Good == {s \in SUBSET V : g[s] = h[s]}
<1>1. ASSUME NEW U \in SUBSET V, \A W \in SUBSET U : W # U => W \in Good
      PROVE  U \in Good
  <2>1. CASE U = {}
    BY <2>1 DEF IsTable
  <2>2. CASE U # {}
    <3>1. Rest(U) \in Good
      BY <1>1, <2>2, RestIsSmaller
    <3>2. g[U] = f[First(U)] + g[Rest(U)] /\ h[U] = f[First(U)] + h[Rest(U)]
      BY <2>2 DEF IsTable
    <3> QED  BY <3>1, <3>2
  <2> QED  BY <2>1, <2>2
<1> HIDE DEF Good
<1>2. V \in Good
  BY <1>1, SubsetInduction
<1> QED  BY <1>2 DEF Good

\* Every finite set has a table: it is put together from those of the rests.
LEMMA TableExists ==
  ASSUME NEW f, NEW S, IsFiniteSet(S)
  PROVE  IsTable(f, S, Table(f, S))
<1> DEFINE Good == {T \in SUBSET S : \E g : IsTable(f, T, g)}
<1>1. ASSUME NEW T \in SUBSET S, \A U \in SUBSET T : U # T => U \in Good
      PROVE  T \in Good
  <2> DEFINE sum(s) == IF s = {} THEN 0 ELSE f[First(s)] + Table(f, Rest(s))[Rest(s)]
             G == [s \in SUBSET T |-> sum(s)]
  <2>1. \A U \in SUBSET T : U # T => IsTable(f, U, Table(f, U)) /\ IsFiniteSet(U)
    BY <1>1, FS_Subset DEF Table
  <2>2. ASSUME NEW s \in SUBSET T, s # {} PROVE G[Rest(s)] = Table(f, Rest(s))[Rest(s)]
    <3> DEFINE V == Rest(s)
    <3>1. V \in SUBSET T /\ V # T
      BY <2>2, RestIsSmaller
    <3>2. IsTable(f, V, Table(f, V)) /\ G[V] = sum(V)
      BY <2>1, <3>1
    <3> HIDE DEF V, G
    <3>3. CASE V = {}
      <4>1. Table(f, V)[V] = 0
        BY <3>2, <3>3 DEF IsTable
      <4> QED  BY <3>2, <3>3, <4>1 DEF V
    <3>4. CASE V # {}
      <4>1. Rest(V) \in SUBSET V /\ Rest(V) # V
        BY <3>4, RestIsSmaller
      <4>2. IsTable(f, Rest(V), Table(f, Rest(V))) /\ IsFiniteSet(Rest(V))
        BY <2>1, <3>1, <4>1
      <4>3. Table(f, V)[V] = f[First(V)] + Table(f, V)[Rest(V)]
        BY <3>2, <3>4 DEF IsTable
      <4>4. Table(f, V)[Rest(V)] = Table(f, Rest(V))[Rest(V)]
        BY <3>2, <4>1, <4>2, TablesAgree
      <4> QED  BY <3>2, <3>4, <4>3, <4>4 DEF V
    <3> QED  BY <3>3, <3>4
  <2>3. \A s \in SUBSET T : G[s] = IF s = {} THEN 0 ELSE f[First(s)] + G[Rest(s)]
    BY <2>2
  <2>4. G = [s \in SUBSET T |-> G[s]]
    OBVIOUS
  <2> HIDE DEF G
  <2>5. IsTable(f, T, G)
    BY <2>3, <2>4 DEF IsTable
  <2> QED  BY <2>5
<1> HIDE DEF Good
<1>2. S \in Good
  BY <1>1, SubsetInduction
<1> QED  BY <1>2 DEF Good, Table

-----------------------------------------------------------------------------
\* A sum of nothing is 0.
THEOREM SumEmpty == \A f : SumFunctionOnSet(f, {}) = 0
<1> SUFFICES ASSUME NEW f PROVE SumFunctionOnSet(f, {}) = 0
  OBVIOUS
<1>1. IsTable(f, {}, Table(f, {}))
  BY TableExists, FS_EmptySet
<1>2. Table(f, {})[{}] = 0
  BY <1>1 DEF IsTable
<1> QED  BY <1>2, SumIsInTable

\* A sum is its first summand and the sum of the rest.
LEMMA SumFirst ==
  ASSUME NEW f, NEW S, IsFiniteSet(S), S # {}
  PROVE  SumFunctionOnSet(f, S) = f[First(S)] + SumFunctionOnSet(f, Rest(S))
<1>1. Rest(S) \in SUBSET S /\ IsFiniteSet(Rest(S))
  BY RestIsSmaller, FS_Subset
<1>2. IsTable(f, S, Table(f, S)) /\ IsTable(f, Rest(S), Table(f, Rest(S)))
  BY <1>1, TableExists
<1>3. Table(f, S)[S] = f[First(S)] + Table(f, S)[Rest(S)]
  BY <1>2 DEF IsTable
<1>4. Table(f, S)[Rest(S)] = Table(f, Rest(S))[Rest(S)]
  BY <1>1, <1>2, TablesAgree
<1> QED  BY <1>3, <1>4, SumIsInTable

\* A sum of integers is an integer.
THEOREM SumType ==
  ASSUME NEW f, NEW S, IsFiniteSet(S), \A x \in S : f[x] \in Int
  PROVE  SumFunctionOnSet(f, S) \in Int
<1> DEFINE Good == {T \in SUBSET S : SumFunctionOnSet(f, T) \in Int}
<1>1. ASSUME NEW T \in SUBSET S, \A U \in SUBSET T : U # T => U \in Good
      PROVE  T \in Good
  <2>1. CASE T = {}
    BY <2>1, SumEmpty
  <2>2. CASE T # {}
    <3>1. SumFunctionOnSet(f, Rest(T)) \in Int /\ f[First(T)] \in Int
      BY <1>1, <2>2, RestIsSmaller
    <3>2. IsFiniteSet(T)
      BY FS_Subset
    <3> QED  BY <2>2, <3>1, <3>2, SumFirst
  <2> QED  BY <2>1, <2>2
<1> HIDE DEF Good
<1>2. S \in Good
  BY <1>1, SubsetInduction
<1> QED  BY <1>2 DEF Good

\* Any summand can be taken out: the order of the sum does not matter.
THEOREM SumSplit ==
  ASSUME NEW f, NEW S, IsFiniteSet(S), \A x \in S : f[x] \in Int, NEW a \in S
  PROVE  SumFunctionOnSet(f, S) = f[a] + SumFunctionOnSet(f, S \ {a})
<1> DEFINE Good == {T \in SUBSET S : \A x \in T :
                      SumFunctionOnSet(f, T) = f[x] + SumFunctionOnSet(f, T \ {x})}
<1>1. ASSUME NEW T \in SUBSET S, \A U \in SUBSET T : U # T => U \in Good
      PROVE  T \in Good
  <2> SUFFICES ASSUME NEW x \in T
               PROVE  SumFunctionOnSet(f, T) = f[x] + SumFunctionOnSet(f, T \ {x})
    OBVIOUS
  <2> DEFINE y == First(T)
  <2>1. y \in T /\ IsFiniteSet(T)
    BY RestIsSmaller, FS_Subset
  <2>2. SumFunctionOnSet(f, T) = f[y] + SumFunctionOnSet(f, T \ {y})
    BY <2>1, SumFirst DEF Rest
  <2> HIDE DEF y
  <2>3. CASE x # y
    <3>1. T \ {x} \in Good /\ T \ {y} \in Good
      BY <1>1, <2>1
    <3>2. /\ SumFunctionOnSet(f, T \ {y}) = f[x] + SumFunctionOnSet(f, (T \ {y}) \ {x})
          /\ SumFunctionOnSet(f, T \ {x}) = f[y] + SumFunctionOnSet(f, (T \ {x}) \ {y})
      BY <2>1, <2>3, <3>1
    <3>3. (T \ {y}) \ {x} = (T \ {x}) \ {y}
      OBVIOUS
    <3>4. SumFunctionOnSet(f, (T \ {x}) \ {y}) \in Int
      <4>1. (T \ {x}) \ {y} \in SUBSET S
        OBVIOUS
      <4>2. IsFiniteSet((T \ {x}) \ {y})
        BY <4>1, FS_Subset
      <4> QED  BY <4>1, <4>2, SumType
    <3>5. f[x] \in Int /\ f[y] \in Int
      BY <2>1
    <3> DEFINE both == SumFunctionOnSet(f, (T \ {x}) \ {y})
    <3>6. SumFunctionOnSet(f, (T \ {y}) \ {x}) = both
      BY <3>3
    <3> HIDE DEF both
    <3>7. both \in Int /\ SumFunctionOnSet(f, T) = f[y] + (f[x] + both)
      BY <2>2, <3>2, <3>4, <3>6 DEF both
    <3>8. SumFunctionOnSet(f, T \ {x}) = f[y] + both
      BY <3>2 DEF both
    <3> QED  BY <3>5, <3>7, <3>8
  <2> QED  BY <2>2, <2>3
<1> HIDE DEF Good
<1>2. S \in Good
  BY <1>1, SubsetInduction
<1> QED  BY <1>2 DEF Good

\* A sum depends on the summands only.
THEOREM SumSame ==
  ASSUME NEW f, NEW g, NEW S, IsFiniteSet(S), \A x \in S : f[x] = g[x]
  PROVE  SumFunctionOnSet(f, S) = SumFunctionOnSet(g, S)
<1> DEFINE Good == {T \in SUBSET S : SumFunctionOnSet(f, T) = SumFunctionOnSet(g, T)}
<1>1. ASSUME NEW T \in SUBSET S, \A U \in SUBSET T : U # T => U \in Good
      PROVE  T \in Good
  <2>1. CASE T = {}
    BY <2>1, SumEmpty
  <2>2. CASE T # {}
    <3>1. SumFunctionOnSet(f, Rest(T)) = SumFunctionOnSet(g, Rest(T))
      BY <1>1, <2>2, RestIsSmaller
    <3>2. f[First(T)] = g[First(T)] /\ IsFiniteSet(T)
      BY <2>2, RestIsSmaller, FS_Subset
    <3> QED  BY <2>2, <3>1, <3>2, SumFirst
  <2> QED  BY <2>1, <2>2
<1> HIDE DEF Good
<1>2. S \in Good
  BY <1>1, SubsetInduction
<1> QED  BY <1>2 DEF Good

\* A change of one summand changes the sum by as much.
THEOREM SumChange ==
  ASSUME NEW f, NEW g, NEW S, IsFiniteSet(S), NEW a \in S,
         \A x \in S : f[x] \in Int, g[a] \in Int, \A x \in S \ {a} : g[x] = f[x]
  PROVE  SumFunctionOnSet(g, S) = SumFunctionOnSet(f, S) + g[a] - f[a]
<1>1. IsFiniteSet(S \ {a})
  BY FS_RemoveElement
<1>2. SumFunctionOnSet(f, S) = f[a] + SumFunctionOnSet(f, S \ {a})
  BY SumSplit
<1>3. SumFunctionOnSet(g, S) = g[a] + SumFunctionOnSet(g, S \ {a})
  BY SumSplit
<1>4. SumFunctionOnSet(g, S \ {a}) = SumFunctionOnSet(f, S \ {a})
  BY <1>1, SumSame
<1>5. SumFunctionOnSet(f, S \ {a}) \in Int
  BY <1>1, SumType
<1> QED  BY <1>2, <1>3, <1>4, <1>5

\* A sum of nothing but zeros.
THEOREM SumZero ==
  ASSUME NEW f, NEW S, IsFiniteSet(S), \A x \in S : f[x] = 0
  PROVE  SumFunctionOnSet(f, S) = 0
<1> DEFINE Good == {T \in SUBSET S : SumFunctionOnSet(f, T) = 0}
<1>1. ASSUME NEW T \in SUBSET S, \A U \in SUBSET T : U # T => U \in Good
      PROVE  T \in Good
  <2>1. CASE T = {}
    BY <2>1, SumEmpty
  <2>2. CASE T # {}
    <3>1. SumFunctionOnSet(f, Rest(T)) = 0 /\ f[First(T)] = 0 /\ IsFiniteSet(T)
      BY <1>1, <2>2, RestIsSmaller, FS_Subset
    <3> QED  BY <2>2, <3>1, SumFirst
  <2> QED  BY <2>1, <2>2
<1> HIDE DEF Good
<1>2. S \in Good
  BY <1>1, SubsetInduction
<1> QED  BY <1>2 DEF Good

-----------------------------------------------------------------------------
(* Places in a finite set and offsets of consecutive parts.                *)

\* Induction up to a bound, with the set of good numbers in place of a predicate.
THEOREM UpTo ==
  ASSUME NEW n \in Nat, NEW Good, 0 \in Good, \A i \in 0..n - 1 : i \in Good => i + 1 \in Good
  PROVE  \A i \in 0..n : i \in Good
<1> DEFINE Bad == {i \in 0..n : i \notin Good}
<1> SUFFICES ASSUME Bad # {} PROVE FALSE
  OBVIOUS
<1>1. Bad \subseteq Nat
  OBVIOUS
<1>2. PICK i \in Bad : \A j \in Bad : <<j, i>> \notin OpToRel(<, Nat)
  <2> HIDE DEF Bad
  <2> QED  BY <1>1, NatLessThanWellFounded, WFMin
<1>3. i \in 1..n /\ i \notin Good
  OBVIOUS
<1>4. i - 1 \in 0..n - 1 /\ (i - 1) + 1 = i
  BY <1>3
<1>5. i - 1 \notin Good
  BY <1>3, <1>4
<1>6. i - 1 \in Bad /\ i - 1 \in Nat /\ i \in Nat /\ i - 1 < i
  BY <1>3, <1>4, <1>5
<1>7. <<i - 1, i>> \in OpToRel(<, Nat)
  BY <1>6 DEF OpToRel
<1> QED  BY <1>2, <1>6, <1>7

-----------------------------------------------------------------------------
\* The place of an element of S in a strict order on S.
Place(S, Before, x) == Cardinality({y \in S : <<y, x>> \in Before})

(***************************************************************************)
(* The elements of a finite set that is totally ordered have the places    *)
(* from 0 to one less than their number, each of them one.                 *)
(***************************************************************************)
THEOREM PlacesAreRows ==
  ASSUME NEW S, IsFiniteSet(S), NEW Before,
         \A x \in S : <<x, x>> \notin Before,
         \A x, y, z \in S : <<x, y>> \in Before /\ <<y, z>> \in Before => <<x, z>> \in Before,
         \A x, y \in S : x = y \/ <<x, y>> \in Before \/ <<y, x>> \in Before
  PROVE  /\ Cardinality(S) \in Nat
         /\ \A x \in S : Place(S, Before, x) \in 0..Cardinality(S) - 1
         /\ \A i \in 0..Cardinality(S) - 1 : \E x \in S : Place(S, Before, x) = i
<1> DEFINE n == Cardinality(S)
           Below(x) == {y \in S : <<y, x>> \in Before}
           place == [x \in S |-> Cardinality(Below(x))]
<1>1. n \in Nat
  BY FS_CardinalityType
<1>2. ASSUME NEW x \in S PROVE IsFiniteSet(Below(x)) /\ Cardinality(Below(x)) \in 0..n - 1
  <2>1. Below(x) \in SUBSET S /\ x \notin Below(x)
    OBVIOUS
  <2> HIDE DEF Below
  <2>2. /\ IsFiniteSet(Below(x)) /\ Cardinality(Below(x)) <= n
        /\ n = Cardinality(Below(x)) => S = Below(x)
    BY <2>1, FS_Subset
  <2>3. Cardinality(Below(x)) \in Nat
    BY <2>2, FS_CardinalityType
  <2> HIDE DEF n
  <2> QED  BY <1>1, <2>1, <2>2, <2>3
<1>3. ASSUME NEW x \in S, NEW y \in S, <<x, y>> \in Before
      PROVE  Cardinality(Below(x)) # Cardinality(Below(y))
  <2>1. Below(x) \in SUBSET Below(y) /\ x \in Below(y) /\ x \notin Below(x)
    BY <1>3
  <2> HIDE DEF Below
  <2>2. Cardinality(Below(y)) = Cardinality(Below(x)) => Below(y) = Below(x)
    BY <1>2, <2>1, FS_Subset
  <2> QED  BY <2>1, <2>2
<1>4. place \in [S -> 0..n - 1]
  <2> HIDE DEF Below, n
  <2> QED  BY <1>2
<1>5. ASSUME NEW x \in S, NEW y \in S, place[x] = place[y] PROVE x = y
  <2>1. Cardinality(Below(x)) = Cardinality(Below(y))
    BY <1>5
  <2> HIDE DEF Below, place
  <2> QED  BY <1>3, <2>1
<1>6. place \in Injection(S, 0..n - 1)
  <2> HIDE DEF place
  <2> QED  BY <1>4, <1>5 DEF Injection, IsInjective
<1>7. IsFiniteSet(0..n - 1) /\ Cardinality(0..n - 1) = n
  <2>1. 0 \in Int /\ n - 1 \in Int
    BY <1>1
  <2> HIDE DEF n
  <2> QED  BY <1>1, <2>1, FS_Interval
<1>8. place \in Surjection(S, 0..n - 1)
  <2> HIDE DEF place
  <2>1. Cardinality(S) = Cardinality(0..n - 1)
    BY <1>7
  <2> HIDE DEF n
  <2> QED  BY <1>6, <1>7, <2>1, FS_Injection
<1>9. \A i \in 0..n - 1 : \E x \in S : place[x] = i
  <2> HIDE DEF place, n
  <2> QED  BY <1>8 DEF Surjection
<1>10. \A x \in S : place[x] = Place(S, Before, x)
  BY DEF Place
<1> HIDE DEF place
<1>11. \A x \in S : place[x] \in 0..n - 1
  <2> HIDE DEF n
  <2> QED  BY <1>4
<1> QED  BY <1>1, <1>9, <1>10, <1>11

-----------------------------------------------------------------------------
\* What the parts before the rth have together.
Offset(size, r) == SumFunctionOnSet(size, 0..r - 1)

\* An offset is the one before it and the size of the part between.
THEOREM OffsetNext ==
  ASSUME NEW n \in Nat, NEW size, \A r \in 0..n - 1 : size[r] \in Nat
  PROVE  /\ Offset(size, 0) = 0
         /\ \A r \in 0..n - 1 : Offset(size, r + 1) = Offset(size, r) + size[r]
         /\ \A r \in 0..n : Offset(size, r) \in Nat
<1>1. Offset(size, 0) = 0
  <2>1. 0..0 - 1 = {}
    OBVIOUS
  <2> QED  BY <2>1, SumEmpty DEF Offset
<1>2. ASSUME NEW r \in 0..n - 1
      PROVE  Offset(size, r + 1) = Offset(size, r) + size[r] /\ Offset(size, r) \in Int
  <2> DEFINE S == 0..(r + 1) - 1
             T == 0..r - 1
  <2>1. r \in S /\ S \ {r} = T /\ r \in Nat
    OBVIOUS
  <2>2. \A x \in S : x \in 0..n - 1
    OBVIOUS
  <2>3. \A x \in S : size[x] \in Int
    BY <2>2
  <2>4. IsFiniteSet(S) /\ IsFiniteSet(T)
    <3>1. 0 \in Int /\ (r + 1) - 1 \in Int /\ r - 1 \in Int
      OBVIOUS
    <3> QED  BY <3>1, FS_Interval
  <2>5. Offset(size, r + 1) = SumFunctionOnSet(size, S) /\ Offset(size, r) = SumFunctionOnSet(size, T)
    BY DEF Offset
  <2> HIDE DEF S, T
  <2>6. SumFunctionOnSet(size, S) = size[r] + SumFunctionOnSet(size, S \ {r})
    BY <2>1, <2>3, <2>4, SumSplit
  <2>7. \A x \in T : size[x] \in Int
    BY <2>1, <2>3
  <2>8. SumFunctionOnSet(size, T) \in Int
    BY <2>4, <2>7, SumType
  <2>9. size[r] \in Int
    BY <2>1, <2>3
  <2>10. SumFunctionOnSet(size, S) = size[r] + SumFunctionOnSet(size, T)
    BY <2>1, <2>6
  <2> QED  BY <2>5, <2>8, <2>9, <2>10
<1> DEFINE Good == {r \in 0..n : Offset(size, r) \in Nat}
<1>3. 0 \in Good
  BY <1>1
<1>4. ASSUME NEW r \in 0..n - 1, r \in Good PROVE r + 1 \in Good
  <2>1. size[r] \in Nat /\ Offset(size, r) \in Nat /\ r + 1 \in 0..n
    BY <1>4
  <2> QED  BY <1>2, <2>1
<1> HIDE DEF Good
<1>5. \A r \in 0..n : r \in Good
  BY <1>3, <1>4, UpTo
<1>6. \A r \in 0..n : Offset(size, r) \in Nat
  BY <1>5 DEF Good
<1> QED  BY <1>1, <1>2, <1>6

\* A part ends no later than a later one begins.
THEOREM OffsetsGrow ==
  ASSUME NEW n \in Nat, NEW size, \A r \in 0..n - 1 : size[r] \in Nat,
         NEW r \in 0..n - 1, NEW q \in 0..n, r < q
  PROVE  Offset(size, r) + size[r] <= Offset(size, q)
<1> DEFINE Good == {i \in 0..n : i > r => Offset(size, r) + size[r] <= Offset(size, i)}
<1>1. 0 \in Good
  OBVIOUS
<1>2. ASSUME NEW i \in 0..n - 1, i \in Good PROVE i + 1 \in Good
  <2>1. /\ Offset(size, i + 1) = Offset(size, i) + size[i]
        /\ Offset(size, i) \in Nat /\ size[i] \in Nat /\ Offset(size, r) \in Nat /\ size[r] \in Nat
        /\ i + 1 \in 0..n
    <3>1. i \in 0..n /\ r \in 0..n /\ i + 1 \in 0..n
      OBVIOUS
    <3> QED  BY <3>1, OffsetNext
  <2>2. CASE i = r
    BY <2>1, <2>2
  <2>3. CASE i < r
    BY <2>1, <2>3
  <2>4. CASE i > r
    <3>1. Offset(size, r) + size[r] <= Offset(size, i)
      BY <1>2, <2>4
    <3> QED  BY <2>1, <3>1
  <2> QED  BY <2>2, <2>3, <2>4
<1> HIDE DEF Good
<1>3. q \in Good
  BY <1>1, <1>2, UpTo
<1> QED  BY <1>3 DEF Good

\* The parts leave no gap: every number below an offset lies in one of them.
THEOREM OffsetsCover ==
  ASSUME NEW n \in Nat, NEW size, \A r \in 0..n - 1 : size[r] \in Nat,
         NEW i \in 0..Offset(size, n) - 1
  PROVE  \E r \in 0..n - 1 : i \in Offset(size, r)..Offset(size, r) + size[r] - 1
<1> DEFINE Good == {m \in 0..n : i < Offset(size, m) =>
                      \E r \in 0..n - 1 : i \in Offset(size, r)..Offset(size, r) + size[r] - 1}
<1>0. i \in Nat /\ i < Offset(size, n)
  <2>1. n \in 0..n
    OBVIOUS
  <2>2. Offset(size, n) \in Nat
    BY <2>1, OffsetNext
  <2> QED  BY <2>2
<1>1. 0 \in Good
  BY <1>0, OffsetNext
<1>2. ASSUME NEW m \in 0..n - 1, m \in Good PROVE m + 1 \in Good
  <2>1. /\ Offset(size, m + 1) = Offset(size, m) + size[m]
        /\ Offset(size, m) \in Nat /\ size[m] \in Nat /\ m + 1 \in 0..n
    <3>1. m \in 0..n /\ m + 1 \in 0..n
      OBVIOUS
    <3> QED  BY <3>1, OffsetNext
  <2>2. CASE i < Offset(size, m)
    BY <1>2, <2>1, <2>2
  <2>3. CASE ~(i < Offset(size, m))
    <3>1. i < Offset(size, m + 1) => i \in Offset(size, m)..Offset(size, m) + size[m] - 1
      BY <1>0, <2>1, <2>3
    <3> QED  BY <2>1, <3>1
  <2> QED  BY <2>2, <2>3
<1> HIDE DEF Good
<1>3. n \in Good
  <2>1. n \in 0..n
    OBVIOUS
  <2> QED  BY <1>1, <1>2, <2>1, UpTo
<1> QED  BY <1>0, <1>3 DEF Good

\* Sets apart from each other have together as many elements as the sum of
\* their numbers says.
THEOREM PartsCount ==
  ASSUME NEW n \in Nat, NEW part, NEW size,
         \A r \in 0..n - 1 : IsFiniteSet(part[r]) /\ size[r] = Cardinality(part[r]),
         \A r, q \in 0..n - 1 : r # q => part[r] \cap part[q] = {}
  PROVE  LET all == UNION {part[r] : r \in 0..n - 1}
         IN IsFiniteSet(all) /\ Cardinality(all) = Offset(size, n)
<1> DEFINE Upto(m) == UNION {part[r] : r \in 0..m - 1}
           Good == {m \in 0..n : IsFiniteSet(Upto(m)) /\ Cardinality(Upto(m)) = Offset(size, m)}
<1>0. \A r \in 0..n - 1 : size[r] \in Nat
  BY FS_CardinalityType
<1>1. 0 \in Good
  <2>1. Upto(0) = {}
    OBVIOUS
  <2> HIDE DEF Upto
  <2> QED  BY <1>0, <2>1, FS_EmptySet, OffsetNext
<1>2. ASSUME NEW m \in 0..n - 1, m \in Good PROVE m + 1 \in Good
  <2>1. Upto(m + 1) = Upto(m) \cup part[m]
    <3>1. \A r \in Int : r \in 0..(m + 1) - 1 <=> r \in 0..m - 1 \/ r = m
      OBVIOUS
    <3> QED  BY <3>1
  <2>2. Upto(m) \cap part[m] = {}
    <3> SUFFICES ASSUME NEW x \in Upto(m), x \in part[m] PROVE FALSE
      OBVIOUS
    <3>1. PICK r \in 0..m - 1 : x \in part[r]
      OBVIOUS
    <3>2. r \in 0..n - 1 /\ r # m
      OBVIOUS
    <3> QED  BY <3>1, <3>2
  <2>3. IsFiniteSet(Upto(m)) /\ Cardinality(Upto(m)) = Offset(size, m) /\ m + 1 \in 0..n
    BY <1>2
  <2>4. IsFiniteSet(part[m]) /\ size[m] = Cardinality(part[m]) /\ size[m] \in Nat
    BY <1>0
  <2>5. Offset(size, m + 1) = Offset(size, m) + size[m] /\ Offset(size, m) \in Nat
    <3>1. m \in 0..n
      OBVIOUS
    <3> QED  BY <1>0, <3>1, OffsetNext
  <2> HIDE DEF Upto
  <2>6. /\ IsFiniteSet(Upto(m) \cup part[m])
        /\ Cardinality(Upto(m) \cup part[m])
             = Cardinality(Upto(m)) + Cardinality(part[m]) - Cardinality(Upto(m) \cap part[m])
    BY <2>3, <2>4, FS_Union
  <2>7. Cardinality(Upto(m) \cap part[m]) = 0
    BY <2>2, FS_EmptySet
  <2>8. IsFiniteSet(Upto(m + 1)) /\ Cardinality(Upto(m + 1)) = Offset(size, m + 1)
    <3>1. Cardinality(Upto(m + 1)) = Offset(size, m) + size[m] - 0
      BY <2>1, <2>3, <2>4, <2>6, <2>7
    <3>2. IsFiniteSet(Upto(m + 1))
      BY <2>1, <2>6
    <3> QED  BY <2>4, <2>5, <3>1, <3>2
  <2> QED  BY <2>3, <2>8
<1> HIDE DEF Good
<1>3. n \in Good
  <2>1. n \in 0..n
    OBVIOUS
  <2> QED  BY <1>1, <1>2, <2>1, UpTo
<1> QED  BY <1>3 DEF Good
=============================================================================
