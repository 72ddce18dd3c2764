----------------------------- MODULE FiniteSums -----------------------------
(***************************************************************************)
(* Lemmas the proofs of several components share: extrema of sets of       *)
(* numbers, and what the fold of the community modules makes of a sum: it  *)
(* is the sum of the parts, whatever the order in which CHOOSE takes them. *)
(***************************************************************************)
EXTENDS Functions, FiniteSetTheorems, WellFoundedInduction, NaturalsInduction, TLAPS

-----------------------------------------------------------------------------
\* A nonempty set of numbers has a least one.
LEMMA LeastNat ==
  ASSUME NEW T \in SUBSET Nat, T # {}
  PROVE  \E m \in T : \A n \in T : m <= n
<1> DEFINE R == OpToRel(<, Nat)
<1>1. \A m, n \in Nat : n < m => <<n, m>> \in R
  BY DEF OpToRel
<1>2. IsWellFoundedOn(R, Nat)
  BY NatLessThanWellFounded
<1> HIDE DEF R
<1>3. PICK m \in T : \A n \in T : ~(<<n, m>> \in R)
  BY <1>2, WFMin
<1>4. \A n \in T : ~(n < m)
  BY <1>1, <1>3
<1> QED
  BY <1>4

\* A nonempty set of numbers with a bound has a greatest one.
LEMMA GreatestNat ==
  ASSUME NEW V \in SUBSET Nat, V # {}, NEW b \in Nat, \A v \in V : v <= b
  PROVE  \E m \in V : \A v \in V : v <= m
<1> DEFINE T == {m \in Nat : \A v \in V : v <= m}
<1>1. PICK m \in T : \A n \in T : m <= n
  BY LeastNat
<1>2. m \in V
  <2>1. SUFFICES ASSUME m \notin V PROVE FALSE
    OBVIOUS
  <2>2. PICK v \in V : TRUE
    OBVIOUS
  <2>3. m - 1 \in Nat /\ \A w \in V : w <= m - 1
    BY <1>1, <2>1, <2>2
  <2> QED
    BY <1>1, <2>3
<1> QED
  BY <1>1, <1>2

\* Induction over the finite sets, as far as the provers can be told of it:
\* of the subsets of S in a set Bad, some has no proper subset in Bad.
LEMMA SmallestSubset ==
  ASSUME NEW S, IsFiniteSet(S), NEW Bad \in SUBSET SUBSET S, Bad # {}
  PROVE  \E T \in Bad : \A x \in T : T \ {x} \notin Bad
<1> DEFINE Sizes == {Cardinality(T) : T \in Bad}
<1>1. \A T \in Bad : IsFiniteSet(T) /\ Cardinality(T) \in Nat
  BY FS_Subset, FS_CardinalityType
<1>2. Sizes \in SUBSET Nat /\ Sizes # {}
  BY <1>1
<1> HIDE DEF Sizes
<1>3. PICK k \in Sizes : \A n \in Sizes : k <= n
  BY <1>2, LeastNat
<1>4. PICK T \in Bad : Cardinality(T) = k
  BY DEF Sizes
<1>5. ASSUME NEW x \in T, T \ {x} \in Bad PROVE FALSE
  <2>1. Cardinality(T \ {x}) = Cardinality(T) - 1
    BY <1>1, FS_RemoveElement
  <2>2. k <= Cardinality(T \ {x})
    BY <1>3, <1>5 DEF Sizes
  <2> QED
    BY <1>1, <1>4, <2>1, <2>2
<1> QED
  BY <1>5

-----------------------------------------------------------------------------
(***************************************************************************)
(* The fold of a function g over the finite set S, by addition.            *)
(***************************************************************************)
AnyOf(s) == CHOOSE x \in s : TRUE

\* iter has the sum of g over every subset of S, taken in one order.
AddsUp(iter, g, S) ==
  iter = [s \in SUBSET S |-> IF s = {} THEN 0 ELSE g[AnyOf(s)] + iter[s \ {AnyOf(s)}]]

SumOver(g, S) == FoldFunctionOnSet(+, 0, g, S)

\* The element taken from a set that is not empty is one of its own.
LEMMA AnyOfIsThere ==
  ASSUME NEW s, s # {} PROVE AnyOf(s) \in s
BY DEF AnyOf

\* What iter is of a subset of S.
LEMMA AddsUpEquation ==
  ASSUME NEW iter, NEW g, NEW S, AddsUp(iter, g, S), NEW s \in SUBSET S
  PROVE  iter[s] = IF s = {} THEN 0 ELSE g[AnyOf(s)] + iter[s \ {AnyOf(s)}]
BY DEF AddsUp

\* Sums of integers are integers.
LEMMA AddsUpTyped ==
  ASSUME NEW S, IsFiniteSet(S), NEW g, \A x \in S : g[x] \in Int,
         NEW iter, AddsUp(iter, g, S)
  PROVE  \A s \in SUBSET S : iter[s] \in Int
<1> DEFINE Bad == {s \in SUBSET S : iter[s] \notin Int}
<1>1. SUFFICES ASSUME Bad # {} PROVE FALSE
  OBVIOUS
<1>2. PICK T \in Bad : \A x \in T : T \ {x} \notin Bad
  BY <1>1, SmallestSubset
<1>3. iter[T] = IF T = {} THEN 0 ELSE g[AnyOf(T)] + iter[T \ {AnyOf(T)}]
  BY AddsUpEquation
<1>4. T # {}
  BY <1>3
<1>5. PICK x \in T : x = AnyOf(T)
  BY <1>4, AnyOfIsThere
<1>6. iter[T \ {x}] \in Int /\ g[x] \in Int
  BY <1>2
<1> QED
  BY <1>3, <1>4, <1>5, <1>6

\* Any element may be taken first.
LEMMA AddsUpAnyway ==
  ASSUME NEW S, IsFiniteSet(S), NEW g, \A x \in S : g[x] \in Int,
         NEW iter, AddsUp(iter, g, S), NEW s \in SUBSET S, NEW z \in s
  PROVE  iter[s] = g[z] + iter[s \ {z}]
<1> DEFINE Bad == {w \in SUBSET S : \E x \in w : iter[w] # g[x] + iter[w \ {x}]}
<1>1. SUFFICES ASSUME Bad # {} PROVE FALSE
  OBVIOUS
<1>2. PICK T \in Bad : \A x \in T : T \ {x} \notin Bad
  BY <1>1, SmallestSubset
<1>3. PICK x \in T : iter[T] # g[x] + iter[T \ {x}]
  OBVIOUS
<1>4. PICK c \in T : c = AnyOf(T)
  BY <1>3, AnyOfIsThere
<1>5. iter[T] = g[c] + iter[T \ {c}]
  <2>1. T \in SUBSET S /\ T # {}
    BY <1>3
  <2>2. iter[T] = IF T = {} THEN 0 ELSE g[AnyOf(T)] + iter[T \ {AnyOf(T)}]
    BY <2>1, AddsUpEquation
  <2> QED
    BY <1>4, <2>1, <2>2
<1>6. c # x
  BY <1>3, <1>5
<1>7. iter[T \ {c}] = g[x] + iter[(T \ {c}) \ {x}]
  BY <1>2, <1>6
<1>8. iter[T \ {x}] = g[c] + iter[(T \ {x}) \ {c}]
  BY <1>2, <1>6
<1>9. PICK U \in SUBSET S : U = (T \ {c}) \ {x}
  OBVIOUS
<1>10. (T \ {x}) \ {c} = U
  BY <1>9
<1>11. iter[T \ {c}] = g[x] + iter[U] /\ iter[T \ {x}] = g[c] + iter[U]
  BY <1>7, <1>8, <1>9, <1>10
<1>12. iter[U] \in Int /\ g[c] \in Int /\ g[x] \in Int
  BY AddsUpTyped
<1>13. PICK u \in Int, a \in Int, b \in Int : u = iter[U] /\ a = g[c] /\ b = g[x]
  BY <1>12
<1> QED
  BY <1>3, <1>5, <1>11, <1>13

\* There is only one such function ...
LEMMA AddsUpOnce ==
  ASSUME NEW S, IsFiniteSet(S), NEW g, NEW iter, NEW other,
         AddsUp(iter, g, S), AddsUp(other, g, S)
  PROVE  iter = other
<1> DEFINE Bad == {s \in SUBSET S : iter[s] # other[s]}
<1>1. CASE Bad = {}
  <2>1. \A s \in SUBSET S : iter[s] = other[s]
    BY <1>1
  <2>2. iter = [s \in SUBSET S |-> iter[s]] /\ other = [s \in SUBSET S |-> other[s]]
    BY DEF AddsUp
  <2> QED
    BY <2>1, <2>2
<1>2. CASE Bad # {}
  <2>1. PICK T \in Bad : \A x \in T : T \ {x} \notin Bad
    BY <1>2, SmallestSubset
  <2>2. /\ iter[T] = IF T = {} THEN 0 ELSE g[AnyOf(T)] + iter[T \ {AnyOf(T)}]
        /\ other[T] = IF T = {} THEN 0 ELSE g[AnyOf(T)] + other[T \ {AnyOf(T)}]
    BY AddsUpEquation
  <2>3. T # {}
    BY <2>2
  <2>4. PICK x \in T : x = AnyOf(T)
    BY <2>3, AnyOfIsThere
  <2>5. iter[T \ {x}] = other[T \ {x}]
    BY <2>1
  <2> QED
    BY <2>2, <2>3, <2>4, <2>5
<1> QED
  BY <1>1, <1>2

\* ... it is the same for a subset ...
LEMMA AddsUpWithin ==
  ASSUME NEW S, NEW g, NEW iter, AddsUp(iter, g, S), NEW T \in SUBSET S
  PROVE  AddsUp([s \in SUBSET T |-> iter[s]], g, T)
<1>1. PICK f : f = [s \in SUBSET T |-> iter[s]]
  OBVIOUS
<1>2. ASSUME NEW s \in SUBSET T
      PROVE  f[s] = IF s = {} THEN 0 ELSE g[AnyOf(s)] + f[s \ {AnyOf(s)}]
  <2>1. f[s] = iter[s] /\ f[s \ {AnyOf(s)}] = iter[s \ {AnyOf(s)}]
    BY <1>1
  <2> QED
    BY <2>1, AddsUpEquation
<1>3. f = [s \in SUBSET T |-> f[s]]
  BY <1>1
<1>4. f = [s \in SUBSET T |-> IF s = {} THEN 0 ELSE g[AnyOf(s)] + f[s \ {AnyOf(s)}]]
  BY <1>2, <1>3
<1>5. AddsUp(f, g, T)
  BY <1>4 DEF AddsUp
<1> QED
  BY <1>1, <1>5

\* ... and there is one.
LEMMA AddsUpExists ==
  ASSUME NEW S, IsFiniteSet(S), NEW g
  PROVE  \E iter : AddsUp(iter, g, S)
<1> DEFINE Good(u) == \E iter : AddsUp(iter, g, u)
           Bad == {u \in SUBSET S : ~Good(u)}
           F(u) == (CHOOSE iter : AddsUp(iter, g, u))[u]
<1>1. SUFFICES ASSUME Bad # {} PROVE FALSE
  OBVIOUS
<1>2. PICK T \in Bad : \A x \in T : T \ {x} \notin Bad
  BY <1>1, SmallestSubset
<1>3. ASSUME NEW u \in SUBSET S, Good(u), NEW w \in SUBSET u
      PROVE  Good(w) /\ (CHOOSE iter : AddsUp(iter, g, u))[w] = F(w)
  <2>1. PICK i : i = CHOOSE iter : AddsUp(iter, g, u)
    OBVIOUS
  <2>2. AddsUp(i, g, u)
    BY <1>3, <2>1
  <2>3. PICK f : f = [s \in SUBSET w |-> i[s]]
    OBVIOUS
  <2>4. AddsUp(f, g, w)
    BY <2>2, <2>3, AddsUpWithin
  <2>5. PICK j : j = CHOOSE iter : AddsUp(iter, g, w)
    OBVIOUS
  <2>6. AddsUp(j, g, w)
    BY <2>4, <2>5
  <2>7. IsFiniteSet(w)
    BY FS_Subset
  <2>8. f = j
    BY <2>4, <2>6, <2>7, AddsUpOnce
  <2> QED
    BY <2>1, <2>3, <2>4, <2>5, <2>8
<1>4. ASSUME NEW u \in SUBSET S, Good(u)
      PROVE  F(u) = IF u = {} THEN 0 ELSE g[AnyOf(u)] + F(u \ {AnyOf(u)})
  <2>1. PICK i : i = CHOOSE iter : AddsUp(iter, g, u)
    OBVIOUS
  <2>2. AddsUp(i, g, u)
    BY <1>4, <2>1
  <2>3. i[u] = IF u = {} THEN 0 ELSE g[AnyOf(u)] + i[u \ {AnyOf(u)}]
    BY <2>2, AddsUpEquation
  <2>4. i[u \ {AnyOf(u)}] = F(u \ {AnyOf(u)})
    BY <1>3, <1>4, <2>1
  <2> QED
    BY <2>1, <2>3, <2>4
<1>5. ASSUME NEW s \in SUBSET T, NEW x \in s PROVE Good(s \ {x})
  <2>1. T \ {x} \in SUBSET S /\ Good(T \ {x})
    BY <1>2, <1>5
  <2>2. s \ {x} \in SUBSET (T \ {x})
    OBVIOUS
  <2> QED
    BY <1>3, <2>1, <2>2
<1> HIDE DEF F, Good
<1>6. PICK f : f = [s \in SUBSET T |-> IF s = {} THEN 0 ELSE g[AnyOf(s)] + F(s \ {AnyOf(s)})]
  OBVIOUS
<1>7. ASSUME NEW s \in SUBSET T
      PROVE  f[s] = IF s = {} THEN 0 ELSE g[AnyOf(s)] + f[s \ {AnyOf(s)}]
  <2>1. CASE s = {}
    BY <1>6, <2>1
  <2>2. CASE s # {}
    <3>1. PICK x \in s : x = AnyOf(s)
      BY <2>2, AnyOfIsThere
    <3>2. PICK w \in SUBSET T : w = s \ {x}
      OBVIOUS
    <3>3. Good(w)
      BY <1>5, <3>2
    <3>4. F(w) = IF w = {} THEN 0 ELSE g[AnyOf(w)] + F(w \ {AnyOf(w)})
      BY <1>4, <3>3
    <3>5. f[w] = F(w)
      BY <1>6, <3>4
    <3> QED
      BY <1>6, <2>2, <3>1, <3>2, <3>5
  <2> QED
    BY <2>1, <2>2
<1>8. f = [s \in SUBSET T |-> f[s]]
  BY <1>6
<1>9. f = [s \in SUBSET T |-> IF s = {} THEN 0 ELSE g[AnyOf(s)] + f[s \ {AnyOf(s)}]]
  BY <1>7, <1>8
<1>10. AddsUp(f, g, T)
  BY <1>9 DEF AddsUp
<1> QED
  BY <1>2, <1>10 DEF Good

-----------------------------------------------------------------------------
(***************************************************************************)
(* What follows for sums.                                                  *)
(***************************************************************************)
\* The fold is what any such function says of the whole set.
LEMMA SumOverIs ==
  ASSUME NEW S, IsFiniteSet(S), NEW g, NEW iter, AddsUp(iter, g, S)
  PROVE  SumOver(g, S) = iter[S]
<1>1. PICK i : i = CHOOSE j : AddsUp(j, g, S)
  OBVIOUS
<1>2. AddsUp(i, g, S)
  BY <1>1
<1>3. SumOver(g, S) = (CHOOSE j : AddsUp(j, g, S))[S]
  BY DEF SumOver, FoldFunctionOnSet, MapThenFoldSet, AddsUp, AnyOf
<1> QED
  BY <1>1, <1>2, <1>3, AddsUpOnce

\* The sum over nothing is zero.
LEMMA SumOverEmpty ==
  ASSUME NEW g PROVE SumOver(g, {}) = 0
<1>1. IsFiniteSet({})
  BY FS_EmptySet
<1>2. PICK iter : AddsUp(iter, g, {})
  BY <1>1, AddsUpExists
<1>3. iter[{}] = 0
  BY <1>2, AddsUpEquation
<1> QED
  BY <1>1, <1>2, <1>3, SumOverIs

\* Any part can be taken out of a sum.
LEMMA SumOverRemove ==
  ASSUME NEW S, IsFiniteSet(S), NEW g, \A x \in S : g[x] \in Int, NEW x \in S
  PROVE  SumOver(g, S) = g[x] + SumOver(g, S \ {x}) /\ SumOver(g, S) \in Int
<1>1. PICK iter : AddsUp(iter, g, S)
  BY AddsUpExists
<1>2. PICK T \in SUBSET S : T = S \ {x}
  OBVIOUS
<1>3. PICK f : f = [s \in SUBSET T |-> iter[s]]
  OBVIOUS
<1>4. AddsUp(f, g, T)
  BY <1>1, <1>3, AddsUpWithin
<1>5. SumOver(g, S) = iter[S]
  BY <1>1, SumOverIs
<1>6. SumOver(g, T) = f[T]
  BY <1>4, FS_Subset, SumOverIs
<1>7. \A s \in SUBSET S : iter[s] \in Int
  BY <1>1, AddsUpTyped
<1>8. iter[S] = g[x] + iter[S \ {x}]
  <2>1. S \in SUBSET S
    OBVIOUS
  <2> QED
    BY <1>1, <2>1, AddsUpAnyway
<1>9. iter[S] \in Int /\ iter[S] = g[x] + iter[S \ {x}]
  BY <1>7, <1>8
<1> QED
  BY <1>2, <1>3, <1>5, <1>6, <1>9

\* A sum of integers is an integer.
LEMMA SumOverTyped ==
  ASSUME NEW S, IsFiniteSet(S), NEW g, \A x \in S : g[x] \in Int
  PROVE  SumOver(g, S) \in Int
<1>1. CASE S = {}
  BY <1>1, SumOverEmpty
<1>2. CASE S # {}
  BY <1>2, SumOverRemove
<1> QED
  BY <1>1, <1>2

\* A sum grows by the part that is added.
LEMMA SumOverAdd ==
  ASSUME NEW S, IsFiniteSet(S), NEW x, x \notin S, NEW g, \A y \in S \cup {x} : g[y] \in Int
  PROVE  SumOver(g, S \cup {x}) = g[x] + SumOver(g, S)
<1>1. PICK T : T = S \cup {x}
  OBVIOUS
<1>2. IsFiniteSet(T) /\ x \in T /\ T \ {x} = S
  BY <1>1, FS_AddElement
<1>3. \A y \in T : g[y] \in Int
  BY <1>1
<1>4. SumOver(g, T) = g[x] + SumOver(g, T \ {x})
  BY <1>2, <1>3, SumOverRemove
<1> QED
  BY <1>1, <1>2, <1>4

\* Sums of equal parts are equal.
LEMMA SumOverAlike ==
  ASSUME NEW S, IsFiniteSet(S), NEW g, NEW h, \A x \in S : g[x] = h[x]
  PROVE  SumOver(g, S) = SumOver(h, S)
<1>1. PICK iter : AddsUp(iter, g, S)
  BY AddsUpExists
<1>2. ASSUME NEW s \in SUBSET S
      PROVE  (IF s = {} THEN 0 ELSE g[AnyOf(s)] + iter[s \ {AnyOf(s)}])
               = IF s = {} THEN 0 ELSE h[AnyOf(s)] + iter[s \ {AnyOf(s)}]
  <2>1. s # {} => AnyOf(s) \in S
    BY AnyOfIsThere
  <2> QED
    BY <2>1
<1>3. iter = [s \in SUBSET S |-> IF s = {} THEN 0 ELSE h[AnyOf(s)] + iter[s \ {AnyOf(s)}]]
  BY <1>1, <1>2 DEF AddsUp
<1>4. AddsUp(iter, h, S)
  BY <1>3 DEF AddsUp
<1> QED
  BY <1>1, <1>4, SumOverIs

\* A sum of zeros.
LEMMA SumOverZero ==
  ASSUME NEW S, IsFiniteSet(S), NEW g, \A x \in S : g[x] = 0
  PROVE  SumOver(g, S) = 0
<1> DEFINE Bad == {T \in SUBSET S : SumOver(g, T) # 0}
<1>1. SUFFICES ASSUME Bad # {} PROVE FALSE
  OBVIOUS
<1>2. PICK T \in Bad : \A x \in T : T \ {x} \notin Bad
  BY <1>1, SmallestSubset
<1>3. IsFiniteSet(T) /\ \A x \in T : g[x] = 0 /\ g[x] \in Int
  BY FS_Subset
<1>4. T # {}
  BY SumOverEmpty
<1>5. PICK x \in T : TRUE
  BY <1>4
<1>6. SumOver(g, T) = g[x] + SumOver(g, T \ {x}) /\ SumOver(g, T \ {x}) = 0
  BY <1>2, <1>3, SumOverRemove
<1> QED
  BY <1>3, <1>6

\* A sum with one part that may not be zero.
LEMMA SumOverOfOne ==
  ASSUME NEW S, IsFiniteSet(S), NEW g, NEW x \in S, g[x] \in Int, \A y \in S \ {x} : g[y] = 0
  PROVE  SumOver(g, S) = g[x]
<1>1. \A y \in S : g[y] \in Int
  OBVIOUS
<1>2. SumOver(g, S \ {x}) = 0
  BY SumOverZero, FS_Subset
<1>3. SumOver(g, S) = g[x] + SumOver(g, S \ {x})
  BY <1>1, SumOverRemove
<1> QED
  BY <1>2, <1>3

\* A sum of natural numbers is one, and none of the parts is larger.
LEMMA SumOverNat ==
  ASSUME NEW S, IsFiniteSet(S), NEW g, \A x \in S : g[x] \in Nat
  PROVE  SumOver(g, S) \in Nat /\ \A x \in S : g[x] <= SumOver(g, S)
<1> DEFINE Bad == {T \in SUBSET S : SumOver(g, T) \notin Nat}
<1>1. Bad = {}
  <2>1. SUFFICES ASSUME Bad # {} PROVE FALSE
    OBVIOUS
  <2>2. PICK T \in Bad : \A x \in T : T \ {x} \notin Bad
    BY <2>1, SmallestSubset
  <2>3. IsFiniteSet(T) /\ \A x \in T : g[x] \in Nat /\ g[x] \in Int
    BY FS_Subset
  <2>4. T # {}
    BY SumOverEmpty
  <2>5. PICK x \in T : TRUE
    BY <2>4
  <2>6. SumOver(g, T) = g[x] + SumOver(g, T \ {x}) /\ SumOver(g, T \ {x}) \in Nat
    BY <2>2, <2>3, SumOverRemove
  <2> QED
    BY <2>3, <2>6
<1>2. \A T \in SUBSET S : SumOver(g, T) \in Nat
  BY <1>1
<1>3. ASSUME NEW x \in S PROVE g[x] <= SumOver(g, S)
  <2>1. SumOver(g, S) = g[x] + SumOver(g, S \ {x})
    BY SumOverRemove
  <2>2. SumOver(g, S \ {x}) \in Nat
    BY <1>2
  <2> QED
    BY <2>1, <2>2
<1> QED
  BY <1>2, <1>3


\* The sum of a function is the one over its domain.
LEMMA FoldIsSum ==
  ASSUME NEW g PROVE FoldFunction(+, 0, g) = SumOver(g, DOMAIN g)
BY DEF FoldFunction, SumOver
=============================================================================
