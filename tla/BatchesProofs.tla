--------------------------- MODULE BatchesProofs ---------------------------
(***************************************************************************)
(* The lemmas the proofs share, about data and not about any state.        *)
(*                                                                         *)
(* First sums over finite sets and the induction they rest on: no lemma    *)
(* takes an operator, so what would be a predicate is a set, and what is   *)
(* added up is a function.  Then what the loops of Batches do, for every   *)
(* shelf of batches: the order by expiry lists each batch once, a walk     *)
(* along an order takes in that order and never more than there is, and    *)
(* what is taken, restored or reconciled is what the batches have less or  *)
(* more afterwards.                                                        *)
(***************************************************************************)
EXTENDS Batches, FunctionTheorems, FiniteSetTheorems, WellFoundedInduction, TLAPS

Sum(f, S) == SumFunctionOnSet(f, S)

LessThan == {pair \in Nat \X Nat : pair[1] < pair[2]}

\* The natural numbers are well-founded.
LEMMA LessThanWellFounded == IsWellFoundedOn(LessThan, Nat)
  BY NatLessThanWellFounded DEF OpToRel, LessThan

\* Every non-empty set of natural numbers has a least element.
LEMMA LeastNat ==
    ASSUME NEW T, T \subseteq Nat, T # {}
    PROVE  \E n \in T : \A m \in T : n <= m
<1>1. PICK n \in T : \A m \in T : <<m, n>> \notin LessThan
  BY LessThanWellFounded, WFMin
<1>2. \A m \in T : ~(m < n)
  BY <1>1 DEF LessThan
<1>3. QED
  BY <1>2

\* Induction over the natural numbers, for a set of them.
LEMMA NatSetInduction ==
    ASSUME NEW P, 0 \in P, \A n \in Nat : n \in P => n + 1 \in P
    PROVE  Nat \subseteq P
<1> DEFINE Bad == {n \in Nat : n \notin P}
<1> SUFFICES ASSUME Bad # {} PROVE FALSE
  OBVIOUS
<1>1. PICK n \in Bad : \A m \in Bad : n <= m
  BY LeastNat
<1>2. n # 0 /\ n - 1 \in Nat /\ n - 1 \notin Bad
  BY <1>1
<1>3. QED
  BY <1>1, <1>2

\* Induction over the subsets of a finite set: a set to which every one belongs
\* as soon as all its proper subsets do has all of them.
LEMMA SubsetInduction ==
    ASSUME NEW S, IsFiniteSet(S), NEW P,
           \A T \in SUBSET S : (\A U \in SUBSET T : U # T => U \in P) => T \in P
    PROVE  SUBSET S \subseteq P
<1> DEFINE Bad == {T \in SUBSET S : T \notin P}
           Sizes == {n \in Nat : \E T \in Bad : Cardinality(T) = n}
<1> SUFFICES ASSUME Bad # {} PROVE FALSE
  OBVIOUS
<1>1. \A T \in SUBSET S : IsFiniteSet(T) /\ Cardinality(T) \in Nat
  BY FS_Subset, FS_CardinalityType
<1>2. Sizes # {}
  BY <1>1
<1>3. PICK n \in Sizes : \A m \in Sizes : n <= m
  <2> HIDE DEF Sizes
  <2>1. Sizes \subseteq Nat
    BY DEF Sizes
  <2>2. QED
    BY <1>2, <2>1, LeastNat
<1>4. PICK T \in Bad : Cardinality(T) = n
  BY <1>3
<1>5. ASSUME NEW U \in SUBSET T, U # T
      PROVE  U \in P
  <2>1. IsFiniteSet(T) /\ Cardinality(T) \in Nat /\ Cardinality(U) \in Nat
    BY <1>1
  <2>2. Cardinality(U) < Cardinality(T)
    BY <1>5, <2>1, FS_Subset
  <2>3. Cardinality(U) \notin Sizes
    BY <1>3, <1>4, <2>1, <2>2
  <2>4. QED
    BY <2>1, <2>3
<1>6. QED
  BY <1>4, <1>5
\* Of finitely many elements with numbers one has the greatest.
LEMMA Greatest ==
    ASSUME NEW T, IsFiniteSet(T), T # {}, NEW num, \A x \in T : num[x] \in Nat
    PROVE  \E m \in T : \A x \in T : num[x] <= num[m]
<1> DEFINE Above(x) == {y \in T : num[x] < num[y]}
           Counts == {Cardinality(Above(x)) : x \in T}
<1>1. \A x \in T : IsFiniteSet(Above(x)) /\ Cardinality(Above(x)) \in Nat
  BY FS_Subset, FS_CardinalityType
<1>2. PICK n \in Counts : \A k \in Counts : n <= k
  <2>1. Counts \subseteq Nat /\ Counts # {}
    BY <1>1
  <2> HIDE DEF Counts
  <2>2. QED
    BY <2>1, LeastNat
<1>3. PICK m \in T : n = Cardinality(Above(m))
  BY <1>2
<1>4. ASSUME NEW x \in T, ~(num[x] <= num[m]) PROVE FALSE
  <2>1. num[m] < num[x]
    BY <1>4
  <2>2. Above(x) \subseteq Above(m) /\ x \in Above(m) /\ x \notin Above(x)
    BY <2>1
  <2>3. Cardinality(Above(x)) < Cardinality(Above(m))
    <3>1. IsFiniteSet(Above(m)) /\ Above(x) # Above(m)
      BY <1>1, <2>2
    <3>2. Cardinality(Above(x)) <= Cardinality(Above(m)) /\ (Cardinality(Above(x)) = Cardinality(Above(m)) => Above(x) = Above(m))
      BY <2>2, <3>1, FS_Subset
    <3>3. /\ Cardinality(Above(x)) \in Nat /\ Cardinality(Above(m)) \in Nat
          /\ Cardinality(Above(x)) # Cardinality(Above(m))
      BY <1>1, <3>1, <3>2
    <3>4. QED
      BY <3>2, <3>3
  <2>4. Cardinality(Above(x)) \in Counts
    OBVIOUS
  <2>5. Cardinality(Above(x)) \in Nat /\ Cardinality(Above(m)) \in Nat
    BY <1>1
  <2> HIDE DEF Above, Counts
  <2>6. QED
    BY <1>2, <1>3, <2>3, <2>4, <2>5
<1>5. QED
  BY <1>4

----------------------------------------------------------------------------
\* The function that SumFunctionOnSet takes its value from.
Adds(g, f, S) ==
    g = [T \in SUBSET S |-> IF T = {} THEN 0
                            ELSE LET x == CHOOSE x \in T : TRUE IN f[x] + g[T \ {x}]]

LEMMA SumChosen ==
    ASSUME NEW f, NEW S
    PROVE  Sum(f, S) = (CHOOSE g : Adds(g, f, S))[S]
  BY DEF Sum, SumFunctionOnSet, FoldFunctionOnSet, MapThenFoldSet, Adds

LEMMA AddsUnique ==
    ASSUME NEW f, NEW S, IsFiniteSet(S), NEW g, NEW h, Adds(g, f, S), Adds(h, f, S)
    PROVE  g = h
<1> DEFINE P == {T \in SUBSET S : g[T] = h[T]}
<1>1. ASSUME NEW T \in SUBSET S, \A U \in SUBSET T : U # T => U \in P
      PROVE  T \in P
  <2>1. CASE T = {}
    BY <2>1 DEF Adds
  <2>2. CASE T # {}
    <3> DEFINE x == CHOOSE x \in T : TRUE
    <3>1. x \in T
      BY <2>2
    <3>2. T \ {x} \in P
      BY <1>1, <3>1
    <3>3. g[T] = f[x] + g[T \ {x}] /\ h[T] = f[x] + h[T \ {x}]
      BY <2>2 DEF Adds
    <3>4. QED
      BY <3>2, <3>3
  <2>3. QED
    BY <2>1, <2>2
<1>2. SUBSET S \subseteq P
  <2> HIDE DEF P
  <2>1. QED
    BY <1>1, SubsetInduction
<1>3. g = [T \in SUBSET S |-> g[T]] /\ h = [T \in SUBSET S |-> h[T]]
  BY DEF Adds
<1>4. QED
  BY <1>2, <1>3

LEMMA SumEmpty ==
    ASSUME NEW f
    PROVE  Sum(f, {}) = 0
<1> DEFINE zero == [T \in SUBSET {} |-> 0]
<1>1. Adds(zero, f, {})
  BY DEF Adds
<1>2. Adds(CHOOSE g : Adds(g, f, {}), f, {})
  BY <1>1
<1>3. QED
  BY <1>2, SumChosen DEF Adds

\* A sum is the chosen element and the sum of the rest.
LEMMA SumStep ==
    ASSUME NEW f, NEW S, IsFiniteSet(S), S # {}
    PROVE  LET x == CHOOSE x \in S : TRUE IN Sum(f, S) = f[x] + Sum(f, S \ {x})
<1> DEFINE Pick(T) == CHOOSE x \in T : TRUE
           Step(T) == f[Pick(T)] + Sum(f, T \ {Pick(T)})
           P == {T \in SUBSET S : T = {} \/ Sum(f, T) = Step(T)}
<1>1. ASSUME NEW T \in SUBSET S, \A U \in SUBSET T : U # T => U \in P, T # {}
      PROVE  Sum(f, T) = Step(T)
  <2> DEFINE h == [U \in SUBSET T |-> IF U = T THEN Step(T) ELSE Sum(f, U)]
             g == CHOOSE g : Adds(g, f, T)
  <2>1. Pick(T) \in T
    BY <1>1
  <2>2. ASSUME NEW U \in SUBSET T
        PROVE  h[U] = IF U = {} THEN 0 ELSE f[Pick(U)] + h[U \ {Pick(U)}]
    <3>1. CASE U = {}
      BY <1>1, <3>1, SumEmpty
    <3>2. CASE U # {}
      <4>1. Pick(U) \in U
        BY <3>2
      <4>2. h[U] = Step(U)
        BY <1>1, <3>2
      <4>3. h[U \ {Pick(U)}] = Sum(f, U \ {Pick(U)})
        BY <4>1
      <4>4. QED
        BY <3>2, <4>2, <4>3
    <3>3. QED
      BY <3>1, <3>2
  <2>3. Adds(h, f, T)
    <3> HIDE DEF h
    <3>1. h = [U \in SUBSET T |-> h[U]]
      BY DEF h
    <3>2. QED
      BY <2>2, <3>1 DEF Adds
  <2>4. Adds(g, f, T)
    <3> HIDE DEF h
    <3>1. QED
      BY <2>3
  <2>5. IsFiniteSet(T)
    BY FS_Subset
  <2>6. g = h
    <3> HIDE DEF g, h
    <3>1. QED
      BY <2>3, <2>4, <2>5, AddsUnique
  <2>7. Sum(f, T) = g[T]
    BY SumChosen
  <2>8. QED
    BY <2>6, <2>7
<1>2. SUBSET S \subseteq P
  <2> HIDE DEF Step
  <2>1. \A T \in SUBSET S : (\A U \in SUBSET T : U # T => U \in P) => T \in P
    BY <1>1
  <2> HIDE DEF P
  <2>2. QED
    BY <2>1, SubsetInduction
<1>3. QED
  BY <1>2

\* A sum of integers is one.
LEMMA SumInt ==
    ASSUME NEW f, NEW S, IsFiniteSet(S), \A x \in S : f[x] \in Int
    PROVE  Sum(f, S) \in Int
<1> DEFINE P == {T \in SUBSET S : Sum(f, T) \in Int}
<1>1. ASSUME NEW T \in SUBSET S, \A U \in SUBSET T : U # T => U \in P
      PROVE  T \in P
  <2>1. CASE T = {}
    BY <2>1, SumEmpty
  <2>2. CASE T # {}
    <3> DEFINE x == CHOOSE x \in T : TRUE
    <3>1. x \in T /\ IsFiniteSet(T)
      BY <2>2, FS_Subset
    <3>2. T \ {x} \in P
      BY <1>1, <3>1
    <3>3. Sum(f, T) = f[x] + Sum(f, T \ {x})
      BY <2>2, <3>1, SumStep
    <3>4. QED
      BY <3>1, <3>2, <3>3
  <2>3. QED
    BY <2>1, <2>2
<1>2. QED
  <2> HIDE DEF P
  <2>1. SUBSET S \subseteq P
    BY <1>1, SubsetInduction
  <2>2. QED
    BY <2>1 DEF P

\* Any element may be taken out first.
LEMMA SumElement ==
    ASSUME NEW f, NEW S, IsFiniteSet(S), \A x \in S : f[x] \in Int, NEW e \in S
    PROVE  Sum(f, S) = f[e] + Sum(f, S \ {e})
<1> DEFINE P == {T \in SUBSET S : \A x \in T : Sum(f, T) = f[x] + Sum(f, T \ {x})}
<1>1. ASSUME NEW T \in SUBSET S, \A U \in SUBSET T : U # T => U \in P, NEW x \in T
      PROVE  Sum(f, T) = f[x] + Sum(f, T \ {x})
  <2> DEFINE y == CHOOSE y \in T : TRUE
  <2>1. y \in T /\ \A U \in SUBSET T : IsFiniteSet(U) /\ Sum(f, U) \in Int
    BY FS_Subset, SumInt
  <2>2. Sum(f, T) = f[y] + Sum(f, T \ {y})
    BY <2>1, SumStep
  <2>3. CASE x = y
    BY <2>2, <2>3
  <2>4. CASE x # y
    <3>1. T \ {y} \in P /\ T \ {x} \in P /\ (T \ {y}) \ {x} = (T \ {x}) \ {y}
      BY <1>1, <2>1
    <3> DEFINE rest == Sum(f, (T \ {y}) \ {x})
    <3>2. Sum(f, T \ {y}) = f[x] + rest
      BY <2>1, <2>4, <3>1
    <3>3. Sum(f, T \ {x}) = f[y] + Sum(f, (T \ {x}) \ {y})
      BY <2>1, <2>4, <3>1
    <3>4. Sum(f, T \ {x}) = f[y] + rest
      BY <3>1, <3>3
    <3>5. f[x] \in Int /\ f[y] \in Int /\ rest \in Int
      BY <2>1
    <3>6. QED
      <4> HIDE DEF y, rest
      <4>1. QED
        BY <2>2, <3>2, <3>4, <3>5
  <2>5. QED
    BY <2>3, <2>4
<1>2. \A T \in SUBSET S : (\A U \in SUBSET T : U # T => U \in P) => T \in P
  BY <1>1
<1>3. QED
  <2> HIDE DEF P
  <2>1. SUBSET S \subseteq P
    BY <1>2, SubsetInduction
  <2>2. QED
    BY <2>1 DEF P

\* Sums of equal functions are equal.
LEMMA SumEqual ==
    ASSUME NEW f, NEW g, NEW S, IsFiniteSet(S), \A x \in S : f[x] = g[x]
    PROVE  Sum(f, S) = Sum(g, S)
<1> DEFINE P == {T \in SUBSET S : Sum(f, T) = Sum(g, T)}
<1>1. ASSUME NEW T \in SUBSET S, \A U \in SUBSET T : U # T => U \in P
      PROVE  T \in P
  <2>1. CASE T = {}
    BY <2>1, SumEmpty
  <2>2. CASE T # {}
    <3> DEFINE x == CHOOSE x \in T : TRUE
    <3>1. x \in T /\ IsFiniteSet(T)
      BY <2>2, FS_Subset
    <3>2. T \ {x} \in P
      BY <1>1, <3>1
    <3>3. Sum(f, T) = f[x] + Sum(f, T \ {x}) /\ Sum(g, T) = g[x] + Sum(g, T \ {x})
      BY <2>2, <3>1, SumStep
    <3>4. QED
      BY <3>1, <3>2, <3>3
  <2>3. QED
    BY <2>1, <2>2
<1>2. QED
  <2> HIDE DEF P
  <2>1. SUBSET S \subseteq P
    BY <1>1, SubsetInduction
  <2>2. QED
    BY <2>1 DEF P

\* A function that changes at one element changes its sum by as much.
LEMMA SumChanged ==
    ASSUME NEW f, NEW g, NEW S, IsFiniteSet(S), NEW e \in S,
           \A x \in S : f[x] \in Int /\ g[x] \in Int,
           \A x \in S : x # e => f[x] = g[x]
    PROVE  Sum(g, S) = Sum(f, S) + (g[e] - f[e])
<1>1. IsFiniteSet(S \ {e})
  BY FS_Subset
<1>2. Sum(f, S \ {e}) = Sum(g, S \ {e}) /\ Sum(f, S \ {e}) \in Int
  BY <1>1, SumEqual, SumInt
<1>3. Sum(f, S) = f[e] + Sum(f, S \ {e}) /\ Sum(g, S) = g[e] + Sum(g, S \ {e})
  BY SumElement
<1>4. f[e] \in Int /\ g[e] \in Int
  OBVIOUS
<1>5. QED
  BY <1>2, <1>3, <1>4

\* An element that is added adds its value.
LEMMA SumAdded ==
    ASSUME NEW f, NEW S, IsFiniteSet(S), NEW e, e \notin S,
           \A x \in S \cup {e} : f[x] \in Int
    PROVE  Sum(f, S \cup {e}) = f[e] + Sum(f, S)
<1>1. IsFiniteSet(S \cup {e})
  BY FS_AddElement
<1>2. (S \cup {e}) \ {e} = S
  OBVIOUS
<1>3. QED
  BY <1>1, <1>2, SumElement

\* A sum of zeros is zero.
LEMMA SumZero ==
    ASSUME NEW f, NEW S, IsFiniteSet(S), \A x \in S : f[x] = 0
    PROVE  Sum(f, S) = 0
<1> DEFINE P == {T \in SUBSET S : Sum(f, T) = 0}
<1>1. ASSUME NEW T \in SUBSET S, \A U \in SUBSET T : U # T => U \in P
      PROVE  T \in P
  <2>1. CASE T = {}
    BY <2>1, SumEmpty
  <2>2. CASE T # {}
    <3> DEFINE x == CHOOSE x \in T : TRUE
    <3>1. x \in T /\ IsFiniteSet(T)
      BY <2>2, FS_Subset
    <3>2. T \ {x} \in P
      BY <1>1, <3>1
    <3>3. Sum(f, T) = f[x] + Sum(f, T \ {x})
      BY <2>2, <3>1, SumStep
    <3>4. QED
      BY <3>1, <3>2, <3>3
  <2>3. QED
    BY <2>1, <2>2
<1>2. QED
  <2> HIDE DEF P
  <2>1. SUBSET S \subseteq P
    BY <1>1, SubsetInduction
  <2>2. QED
    BY <2>1 DEF P

\* The sum of sums is the sum of the two.
LEMMA SumPlus ==
    ASSUME NEW f, NEW g, NEW h, NEW S, IsFiniteSet(S),
           \A x \in S : f[x] \in Int /\ g[x] \in Int /\ h[x] = f[x] + g[x]
    PROVE  Sum(h, S) = Sum(f, S) + Sum(g, S)
<1> DEFINE P == {T \in SUBSET S : Sum(h, T) = Sum(f, T) + Sum(g, T)}
<1>1. ASSUME NEW T \in SUBSET S, \A U \in SUBSET T : U # T => U \in P
      PROVE  T \in P
  <2>1. CASE T = {}
    BY <2>1, SumEmpty
  <2>2. CASE T # {}
    <3> DEFINE x == CHOOSE x \in T : TRUE
    <3>1. x \in T /\ IsFiniteSet(T) /\ IsFiniteSet(T \ {x})
      BY <2>2, FS_Subset
    <3>2. Sum(h, T \ {x}) = Sum(f, T \ {x}) + Sum(g, T \ {x})
      BY <1>1, <3>1
    <3>3. /\ Sum(f, T) = f[x] + Sum(f, T \ {x})
          /\ Sum(g, T) = g[x] + Sum(g, T \ {x})
          /\ Sum(h, T) = h[x] + Sum(h, T \ {x})
      BY <2>2, <3>1, SumStep
    <3>4. Sum(f, T \ {x}) \in Int /\ Sum(g, T \ {x}) \in Int
      BY <3>1, SumInt
    <3>5. f[x] \in Int /\ g[x] \in Int /\ h[x] = f[x] + g[x]
      BY <3>1
    <3>6. QED
      BY <3>2, <3>3, <3>4, <3>5
  <2>3. QED
    BY <2>1, <2>2
<1>2. QED
  <2> HIDE DEF P
  <2>1. SUBSET S \subseteq P
    BY <1>1, SubsetInduction
  <2>2. QED
    BY <2>1 DEF P

\* A function that is nowhere below another has no smaller sum.
LEMMA SumAtLeast ==
    ASSUME NEW f, NEW g, NEW S, IsFiniteSet(S),
           \A x \in S : f[x] \in Int /\ g[x] \in Int /\ f[x] <= g[x]
    PROVE  Sum(f, S) <= Sum(g, S)
<1> DEFINE P == {T \in SUBSET S : Sum(f, T) <= Sum(g, T)}
<1>1. ASSUME NEW T \in SUBSET S, \A U \in SUBSET T : U # T => U \in P
      PROVE  T \in P
  <2>1. CASE T = {}
    BY <2>1, SumEmpty
  <2>2. CASE T # {}
    <3> DEFINE x == CHOOSE x \in T : TRUE
    <3>1. x \in T /\ IsFiniteSet(T) /\ IsFiniteSet(T \ {x})
      BY <2>2, FS_Subset
    <3>2. Sum(f, T \ {x}) <= Sum(g, T \ {x})
      BY <1>1, <3>1
    <3>3. Sum(f, T) = f[x] + Sum(f, T \ {x}) /\ Sum(g, T) = g[x] + Sum(g, T \ {x})
      BY <2>2, <3>1, SumStep
    <3>4. Sum(f, T \ {x}) \in Int /\ Sum(g, T \ {x}) \in Int
      BY <3>1, SumInt
    <3>5. f[x] \in Int /\ g[x] \in Int /\ f[x] <= g[x]
      BY <3>1
    <3>6. Sum(f, T) <= Sum(g, T)
      BY <3>2, <3>3, <3>4, <3>5
    <3>7. QED
      BY <3>6
  <2>3. QED
    BY <2>1, <2>2
<1>2. QED
  <2> HIDE DEF P
  <2>1. SUBSET S \subseteq P
    BY <1>1, SubsetInduction
  <2>2. QED
    BY <2>1 DEF P

\* Elements that count nothing may be left out of a sum.
LEMMA SumOfRest ==
    ASSUME NEW f, NEW S, IsFiniteSet(S), NEW R, R \subseteq S,
           \A x \in S : f[x] \in Int, \A x \in S \ R : f[x] = 0
    PROVE  Sum(f, S) = Sum(f, R)
<1> DEFINE P == {T \in SUBSET S : Sum(f, T) = Sum(f, T \cap R)}
<1>1. ASSUME NEW T \in SUBSET S, \A U \in SUBSET T : U # T => U \in P
      PROVE  T \in P
  <2>1. CASE T \subseteq R
    <3>1. T \cap R = T
      BY <2>1
    <3>2. QED
      BY <3>1
  <2>2. CASE ~(T \subseteq R)
    <3>1. PICK x \in T : x \notin R
      BY <2>2
    <3>2. IsFiniteSet(T) /\ IsFiniteSet(T \ {x})
      BY FS_Subset
    <3>3. T \ {x} \in P /\ (T \ {x}) \cap R = T \cap R
      BY <1>1, <3>1
    <3>4. Sum(f, T) = f[x] + Sum(f, T \ {x})
      BY <3>2, SumElement
    <3>5. Sum(f, T \ {x}) \in Int /\ f[x] = 0
      BY <3>1, <3>2, SumInt
    <3>6. Sum(f, T) = Sum(f, T \ {x})
      BY <3>4, <3>5
    <3>7. Sum(f, T \ {x}) = Sum(f, T \cap R)
      BY <3>3
    <3>8. QED
      BY <3>6, <3>7
  <2>3. QED
    BY <2>1, <2>2
<1>2. S \in P
  <2> HIDE DEF P
  <2>1. SUBSET S \subseteq P
    BY <1>1, SubsetInduction
  <2>2. QED
    BY <2>1
<1>3. S \cap R = R
  OBVIOUS
<1>4. QED
  BY <1>2, <1>3

----------------------------------------------------------------------------
(***************************************************************************)
(* The same facts for the sum of a whole function.                         *)
(***************************************************************************)

LEMMA TotalEmpty ==
    ASSUME NEW f, DOMAIN f = {}
    PROVE  SumFunction(f) = 0
  BY SumEmpty DEF SumFunction, Sum

LEMMA TotalZero ==
    ASSUME NEW f, IsFiniteSet(DOMAIN f), \A x \in DOMAIN f : f[x] = 0
    PROVE  SumFunction(f) = 0
  BY SumZero DEF SumFunction, Sum

LEMMA TotalInt ==
    ASSUME NEW f, IsFiniteSet(DOMAIN f), \A x \in DOMAIN f : f[x] \in Int
    PROVE  SumFunction(f) \in Int
  BY SumInt DEF SumFunction, Sum

\* A function that changes at one argument changes its total by as much.
LEMMA TotalChanged ==
    ASSUME NEW f, NEW g, IsFiniteSet(DOMAIN f), DOMAIN g = DOMAIN f,
           NEW e \in DOMAIN f,
           \A x \in DOMAIN f : f[x] \in Int /\ g[x] \in Int,
           \A x \in DOMAIN f : x # e => f[x] = g[x]
    PROVE  SumFunction(g) = SumFunction(f) + (g[e] - f[e])
  BY SumChanged DEF SumFunction, Sum

\* A function that gets one more argument adds its value there to the total.
LEMMA TotalGrows ==
    ASSUME NEW f, NEW g, IsFiniteSet(DOMAIN f), NEW e, e \notin DOMAIN f,
           DOMAIN g = DOMAIN f \cup {e},
           \A x \in DOMAIN g : g[x] \in Int,
           \A x \in DOMAIN f : f[x] = g[x]
    PROVE  SumFunction(g) = SumFunction(f) + g[e]
<1>1. Sum(g, DOMAIN g) = g[e] + Sum(g, DOMAIN f)
  BY SumAdded
<1>2. Sum(g, DOMAIN f) = Sum(f, DOMAIN f) /\ Sum(g, DOMAIN f) \in Int
  BY SumEqual, SumInt
<1>3. g[e] \in Int
  OBVIOUS
<1>4. QED
  BY <1>1, <1>2, <1>3 DEF SumFunction, Sum

LEMMA TotalPlus ==
    ASSUME NEW f, NEW g, NEW h, IsFiniteSet(DOMAIN f), DOMAIN g = DOMAIN f,
           DOMAIN h = DOMAIN f,
           \A x \in DOMAIN f : f[x] \in Int /\ g[x] \in Int /\ h[x] = f[x] + g[x]
    PROVE  SumFunction(h) = SumFunction(f) + SumFunction(g)
  BY SumPlus DEF SumFunction, Sum

LEMMA TotalAtLeast ==
    ASSUME NEW f, NEW g, IsFiniteSet(DOMAIN f), DOMAIN g = DOMAIN f,
           \A x \in DOMAIN f : f[x] \in Int /\ g[x] \in Int /\ f[x] <= g[x]
    PROVE  SumFunction(f) <= SumFunction(g)
  BY SumAtLeast DEF SumFunction, Sum

\* A function that is zero at the arguments it has more than another one with
\* which it agrees has the same total.
LEMMA TotalPadded ==
    ASSUME NEW f, NEW g, IsFiniteSet(DOMAIN g), DOMAIN f \subseteq DOMAIN g,
           \A x \in DOMAIN g : g[x] \in Int,
           \A x \in DOMAIN f : g[x] = f[x],
           \A x \in DOMAIN g \ DOMAIN f : g[x] = 0
    PROVE  SumFunction(g) = SumFunction(f)
<1>1. Sum(g, DOMAIN g) = Sum(g, DOMAIN f)
  BY SumOfRest
<1>2. IsFiniteSet(DOMAIN f)
  BY FS_Subset
<1>3. Sum(g, DOMAIN f) = Sum(f, DOMAIN f)
  BY <1>2, SumEqual
<1>4. QED
  BY <1>1, <1>3 DEF SumFunction, Sum

----------------------------------------------------------------------------
(***************************************************************************)
(* Sums over parts, images and classes.                                    *)
(***************************************************************************)
\* A sum over some of a set is one over all of it of a function that is zero elsewhere.
LEMMA SumFiltered ==
    ASSUME NEW f, NEW g, NEW S, IsFiniteSet(S), NEW R, R \subseteq S,
           \A x \in R : f[x] \in Int /\ g[x] = f[x], \A x \in S \ R : g[x] = 0
    PROVE  Sum(f, R) = Sum(g, S)
<1>1. \A x \in S : g[x] \in Int
  OBVIOUS
<1>2. Sum(g, S) = Sum(g, R)
  BY <1>1, SumOfRest
<1>3. IsFiniteSet(R)
  BY FS_Subset
<1>4. QED
  BY <1>2, <1>3, SumEqual

\* A sum of natural numbers is one.
LEMMA SumNat ==
    ASSUME NEW f, NEW S, IsFiniteSet(S), \A x \in S : f[x] \in Nat
    PROVE  Sum(f, S) \in Nat
<1> DEFINE zero == [x \in S |-> 0]
<1>1. Sum(zero, S) = 0
  BY SumZero
<1>2. \A x \in S : zero[x] \in Int /\ f[x] \in Int /\ zero[x] <= f[x]
  OBVIOUS
<1> HIDE DEF zero
<1>3. Sum(zero, S) <= Sum(f, S) /\ Sum(f, S) \in Int
  BY <1>2, SumAtLeast, SumInt
<1>4. QED
  BY <1>1, <1>3

\* Sums over sets that share nothing add up.
LEMMA SumUnion ==
    ASSUME NEW f, NEW S, NEW T, IsFiniteSet(S), IsFiniteSet(T), S \cap T = {},
           \A x \in S \cup T : f[x] \in Int
    PROVE  Sum(f, S \cup T) = Sum(f, S) + Sum(f, T)
<1> DEFINE g == [x \in S \cup T |-> IF x \in S THEN f[x] ELSE 0]
           h == [x \in S \cup T |-> IF x \in T THEN f[x] ELSE 0]
<1>1. IsFiniteSet(S \cup T)
  BY FS_Union
<1>2. \A x \in S \cup T : g[x] \in Int /\ h[x] \in Int /\ f[x] = g[x] + h[x]
  OBVIOUS
<1>3. Sum(f, S \cup T) = Sum(g, S \cup T) + Sum(h, S \cup T)
  <2> HIDE DEF g, h
  <2>1. QED
    BY <1>1, <1>2, SumPlus
<1>4. Sum(f, S) = Sum(g, S \cup T)
  <2>1. \A x \in S : f[x] \in Int /\ g[x] = f[x]
    OBVIOUS
  <2>2. \A x \in (S \cup T) \ S : g[x] = 0
    OBVIOUS
  <2> HIDE DEF g
  <2>3. QED
    BY <1>1, <2>1, <2>2, SumFiltered
<1>5. Sum(f, T) = Sum(h, S \cup T)
  <2>1. \A x \in T : f[x] \in Int /\ h[x] = f[x]
    OBVIOUS
  <2>2. \A x \in (S \cup T) \ T : h[x] = 0
    OBVIOUS
  <2> HIDE DEF h
  <2>3. QED
    BY <1>1, <2>1, <2>2, SumFiltered
<1>6. QED
  BY <1>3, <1>4, <1>5

\* The sum of the negatives is the negative of the sum.
LEMMA SumNegated ==
    ASSUME NEW f, NEW g, NEW S, IsFiniteSet(S), \A x \in S : f[x] \in Int /\ g[x] = -f[x]
    PROVE  Sum(g, S) = -Sum(f, S)
<1> DEFINE zero == [x \in S |-> 0]
<1>1. \A x \in S : f[x] \in Int /\ g[x] \in Int /\ zero[x] = f[x] + g[x]
  OBVIOUS
<1>2. Sum(zero, S) = 0
  BY SumZero
<1> HIDE DEF zero
<1>3. Sum(zero, S) = Sum(f, S) + Sum(g, S)
  BY <1>1, SumPlus
<1>4. Sum(f, S) \in Int /\ Sum(g, S) \in Int
  BY <1>1, SumInt
<1>5. QED
  BY <1>2, <1>3, <1>4

\* The sum of ones counts.
LEMMA SumOfOnes ==
    ASSUME NEW f, NEW S, IsFiniteSet(S), \A x \in S : f[x] = 1
    PROVE  Sum(f, S) = Cardinality(S)
<1> DEFINE P == {T \in SUBSET S : Sum(f, T) = Cardinality(T)}
<1>1. ASSUME NEW T \in SUBSET S, \A U \in SUBSET T : U # T => U \in P
      PROVE  T \in P
  <2>1. CASE T = {}
    BY <2>1, SumEmpty, FS_EmptySet
  <2>2. CASE T # {}
    <3>1. PICK x \in T : TRUE
      BY <2>2
    <3>2. IsFiniteSet(T) /\ IsFiniteSet(T \ {x}) /\ T \ {x} \in P
      BY <1>1, <3>1, FS_Subset
    <3>3. Sum(f, T) = f[x] + Sum(f, T \ {x})
      BY <3>1, <3>2, SumElement
    <3>4. Cardinality(T \ {x}) = Cardinality(T) - 1 /\ Cardinality(T) \in Nat
      BY <3>1, <3>2, FS_RemoveElement, FS_CardinalityType
    <3>5. QED
      BY <3>1, <3>2, <3>3, <3>4
  <2>3. QED
    BY <2>1, <2>2
<1> HIDE DEF P
<1>2. SUBSET S \subseteq P
  BY <1>1, SubsetInduction
<1>3. QED
  BY <1>2 DEF P

\* A sum over things made from others, one each.
LEMMA SumOverImages ==
    ASSUME NEW f, NEW m, NEW g, NEW S, IsFiniteSet(S),
           \A x, y \in S : m[x] = m[y] => x = y,
           \A x \in S : g[x] \in Int /\ f[m[x]] = g[x]
    PROVE  Sum(f, {m[x] : x \in S}) = Sum(g, S) /\ IsFiniteSet({m[x] : x \in S})
<1> DEFINE Image(T) == {m[x] : x \in T}
           P == {T \in SUBSET S : Sum(f, Image(T)) = Sum(g, T) /\ IsFiniteSet(Image(T))}
<1>1. ASSUME NEW T \in SUBSET S, \A U \in SUBSET T : U # T => U \in P
      PROVE  T \in P
  <2>1. CASE T = {}
    <3>1. Image(T) = {}
      BY <2>1
    <3>2. QED
      BY <2>1, <3>1, SumEmpty, FS_EmptySet
  <2>2. CASE T # {}
    <3>1. PICK x \in T : TRUE
      BY <2>2
    <3>2. IsFiniteSet(T) /\ T \ {x} \in P
      BY <1>1, <3>1, FS_Subset
    <3>3. Sum(g, T) = g[x] + Sum(g, T \ {x})
      BY <3>1, <3>2, SumElement
    <3>4. Image(T) = Image(T \ {x}) \cup {m[x]} /\ m[x] \notin Image(T \ {x})
      BY <3>1
    <3>5. Sum(f, Image(T \ {x})) = Sum(g, T \ {x}) /\ IsFiniteSet(Image(T \ {x}))
      BY <3>2
    <3>6. \A y \in Image(T \ {x}) \cup {m[x]} : f[y] \in Int
      BY <3>1
    <3> HIDE DEF Image
    <3>7. Sum(f, Image(T)) = f[m[x]] + Sum(f, Image(T \ {x}))
      BY <3>4, <3>5, <3>6, SumAdded
    <3>8. IsFiniteSet(Image(T))
      <4>1. IsFiniteSet(Image(T \ {x}) \cup {m[x]})
        BY <3>5, FS_AddElement
      <4>2. QED
        BY <3>4, <4>1
    <3>9. f[m[x]] = g[x]
      BY <3>1
    <3>10. QED
      BY <3>3, <3>5, <3>7, <3>8, <3>9
  <2>3. QED
    BY <2>1, <2>2
<1> HIDE DEF P
<1>2. SUBSET S \subseteq P
  BY <1>1, SubsetInduction
<1>3. QED
  BY <1>2 DEF P

\* What is added up over the images under a map that keeps elements apart.
LEMMA SumImage ==
    ASSUME NEW f, NEW m, NEW g, NEW S, IsFiniteSet(S), NEW I,
           \A x \in S : m[x] \in I, \A y \in I : \E x \in S : y = m[x],
           \A x, y \in S : m[x] = m[y] => x = y,
           \A x \in S : g[x] \in Int /\ f[m[x]] = g[x]
    PROVE  Sum(f, I) = Sum(g, S) /\ IsFiniteSet(I)
<1>1. I = {m[x] : x \in S}
  OBVIOUS
<1>2. QED
  BY <1>1, SumOverImages

\* A sum is that of its parts, one for each value of a key.
LEMMA SumByKey ==
    ASSUME NEW f, NEW S, IsFiniteSet(S), \A x \in S : f[x] \in Int,
           NEW K, IsFiniteSet(K), NEW key, \A x \in S : key[x] \in K,
           NEW part, \A k \in K : part[k] = Sum(f, {x \in S : key[x] = k})
    PROVE  Sum(part, K) = Sum(f, S)
<1> DEFINE In(T) == {x \in S : key[x] \in T}
           P == {T \in SUBSET K : Sum(part, T) = Sum(f, In(T))}
<1>0. \A T : IsFiniteSet(In(T)) /\ IsFiniteSet({x \in S : key[x] = T})
  BY FS_Subset
<1>1. ASSUME NEW k \in K PROVE part[k] \in Int
  <2> DEFINE one == {x \in S : key[x] = k}
  <2>1. IsFiniteSet(one) /\ \A x \in one : f[x] \in Int
    BY <1>0
  <2>2. part[k] = Sum(f, one)
    OBVIOUS
  <2> HIDE DEF one
  <2>3. QED
    BY <2>1, <2>2, SumInt
<1>2. ASSUME NEW T \in SUBSET K, \A U \in SUBSET T : U # T => U \in P
      PROVE  T \in P
  <2>1. CASE T = {}
    <3>1. In(T) = {}
      BY <2>1
    <3>2. QED
      BY <2>1, <3>1, SumEmpty
  <2>2. CASE T # {}
    <3>1. PICK k \in T : TRUE
      BY <2>2
    <3>2. IsFiniteSet(T) /\ T \ {k} \in P
      BY <1>2, <3>1, FS_Subset
    <3>3. Sum(part, T) = part[k] + Sum(part, T \ {k})
      BY <1>1, <3>1, <3>2, SumElement
    <3> DEFINE one == {x \in S : key[x] = k}
    <3>4. In(T) = In(T \ {k}) \cup one /\ In(T \ {k}) \cap one = {}
      BY <3>1
    <3>5. \A x \in In(T \ {k}) \cup one : f[x] \in Int
      OBVIOUS
    <3>6. IsFiniteSet(one) /\ IsFiniteSet(In(T \ {k}))
      BY <1>0
    <3>7. Sum(part, T \ {k}) = Sum(f, In(T \ {k}))
      BY <3>2
    <3>8. part[k] = Sum(f, one) /\ part[k] \in Int
      BY <1>1, <3>1
    <3>9. Sum(f, In(T \ {k})) \in Int
      BY <3>5, <3>6, SumInt
    <3> HIDE DEF In, one
    <3>10. Sum(f, In(T)) = Sum(f, In(T \ {k})) + Sum(f, one)
      <4>1. Sum(f, In(T \ {k}) \cup one) = Sum(f, In(T \ {k})) + Sum(f, one)
        BY <3>4, <3>5, <3>6, SumUnion
      <4>2. QED
        BY <3>4, <4>1
    <3>11. QED
      BY <3>3, <3>7, <3>8, <3>9, <3>10
  <2>3. QED
    BY <2>1, <2>2
<1>3. In(K) = S
  OBVIOUS
<1> HIDE DEF P, In
<1>4. SUBSET K \subseteq P
  BY <1>2, SubsetInduction
<1>5. QED
  BY <1>3, <1>4 DEF P

\* A sum over a set is that over its classes, each summed up.
LEMMA SumByClass ==
    ASSUME NEW f, NEW S, IsFiniteSet(S), \A x \in S : f[x] \in Int,
           NEW K, IsFiniteSet(K), NEW key, \A x \in S : key[x] \in K,
           NEW class, \A k \in K : \A x : x \in class[k] <=> x \in S /\ key[x] = k,
           NEW part, \A k \in K : part[k] = Sum(f, class[k])
    PROVE  Sum(part, K) = Sum(f, S)
<1>1. ASSUME NEW k \in K PROVE part[k] = Sum(f, {x \in S : key[x] = k})
  <2>1. class[k] = {x \in S : key[x] = k}
    OBVIOUS
  <2>2. QED
    BY <2>1
<1>2. QED
  BY <1>1, SumByKey

LEMMA RangeFinite == \A a, b \in Int : IsFiniteSet(a..b)
<1> TAKE a, b \in Int
<1> QED
  BY FS_Interval, Zenon

\* The sum of a function is that of its values over its domain.
LEMMA TotalIsSum ==
    ASSUME NEW f, NEW S, IsFiniteSet(S), NEW g, DOMAIN g = S, \A x \in S : g[x] = f[x]
    PROVE  SumFunction(g) = Sum(f, S)
<1>1. SumFunction(g) = Sum(g, S)
  BY DEF SumFunction, Sum
<1>2. QED
  BY <1>1, SumEqual

----------------------------------------------------------------------------
(***************************************************************************)
(* The batches of one product in one branch.                               *)
(***************************************************************************)
\* An order lists each of some batches once.
Lists(order, some) ==
    /\ order \in [1..Cardinality(some) -> some]
    /\ \A m, n \in DOMAIN order : order[m] = order[n] => m = n
    /\ \A i \in some : \E n \in DOMAIN order : order[n] = i

----------------------------------------------------------------------------
\* What sortFefo sorts by is a strict order of all batches.
LEMMA BeforeOrders ==
    ASSUME NEW rows, NEW some, some \subseteq Int, \A i \in some : rows[i].expiry \in Int
    PROVE  /\ \A i \in some : ~Before(rows, i, i)
           /\ \A i, j \in some : i # j => Before(rows, i, j) \/ Before(rows, j, i)
           /\ \A i, j, k \in some : Before(rows, i, j) /\ Before(rows, j, k) => Before(rows, i, k)
<1>1. ASSUME NEW i \in some PROVE ~Before(rows, i, i)
  BY DEF Before
<1>2. ASSUME NEW i \in some, NEW j \in some, i # j PROVE Before(rows, i, j) \/ Before(rows, j, i)
  BY <1>2 DEF Before
<1>3. ASSUME NEW i \in some, NEW j \in some, NEW k \in some, Before(rows, i, j), Before(rows, j, k)
      PROVE  Before(rows, i, k)
  <2>1. /\ i \in Int /\ j \in Int /\ k \in Int
        /\ rows[i].expiry \in Int /\ rows[j].expiry \in Int /\ rows[k].expiry \in Int
    OBVIOUS
  <2>2. QED
    BY <1>3, <2>1 DEF Before
<1>4. QED
  BY <1>1, <1>2, <1>3

\* There is an enumeration of some batches in this order: a batch's place is
\* the number of those before it.
LEMMA Enumeration ==
    ASSUME NEW rows, NEW some, some \subseteq Int, IsFiniteSet(some),
           \A i \in some : rows[i].expiry \in Int
    PROVE  \E e : /\ Lists(e, some)
                  /\ \A m, n \in DOMAIN e : m < n => Before(rows, e[m], e[n])
<1> DEFINE N == Cardinality(some)
           below == [i \in some |-> {j \in some : Before(rows, j, i)}]
           place == [i \in some |-> Cardinality(below[i]) + 1]
<1>1. N \in Nat
  BY FS_CardinalityType
<1>2. /\ \A i \in some : ~Before(rows, i, i)
      /\ \A i, j \in some : i # j => Before(rows, i, j) \/ Before(rows, j, i)
      /\ \A i, j, k \in some : Before(rows, i, j) /\ Before(rows, j, k) => Before(rows, i, k)
  BY BeforeOrders
<1>3. \A i \in some : IsFiniteSet(below[i]) /\ Cardinality(below[i]) \in Nat
  BY FS_Subset, FS_CardinalityType
<1>4. \A i \in some : place[i] \in 1..N
  <2> SUFFICES ASSUME NEW i \in some PROVE place[i] \in 1..N
    OBVIOUS
  <2>1. below[i] \subseteq some /\ i \notin below[i]
    BY <1>2
  <2>2. below[i] \subseteq some /\ below[i] # some
    BY <2>1
  <2>3. Cardinality(below[i]) < N /\ Cardinality(below[i]) \in Nat
    <3> DEFINE b == below[i]
    <3>1. b \subseteq some /\ b # some /\ Cardinality(b) \in Nat
      BY <1>3, <2>2
    <3> HIDE DEF b
    <3>2. Cardinality(b) <= N /\ (Cardinality(b) = N => b = some)
      BY <3>1, FS_Subset
    <3>3. Cardinality(b) < N
      <4> HIDE DEF N
      <4>1. QED
        BY <1>1, <3>1, <3>2
    <3>4. QED
      BY <3>1, <3>3 DEF b
  <2>4. place[i] = Cardinality(below[i]) + 1
    OBVIOUS
  <2> HIDE DEF place, below, N
  <2>5. QED
    BY <1>1, <2>3, <2>4
<1>5. \A i, j \in some : Before(rows, i, j) => place[i] < place[j]
  <2> SUFFICES ASSUME NEW i \in some, NEW j \in some, Before(rows, i, j) PROVE place[i] < place[j]
    OBVIOUS
  <2>1. below[i] \subseteq below[j] /\ i \in below[j] /\ i \notin below[i]
    BY <1>2
  <2>2. Cardinality(below[i]) < Cardinality(below[j])
    BY <1>3, <2>1, FS_Subset
  <2>3. QED
    BY <1>3, <2>2
<1>6. \A i, j \in some : place[i] = place[j] => i = j
  BY <1>2, <1>4, <1>5
<1>7. place \in Injection(some, 1..N)
  BY <1>4, <1>6, Fun_IsInj
<1>8. IsFiniteSet(1..N) /\ Cardinality(1..N) = N
  BY <1>1, FS_Interval
<1>9. place \in Surjection(some, 1..N)
  BY <1>7, <1>8, FS_Injection
<1>10. \A n \in 1..N : \E i \in some : place[i] = n
  BY <1>9 DEF Surjection
<1> DEFINE e == [n \in 1..N |-> CHOOSE i \in some : place[i] = n]
<1> HIDE DEF place, N
<1>11. \A n \in 1..N : e[n] \in some /\ place[e[n]] = n
  BY <1>10
<1>12. e \in [1..N -> some] /\ DOMAIN e = 1..N
  BY <1>11
<1> HIDE DEF e
<1>13. Lists(e, some)
  BY <1>4, <1>6, <1>11, <1>12 DEF Lists, N
<1>14. \A m, n \in DOMAIN e : m < n => Before(rows, e[m], e[n])
  <2> SUFFICES ASSUME NEW m \in 1..N, NEW n \in 1..N, m < n PROVE Before(rows, e[m], e[n])
    BY <1>12
  <2>1. e[m] # e[n]
    BY <1>1, <1>11
  <2>2. ~Before(rows, e[n], e[m])
    <3>1. ~(place[e[n]] < place[e[m]])
      BY <1>1, <1>11
    <3>2. QED
      BY <1>5, <1>11, <3>1
  <2>3. QED
    BY <1>2, <1>11, <2>1, <2>2
<1>15. QED
  BY <1>13, <1>14

\* sortFefo lists each batch once, in this order.
LEMMA SortFefoLists ==
    ASSUME NEW rows, NEW some, some \subseteq Int, IsFiniteSet(some),
           \A i \in some : rows[i].expiry \in Int
    PROVE  /\ Lists(SortFefo(rows, some), some)
           /\ \A m, n \in DOMAIN SortFefo(rows, some) :
                 m < n => Before(rows, SortFefo(rows, some)[m], SortFefo(rows, some)[n])
<1> DEFINE N == Cardinality(some)
           o == SortFefo(rows, some)
<1>1. N \in Nat
  BY FS_CardinalityType
<1>2. PICK e : /\ Lists(e, some)
               /\ \A m, n \in DOMAIN e : m < n => Before(rows, e[m], e[n])
  BY Enumeration
<1>3. /\ o \in [1..N -> some]
      /\ \A m, n \in DOMAIN o : m < n => Before(rows, o[m], o[n])
  BY <1>2 DEF SortFefo, Lists
<1> HIDE DEF o
<1>4. \A m, n \in 1..N : o[m] = o[n] => m = n
  <2>1. \A m, n \in 1..N : m < n => o[m] # o[n]
    BY <1>3, BeforeOrders
  <2>2. QED
    BY <1>1, <2>1
<1>5. o \in Injection(1..N, some)
  BY <1>3, <1>4, Fun_IsInj
<1>6. IsFiniteSet(1..N) /\ Cardinality(1..N) = N
  BY <1>1, FS_Interval
<1>7. o \in Surjection(1..N, some)
  BY <1>5, <1>6, FS_Injection
<1>8. \A i \in some : \E n \in 1..N : o[n] = i
  BY <1>7 DEF Surjection
<1>9. Lists(o, some)
  BY <1>3, <1>4, <1>8 DEF Lists
<1>10. QED
  BY <1>3, <1>9 DEF o

----------------------------------------------------------------------------
(***************************************************************************)
(* A walk, turn by turn.                                                   *)
(***************************************************************************)

Start(available, qty) == [take |-> [i \in DOMAIN available |-> 0], left |-> qty]

\* The function that a fold over the places T of an order takes its value from.
Turns(g, order, available, qty, T) ==
    g = [U \in SUBSET T |->
            IF U = {} THEN Start(available, qty)
            ELSE LET n == Max(U) IN Turn(g[U \ {n}], available, order[n])]

WalkOver(order, available, qty, T) == (CHOOSE g : Turns(g, order, available, qty, T))[T]

LEMMA WalkChosen ==
    ASSUME NEW order, NEW available, NEW qty
    PROVE  Walk(order, available, qty) = WalkOver(order, available, qty, DOMAIN order)
  BY DEF Walk, FoldLeft, MapThenFoldSet, WalkOver, Turns, Start

LEMMA MaxOf ==
    ASSUME NEW T, IsFiniteSet(T), T \subseteq Nat, T # {}
    PROVE  Max(T) \in T /\ \A n \in T : n <= Max(T)
<1> DEFINE num == [n \in T |-> n]
<1>1. \A n \in T : num[n] \in Nat
  OBVIOUS
<1>2. PICK m \in T : \A n \in T : num[n] <= num[m]
  <2> HIDE DEF num
  <2>1. QED
    BY <1>1, Greatest
<1>3. \E k \in T : \A n \in T : k >= n
  BY <1>2
<1>4. QED
  BY <1>3 DEF Max

\* Some turns but the last of them are fewer.
LEMMA LastTurn ==
    ASSUME NEW T, IsFiniteSet(T), T \subseteq Nat, NEW U \in SUBSET T, U # {}
    PROVE  LET V == U \ {Max(U)}
           IN  /\ Max(U) \in T /\ V \in SUBSET T
               /\ Cardinality(U) \in Nat /\ Cardinality(V) \in Nat
               /\ Cardinality(V) = Cardinality(U) - 1
<1>1. IsFiniteSet(U) /\ U \subseteq Nat
  BY FS_Subset
<1>2. Max(U) \in U
  BY <1>1, MaxOf
<1>3. /\ IsFiniteSet(U \ {Max(U)})
      /\ Cardinality(U \ {Max(U)}) = Cardinality(U) - 1
  BY <1>1, <1>2, FS_RemoveElement
<1>4. Cardinality(U) \in Nat /\ Cardinality(U \ {Max(U)}) \in Nat
  BY <1>1, <1>3, FS_CardinalityType
<1>5. QED
  BY <1>2, <1>3, <1>4

\* The first turns, up to each of them.
LEMMA FirstTurns ==
    ASSUME NEW N \in Nat
    PROVE  /\ IsFiniteSet(1..N) /\ 1..N \subseteq Nat /\ 1..0 = {}
           /\ \A n \in 0..N : 1..n \in SUBSET (1..N)
           /\ \A n \in 1..N : /\ n - 1 \in 0..N /\ 1..n # {}
                              /\ Max(1..n) = n /\ (1..n) \ {n} = 1..(n - 1)
<1>1. IsFiniteSet(1..N) /\ 1..N \subseteq Nat /\ 1..0 = {}
  BY FS_Interval
<1>2. ASSUME NEW n \in 0..N PROVE 1..n \in SUBSET (1..N)
  OBVIOUS
<1>3. ASSUME NEW n \in 1..N
      PROVE  /\ n - 1 \in 0..N /\ 1..n # {}
             /\ Max(1..n) = n /\ (1..n) \ {n} = 1..(n - 1)
  <2> DEFINE U == 1..n
  <2>1. n \in U /\ n - 1 \in 0..N /\ U \ {n} = 1..(n - 1) /\ \A m \in U : m <= n
    OBVIOUS
  <2>2. IsFiniteSet(U) /\ U \subseteq Nat
    BY FS_Interval
  <2>3. Max(U) = n
    <3> HIDE DEF U
    <3>1. Max(U) \in U /\ \A m \in U : m <= Max(U)
      BY <2>1, <2>2, MaxOf
    <3>2. QED
      BY <2>1, <2>2, <3>1
  <2>4. QED
    BY <2>1, <2>3
<1>4. QED
  BY <1>1, <1>2, <1>3

LEMMA TurnsUnique ==
    ASSUME NEW order, NEW available, NEW qty, NEW T, IsFiniteSet(T), T \subseteq Nat,
           NEW g, NEW h,
           Turns(g, order, available, qty, T), Turns(h, order, available, qty, T)
    PROVE  g = h
<1> DEFINE P == {U \in SUBSET T : g[U] = h[U]}
<1>1. ASSUME NEW U \in SUBSET T, \A V \in SUBSET U : V # U => V \in P
      PROVE  U \in P
  <2>1. CASE U = {}
    BY <2>1 DEF Turns
  <2>2. CASE U # {}
    <3> DEFINE n == Max(U)
    <3>1. n \in U
      BY <2>2, MaxOf, FS_Subset
    <3> HIDE DEF n
    <3>2. g[U \ {n}] = h[U \ {n}]
      BY <1>1, <3>1
    <3>3. /\ g[U] = Turn(g[U \ {n}], available, order[n])
          /\ h[U] = Turn(h[U \ {n}], available, order[n])
      BY <2>2 DEF Turns, n
    <3>4. QED
      BY <3>2, <3>3
  <2>3. QED
    BY <2>1, <2>2
<1>2. SUBSET T \subseteq P
  <2> HIDE DEF P
  <2>1. QED
    BY <1>1, SubsetInduction
<1>3. g = [U \in SUBSET T |-> g[U]] /\ h = [U \in SUBSET T |-> h[U]]
  BY DEF Turns
<1>4. QED
  BY <1>2, <1>3

LEMMA WalkNowhere ==
    ASSUME NEW order, NEW available, NEW qty
    PROVE  WalkOver(order, available, qty, {}) = Start(available, qty)
<1> DEFINE g == CHOOSE g : Turns(g, order, available, qty, {})
           h == [U \in SUBSET {} |-> Start(available, qty)]
<1>1. Turns(h, order, available, qty, {})
  BY DEF Turns
<1>2. Turns(g, order, available, qty, {})
  <2> HIDE DEF h
  <2>1. QED
    BY <1>1
<1>3. g[{}] = Start(available, qty)
  <2> HIDE DEF g
  <2>1. QED
    BY <1>2 DEF Turns
<1>4. QED
  BY <1>3 DEF WalkOver

\* A walk's last turn is the one at the last place.
LEMMA WalkStep ==
    ASSUME NEW order, NEW available, NEW qty, NEW S, IsFiniteSet(S), S \subseteq Nat, S # {}
    PROVE  WalkOver(order, available, qty, S)
           = Turn(WalkOver(order, available, qty, S \ {Max(S)}), available, order[Max(S)])
<1> DEFINE W(T) == WalkOver(order, available, qty, T)
           Step(T) == Turn(W(T \ {Max(T)}), available, order[Max(T)])
           P == {T \in SUBSET S : T = {} \/ W(T) = Step(T)}
<1>1. ASSUME NEW T \in SUBSET S, \A U \in SUBSET T : U # T => U \in P, T # {}
      PROVE  W(T) = Step(T)
  <2> DEFINE h == [U \in SUBSET T |-> IF U = T THEN Step(T) ELSE W(U)]
             g == CHOOSE g : Turns(g, order, available, qty, T)
  <2>1. \A U \in SUBSET T : U # {} => Max(U) \in U
    BY MaxOf, FS_Subset
  <2>2. ASSUME NEW U \in SUBSET T
        PROVE  h[U] = IF U = {} THEN Start(available, qty)
                      ELSE LET n == Max(U) IN Turn(h[U \ {n}], available, order[n])
    <3>1. CASE U = {}
      BY <1>1, <3>1, WalkNowhere
    <3>2. CASE U # {}
      <4> DEFINE n == Max(U)
      <4>1. n \in U
        BY <2>1, <3>2
      <4>2. h[U] = Turn(W(U \ {n}), available, order[n])
        BY <1>1, <3>2
      <4> HIDE DEF n
      <4>3. h[U \ {n}] = W(U \ {n})
        BY <4>1
      <4> HIDE DEF h, W
      <4>4. h[U] = Turn(h[U \ {n}], available, order[n])
        BY <4>2, <4>3
      <4>5. QED
        BY <3>2, <4>4 DEF n
    <3>3. QED
      BY <3>1, <3>2
  <2>3. Turns(h, order, available, qty, T)
    <3> HIDE DEF h
    <3>1. h = [U \in SUBSET T |-> h[U]]
      BY DEF h
    <3>2. QED
      BY <2>2, <3>1 DEF Turns
  <2>4. Turns(g, order, available, qty, T)
    <3> HIDE DEF h
    <3>1. QED
      BY <2>3
  <2>5. IsFiniteSet(T) /\ T \subseteq Nat
    BY FS_Subset
  <2>6. g = h
    <3> HIDE DEF g, h
    <3>1. QED
      BY <2>3, <2>4, <2>5, TurnsUnique
  <2>7. W(T) = g[T]
    BY DEF WalkOver
  <2>8. QED
    <3> HIDE DEF W, Step, g
    <3>1. h[T] = Step(T)
      OBVIOUS
    <3> HIDE DEF h
    <3>2. QED
      BY <2>6, <2>7, <3>1
<1>2. SUBSET S \subseteq P
  <2> HIDE DEF Step, W
  <2>1. \A T \in SUBSET S : (\A U \in SUBSET T : U # T => U \in P) => T \in P
    BY <1>1
  <2> HIDE DEF P
  <2>2. QED
    BY <2>1, SubsetInduction
<1>3. QED
  <2> HIDE DEF Step, W
  <2>1. W(S) = Step(S)
    BY <1>2
  <2>2. QED
    BY <2>1 DEF W, Step

\* What walk came to when it has visited the first n places of order.
Walked(walk, order, available, qty, n) ==
    /\ walk = [take |-> walk.take, left |-> walk.left]
    /\ walk.take \in [DOMAIN available -> Nat] /\ walk.left \in Nat
    /\ SumFunction(walk.take) + walk.left = qty
    /\ \A i \in DOMAIN available : walk.take[i] <= Most(0, available[i])
    /\ \A i \in DOMAIN available :
          walk.take[i] > 0 => \E m \in 1..n : order[m] = i
    /\ \A m \in 1..n :
          walk.left > 0 => walk.take[order[m]] = Most(0, available[order[m]])
    /\ \A k, m \in 1..n :
          k < m /\ walk.take[order[m]] > 0
          => walk.take[order[k]] = Most(0, available[order[k]])

\* A walk that visits each row at most once takes what the rows allow, in the
\* order it visits them, until it has qty.
LEMMA WalkTakes ==
    ASSUME NEW available, IsFiniteSet(DOMAIN available),
           \A i \in DOMAIN available : available[i] \in Int,
           NEW qty \in Nat, NEW N \in Nat, NEW order \in [1..N -> DOMAIN available],
           \A m, n \in 1..N : order[m] = order[n] => m = n
    PROVE  Walked(Walk(order, available, qty), order, available, qty, N)
<1> DEFINE W(n) == WalkOver(order, available, qty, 1..n)
           D == DOMAIN available
           P == {n \in Nat : n <= N => Walked(W(n), order, available, qty, n)}
<1>1. 0 \in P
  <2>1. W(0) = Start(available, qty)
    <3>1. 1..0 = {}
      OBVIOUS
    <3>2. QED
      BY <3>1, WalkNowhere
  <2> DEFINE none == [i \in D |-> 0]
  <2>2. SumFunction(none) = 0
    <3>1. DOMAIN none = D /\ \A i \in D : none[i] = 0
      OBVIOUS
    <3> HIDE DEF none
    <3>2. QED
      BY <3>1, TotalZero
  <2>3. W(0) = [take |-> none, left |-> qty]
    BY <2>1 DEF Start
  <2> HIDE DEF W
  <2>4. Walked(W(0), order, available, qty, 0)
    <3>1. none \in [D -> Nat] /\ \A i \in D : none[i] = 0
      OBVIOUS
    <3> HIDE DEF none
    <3>2. QED
      BY <2>2, <2>3, <3>1 DEF Walked, Most
  <2>5. QED
    BY <2>4
<1>2. ASSUME NEW n \in Nat, n \in P, n + 1 <= N
      PROVE  Walked(W(n + 1), order, available, qty, n + 1)
  <2> DEFINE was == W(n)
             now == W(n + 1)
             i == order[n + 1]
  <2>1. now = Turn(was, available, i)
    <3> DEFINE T == 1..(n + 1)
    <3>1. IsFiniteSet(T) /\ T \subseteq Nat /\ T # {} /\ n + 1 \in T
      <4>1. 1 \in Int /\ n + 1 \in Int
        OBVIOUS
      <4>2. IsFiniteSet(T)
        BY <4>1, FS_Interval
      <4>3. T \subseteq Nat /\ n + 1 \in T
        OBVIOUS
      <4>4. QED
        BY <4>2, <4>3
    <3>2. Max(T) = n + 1
      <4>1. Max(T) \in T /\ Max(T) >= n + 1
        BY <3>1, MaxOf
      <4>2. QED
        BY <4>1
    <3>3. T \ {n + 1} = 1..n
      OBVIOUS
    <3> HIDE DEF T
    <3>4. WalkOver(order, available, qty, T)
          = Turn(WalkOver(order, available, qty, T \ {Max(T)}), available, order[Max(T)])
      BY <3>1, WalkStep
    <3>5. QED
      BY <3>2, <3>3, <3>4 DEF T
  <2>2. Walked(was, order, available, qty, n)
    BY <1>2
  <2>3. i \in D /\ available[i] \in Int /\ \A m \in 1..n : order[m] \in D /\ order[m] # i
    BY <1>2
  <2> SUFFICES Walked(now, order, available, qty, n + 1)
    OBVIOUS
  <2> HIDE DEF W, now, was, i
  <2>4. /\ was = [take |-> was.take, left |-> was.left]
        /\ was.take \in [D -> Nat] /\ was.left \in Nat
        /\ was.take[i] = 0
    BY <2>2, <2>3 DEF Walked
  <2>5. \A m \in 1..(n + 1) : m \in 1..n \/ m = n + 1
    BY <1>2
  <2>6. CASE was.left <= 0 \/ available[i] <= 0
    <3>1. now = was
      BY <2>1, <2>6 DEF Turn
    <3>2. was.left > 0 => was.take[i] = Most(0, available[i])
      BY <2>3, <2>4, <2>6 DEF Most
    <3>3. \A m \in 1..n : m \in 1..(n + 1)
      OBVIOUS
    <3>4. /\ \A j \in D : was.take[j] > 0 => \E m \in 1..(n + 1) : order[m] = j
          /\ \A m \in 1..(n + 1) :
                was.left > 0 => was.take[order[m]] = Most(0, available[order[m]])
          /\ \A k, m \in 1..(n + 1) :
                k < m /\ was.take[order[m]] > 0
                => was.take[order[k]] = Most(0, available[order[k]])
      <4>1. \A j \in D : was.take[j] > 0 => \E m \in 1..(n + 1) : order[m] = j
        BY <2>2, <3>3 DEF Walked
      <4>2. \A m \in 1..(n + 1) :
                was.left > 0 => was.take[order[m]] = Most(0, available[order[m]])
        BY <2>2, <2>5, <3>2 DEF Walked, i
      <4>3. \A k, m \in 1..(n + 1) :
                k < m /\ was.take[order[m]] > 0
                => was.take[order[k]] = Most(0, available[order[k]])
        <5> SUFFICES ASSUME NEW k \in 1..(n + 1), NEW m \in 1..(n + 1), k < m,
                            was.take[order[m]] > 0
                     PROVE  was.take[order[k]] = Most(0, available[order[k]])
          OBVIOUS
        <5>1. m # n + 1
          BY <2>4 DEF i
        <5>2. k \in 1..n /\ m \in 1..n
          BY <5>1
        <5>3. QED
          BY <2>2, <5>2 DEF Walked
      <4>4. QED
        BY <4>1, <4>2, <4>3
    <3>5. QED
      BY <2>2, <3>1, <3>4 DEF Walked
  <2>7. CASE ~(was.left <= 0 \/ available[i] <= 0)
    <3> DEFINE q == UnitsFrom(available[i], was.left)
               take == [was.take EXCEPT ![i] = q]
    <3>1. now = [take |-> take, left |-> was.left - q]
      BY <2>1, <2>7 DEF Turn
    <3>2. /\ q \in Nat /\ q > 0 /\ q <= was.left /\ q <= available[i]
          /\ was.left - q > 0 => q = available[i]
          /\ Most(0, available[i]) = available[i]
      BY <2>3, <2>4, <2>7 DEF UnitsFrom, Least, Most
    <3> HIDE DEF q
    <3>3. /\ take \in [D -> Nat] /\ take[i] = q
          /\ \A j \in D : j # i => take[j] = was.take[j]
      BY <2>3, <2>4, <3>2
    <3>4. SumFunction(take) = SumFunction(was.take) + (take[i] - was.take[i])
      <4> DEFINE old == was.take
      <4>1. DOMAIN old = D /\ DOMAIN take = D
        BY <2>4
      <4>2. /\ \A j \in D : old[j] \in Int /\ take[j] \in Int
            /\ \A j \in D : j # i => old[j] = take[j]
        BY <2>4, <3>3
      <4> HIDE DEF take, old, D
      <4>3. SumFunction(take) = SumFunction(old) + (take[i] - old[i])
        <5>1. IsFiniteSet(DOMAIN old) /\ i \in DOMAIN old /\ DOMAIN take = DOMAIN old
          BY <2>3, <4>1 DEF D
        <5>2. /\ \A j \in DOMAIN old : old[j] \in Int /\ take[j] \in Int
              /\ \A j \in DOMAIN old : j # i => old[j] = take[j]
          BY <4>1, <4>2
        <5>3. QED
          BY <5>1, <5>2, TotalChanged
      <4>4. QED
        BY <4>3 DEF old
    <3> HIDE DEF take
    <3>5. SumFunction(take) + (was.left - q) = qty
      <4>1. SumFunction(was.take) \in Int
        <5>1. \A j \in D : was.take[j] \in Int
          BY <2>4
        <5>2. QED
          BY <2>4, <5>1, TotalInt
      <4>2. SumFunction(was.take) + was.left = qty
        BY <2>2 DEF Walked
      <4>3. QED
        BY <2>4, <3>2, <3>3, <3>4, <4>1, <4>2
    <3>6. \A m \in 1..n : was.take[order[m]] = Most(0, available[order[m]])
      <4>1. was.left > 0
        BY <2>4, <2>7
      <4>2. QED
        BY <2>2, <4>1 DEF Walked
    <3>7. \A j \in D : take[j] <= Most(0, available[j])
      BY <2>2, <3>2, <3>3 DEF Walked
    <3>8. \A j \in D : take[j] > 0 => \E m \in 1..(n + 1) : order[m] = j
      <4> SUFFICES ASSUME NEW j \in D, take[j] > 0 PROVE \E m \in 1..(n + 1) : order[m] = j
        OBVIOUS
      <4>1. CASE j = i
        BY <4>1 DEF i
      <4>2. CASE j # i
        <5>1. PICK m \in 1..n : order[m] = j
          BY <2>2, <3>3, <4>2 DEF Walked
        <5>2. QED
          BY <5>1
      <4>3. QED
        BY <4>1, <4>2
    <3>9. \A m \in 1..n : take[order[m]] = Most(0, available[order[m]])
      BY <2>3, <3>3, <3>6
    <3>10. \A m \in 1..(n + 1) :
              was.left - q > 0 => take[order[m]] = Most(0, available[order[m]])
      <4> SUFFICES ASSUME NEW m \in 1..(n + 1), was.left - q > 0
                   PROVE  take[order[m]] = Most(0, available[order[m]])
        OBVIOUS
      <4>1. CASE m \in 1..n
        BY <3>9, <4>1
      <4>2. CASE m = n + 1
        BY <3>2, <3>3, <4>2 DEF i
      <4>3. QED
        BY <2>5, <4>1, <4>2
    <3>11. \A k, m \in 1..(n + 1) :
              k < m /\ take[order[m]] > 0
              => take[order[k]] = Most(0, available[order[k]])
      <4> SUFFICES ASSUME NEW k \in 1..(n + 1), NEW m \in 1..(n + 1), k < m
                   PROVE  take[order[k]] = Most(0, available[order[k]])
        OBVIOUS
      <4>1. k \in 1..n
        OBVIOUS
      <4>2. QED
        BY <3>9, <4>1
    <3>12. was.left - q \in Nat
      BY <2>4, <3>2
    <3>13. now.take = take /\ now.left = was.left - q
           /\ now = [take |-> now.take, left |-> now.left]
      BY <3>1
    <3>14. QED
      BY <3>3, <3>5, <3>7, <3>8, <3>10, <3>11, <3>12, <3>13 DEF Walked
  <2>8. QED
    BY <2>6, <2>7
<1>3. N \in P
  <2>1. \A n \in Nat : n \in P => n + 1 \in P
    <3> HIDE DEF W
    <3>1. QED
      BY <1>2
  <2> HIDE DEF P
  <2>2. QED
    BY <1>1, <2>1, NatSetInduction
<1>4. DOMAIN order = 1..N
  OBVIOUS
<1>5. Walk(order, available, qty) = W(N)
  BY <1>4, WalkChosen
<1>6. QED
  <2> HIDE DEF W
  <2>1. QED
    BY <1>3, <1>5

----------------------------------------------------------------------------
(***************************************************************************)
(* Units out of the batches, back into them, and made to add up.           *)
(***************************************************************************)

\* Batches as a shelf holds them: none below zero.
Shelf(rows) == rows \in Seq(Batch) /\ \A i \in DOMAIN rows : rows[i].qty >= 0

LEMMA ShelfParts ==
    ASSUME NEW rows \in Seq(Batch), Never \in Nat
    PROVE  /\ Len(rows) \in Nat /\ DOMAIN rows = 1..Len(rows)
           /\ IsFiniteSet(DOMAIN rows) /\ DOMAIN rows \subseteq Int
           /\ \A i \in DOMAIN rows : /\ rows[i] \in Batch
                                     /\ rows[i].qty \in Int /\ rows[i].expiry \in Int
<1>1. Len(rows) \in Nat /\ DOMAIN rows = 1..Len(rows)
  OBVIOUS
<1>2. IsFiniteSet(1..Len(rows))
  BY <1>1, FS_Interval
<1>3. \A i \in DOMAIN rows : rows[i] \in Batch
  OBVIOUS
<1>4. \A b \in Batch : b.qty \in Int /\ b.expiry \in Int
  BY DEF Batch
<1>5. QED
  BY <1>1, <1>2, <1>3, <1>4

\* Of two batches this one gives first: the preferred one, else in their order.
GivesFirst(rows, preferred, i, j) == i = preferred \/ (j # preferred /\ Before(rows, i, j))

\* The batches with something in them, the preferred one first.
LEMMA TakeOrderLists ==
    ASSUME NEW rows \in Seq(Batch), Never \in Nat, NEW preferred
    PROVE  LET some == {i \in DOMAIN rows : rows[i].qty > 0}
               order == TakeOrder(rows, preferred)
           IN  /\ Lists(order, some)
               /\ \A m, n \in DOMAIN order :
                     m < n => /\ order[m] = preferred \/ Before(rows, order[m], order[n])
                              /\ order[n] # preferred
<1> DEFINE some == {i \in DOMAIN rows : rows[i].qty > 0}
           order == TakeOrder(rows, preferred)
<1>1. /\ IsFiniteSet(some) /\ some \subseteq Int
      /\ \A i \in some : rows[i].expiry \in Int
  BY ShelfParts, FS_Subset
<1>2. CASE preferred \notin some
  <2>1. order = SortFefo(rows, some)
    BY <1>2 DEF TakeOrder
  <2> HIDE DEF order, some
  <2>2. Lists(order, some)
        /\ \A m, n \in DOMAIN order : m < n => Before(rows, order[m], order[n])
    BY <1>1, <2>1, SortFefoLists
  <2>3. \A n \in DOMAIN order : order[n] # preferred
    BY <1>2, <2>2 DEF Lists
  <2>4. QED
    BY <2>2, <2>3 DEF order, some
<1>3. CASE preferred \in some
  <2> DEFINE rest == some \ {preferred}
             s == SortFefo(rows, rest)
             N == Cardinality(rest)
  <2>1. IsFiniteSet(rest) /\ N \in Nat /\ Cardinality(some) = N + 1
    <3>1. IsFiniteSet(rest)
      BY <1>1, FS_Subset
    <3>2. N \in Nat
      BY <3>1, FS_CardinalityType
    <3>3. rest \cup {preferred} = some /\ preferred \notin rest
      BY <1>3
    <3> HIDE DEF some, rest
    <3>4. Cardinality(rest \cup {preferred}) = N + 1
      BY <3>1, <3>3, FS_AddElement
    <3>5. QED
      BY <3>1, <3>2, <3>3, <3>4
  <2>2. /\ Lists(s, rest)
        /\ \A m, n \in DOMAIN s : m < n => Before(rows, s[m], s[n])
    <3>1. rest \subseteq Int /\ \A i \in rest : rows[i].expiry \in Int
      BY <1>1
    <3> HIDE DEF rest
    <3>2. QED
      BY <2>1, <3>1, SortFefoLists
  <2>3. order = <<preferred>> \o s
    BY <1>3 DEF TakeOrder
  <2>4. rest \subseteq some /\ preferred \notin rest
        /\ \A i \in some : i = preferred \/ i \in rest
    OBVIOUS
  <2> HIDE DEF order, s, N, rest, some
  <2>5. /\ s \in [1..N -> rest]
        /\ \A m, n \in 1..N : s[m] = s[n] => m = n
        /\ \A i \in rest : \E n \in 1..N : s[n] = i
        /\ \A m, n \in 1..N : m < n => Before(rows, s[m], s[n])
    BY <2>2 DEF Lists, N
  <2>6. s \in Seq(rest) /\ Len(s) = N
    BY <2>1, <2>5
  <2>7. s \in Seq(some) /\ <<preferred>> \in Seq(some)
    BY <1>3, <2>4, <2>6
  <2>8. order \in Seq(some) /\ Len(order) = N + 1
    BY <2>1, <2>3, <2>6, <2>7
  <2>9. order[1] = preferred /\ \A n \in 1..N : order[n + 1] = s[n]
    BY <2>1, <2>3, <2>6, <2>7
  <2>10. order \in [1..(N + 1) -> some] /\ DOMAIN order = 1..(N + 1)
    BY <2>1, <2>8
  <2>11. \A n \in 1..(N + 1) : n # 1 => n - 1 \in 1..N /\ order[n] = s[n - 1]
    <3> SUFFICES ASSUME NEW n \in 1..(N + 1), n # 1
                 PROVE  n - 1 \in 1..N /\ order[n] = s[n - 1]
      OBVIOUS
    <3> DEFINE k == n - 1
    <3>1. k \in 1..N /\ n = k + 1
      BY <2>1
    <3> HIDE DEF k
    <3>2. order[k + 1] = s[k]
      BY <2>9, <3>1
    <3>3. QED
      BY <3>1, <3>2 DEF k
  <2>12. \A m, n \in 1..(N + 1) : order[m] = order[n] => m = n
    <3>1. \A n \in 1..(N + 1) : n # 1 => order[n] # preferred
      BY <2>4, <2>5, <2>11
    <3> SUFFICES ASSUME NEW m \in 1..(N + 1), NEW n \in 1..(N + 1), order[m] = order[n]
                 PROVE  m = n
      OBVIOUS
    <3>2. CASE m = 1 \/ n = 1
      BY <2>9, <3>1, <3>2
    <3>3. CASE m # 1 /\ n # 1
      <4>1. m - 1 \in 1..N /\ n - 1 \in 1..N /\ s[m - 1] = s[n - 1]
        BY <2>11, <3>3
      <4>2. m - 1 = n - 1
        BY <2>5, <4>1
      <4>3. QED
        BY <2>1, <4>2
    <3>4. QED
      BY <3>2, <3>3
  <2>13. \A i \in some : \E n \in 1..(N + 1) : order[n] = i
    <3> SUFFICES ASSUME NEW i \in some PROVE \E n \in 1..(N + 1) : order[n] = i
      OBVIOUS
    <3>1. CASE i = preferred
      BY <2>1, <2>9, <3>1
    <3>2. CASE i \in rest
      <4>1. PICK n \in 1..N : s[n] = i
        BY <2>5, <3>2
      <4>2. n + 1 \in 1..(N + 1) /\ order[n + 1] = i
        BY <2>1, <2>9, <4>1
      <4>3. QED
        BY <4>2
    <3>3. QED
      BY <2>4, <3>1, <3>2
  <2>14. \A m, n \in 1..(N + 1) :
            m < n => order[m] = preferred \/ Before(rows, order[m], order[n])
    <3> SUFFICES ASSUME NEW m \in 1..(N + 1), NEW n \in 1..(N + 1), m < n, m # 1
                 PROVE  Before(rows, order[m], order[n])
      BY <2>9
    <3>1. n # 1 /\ m - 1 < n - 1
      <4>1. m \in Int /\ n \in Int /\ 1 <= m
        BY <2>1
      <4>2. QED
        BY <4>1
    <3>2. m - 1 \in 1..N /\ order[m] = s[m - 1] /\ n - 1 \in 1..N /\ order[n] = s[n - 1]
      BY <2>11, <3>1
    <3>3. Before(rows, s[m - 1], s[n - 1])
      BY <2>5, <3>1, <3>2
    <3>4. QED
      BY <3>2, <3>3
  <2>15. \A m, n \in 1..(N + 1) : m < n => order[n] # preferred
    <3> SUFFICES ASSUME NEW m \in 1..(N + 1), NEW n \in 1..(N + 1), m < n
                 PROVE  order[n] # preferred
      OBVIOUS
    <3>1. n # 1
      BY <2>1
    <3>2. n - 1 \in 1..N /\ order[n] = s[n - 1]
      BY <2>11, <3>1
    <3>3. s[n - 1] \in rest
      BY <2>5, <3>2
    <3>4. QED
      BY <2>4, <3>2, <3>3
  <2>16. QED
    BY <2>1, <2>10, <2>12, <2>13, <2>14, <2>15 DEF Lists, order, some
<1>4. QED
  BY <1>2, <1>3

\* planTake takes what the batches have, up to qty, and of a batch only when
\* those that expire before it have given all, the preferred one aside.
THEOREM PlanTakeTakes ==
    ASSUME NEW rows, Shelf(rows), Never \in Nat, NEW qty \in Nat, NEW preferred
    PROVE  LET plan == PlanTake(rows, qty, preferred)
               take == plan.take
           IN  /\ take \in [DOMAIN rows -> Nat]
               /\ \A i \in DOMAIN rows : take[i] <= rows[i].qty
               /\ SumFunction(take) = Least(qty, Total(rows))
               /\ plan.shortfall = qty - SumFunction(take)
               /\ \A i, j \in DOMAIN rows :
                     take[j] > 0 /\ rows[i].expiry < rows[j].expiry /\ take[i] < rows[i].qty
                     => preferred \in {i, j}
               /\ \A i, j \in DOMAIN rows :
                     take[j] > 0 /\ i # j /\ GivesFirst(rows, preferred, i, j) => take[i] = rows[i].qty
<1> DEFINE D == DOMAIN rows
           some == {i \in D : rows[i].qty > 0}
           order == TakeOrder(rows, preferred)
           have == [i \in D |-> rows[i].qty]
           walk == Walk(order, have, qty)
           N == Cardinality(some)
           plan == PlanTake(rows, qty, preferred)
<1>1. /\ IsFiniteSet(D) /\ D \subseteq Int
      /\ \A i \in D : rows[i].qty \in Nat /\ rows[i].expiry \in Int
  BY ShelfParts DEF Shelf
<1>2. plan.take = walk.take /\ plan.shortfall = Most(0, walk.left)
  BY DEF PlanTake
<1>3. N \in Nat
  <2>1. IsFiniteSet(some)
    BY <1>1, FS_Subset
  <2>2. QED
    BY <2>1, FS_CardinalityType
<1>4. /\ Lists(order, some)
      /\ \A m, n \in DOMAIN order :
            m < n => /\ order[m] = preferred \/ Before(rows, order[m], order[n])
                     /\ order[n] # preferred
  BY TakeOrderLists DEF Shelf
<1>5. DOMAIN have = D /\ \A i \in D : have[i] = rows[i].qty /\ have[i] \in Nat
  BY <1>1
<1>6. /\ order \in [1..N -> D] /\ \A m \in 1..N : order[m] \in some
      /\ \A m, n \in 1..N : order[m] = order[n] => m = n
      /\ \A i \in some : \E m \in 1..N : order[m] = i
  BY <1>4 DEF Lists
<1> HIDE DEF order, have, walk, N, plan
<1>7. Walked(walk, order, have, qty, N)
  <2>1. IsFiniteSet(DOMAIN have) /\ \A i \in DOMAIN have : have[i] \in Int
    BY <1>1, <1>5
  <2>2. order \in [1..N -> DOMAIN have]
    BY <1>5, <1>6
  <2>3. QED
    BY <1>3, <1>6, <2>1, <2>2, WalkTakes DEF walk
<1> DEFINE take == walk.take
<1>8. /\ take \in [D -> Nat] /\ walk.left \in Nat
      /\ SumFunction(take) + walk.left = qty
  BY <1>5, <1>7 DEF Walked
<1>9. \A i \in D : Most(0, have[i]) = rows[i].qty
  BY <1>5 DEF Most
<1>10. \A i \in D : take[i] <= rows[i].qty
  BY <1>5, <1>7, <1>9 DEF Walked
<1>11. walk.left > 0 => \A i \in some : take[i] = rows[i].qty
  <2> SUFFICES ASSUME walk.left > 0, NEW i \in some PROVE take[i] = rows[i].qty
    OBVIOUS
  <2>1. PICK m \in 1..N : order[m] = i
    BY <1>6
  <2>2. take[order[m]] = Most(0, have[order[m]])
    BY <1>7 DEF Walked
  <2>3. QED
    BY <1>9, <2>1, <2>2
<1>12. \A i, j \in D : take[j] > 0 /\ i # j /\ GivesFirst(rows, preferred, i, j) => take[i] = rows[i].qty
  <2> SUFFICES ASSUME NEW i \in D, NEW j \in D, take[j] > 0, i # j, GivesFirst(rows, preferred, i, j),
                      take[i] < rows[i].qty
               PROVE  FALSE
    <3>1. \A k \in D : take[k] \in Nat /\ take[k] <= rows[k].qty /\ rows[k].qty \in Nat
      BY <1>1, <1>8, <1>10
    <3> HIDE DEF take
    <3>2. QED
      BY <3>1
  <2>1. take[i] \in Nat /\ take[j] \in Nat /\ rows[i].qty \in Nat /\ rows[j].qty \in Nat
    BY <1>1, <1>8
  <2>2. i \in some /\ j \in some
    <3>1. rows[i].qty > 0
      BY <2>1
    <3>2. take[j] <= rows[j].qty
      BY <1>10
    <3> HIDE DEF take
    <3>3. rows[j].qty > 0
      BY <2>1, <3>2
    <3>4. QED
      BY <3>1, <3>3
  <2>3. PICK m \in 1..N : order[m] = i
    BY <1>6, <2>2
  <2>4. PICK n \in 1..N : order[n] = j
    BY <1>6, <2>2
  <2>5. m # n
    BY <2>3, <2>4
  <2>6. ~(n < m)
    <3>1. order \in [1..N -> D]
      BY <1>6
    <3>2. n < m => (order[n] = preferred \/ Before(rows, order[n], order[m])) /\ order[m] # preferred
      BY <1>4, <3>1
    <3>3. Before(rows, i, j) => ~Before(rows, j, i)
      <4>1. i \in Int /\ j \in Int /\ rows[i].expiry \in Int /\ rows[j].expiry \in Int
        BY <1>1
      <4>2. QED
        BY <4>1 DEF Before
    <3>4. QED
      BY <2>3, <2>4, <3>2, <3>3 DEF GivesFirst
  <2>7. m < n
    BY <2>5, <2>6
  <2>8. take[order[m]] = Most(0, have[order[m]])
    BY <1>7, <2>4, <2>7 DEF Walked
  <2>9. take[i] = rows[i].qty
    BY <1>9, <2>3, <2>8
  <2>10. QED
    BY <2>1, <2>9
<1>13. \A i, j \in D :
         take[j] > 0 /\ rows[i].expiry < rows[j].expiry /\ take[i] < rows[i].qty
         => preferred \in {i, j}
  <2> SUFFICES ASSUME NEW i \in D, NEW j \in D, take[j] > 0,
                      rows[i].expiry < rows[j].expiry, take[i] < rows[i].qty,
                      preferred # i, preferred # j
               PROVE  FALSE
    OBVIOUS
  <2>1. i # j /\ GivesFirst(rows, preferred, i, j)
    BY <1>1 DEF GivesFirst, Before
  <2>2. take[i] = rows[i].qty /\ rows[i].qty \in Nat
    BY <1>1, <1>12, <2>1
  <2> HIDE DEF take
  <2>3. QED
    BY <2>2
<1>14. /\ SumFunction(take) \in Int /\ SumFunction(have) \in Int
       /\ SumFunction(take) <= SumFunction(have)
  <2> DEFINE t == take
  <2>1. /\ DOMAIN t = D /\ DOMAIN have = D
        /\ \A i \in D : t[i] \in Int /\ have[i] \in Int /\ t[i] <= have[i]
    BY <1>5, <1>8, <1>10
  <2> HIDE DEF t
  <2>2. /\ SumFunction(t) \in Int /\ SumFunction(have) \in Int
        /\ SumFunction(t) <= SumFunction(have)
    BY <1>1, <2>1, TotalInt, TotalAtLeast
  <2>3. QED
    BY <2>2 DEF t
<1>15. walk.left > 0 => SumFunction(take) = SumFunction(have)
  <2> SUFFICES ASSUME walk.left > 0 PROVE SumFunction(take) = SumFunction(have)
    OBVIOUS
  <2>1. \A i \in D : take[i] = have[i]
    <3> SUFFICES ASSUME NEW i \in D PROVE take[i] = have[i]
      OBVIOUS
    <3>1. take[i] \in Nat /\ take[i] <= rows[i].qty /\ have[i] = rows[i].qty /\ rows[i].qty \in Nat
      BY <1>1, <1>5, <1>8, <1>10
    <3>2. i \in some => take[i] = rows[i].qty
      BY <1>11
    <3> HIDE DEF take
    <3>3. i \notin some => take[i] = rows[i].qty
      BY <3>1
    <3>4. QED
      BY <3>1, <3>2, <3>3
  <2>2. take = [i \in D |-> take[i]] /\ have = [i \in D |-> have[i]]
    BY <1>8 DEF have
  <2>3. take = have
    BY <2>1, <2>2
  <2>4. QED
    BY <2>3
<1>16. Total(rows) = SumFunction(have)
  BY DEF Total, have
<1>17. SumFunction(take) = Least(qty, Total(rows))
  <2> HIDE DEF take
  <2>1. CASE walk.left > 0
    BY <1>8, <1>14, <1>15, <1>16, <2>1 DEF Least
  <2>2. CASE walk.left = 0
    BY <1>8, <1>14, <1>16, <2>2 DEF Least
  <2>3. QED
    BY <1>8, <2>1, <2>2
<1>18. Most(0, walk.left) = qty - SumFunction(take)
  <2> HIDE DEF take
  <2>1. QED
    BY <1>8, <1>14 DEF Most
<1>19. QED
  BY <1>2, <1>8, <1>10, <1>12, <1>13, <1>17, <1>18 DEF plan

LEMMA BatchMoved ==
    ASSUME NEW b \in Batch, NEW n \in Int
    PROVE  /\ [b EXCEPT !.qty = @ + n] \in Batch
           /\ [b EXCEPT !.qty = @ + n].qty = b.qty + n
           /\ [b EXCEPT !.qty = @ + n].expiry = b.expiry
           /\ [b EXCEPT !.qty = @ + n].opening = b.opening
           /\ b.qty \in Int
<1>1. /\ b = [qty |-> b.qty, expiry |-> b.expiry, opening |-> b.opening]
      /\ b.qty \in Int /\ b.expiry \in 1..Never /\ b.opening \in BOOLEAN
  BY DEF Batch
<1>2. [b EXCEPT !.qty = @ + n] = [qty |-> b.qty + n, expiry |-> b.expiry, opening |-> b.opening]
  BY <1>1
<1>3. [qty |-> b.qty + n, expiry |-> b.expiry, opening |-> b.opening] \in Batch
  BY <1>1 DEF Batch
<1>4. QED
  BY <1>1, <1>2, <1>3

\* Units moved in or out of batches change what they hold by as much.
LEMMA MoveMoves ==
    ASSUME NEW rows \in Seq(Batch), Never \in Nat, NEW units \in [DOMAIN rows -> Int]
    PROVE  /\ Move(rows, units) \in Seq(Batch)
           /\ Len(Move(rows, units)) = Len(rows)
           /\ DOMAIN Move(rows, units) = DOMAIN rows
           /\ \A i \in DOMAIN rows :
                 /\ Move(rows, units)[i].qty = rows[i].qty + units[i]
                 /\ Move(rows, units)[i].expiry = rows[i].expiry
                 /\ Move(rows, units)[i].opening = rows[i].opening
           /\ SumFunction(units) \in Int /\ Total(rows) \in Int
           /\ Total(Move(rows, units)) = Total(rows) + SumFunction(units)
<1> DEFINE moved == Move(rows, units)
           D == DOMAIN rows
           have == [i \in D |-> rows[i].qty]
           sum == [i \in D |-> moved[i].qty]
<1>1. /\ Len(rows) \in Nat /\ D = 1..Len(rows) /\ IsFiniteSet(D)
      /\ \A i \in D : rows[i] \in Batch
  BY ShelfParts
<1>2. \A b \in Batch : \A n \in Int :
         /\ [b EXCEPT !.qty = @ + n] \in Batch
         /\ [b EXCEPT !.qty = @ + n].qty = b.qty + n
         /\ [b EXCEPT !.qty = @ + n].expiry = b.expiry
         /\ [b EXCEPT !.qty = @ + n].opening = b.opening
         /\ b.qty \in Int
  BY BatchMoved
<1>3. /\ DOMAIN moved = D /\ moved = [i \in D |-> moved[i]]
      /\ \A i \in D : moved[i] = [rows[i] EXCEPT !.qty = @ + units[i]]
  BY DEF Move
<1> HIDE DEF moved
<1>4. \A i \in D : /\ moved[i] \in Batch
                   /\ moved[i].qty = rows[i].qty + units[i]
                   /\ moved[i].expiry = rows[i].expiry
                   /\ moved[i].opening = rows[i].opening
                   /\ rows[i].qty \in Int /\ units[i] \in Int
  <2> SUFFICES ASSUME NEW i \in D
               PROVE  /\ moved[i] \in Batch
                      /\ moved[i].qty = rows[i].qty + units[i]
                      /\ moved[i].expiry = rows[i].expiry
                      /\ moved[i].opening = rows[i].opening
                      /\ rows[i].qty \in Int /\ units[i] \in Int
    OBVIOUS
  <2> DEFINE b == rows[i]
             n == units[i]
  <2>1. b \in Batch /\ n \in Int /\ moved[i] = [b EXCEPT !.qty = @ + n]
    BY <1>1, <1>3
  <2> HIDE DEF b, n
  <2>2. /\ moved[i] \in Batch
        /\ moved[i].qty = b.qty + n
        /\ moved[i].expiry = b.expiry
        /\ moved[i].opening = b.opening
        /\ b.qty \in Int
    BY <1>2, <2>1
  <2>3. QED
    BY <2>1, <2>2 DEF b, n
<1>5. moved \in [1..Len(rows) -> Batch]
  BY <1>1, <1>3, <1>4
<1>6. moved \in Seq(Batch) /\ Len(moved) = Len(rows)
  BY <1>1, <1>5
<1>7. /\ DOMAIN have = D /\ DOMAIN sum = D /\ DOMAIN units = D
      /\ \A i \in D : /\ have[i] = rows[i].qty /\ sum[i] = have[i] + units[i]
                      /\ have[i] \in Int /\ units[i] \in Int
  BY <1>4
<1>8. SumFunction(have) = Total(rows) /\ SumFunction(sum) = Total(moved)
  BY <1>3 DEF Total
<1> HIDE DEF have, sum, D
<1>9. SumFunction(sum) = SumFunction(have) + SumFunction(units)
  BY <1>1, <1>7, TotalPlus
<1>10. SumFunction(have) \in Int /\ SumFunction(units) \in Int
  BY <1>1, <1>7, TotalInt
<1>11. QED
  BY <1>3, <1>4, <1>6, <1>8, <1>9, <1>10 DEF moved, D

\* Units taken out of a shelf that has them leave a shelf.
LEMMA OutTakesOut ==
    ASSUME NEW rows, Shelf(rows), Never \in Nat, NEW take \in [DOMAIN rows -> Nat],
           \A i \in DOMAIN rows : take[i] <= rows[i].qty
    PROVE  /\ Shelf(Out(rows, take)) /\ Len(Out(rows, take)) = Len(rows)
           /\ DOMAIN Out(rows, take) = DOMAIN rows
           /\ \A i \in DOMAIN rows :
                 /\ Out(rows, take)[i].qty = rows[i].qty - take[i]
                 /\ Out(rows, take)[i].expiry = rows[i].expiry
                 /\ Out(rows, take)[i].opening = rows[i].opening
           /\ SumFunction(take) \in Int /\ Total(rows) \in Int
           /\ Total(Out(rows, take)) = Total(rows) - SumFunction(take)
<1> DEFINE D == DOMAIN rows
           units == [i \in D |-> -take[i]]
           zero == [i \in D |-> 0]
<1>1. Out(rows, take) = Move(rows, units)
  BY DEF Out
<1>2. /\ units \in [D -> Int] /\ DOMAIN units = D /\ DOMAIN zero = D /\ DOMAIN take = D
      /\ \A i \in D : /\ units[i] = -take[i] /\ zero[i] = 0 /\ take[i] \in Int
                      /\ units[i] \in Int /\ zero[i] = take[i] + units[i]
  <2>1. \A i \in D : take[i] \in Nat /\ -take[i] \in Int /\ 0 = take[i] + (-take[i])
    OBVIOUS
  <2>2. QED
    BY <2>1
<1>3. rows \in Seq(Batch) /\ IsFiniteSet(D) /\ \A i \in D : rows[i].qty \in Nat
  BY ShelfParts DEF Shelf
<1> HIDE DEF units, zero, D
<1>4. SumFunction(zero) = 0 /\ SumFunction(zero) = SumFunction(take) + SumFunction(units)
  BY <1>2, <1>3, TotalPlus, TotalZero
<1>5. SumFunction(take) \in Int /\ SumFunction(units) \in Int
  BY <1>2, <1>3, TotalInt
<1>7. units \in [DOMAIN rows -> Int]
  BY <1>2 DEF D
<1>8. /\ Move(rows, units) \in Seq(Batch)
      /\ Len(Move(rows, units)) = Len(rows)
      /\ DOMAIN Move(rows, units) = D
      /\ \A i \in D :
            /\ Move(rows, units)[i].qty = rows[i].qty + units[i]
            /\ Move(rows, units)[i].expiry = rows[i].expiry
            /\ Move(rows, units)[i].opening = rows[i].opening
      /\ Total(rows) \in Int
      /\ Total(Move(rows, units)) = Total(rows) + SumFunction(units)
  BY <1>3, <1>7, MoveMoves DEF D
<1>9. \A i \in D : rows[i].qty + units[i] = rows[i].qty - take[i] /\ rows[i].qty - take[i] >= 0
  <2> SUFFICES ASSUME NEW i \in D
               PROVE  /\ rows[i].qty + units[i] = rows[i].qty - take[i]
                      /\ rows[i].qty - take[i] >= 0
    OBVIOUS
  <2>1. take[i] <= rows[i].qty /\ take[i] \in Int /\ units[i] = -take[i] /\ rows[i].qty \in Nat
    BY <1>2, <1>3 DEF D
  <2>2. QED
    BY <2>1
<1>10. Shelf(Move(rows, units))
  BY <1>8, <1>9 DEF Shelf
<1>12. Total(rows) + SumFunction(units) = Total(rows) - SumFunction(take)
  BY <1>4, <1>5, <1>8
<1>13. QED
  BY <1>1, <1>5, <1>8, <1>9, <1>10, <1>12 DEF D

\* A batch more holds what is in it more.
LEMMA AppendAdds ==
    ASSUME NEW rows, Shelf(rows), Never \in Nat, NEW b \in Batch, b.qty >= 0
    PROVE  LET more == Append(rows, b)
           IN  /\ Shelf(more) /\ Len(more) = Len(rows) + 1
               /\ \A i \in DOMAIN rows : i \in DOMAIN more /\ more[i] = rows[i]
               /\ Total(rows) \in Int
               /\ Total(more) = Total(rows) + b.qty
<1> DEFINE D == DOMAIN rows
           N == Len(rows)
           more == Append(rows, b)
           have == [i \in D |-> rows[i].qty]
           sum == [i \in DOMAIN more |-> more[i].qty]
<1>1. /\ rows \in Seq(Batch) /\ N \in Nat /\ D = 1..N /\ IsFiniteSet(D)
      /\ \A i \in D : rows[i] \in Batch /\ rows[i].qty \in Int /\ rows[i].qty >= 0
      /\ b.qty \in Int
  <2>1. rows \in Seq(Batch)
    BY DEF Shelf
  <2>2. \A i \in D : rows[i].qty >= 0
    BY DEF Shelf
  <2>3. b.qty \in Int
    BY DEF Batch
  <2>4. QED
    BY <2>1, <2>2, <2>3, ShelfParts
<1>2. /\ more \in Seq(Batch) /\ Len(more) = N + 1 /\ more[N + 1] = b
      /\ \A i \in D : more[i] = rows[i]
  BY <1>1
<1> HIDE DEF more
<1>3. /\ DOMAIN more = 1..(N + 1) /\ DOMAIN more = D \cup {N + 1} /\ N + 1 \notin D
      /\ IsFiniteSet(DOMAIN more)
  <2>1. DOMAIN more = 1..(N + 1)
    BY <1>1, <1>2
  <2>2. 1..(N + 1) = D \cup {N + 1} /\ N + 1 \notin D
    BY <1>1
  <2>3. IsFiniteSet(D \cup {N + 1})
    BY <1>1, FS_AddElement
  <2>4. QED
    BY <2>1, <2>2, <2>3
<1>4. \A i \in DOMAIN more : more[i].qty >= 0 /\ more[i].qty \in Int
  BY <1>1, <1>2, <1>3
<1>5. /\ DOMAIN have = D /\ DOMAIN sum = DOMAIN more
      /\ \A i \in D : have[i] = sum[i] /\ have[i] \in Int
      /\ \A i \in DOMAIN more : sum[i] \in Int
      /\ sum[N + 1] = b.qty
  BY <1>1, <1>2, <1>3, <1>4
<1>6. SumFunction(have) = Total(rows) /\ SumFunction(sum) = Total(more)
  BY DEF Total
<1> HIDE DEF have, sum, D, N
<1>7. SumFunction(sum) = SumFunction(have) + sum[N + 1]
  <2> DEFINE e == N + 1
  <2>1. IsFiniteSet(DOMAIN have) /\ e \notin DOMAIN have /\ DOMAIN sum = DOMAIN have \cup {e}
    BY <1>1, <1>3, <1>5
  <2>2. /\ \A i \in DOMAIN sum : sum[i] \in Int
        /\ \A i \in DOMAIN have : have[i] = sum[i]
    BY <1>5
  <2> HIDE DEF e
  <2>3. SumFunction(sum) = SumFunction(have) + sum[e]
    BY <2>1, <2>2, TotalGrows
  <2>4. QED
    BY <2>3 DEF e
<1>8. SumFunction(have) \in Int
  BY <1>1, <1>5, TotalInt
<1>9. QED
  BY <1>1, <1>2, <1>3, <1>4, <1>5, <1>6, <1>7, <1>8 DEF Shelf, more, D, N

\* What is added to the opening batch is added to what the batches hold.
LEMMA AddToOpeningAdds ==
    ASSUME NEW rows, Shelf(rows), Never \in Nat \ {0}, NEW qty \in Int
    PROVE  LET more == AddToOpening(rows, qty)
           IN  /\ Shelf(more) /\ Len(rows) <= Len(more)
               /\ \A i \in DOMAIN rows : i \in DOMAIN more /\ more[i].qty >= rows[i].qty
               /\ Total(rows) \in Int
               /\ Total(more) = Total(rows) + Most(0, qty)
<1> DEFINE D == DOMAIN rows
           N == Len(rows)
           more == AddToOpening(rows, qty)
           have == [i \in D |-> rows[i].qty]
           sum == [i \in DOMAIN more |-> more[i].qty]
<1>1. /\ rows \in Seq(Batch) /\ N \in Nat /\ D = 1..N /\ IsFiniteSet(D)
      /\ \A i \in D : rows[i] \in Batch /\ rows[i].qty \in Int /\ rows[i].qty >= 0
  <2>1. rows \in Seq(Batch)
    BY DEF Shelf
  <2>2. \A i \in D : rows[i].qty >= 0
    BY DEF Shelf
  <2>3. QED
    BY <2>1, <2>2, ShelfParts
<1>2. SumFunction(have) = Total(rows) /\ SumFunction(sum) = Total(more)
  BY DEF Total
<1>3. DOMAIN have = D /\ \A i \in D : have[i] = rows[i].qty /\ have[i] \in Int
  BY <1>1
<1>4. SumFunction(have) \in Int
  <2> HIDE DEF have, D
  <2>1. QED
    BY <1>1, <1>3, TotalInt
<1>5. CASE qty <= 0
  <2>1. more = rows /\ Most(0, qty) = 0
    BY <1>5 DEF AddToOpening, Most
  <2> HIDE DEF more
  <2>2. Total(more) = Total(rows) + Most(0, qty)
    BY <1>2, <1>4, <2>1
  <2>3. QED
    BY <1>1, <1>2, <1>4, <2>1, <2>2 DEF more
<1>6. CASE qty > 0 /\ Opening(rows) # {}
  <2> DEFINE o == CHOOSE i \in Opening(rows) : TRUE
             b == rows[o]
  <2>1. o \in D
    <3>1. o \in Opening(rows)
      BY <1>6
    <3>2. QED
      BY <3>1 DEF Opening
  <2>2. ~(qty <= 0) /\ Most(0, qty) = qty
    BY <1>6 DEF Most
  <2>3. more = [rows EXCEPT ![o].qty = @ + qty]
    BY <1>6, <2>2 DEF AddToOpening
  <2> HIDE DEF o, more
  <2>4. /\ DOMAIN more = D /\ \A i \in D : i # o => more[i] = rows[i]
        /\ more[o] = [b EXCEPT !.qty = @ + qty]
        /\ more = [i \in D |-> more[i]]
    BY <2>1, <2>3
  <2>5. b \in Batch
    BY <1>1, <2>1
  <2> HIDE DEF b
  <2>6. more[o] \in Batch /\ more[o].qty = b.qty + qty
    BY <2>4, <2>5, BatchMoved
  <2>7. more[o].qty = rows[o].qty + qty
    BY <2>6 DEF b
  <2>8. \A i \in D : more[i] \in Batch
    BY <1>1, <2>4, <2>6
  <2>9. more \in [1..N -> Batch]
    BY <1>1, <2>4, <2>8
  <2>10. more \in Seq(Batch) /\ Len(more) = N
    <3> HIDE DEF N
    <3>1. QED
      BY <1>1, <2>9
  <2>11. \A i \in D : more[i].qty >= rows[i].qty /\ more[i].qty >= 0 /\ more[i].qty \in Int
    <3> SUFFICES ASSUME NEW i \in D
                 PROVE  more[i].qty >= rows[i].qty /\ more[i].qty >= 0 /\ more[i].qty \in Int
      OBVIOUS
    <3>1. rows[i].qty \in Int /\ rows[i].qty >= 0
      BY <1>1
    <3>2. CASE i = o
      BY <1>6, <2>7, <3>1, <3>2
    <3>3. CASE i # o
      BY <2>4, <3>1, <3>3
    <3>4. QED
      BY <3>2, <3>3
  <2>12. /\ DOMAIN sum = D /\ \A i \in D : sum[i] = more[i].qty /\ sum[i] \in Int
         /\ \A i \in D : i # o => have[i] = sum[i]
         /\ sum[o] - have[o] = qty
    <3>1. DOMAIN sum = D /\ \A i \in D : sum[i] = more[i].qty /\ sum[i] \in Int
      BY <2>4, <2>11
    <3>2. \A i \in D : i # o => have[i] = sum[i]
      BY <1>3, <2>4, <3>1
    <3>3. sum[o] = have[o] + qty /\ have[o] \in Int
      BY <1>3, <2>1, <2>7, <3>1
    <3> HIDE DEF sum, have
    <3>4. sum[o] - have[o] = qty
      BY <3>3
    <3>5. QED
      BY <3>1, <3>2, <3>4
  <2>13. SumFunction(sum) = SumFunction(have) + (sum[o] - have[o])
    <3> HIDE DEF sum, have, D
    <3>1. IsFiniteSet(DOMAIN have) /\ o \in DOMAIN have /\ DOMAIN sum = DOMAIN have
      BY <1>1, <1>3, <2>1, <2>12
    <3>2. /\ \A i \in DOMAIN have : have[i] \in Int /\ sum[i] \in Int
          /\ \A i \in DOMAIN have : i # o => have[i] = sum[i]
      BY <1>3, <2>12
    <3>3. QED
      BY <3>1, <3>2, TotalChanged
  <2>14. Total(more) = Total(rows) + Most(0, qty)
    <3> HIDE DEF sum, have
    <3>1. QED
      BY <1>2, <2>2, <2>12, <2>13
  <2>15. Shelf(more)
    BY <2>4, <2>10, <2>11 DEF Shelf
  <2> HIDE DEF have, sum
  <2>16. Len(rows) <= Len(more)
    BY <1>1, <2>10
  <2>17. QED
    BY <1>2, <1>4, <2>4, <2>11, <2>14, <2>15, <2>16 DEF more
<1>7. CASE qty > 0 /\ Opening(rows) = {}
  <2> DEFINE b == [qty |-> qty, expiry |-> Never, opening |-> TRUE]
  <2>1. ~(qty <= 0) /\ Most(0, qty) = qty
    BY <1>7 DEF Most
  <2>2. more = Append(rows, b)
    BY <1>7, <2>1 DEF AddToOpening
  <2>3. b \in Batch /\ b.qty = qty /\ b.qty >= 0
    BY <1>7 DEF Batch
  <2> HIDE DEF b, more
  <2>4. /\ Shelf(more) /\ Len(more) = N + 1
        /\ \A i \in DOMAIN rows : i \in DOMAIN more /\ more[i] = rows[i]
        /\ Total(more) = Total(rows) + b.qty
    BY <2>2, <2>3, AppendAdds
  <2>5. \A i \in DOMAIN rows : i \in DOMAIN more /\ more[i].qty >= rows[i].qty
    <3>1. \A i \in D : more[i].qty = rows[i].qty /\ rows[i].qty \in Int
      BY <1>1, <2>4
    <3>2. QED
      BY <2>4, <3>1
  <2>6. Len(rows) <= Len(more)
    BY <1>1, <2>4
  <2>7. Total(rows) \in Int
    BY <1>2, <1>4
  <2>8. Total(more) = Total(rows) + Most(0, qty)
    BY <2>1, <2>3, <2>4
  <2>9. QED
    BY <2>4, <2>5, <2>6, <2>7, <2>8 DEF more
<1>8. QED
  BY <1>5, <1>6, <1>7

\* Reconciled batches hold the stock number, or nothing when it is below zero.
THEOREM ReconcileEvens ==
    ASSUME NEW rows, Shelf(rows), Never \in Nat \ {0}, NEW stock \in Int
    PROVE  LET even == Reconcile(rows, stock)
           IN  /\ Shelf(even) /\ Len(rows) <= Len(even)
               /\ Total(even) = Most(0, stock)
<1> DEFINE capped == [i \in DOMAIN rows |-> Most(0, rows[i].qty)]
           have == [i \in DOMAIN rows |-> rows[i].qty]
           sum == SumFunction(capped)
           target == Most(0, stock)
           take == PlanTake(rows, sum - target, 0).take
<1>1. /\ rows \in Seq(Batch) /\ IsFiniteSet(DOMAIN rows)
      /\ \A i \in DOMAIN rows : rows[i].qty \in Int /\ Most(0, rows[i].qty) = rows[i].qty
  <2>1. \A i \in DOMAIN rows : rows[i].qty >= 0
    BY DEF Shelf
  <2>2. /\ rows \in Seq(Batch) /\ IsFiniteSet(DOMAIN rows)
        /\ \A i \in DOMAIN rows : rows[i].qty \in Int
    BY ShelfParts DEF Shelf
  <2>3. QED
    BY <2>1, <2>2 DEF Most
<1>2. capped = have
  BY <1>1
<1>3. sum = Total(rows)
  BY <1>2 DEF Total
<1>4. target \in Nat
  BY DEF Most
<1>5. sum \in Int
  <2>1. DOMAIN capped = DOMAIN rows /\ \A i \in DOMAIN rows : capped[i] \in Int
    BY <1>1
  <2> HIDE DEF capped
  <2>2. QED
    BY <1>1, <2>1, TotalInt
<1>6. Reconcile(rows, stock) = IF target > sum THEN AddToOpening(rows, target - sum)
                               ELSE Out(rows, take)
  BY DEF Reconcile
<1> HIDE DEF sum, target, take
<1>7. CASE target > sum
  <2>1. target - sum \in Int /\ Most(0, target - sum) = target - sum
    BY <1>4, <1>5, <1>7 DEF Most
  <2> DEFINE more == AddToOpening(rows, target - sum)
  <2>2. Shelf(more) /\ Len(rows) <= Len(more) /\ Total(more) = Total(rows) + (target - sum)
    BY <2>1, AddToOpeningAdds
  <2> HIDE DEF more
  <2>3. Total(more) = target
    BY <1>3, <1>4, <1>5, <2>2
  <2>4. Reconcile(rows, stock) = more
    BY <1>6, <1>7 DEF more
  <2>5. QED
    BY <2>2, <2>3, <2>4 DEF target
<1>8. CASE ~(target > sum)
  <2>1. sum - target \in Nat
    BY <1>4, <1>5, <1>8
  <2>2. /\ take \in [DOMAIN rows -> Nat]
        /\ \A i \in DOMAIN rows : take[i] <= rows[i].qty
        /\ SumFunction(take) = Least(sum - target, Total(rows))
    BY <2>1, PlanTakeTakes DEF take
  <2>3. SumFunction(take) = sum - target
    BY <1>3, <1>4, <1>5, <2>1, <2>2 DEF Least
  <2> DEFINE left == Out(rows, take)
  <2>4. Shelf(left) /\ Len(left) = Len(rows) /\ Total(left) = Total(rows) - SumFunction(take)
    BY <2>2, OutTakesOut
  <2>5. Len(rows) \in Nat
    BY <1>1
  <2> HIDE DEF left
  <2>6. Total(left) = target
    BY <1>3, <1>4, <1>5, <2>3, <2>4
  <2>7. Reconcile(rows, stock) = left
    BY <1>6, <1>8 DEF left
  <2>8. QED
    BY <2>4, <2>5, <2>6, <2>7 DEF target
<1>9. QED
  BY <1>7, <1>8

\* restoreToBatches puts back what the line took and has not put back, up to qty.
LEMMA PlanRestoreRestores ==
    ASSUME NEW rows \in Seq(Batch), Never \in Nat, NEW qty \in Nat, NEW taken, NEW restored,
           \A i \in DOMAIN rows :
              taken[i] \in Nat /\ restored[i] \in Nat /\ restored[i] <= taken[i]
    PROVE  LET units == PlanRestore(rows, taken, restored, qty)
               owed == [i \in DOMAIN rows |-> taken[i] - restored[i]]
           IN  /\ units \in [DOMAIN rows -> Nat]
               /\ \A i \in DOMAIN rows : restored[i] + units[i] <= taken[i]
               /\ SumFunction(owed) \in Int
               /\ SumFunction(units) = Least(qty, SumFunction(owed))
<1> DEFINE D == DOMAIN rows
           some == {i \in D : taken[i] > 0}
           order == SortFefo(rows, some)
           owed == [i \in D |-> taken[i] - restored[i]]
           walk == Walk(order, owed, qty)
           N == Cardinality(some)
           units == PlanRestore(rows, taken, restored, qty)
<1>1. IsFiniteSet(D) /\ D \subseteq Int /\ \A i \in D : rows[i].expiry \in Int
  BY ShelfParts
<1>2. units = walk.take
  BY DEF PlanRestore
<1>3. IsFiniteSet(some) /\ N \in Nat
  <2>1. IsFiniteSet(some)
    BY <1>1, FS_Subset
  <2>2. QED
    BY <2>1, FS_CardinalityType
<1>4. Lists(order, some)
  <2>1. some \subseteq Int /\ \A i \in some : rows[i].expiry \in Int
    BY <1>1
  <2> HIDE DEF some
  <2>2. QED
    BY <1>3, <2>1, SortFefoLists
<1>5. /\ DOMAIN owed = D
      /\ \A i \in D : /\ owed[i] = taken[i] - restored[i] /\ owed[i] \in Nat
                      /\ taken[i] \in Nat /\ restored[i] \in Nat
  <2>1. \A i \in D : taken[i] \in Nat /\ restored[i] \in Nat /\ restored[i] <= taken[i]
    OBVIOUS
  <2>2. \A i \in D : taken[i] - restored[i] \in Nat
    BY <2>1
  <2>3. QED
    BY <2>1, <2>2
<1>6. /\ order \in [1..N -> D] /\ \A m, n \in 1..N : order[m] = order[n] => m = n
      /\ \A i \in some : \E m \in 1..N : order[m] = i
  BY <1>4 DEF Lists
<1> HIDE DEF order, owed, walk, N, units
<1>7. Walked(walk, order, owed, qty, N)
  <2>1. IsFiniteSet(DOMAIN owed) /\ \A i \in DOMAIN owed : owed[i] \in Int
    BY <1>1, <1>5
  <2>2. order \in [1..N -> DOMAIN owed]
    BY <1>5, <1>6
  <2>3. QED
    BY <1>3, <1>6, <2>1, <2>2, WalkTakes DEF walk
<1> DEFINE take == walk.take
<1>8. /\ take \in [D -> Nat] /\ walk.left \in Nat
      /\ SumFunction(take) + walk.left = qty
  BY <1>5, <1>7 DEF Walked
<1>9. \A i \in D : Most(0, owed[i]) = owed[i]
  BY <1>5 DEF Most
<1>10. \A i \in D : take[i] <= owed[i]
  BY <1>5, <1>7, <1>9 DEF Walked
<1>11. \A i \in D : restored[i] + take[i] <= taken[i]
  <2> SUFFICES ASSUME NEW i \in D PROVE restored[i] + take[i] <= taken[i]
    OBVIOUS
  <2>1. /\ take[i] \in Nat /\ take[i] <= owed[i] /\ owed[i] = taken[i] - restored[i]
        /\ taken[i] \in Nat /\ restored[i] \in Nat
    BY <1>5, <1>8, <1>10
  <2> HIDE DEF take
  <2>2. QED
    BY <2>1
<1>12. /\ SumFunction(take) \in Int /\ SumFunction(owed) \in Int
       /\ SumFunction(take) <= SumFunction(owed)
  <2> DEFINE t == take
  <2>1. /\ DOMAIN t = D /\ DOMAIN owed = D
        /\ \A i \in D : t[i] \in Int /\ owed[i] \in Int /\ t[i] <= owed[i]
    BY <1>5, <1>8, <1>10
  <2> HIDE DEF t
  <2>2. /\ SumFunction(t) \in Int /\ SumFunction(owed) \in Int
        /\ SumFunction(t) <= SumFunction(owed)
    BY <1>1, <2>1, TotalInt, TotalAtLeast
  <2>3. QED
    BY <2>2 DEF t
<1>13. walk.left > 0 => SumFunction(take) = SumFunction(owed)
  <2> SUFFICES ASSUME walk.left > 0 PROVE SumFunction(take) = SumFunction(owed)
    OBVIOUS
  <2>1. \A i \in D : take[i] = owed[i]
    <3> SUFFICES ASSUME NEW i \in D PROVE take[i] = owed[i]
      OBVIOUS
    <3>1. CASE i \in some
      <4>1. PICK m \in 1..N : order[m] = i
        BY <1>6, <3>1
      <4>2. take[order[m]] = Most(0, owed[order[m]])
        BY <1>7 DEF Walked
      <4>3. QED
        BY <1>9, <4>1, <4>2
    <3>2. CASE i \notin some
      <4>1. /\ take[i] \in Nat /\ taken[i] \in Nat /\ restored[i] \in Nat /\ ~(taken[i] > 0)
            /\ take[i] <= owed[i] /\ owed[i] = taken[i] - restored[i]
        BY <1>5, <1>8, <1>10, <3>2
      <4> HIDE DEF take
      <4>2. QED
        BY <4>1
    <3>3. QED
      BY <3>1, <3>2
  <2>2. take = [i \in D |-> take[i]] /\ owed = [i \in D |-> owed[i]]
    BY <1>8 DEF owed
  <2>3. take = owed
    BY <2>1, <2>2
  <2>4. QED
    BY <2>3
<1>14. SumFunction(take) = Least(qty, SumFunction(owed))
  <2> HIDE DEF take
  <2>1. CASE walk.left > 0
    BY <1>8, <1>12, <1>13, <2>1 DEF Least
  <2>2. CASE walk.left = 0
    BY <1>8, <1>12, <2>2 DEF Least
  <2>3. QED
    BY <1>8, <2>1, <2>2
<1>15. QED
  BY <1>2, <1>8, <1>11, <1>12, <1>14 DEF units, owed

============================================================================
