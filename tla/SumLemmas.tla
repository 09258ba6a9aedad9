----------------------------- MODULE SumLemmas -----------------------------
(***************************************************************************)
(* Lemmas about the sums that the modules of this project take with        *)
(* SumFunctionOnSet of Functions: costs of clusterings, distances, counts  *)
(* of rows.  The library defines them by a fold over sets, which is a      *)
(* CHOOSE of a recursive function: first that function is shown to exist,  *)
(* then that the order in which the fold takes the elements is immaterial, *)
(* and the rest is by induction on the subsets of a finite set.            *)
(*                                                                         *)
(* The induction theorems of the library have an operator as a parameter.  *)
(* Here induction is a statement about a set, NatSet and SubsetInduction,  *)
(* from WFMin: a well founded relation has minimal elements.               *)
(*                                                                         *)
(* At the end are a few lemmas about minima, maxima and quotients.         *)
(***************************************************************************)
EXTENDS Integers, FiniteSets, Functions, FiniteSetsExt, FiniteSetTheorems, TLAPS

\* Induction on the natural numbers, with a set in place of a predicate.
LEMMA NatSet ==
    ASSUME NEW G, 0 \in G, \A n \in Nat : n \in G => n + 1 \in G
    PROVE  Nat \subseteq G
<1> DEFINE R == OpToRel(<, Nat)
           B == {n \in Nat : n \notin G}
<1>1. IsWellFoundedOn(R, Nat)
  BY NatLessThanWellFounded
<1>2. SUFFICES ASSUME B # {} PROVE FALSE
  OBVIOUS
<1>3. PICK x \in B : \A y \in B : ~(<<y, x>> \in R)
  <2> HIDE DEF R
  <2>1. B \subseteq Nat
    OBVIOUS
  <2> HIDE DEF B
  <2> QED
    BY <1>1, <1>2, <2>1, WFMin
<1>4. x \in Nat /\ x # 0
  OBVIOUS
<1>5. x - 1 \in Nat /\ x - 1 < x /\ x = (x - 1) + 1
  BY <1>4
<1>6. <<x - 1, x>> \in R
  BY <1>4, <1>5 DEF OpToRel
<1>7. x - 1 \notin B
  BY <1>3, <1>6
<1> QED
  BY <1>4, <1>5, <1>7

\* The element that a fold takes next.
Taken(s) == CHOOSE x \in s : TRUE

\* g is a sum of f for the sets in D.
Sums(g, f, D) == \A s \in D : g[s] = IF s = {} THEN 0 ELSE f[Taken(s)] + g[s \ {Taken(s)}]

\* The function that a fold over S defines.
IsFold(g, f, S) == g = [s \in SUBSET S |-> IF s = {} THEN 0 ELSE f[Taken(s)] + g[s \ {Taken(s)}]]

\* There is a function as a fold over a finite set defines it: by induction on
\* the size of the subsets that it is right for.
LEMMA FoldExists ==
    ASSUME NEW f, NEW S, IsFiniteSet(S)
    PROVE  \E g : IsFold(g, f, S)
<1> DEFINE D(n) == {s \in SUBSET S : Cardinality(s) <= n}
           G == {n \in Nat : \E g : Sums(g, f, D(n))}
<1>0. \A s \in SUBSET S : IsFiniteSet(s) /\ Cardinality(s) \in Nat
  BY FS_Subset, FS_CardinalityType
<1>1. 0 \in G
  <2>1. \A s \in D(0) : s = {}
    BY <1>0, FS_EmptySet
  <2> DEFINE g == [s \in SUBSET S |-> 0]
  <2>2. Sums(g, f, D(0))
    BY <2>1 DEF Sums
  <2> QED
    BY <2>2
<1>2. ASSUME NEW n \in Nat, n \in G PROVE n + 1 \in G
  <2>1. PICK g : Sums(g, f, D(n))
    BY <1>2
  <2> DEFINE h == [s \in SUBSET S |-> IF s = {} THEN 0 ELSE f[Taken(s)] + g[s \ {Taken(s)}]]
  <2>2. \A s \in D(n) : s \in SUBSET S /\ h[s] = g[s]
    BY <2>1 DEF Sums
  <2>3. ASSUME NEW s \in D(n + 1), s # {} PROVE s \ {Taken(s)} \in D(n)
    <3>1. Taken(s) \in s
      BY <2>3 DEF Taken
    <3>2. Cardinality(s \ {Taken(s)}) = Cardinality(s) - 1
      BY <1>0, <3>1, FS_RemoveElement
    <3> QED
      BY <1>0, <3>2
  <2>4. Sums(h, f, D(n + 1))
    <3> SUFFICES ASSUME NEW s \in D(n + 1)
                 PROVE  h[s] = IF s = {} THEN 0 ELSE f[Taken(s)] + h[s \ {Taken(s)}]
      BY DEF Sums
    <3>1. CASE s = {}
      BY <3>1
    <3>2. CASE s # {}
      <4>1. h[s \ {Taken(s)}] = g[s \ {Taken(s)}]
        BY <2>2, <2>3, <3>2
      <4>2. h[s] = f[Taken(s)] + g[s \ {Taken(s)}]
        BY <3>2
      <4> HIDE DEF h
      <4> QED
        BY <3>2, <4>1, <4>2
    <3> QED
      BY <3>1, <3>2
  <2>5. n + 1 \in Nat
    OBVIOUS
  <2> HIDE DEF h, D
  <2> QED
    BY <2>4, <2>5
<1>3. Cardinality(S) \in G
  <2>1. Nat \subseteq G
    <3> HIDE DEF G
    <3> QED
      BY <1>1, <1>2, NatSet
  <2> QED
    BY <1>0, <2>1
<1>4. \A s \in SUBSET S : s \in D(Cardinality(S))
  BY FS_Subset
<1>5. PICK g : Sums(g, f, D(Cardinality(S)))
  BY <1>3
<1> DEFINE h == [s \in SUBSET S |-> g[s]]
<1>6. \A s \in SUBSET S : h[s] = IF s = {} THEN 0 ELSE f[Taken(s)] + h[s \ {Taken(s)}]
  <2> SUFFICES ASSUME NEW s \in SUBSET S
               PROVE  g[s] = IF s = {} THEN 0 ELSE f[Taken(s)] + h[s \ {Taken(s)}]
    OBVIOUS
  <2>1. h[s \ {Taken(s)}] = g[s \ {Taken(s)}]
    OBVIOUS
  <2> HIDE DEF h
  <2> QED
    BY <1>4, <1>5, <2>1 DEF Sums
<1>7. h = [s \in SUBSET S |-> IF s = {} THEN 0 ELSE f[Taken(s)] + h[s \ {Taken(s)}]]
  BY <1>6
<1> QED
  <2> HIDE DEF h
  <2> QED
    BY <1>7 DEF IsFold

\* The sum of the library, unfolded.
LEMMA SumIs ==
    ASSUME NEW f, NEW S
    PROVE  SumFunctionOnSet(f, S) = (CHOOSE g : IsFold(g, f, S))[S]
BY DEF SumFunctionOnSet, FoldFunctionOnSet, MapThenFoldSet, Taken, IsFold

\* Over a finite set, the sum is a value of a function that adds up.
LEMMA SumIsFold ==
    ASSUME NEW f, NEW S, IsFiniteSet(S)
    PROVE  \E g : IsFold(g, f, S) /\ SumFunctionOnSet(f, S) = g[S]
BY FoldExists, SumIs

\* Induction on the subsets of a finite set.
LEMMA SubsetInduction ==
    ASSUME NEW S, IsFiniteSet(S), NEW G,
           \A T \in SUBSET S : (\A x \in T : T \ {x} \in G) => T \in G
    PROVE  SUBSET S \subseteq G
<1> DEFINE R == StrictSubsetOrdering(S)
           B == {T \in SUBSET S : T \notin G}
<1>1. IsWellFoundedOn(R, SUBSET S)
  BY FS_StrictSubsetOrderingWellFounded, FS_FiniteSubsetsOfFinite
<1>2. SUFFICES ASSUME B # {} PROVE FALSE
  OBVIOUS
<1>3. PICK T \in B : \A U \in B : ~(<<U, T>> \in R)
  <2>1. B \subseteq SUBSET S
    OBVIOUS
  <2> HIDE DEF R, B
  <2> QED
    BY <1>1, <1>2, <2>1, WFMin
<1>4. ASSUME NEW x \in T PROVE T \ {x} \in G
  <2>1. <<T \ {x}, T>> \in R
    BY DEF StrictSubsetOrdering
  <2>2. T \ {x} \notin B
    BY <1>3, <2>1
  <2> QED
    BY <2>2
<1> QED
  BY <1>4

-----------------------------------------------------------------------------
(* What a sum is equal to and bounded by                                   *)

\* The functions that folds over a set and over a part of it define agree on
\* that part.
LEMMA FoldsCoincide ==
    ASSUME NEW f, NEW S, IsFiniteSet(S), NEW T, T \subseteq S,
           NEW g, IsFold(g, f, S), NEW h, IsFold(h, f, T)
    PROVE  h[T] = g[T]
<1> DEFINE G == {U \in SUBSET T : g[U] = h[U]}
<1>1. ASSUME NEW U \in SUBSET T, \A x \in U : U \ {x} \in G PROVE g[U] = h[U]
  <2>1. CASE U = {}
    BY <2>1 DEF IsFold
  <2>2. CASE U # {}
    <3>1. Taken(U) \in U
      BY <2>2 DEF Taken
    <3>2. g[U \ {Taken(U)}] = h[U \ {Taken(U)}]
      BY <1>1, <3>1
    <3>3. g[U] = f[Taken(U)] + g[U \ {Taken(U)}] /\ h[U] = f[Taken(U)] + h[U \ {Taken(U)}]
      BY <2>2 DEF IsFold
    <3> QED
      BY <3>2, <3>3
  <2> QED
    BY <2>1, <2>2
<1>2. \A U \in SUBSET T : (\A x \in U : U \ {x} \in G) => U \in G
  BY <1>1
<1>3. IsFiniteSet(T)
  BY FS_Subset
<1>4. SUBSET T \subseteq G
  <2> HIDE DEF G
  <2> QED
    BY <1>2, <1>3, SubsetInduction
<1> QED
  BY <1>4

\* The sum over the empty set is 0.
LEMMA SumOfNone == ASSUME NEW f PROVE SumFunctionOnSet(f, {}) = 0
<1>1. PICK g : IsFold(g, f, {}) /\ SumFunctionOnSet(f, {}) = g[{}]
  BY SumIsFold, FS_EmptySet
<1> QED
  BY <1>1 DEF IsFold

\* A sum is the element that the fold takes first, and the sum of the rest.
LEMMA SumPicks ==
    ASSUME NEW f, NEW S, IsFiniteSet(S), S # {}
    PROVE  SumFunctionOnSet(f, S) = f[Taken(S)] + SumFunctionOnSet(f, S \ {Taken(S)})
<1>1. PICK g : IsFold(g, f, S) /\ SumFunctionOnSet(f, S) = g[S]
  BY SumIsFold
<1>2. PICK T : T \subseteq S /\ T = S \ {Taken(S)}
  OBVIOUS
<1>3. IsFiniteSet(T)
  BY <1>2, FS_Subset
<1>4. PICK h : IsFold(h, f, T) /\ SumFunctionOnSet(f, T) = h[T]
  BY <1>3, SumIsFold
<1>5. h[T] = g[T]
  BY <1>1, <1>2, <1>4, FoldsCoincide
<1>6. g[S] = f[Taken(S)] + g[T]
  BY <1>1, <1>2 DEF IsFold
<1> QED
  BY <1>1, <1>2, <1>4, <1>5, <1>6

\* A sum of integers is one, and it is any of its elements and the sum of the
\* rest: the order in which a fold takes them does not matter.
LEMMA SumTakes ==
    ASSUME NEW f, NEW S, IsFiniteSet(S), \A x \in S : f[x] \in Int
    PROVE  /\ SumFunctionOnSet(f, S) \in Int
           /\ \A x \in S : SumFunctionOnSet(f, S) = f[x] + SumFunctionOnSet(f, S \ {x})
<1> DEFINE s(T) == SumFunctionOnSet(f, T)
           Ok(T) == s(T) \in Int /\ \A x \in T : s(T \ {x}) \in Int /\ s(T) = f[x] + s(T \ {x})
           G == {T \in SUBSET S : Ok(T)}
<1>1. ASSUME NEW T \in SUBSET S, \A x \in T : T \ {x} \in G PROVE Ok(T)
  <2>1. CASE T = {}
    BY <2>1, SumOfNone
  <2>2. CASE T # {}
    <3> DEFINE p == Taken(T)
    <3>1. p \in T /\ IsFiniteSet(T)
      BY <2>2, FS_Subset DEF Taken
    <3> HIDE DEF p
    <3>2. s(T) = f[p] + s(T \ {p})
      BY <2>2, <3>1, SumPicks DEF p
    <3> HIDE DEF s
    <3>3. \A x \in T : Ok(T \ {x}) /\ f[x] \in Int
      BY <1>1
    <3>4. s(T) \in Int
      BY <3>1, <3>2, <3>3
    <3>5. ASSUME NEW x \in T PROVE s(T) = f[x] + s(T \ {x})
      <4>1. CASE x = p
        BY <3>2, <4>1
      <4>2. CASE x # p
        <5> DEFINE U == (T \ {p}) \ {x}
        <5>1. (T \ {x}) \ {p} = U
          OBVIOUS
        <5>2. s(T \ {p}) = f[x] + s(U) /\ s(U) \in Int
          BY <3>1, <3>3, <4>2
        <5>3. s(T \ {x}) = f[p] + s(U)
          BY <3>1, <3>3, <4>2, <5>1
        <5> HIDE DEF U
        <5> QED
          BY <3>1, <3>2, <3>3, <5>2, <5>3
      <4> QED
        BY <4>1, <4>2
    <3> QED
      BY <3>3, <3>4, <3>5
  <2> QED
    BY <2>1, <2>2
<1>2. \A T \in SUBSET S : (\A x \in T : T \ {x} \in G) => T \in G
  BY <1>1
<1>3. SUBSET S \subseteq G
  <2> HIDE DEF G
  <2> QED
    BY <1>2, SubsetInduction
<1> QED
  BY <1>3

\* Functions that agree on S have the same sum.
LEMMA SumSame ==
    ASSUME NEW S, IsFiniteSet(S), NEW f, NEW g, \A x \in S : f[x] = g[x]
    PROVE  SumFunctionOnSet(f, S) = SumFunctionOnSet(g, S)
<1> DEFINE G == {T \in SUBSET S : SumFunctionOnSet(f, T) = SumFunctionOnSet(g, T)}
<1>1. ASSUME NEW T \in SUBSET S, \A x \in T : T \ {x} \in G PROVE T \in G
  <2>1. CASE T = {}
    BY <2>1, SumOfNone
  <2>2. CASE T # {}
    <3>1. Taken(T) \in T /\ IsFiniteSet(T)
      BY <2>2, FS_Subset DEF Taken
    <3>2. SumFunctionOnSet(f, T \ {Taken(T)}) = SumFunctionOnSet(g, T \ {Taken(T)})
      BY <1>1, <3>1
    <3>3. /\ SumFunctionOnSet(f, T) = f[Taken(T)] + SumFunctionOnSet(f, T \ {Taken(T)})
          /\ SumFunctionOnSet(g, T) = g[Taken(T)] + SumFunctionOnSet(g, T \ {Taken(T)})
      BY <2>2, <3>1, SumPicks
    <3> QED
      BY <3>1, <3>2, <3>3
  <2> QED
    BY <2>1, <2>2
<1>2. SUBSET S \subseteq G
  <2> HIDE DEF G
  <2> QED
    BY <1>1, SubsetInduction
<1> QED
  BY <1>2

\* The sum of f + g is the sum of f and the sum of g.
LEMMA SumPlus ==
    ASSUME NEW S, IsFiniteSet(S), NEW f, NEW g, NEW h,
           \A x \in S : f[x] \in Int /\ g[x] \in Int /\ h[x] = f[x] + g[x]
    PROVE  SumFunctionOnSet(h, S) = SumFunctionOnSet(f, S) + SumFunctionOnSet(g, S)
<1> DEFINE G == {T \in SUBSET S : SumFunctionOnSet(h, T) = SumFunctionOnSet(f, T) + SumFunctionOnSet(g, T)}
<1>1. ASSUME NEW T \in SUBSET S, \A x \in T : T \ {x} \in G PROVE T \in G
  <2>1. CASE T = {}
    BY <2>1, SumOfNone
  <2>2. CASE T # {}
    <3>1. PICK x \in T : TRUE
      BY <2>2
    <3>2. IsFiniteSet(T) /\ IsFiniteSet(T \ {x})
      BY FS_Subset
    <3>3. T \ {x} \in G
      BY <1>1
    <3>4. /\ SumFunctionOnSet(f, T) = f[x] + SumFunctionOnSet(f, T \ {x})
          /\ SumFunctionOnSet(f, T) \in Int /\ SumFunctionOnSet(f, T \ {x}) \in Int /\ f[x] \in Int
      BY <3>1, <3>2, SumTakes
    <3>5. /\ SumFunctionOnSet(g, T) = g[x] + SumFunctionOnSet(g, T \ {x})
          /\ SumFunctionOnSet(g, T) \in Int /\ SumFunctionOnSet(g, T \ {x}) \in Int /\ g[x] \in Int
      BY <3>1, <3>2, SumTakes
    <3>6. SumFunctionOnSet(h, T) = h[x] + SumFunctionOnSet(h, T \ {x}) /\ h[x] = f[x] + g[x]
      BY <3>1, <3>2, SumTakes
    <3>7. SumFunctionOnSet(h, T \ {x}) = SumFunctionOnSet(f, T \ {x}) + SumFunctionOnSet(g, T \ {x})
      BY <3>3
    <3>8. SumFunctionOnSet(h, T) = SumFunctionOnSet(f, T) + SumFunctionOnSet(g, T)
      BY <3>4, <3>5, <3>6, <3>7
    <3> QED
      BY <3>8
  <2> QED
    BY <2>1, <2>2
<1>2. SUBSET S \subseteq G
  <2> HIDE DEF G
  <2> QED
    BY <1>1, SubsetInduction
<1> QED
  BY <1>2

\* A constant factor may be taken out of a sum.
LEMMA SumTimes ==
    ASSUME NEW S, IsFiniteSet(S), NEW f, NEW h, NEW k \in Int,
           \A x \in S : f[x] \in Int /\ h[x] = k * f[x]
    PROVE  SumFunctionOnSet(h, S) = k * SumFunctionOnSet(f, S)
<1> DEFINE G == {T \in SUBSET S : SumFunctionOnSet(h, T) = k * SumFunctionOnSet(f, T)}
<1>1. ASSUME NEW T \in SUBSET S, \A x \in T : T \ {x} \in G PROVE T \in G
  <2>1. CASE T = {}
    BY <2>1, SumOfNone
  <2>2. CASE T # {}
    <3>1. PICK x \in T : TRUE
      BY <2>2
    <3>2. IsFiniteSet(T) /\ IsFiniteSet(T \ {x})
      BY FS_Subset
    <3>3. T \ {x} \in G
      BY <1>1
    <3>4. /\ SumFunctionOnSet(f, T) = f[x] + SumFunctionOnSet(f, T \ {x})
          /\ SumFunctionOnSet(f, T) \in Int /\ SumFunctionOnSet(f, T \ {x}) \in Int /\ f[x] \in Int
      BY <3>1, <3>2, SumTakes
    <3>5. SumFunctionOnSet(h, T) = h[x] + SumFunctionOnSet(h, T \ {x}) /\ h[x] = k * f[x]
      <4>1. \A y \in T : h[y] \in Int
        OBVIOUS
      <4> QED
        BY <3>1, <3>2, <4>1, SumTakes
    <3>6. SumFunctionOnSet(h, T \ {x}) = k * SumFunctionOnSet(f, T \ {x})
      BY <3>3
    <3>7. \A a, b \in Int : k * a + k * b = k * (a + b)
      OBVIOUS
    <3>8. SumFunctionOnSet(h, T) = k * SumFunctionOnSet(f, T)
      BY <3>4, <3>5, <3>6, <3>7
    <3> QED
      BY <3>8
  <2> QED
    BY <2>1, <2>2
<1>2. SUBSET S \subseteq G
  <2> HIDE DEF G
  <2> QED
    BY <1>1, SubsetInduction
<1> QED
  BY <1>2

\* A sum of no greater numbers is no greater.
LEMMA SumAtMost ==
    ASSUME NEW S, IsFiniteSet(S), NEW f, NEW g,
           \A x \in S : f[x] \in Int /\ g[x] \in Int /\ f[x] <= g[x]
    PROVE  SumFunctionOnSet(f, S) <= SumFunctionOnSet(g, S)
<1> DEFINE G == {T \in SUBSET S : SumFunctionOnSet(f, T) <= SumFunctionOnSet(g, T)}
<1>1. ASSUME NEW T \in SUBSET S, \A x \in T : T \ {x} \in G PROVE T \in G
  <2>1. CASE T = {}
    BY <2>1, SumOfNone
  <2>2. CASE T # {}
    <3>1. PICK x \in T : TRUE
      BY <2>2
    <3>2. IsFiniteSet(T) /\ IsFiniteSet(T \ {x})
      BY FS_Subset
    <3>3. T \ {x} \in G
      BY <1>1
    <3>4. /\ SumFunctionOnSet(f, T) = f[x] + SumFunctionOnSet(f, T \ {x})
          /\ SumFunctionOnSet(f, T) \in Int /\ SumFunctionOnSet(f, T \ {x}) \in Int /\ f[x] \in Int
      BY <3>1, <3>2, SumTakes
    <3>5. /\ SumFunctionOnSet(g, T) = g[x] + SumFunctionOnSet(g, T \ {x})
          /\ SumFunctionOnSet(g, T) \in Int /\ SumFunctionOnSet(g, T \ {x}) \in Int /\ g[x] \in Int
      BY <3>1, <3>2, SumTakes
    <3>6. SumFunctionOnSet(f, T \ {x}) <= SumFunctionOnSet(g, T \ {x})
      BY <3>3
    <3>7. SumFunctionOnSet(f, T) <= SumFunctionOnSet(g, T)
      BY <3>4, <3>5, <3>6
    <3> QED
      BY <3>7
  <2> QED
    BY <2>1, <2>2
<1>2. SUBSET S \subseteq G
  <2> HIDE DEF G
  <2> QED
    BY <1>1, SubsetInduction
<1> QED
  BY <1>2

\* If a sum of no greater numbers is as great, then so is each number.
LEMMA SumsEqual ==
    ASSUME NEW S, IsFiniteSet(S), NEW f, NEW g,
           \A x \in S : f[x] \in Int /\ g[x] \in Int /\ f[x] <= g[x],
           SumFunctionOnSet(f, S) >= SumFunctionOnSet(g, S),
           NEW y \in S
    PROVE  f[y] = g[y]
<1>1. PICK R : R = S \ {y} /\ IsFiniteSet(R) /\ R \subseteq S
  BY FS_Subset
<1>2. /\ SumFunctionOnSet(f, S) = f[y] + SumFunctionOnSet(f, R)
      /\ SumFunctionOnSet(g, S) = g[y] + SumFunctionOnSet(g, R)
  BY <1>1, SumTakes
<1>3. SumFunctionOnSet(f, R) \in Int /\ SumFunctionOnSet(g, R) \in Int
  BY <1>1, SumTakes
<1>4. SumFunctionOnSet(f, R) <= SumFunctionOnSet(g, R)
  BY <1>1, SumAtMost
<1>5. f[y] \in Int /\ g[y] \in Int /\ f[y] <= g[y]
  OBVIOUS
<1> QED
  BY <1>2, <1>3, <1>4, <1>5

\* A sum of equal numbers is a multiple of their number.
LEMMA SumOfSame ==
    ASSUME NEW S, IsFiniteSet(S), NEW f, NEW c \in Int, \A x \in S : f[x] = c
    PROVE  SumFunctionOnSet(f, S) = c * Cardinality(S)
<1> DEFINE G == {T \in SUBSET S : SumFunctionOnSet(f, T) = c * Cardinality(T)}
<1>1. ASSUME NEW T \in SUBSET S, \A x \in T : T \ {x} \in G PROVE T \in G
  <2>1. CASE T = {}
    BY <2>1, SumOfNone, FS_EmptySet
  <2>2. CASE T # {}
    <3>1. PICK x \in T : TRUE
      BY <2>2
    <3>2. IsFiniteSet(T) /\ IsFiniteSet(T \ {x})
      BY FS_Subset
    <3>3. T \ {x} \in G
      BY <1>1
    <3>4. SumFunctionOnSet(f, T) = c + SumFunctionOnSet(f, T \ {x})
      BY <3>1, <3>2, SumTakes
    <3>5. SumFunctionOnSet(f, T \ {x}) = c * Cardinality(T \ {x})
      BY <3>3
    <3>6. /\ Cardinality(T \ {x}) = Cardinality(T) - 1
          /\ Cardinality(T) \in Int
      BY <3>1, <3>2, FS_RemoveElement, FS_CardinalityType
    <3>7. \A n \in Int : c + c * (n - 1) = c * n
      OBVIOUS
    <3>8. SumFunctionOnSet(f, T) = c * Cardinality(T)
      BY <3>4, <3>5, <3>6, <3>7
    <3> QED
      BY <3>8
  <2> QED
    BY <2>1, <2>2
<1>2. SUBSET S \subseteq G
  <2> HIDE DEF G
  <2> QED
    BY <1>1, SubsetInduction
<1> QED
  BY <1>2

\* A sum of zeros.
LEMMA SumOfZeros ==
    ASSUME NEW S, IsFiniteSet(S), NEW f, \A x \in S : f[x] = 0
    PROVE  SumFunctionOnSet(f, S) = 0
<1>1. SumFunctionOnSet(f, S) = 0 * Cardinality(S)
  BY SumOfSame
<1>2. Cardinality(S) \in Int
  BY FS_CardinalityType
<1> QED
  BY <1>1, <1>2

\* The sum over the union of two sets that have nothing in common.
LEMMA SumOfUnion ==
    ASSUME NEW S, IsFiniteSet(S), NEW Q, IsFiniteSet(Q), S \intersect Q = {},
           NEW f, \A x \in S \union Q : f[x] \in Int
    PROVE  SumFunctionOnSet(f, S \union Q) = SumFunctionOnSet(f, S) + SumFunctionOnSet(f, Q)
<1> DEFINE G == {T \in SUBSET S : SumFunctionOnSet(f, T \union Q) = SumFunctionOnSet(f, T) + SumFunctionOnSet(f, Q)}
<1>0. SumFunctionOnSet(f, Q) \in Int
  BY SumTakes
<1>1. ASSUME NEW T \in SUBSET S, \A x \in T : T \ {x} \in G PROVE T \in G
  <2>1. CASE T = {}
    <3>1. T \union Q = Q
      BY <2>1
    <3> QED
      BY <1>0, <2>1, <3>1, SumOfNone
  <2>2. CASE T # {}
    <3>1. PICK x \in T : TRUE
      BY <2>2
    <3>2. IsFiniteSet(T) /\ IsFiniteSet(T \union Q)
      BY FS_Subset, FS_Union
    <3>3. T \ {x} \in G
      BY <1>1
    <3>4. /\ SumFunctionOnSet(f, T) = f[x] + SumFunctionOnSet(f, T \ {x})
          /\ SumFunctionOnSet(f, T) \in Int /\ f[x] \in Int
      BY <3>1, <3>2, SumTakes
    <3>5. SumFunctionOnSet(f, T \ {x}) \in Int
      <4>1. IsFiniteSet(T \ {x})
        BY FS_Subset
      <4> QED
        BY <4>1, SumTakes
    <3>6. (T \union Q) \ {x} = (T \ {x}) \union Q
      OBVIOUS
    <3>7. SumFunctionOnSet(f, T \union Q) = f[x] + SumFunctionOnSet(f, (T \ {x}) \union Q)
      <4>1. x \in T \union Q /\ \A y \in T \union Q : f[y] \in Int
        OBVIOUS
      <4> QED
        BY <3>2, <3>6, <4>1, SumTakes
    <3>8. SumFunctionOnSet(f, T \union Q) = SumFunctionOnSet(f, T) + SumFunctionOnSet(f, Q)
      BY <1>0, <3>3, <3>4, <3>5, <3>7
    <3> QED
      BY <3>8
  <2> QED
    BY <2>1, <2>2
<1>2. SUBSET S \subseteq G
  <2> HIDE DEF G
  <2> QED
    BY <1>1, SubsetInduction
<1> QED
  BY <1>2

\* F sorts S into groups, and q[b] is the sum of f over the group of b.
GroupSums(q, B, f, S, F) ==
    /\ \A x \in S : F[x] \in B
    /\ \A b \in B : q[b] = SumFunctionOnSet(f, {x \in S : F[x] = b})

\* A sum may be taken group by group.
LEMMA SumOfGroups ==
    ASSUME NEW S, IsFiniteSet(S), NEW f, \A x \in S : f[x] \in Int,
           NEW B, IsFiniteSet(B), NEW F, NEW q, GroupSums(q, B, f, S, F)
    PROVE  SumFunctionOnSet(q, B) = SumFunctionOnSet(f, S)
<1> USE DEF GroupSums
<1> DEFINE part(C) == {x \in S : F[x] \in C}
           G == {C \in SUBSET B : SumFunctionOnSet(q, C) = SumFunctionOnSet(f, part(C))}
<1>1. ASSUME NEW T \in SUBSET S
      PROVE  IsFiniteSet(T) /\ SumFunctionOnSet(f, T) \in Int
  <2>1. IsFiniteSet(T) /\ \A x \in T : f[x] \in Int
    BY FS_Subset
  <2> QED
    BY <2>1, SumTakes
<1>2. \A b \in B : q[b] \in Int
  BY <1>1
<1>3. ASSUME NEW C \in SUBSET B, \A b \in C : C \ {b} \in G PROVE C \in G
  <2>1. CASE C = {}
    <3>1. part(C) = {}
      BY <2>1
    <3> QED
      BY <2>1, <3>1, SumOfNone
  <2>2. CASE C # {}
    <3>1. PICK b \in C : TRUE
      BY <2>2
    <3> DEFINE one == {x \in S : F[x] = b}
               rest == part(C \ {b})
    <3>2. one \union rest = part(C) /\ one \intersect rest = {} /\ one \subseteq S /\ rest \subseteq S
      BY <3>1
    <3>3. q[b] = SumFunctionOnSet(f, one)
      OBVIOUS
    <3>4. SumFunctionOnSet(q, C \ {b}) = SumFunctionOnSet(f, rest)
      BY <1>3, <3>1
    <3> HIDE DEF one, rest, part
    <3>5. SumFunctionOnSet(q, C) = q[b] + SumFunctionOnSet(q, C \ {b})
      <4>1. IsFiniteSet(C) /\ \A c \in C : q[c] \in Int
        BY <1>2, FS_Subset
      <4> QED
        BY <3>1, <4>1, SumTakes
    <3>6. SumFunctionOnSet(f, one \union rest) = SumFunctionOnSet(f, one) + SumFunctionOnSet(f, rest)
      <4>1. IsFiniteSet(one) /\ IsFiniteSet(rest)
        BY <1>1, <3>2
      <4>2. \A x \in one \union rest : f[x] \in Int
        BY <3>2
      <4> QED
        BY <3>2, <4>1, <4>2, SumOfUnion
    <3>7. SumFunctionOnSet(q, C) = SumFunctionOnSet(f, part(C))
      BY <3>2, <3>3, <3>4, <3>5, <3>6
    <3> QED
      BY <3>7
  <2> QED
    BY <2>1, <2>2
<1>4. SUBSET B \subseteq G
  <2> HIDE DEF G
  <2> QED
    BY <1>3, SubsetInduction
<1>5. part(B) = S
  OBVIOUS
<1>6. SumFunctionOnSet(q, B) = SumFunctionOnSet(f, part(B))
  BY <1>4
<1> QED
  BY <1>5, <1>6

\* A sum of natural numbers is one, and no less than each of them.
LEMMA SumOfNats ==
    ASSUME NEW S, IsFiniteSet(S), NEW f, \A x \in S : f[x] \in Nat
    PROVE  SumFunctionOnSet(f, S) \in Nat /\ \A x \in S : f[x] <= SumFunctionOnSet(f, S)
<1> DEFINE G == {T \in SUBSET S : SumFunctionOnSet(f, T) \in Nat}
<1>1. ASSUME NEW T \in SUBSET S, \A x \in T : T \ {x} \in G PROVE T \in G
  <2>1. CASE T = {}
    BY <2>1, SumOfNone
  <2>2. CASE T # {}
    <3>1. PICK x \in T : TRUE
      BY <2>2
    <3>2. IsFiniteSet(T)
      BY FS_Subset
    <3>3. SumFunctionOnSet(f, T) = f[x] + SumFunctionOnSet(f, T \ {x}) /\ f[x] \in Nat
      BY <3>1, <3>2, SumTakes
    <3> QED
      BY <1>1, <3>1, <3>3
  <2> QED
    BY <2>1, <2>2
<1>2. SUBSET S \subseteq G
  <2> HIDE DEF G
  <2> QED
    BY <1>1, SubsetInduction
<1>3. ASSUME NEW x \in S PROVE f[x] <= SumFunctionOnSet(f, S)
  <2>1. SumFunctionOnSet(f, S) = f[x] + SumFunctionOnSet(f, S \ {x}) /\ f[x] \in Nat
    BY SumTakes
  <2>2. SumFunctionOnSet(f, S \ {x}) \in Nat
    BY <1>2
  <2> QED
    BY <2>1, <2>2
<1> QED
  BY <1>2, <1>3
-----------------------------------------------------------------------------
(* Least and largest elements                                              *)

\* Of finitely many integers with values there is a first of the least value:
\* what idxmin(), index(max()) and the choice of a farthest point look for.
LEMMA BestExists ==
    ASSUME NEW S, IsFiniteSet(S), S \subseteq Int, S # {},
           NEW f, \A x \in S : f[x] \in Int
    PROVE  \E x \in S : \A y \in S : f[x] < f[y] \/ (f[x] = f[y] /\ x <= y)
<1> DEFINE Best(x, T) == \A y \in T : f[x] < f[y] \/ (f[x] = f[y] /\ x <= y)
           G == {T \in SUBSET S : T # {} => \E x \in T : Best(x, T)}
<1>1. ASSUME NEW T \in SUBSET S, \A x \in T : T \ {x} \in G, T # {}
      PROVE  \E x \in T : Best(x, T)
  <2>1. PICK x \in T : TRUE
    BY <1>1
  <2>2. x \in Int /\ f[x] \in Int
    OBVIOUS
  <2>3. CASE T \ {x} = {}
    BY <2>1, <2>2, <2>3
  <2>4. CASE T \ {x} # {}
    <3>1. PICK z \in T \ {x} : Best(z, T \ {x})
      BY <1>1, <2>1, <2>4
    <3>2. z \in Int /\ f[z] \in Int
      OBVIOUS
    <3>3. CASE f[z] < f[x] \/ (f[z] = f[x] /\ z <= x)
      <4>1. Best(z, T)
        BY <3>1, <3>3
      <4> QED
        BY <4>1
    <3>4. CASE ~(f[z] < f[x] \/ (f[z] = f[x] /\ z <= x))
      <4>1. f[x] < f[z] \/ (f[x] = f[z] /\ x <= z)
        BY <2>2, <3>2, <3>4
      <4>2. ASSUME NEW y \in T PROVE f[x] < f[y] \/ (f[x] = f[y] /\ x <= y)
        <5>1. y \in Int /\ f[y] \in Int
          OBVIOUS
        <5>2. CASE y = x
          BY <2>2, <5>2
        <5>3. CASE y # x
          <6>1. f[z] < f[y] \/ (f[z] = f[y] /\ z <= y)
            BY <3>1, <5>3
          <6> QED
            BY <2>2, <3>2, <4>1, <5>1, <6>1
        <5> QED
          BY <5>2, <5>3
      <4> QED
        BY <2>1, <4>2
    <3> QED
      BY <3>3, <3>4
  <2> QED
    BY <2>3, <2>4
<1>2. \A T \in SUBSET S : (\A x \in T : T \ {x} \in G) => T \in G
  BY <1>1
<1>3. SUBSET S \subseteq G
  <2> HIDE DEF G
  <2> QED
    BY <1>2, SubsetInduction
<1>4. S \in G
  BY <1>3
<1> QED
  BY <1>4

\* Finitely many integers have a minimum and a maximum.
LEMMA MinMax ==
    ASSUME NEW S, IsFiniteSet(S), S \subseteq Int, S # {}
    PROVE  /\ Min(S) \in S /\ \A y \in S : Min(S) <= y
           /\ Max(S) \in S /\ \A y \in S : y <= Max(S)
<1>1. \E x \in S : \A y \in S : x <= y
  <2> DEFINE f == [x \in S |-> x]
  <2>1. \A x \in S : f[x] \in Int /\ f[x] = x
    OBVIOUS
  <2> HIDE DEF f
  <2>2. PICK x \in S : \A y \in S : f[x] < f[y] \/ (f[x] = f[y] /\ x <= y)
    BY <2>1, BestExists
  <2>3. \A y \in S : x <= y
    BY <2>1, <2>2
  <2> QED
    BY <2>3
<1>2. \E x \in S : \A y \in S : x >= y
  <2> DEFINE f == [x \in S |-> -x]
  <2>1. \A x \in S : f[x] \in Int /\ f[x] = -x
    OBVIOUS
  <2> HIDE DEF f
  <2>2. PICK x \in S : \A y \in S : f[x] < f[y] \/ (f[x] = f[y] /\ x <= y)
    BY <2>1, BestExists
  <2>3. \A y \in S : x >= y
    BY <2>1, <2>2
  <2> QED
    BY <2>3
<1>3. Min(S) \in S /\ \A y \in S : Min(S) <= y
  BY <1>1 DEF Min
<1>4. Max(S) \in S /\ \A y \in S : Max(S) >= y
  BY <1>2 DEF Max
<1> QED
  BY <1>3, <1>4

\* The number of centroids of canopy(), and the denominators of the network.
LEMMA MaxOne ==
    ASSUME NEW n \in Nat
    PROVE  Max({1, n}) = IF n = 0 THEN 1 ELSE n
<1>1. IsFiniteSet({1, n}) /\ {1, n} \subseteq Int /\ {1, n} # {}
  <2>1. IsFiniteSet({1})
    BY FS_Singleton
  <2>2. IsFiniteSet({1} \union {n})
    BY <2>1, FS_AddElement
  <2>3. {1, n} = {1} \union {n}
    OBVIOUS
  <2> QED
    BY <2>2, <2>3
<1>2. Max({1, n}) \in {1, n} /\ \A y \in {1, n} : y <= Max({1, n})
  BY <1>1, MinMax
<1> QED
  BY <1>2

\* A product is divided exactly by a factor.
LEMMA DivideFactor ==
    ASSUME NEW n \in Nat \ {0}, NEW k \in Int
    PROVE  (n * k) \div n = k
<1> DEFINE q == (n * k) \div n
<1>1. q \in Int /\ n * q <= n * k /\ n * k < n * (q + 1)
  OBVIOUS
<1> HIDE DEF q
<1>2. q <= k
  BY <1>1
<1>3. k < q + 1
  BY <1>1
<1>4. q = k
  BY <1>1, <1>2, <1>3
<1> QED
  BY <1>4 DEF q

\* The values of a function on a finite set are finitely many.
LEMMA ImageFinite ==
    ASSUME NEW S, IsFiniteSet(S), NEW f,
           NEW T, \A x \in S : f[x] \in T, \A y \in T : \E x \in S : y = f[x]
    PROVE  IsFiniteSet(T)
<1> DEFINE g == [x \in S |-> f[x]]
<1>1. g \in Surjection(S, T)
  BY DEF Surjection
<1> QED
  BY <1>1, FS_Surjection
=============================================================================
