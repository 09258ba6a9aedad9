--------------------------- MODULE BayesNetProofs ---------------------------
(***************************************************************************)
(* What is proved of the Bayesian network: that learning batch by batch    *)
(* gives the estimates of all rows, that variable elimination gives the    *)
(* posterior in any order, that impute() completes in a most likely way,   *)
(* that Gibbs sampling draws from the right distribution, that no sampler  *)
(* weighs what is impossible, and when sampling can raise.  All of it is   *)
(* of Sampling, whose steps are steps of BayesNet or leave it alone.       *)
(***************************************************************************)
EXTENDS Sampling, SumLemmas, TLAPS

-----------------------------------------------------------------------------
(* Products                                                                *)

\* The function that a product over S defines.
IsProduct(g, f, S) == g = [s \in SUBSET S |-> IF s = {} THEN 1 ELSE f[Taken(s)] * g[s \ {Taken(s)}]]
Multiplies(g, f, D) == \A s \in D : g[s] = IF s = {} THEN 1 ELSE f[Taken(s)] * g[s \ {Taken(s)}]

\* There is a function as a product over a finite set defines it.
LEMMA ProductExists ==
    ASSUME NEW f, NEW S, IsFiniteSet(S)
    PROVE  \E g : IsProduct(g, f, S)
<1> DEFINE D(n) == {s \in SUBSET S : Cardinality(s) <= n}
           G == {n \in Nat : \E g : Multiplies(g, f, D(n))}
<1>0. \A s \in SUBSET S : IsFiniteSet(s) /\ Cardinality(s) \in Nat
  BY FS_Subset, FS_CardinalityType
<1>1. 0 \in G
  <2>1. \A s \in D(0) : s = {}
    BY <1>0, FS_EmptySet
  <2> DEFINE g == [s \in SUBSET S |-> 1]
  <2>2. Multiplies(g, f, D(0))
    BY <2>1 DEF Multiplies
  <2> QED
    BY <2>2
<1>2. ASSUME NEW n \in Nat, n \in G PROVE n + 1 \in G
  <2>1. PICK g : Multiplies(g, f, D(n))
    BY <1>2
  <2> DEFINE h == [s \in SUBSET S |-> IF s = {} THEN 1 ELSE f[Taken(s)] * g[s \ {Taken(s)}]]
  <2>2. \A s \in D(n) : s \in SUBSET S /\ h[s] = g[s]
    BY <2>1 DEF Multiplies
  <2>3. ASSUME NEW s \in D(n + 1), s # {} PROVE s \ {Taken(s)} \in D(n)
    <3>1. Taken(s) \in s
      BY <2>3 DEF Taken
    <3>2. Cardinality(s \ {Taken(s)}) = Cardinality(s) - 1
      BY <1>0, <3>1, FS_RemoveElement
    <3> QED
      BY <1>0, <3>2
  <2>4. Multiplies(h, f, D(n + 1))
    <3> SUFFICES ASSUME NEW s \in D(n + 1)
                 PROVE  h[s] = IF s = {} THEN 1 ELSE f[Taken(s)] * h[s \ {Taken(s)}]
      BY DEF Multiplies
    <3>1. CASE s = {}
      BY <3>1
    <3>2. CASE s # {}
      <4>1. h[s \ {Taken(s)}] = g[s \ {Taken(s)}]
        BY <2>2, <2>3, <3>2
      <4>2. h[s] = f[Taken(s)] * g[s \ {Taken(s)}]
        BY <3>2
      <4> HIDE DEF h
      <4> QED
        BY <3>2, <4>1, <4>2
    <3> QED
      BY <3>1, <3>2
  <2>5. n + 1 \in Nat
    OBVIOUS
  <2> HIDE DEF h, D
  <2> QED
    BY <2>4, <2>5
<1>3. Cardinality(S) \in G
  <2>1. Nat \subseteq G
    <3> HIDE DEF G
    <3> QED
      BY <1>1, <1>2, NatSet
  <2> QED
    BY <1>0, <2>1
<1>4. \A s \in SUBSET S : s \in D(Cardinality(S))
  BY FS_Subset
<1>5. PICK g : Multiplies(g, f, D(Cardinality(S)))
  BY <1>3
<1> DEFINE h == [s \in SUBSET S |-> g[s]]
<1>6. \A s \in SUBSET S : h[s] = IF s = {} THEN 1 ELSE f[Taken(s)] * h[s \ {Taken(s)}]
  <2> SUFFICES ASSUME NEW s \in SUBSET S
               PROVE  g[s] = IF s = {} THEN 1 ELSE f[Taken(s)] * h[s \ {Taken(s)}]
    OBVIOUS
  <2>1. h[s \ {Taken(s)}] = g[s \ {Taken(s)}]
    OBVIOUS
  <2> HIDE DEF h
  <2> QED
    BY <1>4, <1>5, <2>1 DEF Multiplies
<1>7. h = [s \in SUBSET S |-> IF s = {} THEN 1 ELSE f[Taken(s)] * h[s \ {Taken(s)}]]
  BY <1>6
<1> QED
  <2> HIDE DEF h
  <2> QED
    BY <1>7 DEF IsProduct

\* Over a finite set, the product is a value of such a function.
LEMMA ProductIs ==
    ASSUME NEW f, NEW S, IsFiniteSet(S)
    PROVE  \E g : IsProduct(g, f, S) /\ ProductOnSet(f, S) = g[S]
<1>1. ProductOnSet(f, S) = (CHOOSE g : IsProduct(g, f, S))[S]
  BY DEF ProductOnSet, FoldFunctionOnSet, MapThenFoldSet, Taken, IsProduct
<1> QED
  BY <1>1, ProductExists

\* The products over a set and over a part of it agree on that part.
LEMMA ProductsCoincide ==
    ASSUME NEW f, NEW S, IsFiniteSet(S), NEW T, T \subseteq S,
           NEW g, IsProduct(g, f, S), NEW h, IsProduct(h, f, T)
    PROVE  h[T] = g[T]
<1> DEFINE G == {U \in SUBSET T : g[U] = h[U]}
<1>1. ASSUME NEW U \in SUBSET T, \A x \in U : U \ {x} \in G PROVE g[U] = h[U]
  <2>1. CASE U = {}
    BY <2>1 DEF IsProduct
  <2>2. CASE U # {}
    <3>1. Taken(U) \in U
      BY <2>2 DEF Taken
    <3>2. g[U \ {Taken(U)}] = h[U \ {Taken(U)}]
      BY <1>1, <3>1
    <3>3. /\ g[U] = f[Taken(U)] * g[U \ {Taken(U)}]
          /\ h[U] = f[Taken(U)] * h[U \ {Taken(U)}]
      BY <2>2 DEF IsProduct
    <3> QED
      BY <3>2, <3>3
  <2> QED
    BY <2>1, <2>2
<1>2. \A U \in SUBSET T : (\A x \in U : U \ {x} \in G) => U \in G
  BY <1>1
<1>3. IsFiniteSet(T)
  BY FS_Subset
<1>4. SUBSET T \subseteq G
  <2> HIDE DEF G
  <2> QED
    BY <1>2, <1>3, SubsetInduction
<1> QED
  BY <1>4

\* The product over the empty set is 1.
LEMMA ProductOfNone == ASSUME NEW f PROVE ProductOnSet(f, {}) = 1
<1>1. PICK g : IsProduct(g, f, {}) /\ ProductOnSet(f, {}) = g[{}]
  BY ProductIs, FS_EmptySet
<1> QED
  BY <1>1 DEF IsProduct

\* A product is the element that the fold takes first, times the rest.
LEMMA ProductPicks ==
    ASSUME NEW f, NEW S, IsFiniteSet(S), S # {}
    PROVE  ProductOnSet(f, S) = f[Taken(S)] * ProductOnSet(f, S \ {Taken(S)})
<1>1. PICK g : IsProduct(g, f, S) /\ ProductOnSet(f, S) = g[S]
  BY ProductIs
<1>2. PICK T : T \subseteq S /\ T = S \ {Taken(S)}
  OBVIOUS
<1>3. IsFiniteSet(T)
  BY <1>2, FS_Subset
<1>4. PICK h : IsProduct(h, f, T) /\ ProductOnSet(f, T) = h[T]
  BY <1>3, ProductIs
<1>5. h[T] = g[T]
  BY <1>1, <1>2, <1>4, ProductsCoincide
<1>6. g[S] = f[Taken(S)] * g[T]
  BY <1>1, <1>2 DEF IsProduct
<1> QED
  BY <1>1, <1>2, <1>4, <1>5, <1>6

LEMMA ThreeFactors == \A a, b, c \in Int : a * (b * c) = b * (a * c) /\ a * (b * c) = (a * b) * c
<1>1. SUFFICES ASSUME NEW a \in Int, NEW b \in Int, NEW c \in Int
               PROVE  a * (b * c) = b * (a * c) /\ a * (b * c) = (a * b) * c
  OBVIOUS
<1> QED
  OBVIOUS

\* A product of integers is one, and it is any of its elements times the rest.
LEMMA ProductTakes ==
    ASSUME NEW f, NEW S, IsFiniteSet(S), \A x \in S : f[x] \in Int
    PROVE  /\ ProductOnSet(f, S) \in Int
           /\ \A x \in S : ProductOnSet(f, S) = f[x] * ProductOnSet(f, S \ {x})
<1> DEFINE s(T) == ProductOnSet(f, T)
           Ok(T) == s(T) \in Int /\ \A x \in T : s(T \ {x}) \in Int /\ s(T) = f[x] * s(T \ {x})
           G == {T \in SUBSET S : Ok(T)}
<1>1. ASSUME NEW T \in SUBSET S, \A x \in T : T \ {x} \in G PROVE Ok(T)
  <2>1. CASE T = {}
    BY <2>1, ProductOfNone
  <2>2. CASE T # {}
    <3> DEFINE p == Taken(T)
    <3>1. p \in T /\ IsFiniteSet(T)
      BY <2>2, FS_Subset DEF Taken
    <3> HIDE DEF p
    <3>2. s(T) = f[p] * s(T \ {p})
      BY <2>2, <3>1, ProductPicks DEF p
    <3> HIDE DEF s
    <3>3. \A x \in T : Ok(T \ {x}) /\ f[x] \in Int
      BY <1>1
    <3>4. s(T) \in Int
      BY <3>1, <3>2, <3>3
    <3>5. ASSUME NEW x \in T PROVE s(T) = f[x] * s(T \ {x})
      <4>1. CASE x = p
        BY <3>2, <4>1
      <4>2. CASE x # p
        <5> DEFINE U == (T \ {p}) \ {x}
        <5>1. (T \ {x}) \ {p} = U
          OBVIOUS
        <5>2. s(T \ {p}) = f[x] * s(U) /\ s(U) \in Int
          BY <3>1, <3>3, <4>2
        <5>3. s(T \ {x}) = f[p] * s(U)
          BY <3>1, <3>3, <4>2, <5>1
        <5> HIDE DEF U
        <5>4. f[p] * (f[x] * s(U)) = f[x] * (f[p] * s(U))
          BY <3>1, <3>3, <5>2, ThreeFactors
        <5> QED
          BY <3>2, <5>2, <5>3, <5>4
      <4> QED
        BY <4>1, <4>2
    <3> QED
      BY <3>3, <3>4, <3>5
  <2> QED
    BY <2>1, <2>2
<1>2. \A T \in SUBSET S : (\A x \in T : T \ {x} \in G) => T \in G
  BY <1>1
<1>3. SUBSET S \subseteq G
  <2> HIDE DEF G
  <2> QED
    BY <1>2, SubsetInduction
<1> QED
  BY <1>3

\* Functions that agree on S have the same product.
LEMMA ProductSame ==
    ASSUME NEW S, IsFiniteSet(S), NEW f, NEW g, \A x \in S : f[x] = g[x]
    PROVE  ProductOnSet(f, S) = ProductOnSet(g, S)
<1> DEFINE G == {T \in SUBSET S : ProductOnSet(f, T) = ProductOnSet(g, T)}
<1>1. ASSUME NEW T \in SUBSET S, \A x \in T : T \ {x} \in G PROVE T \in G
  <2>1. CASE T = {}
    BY <2>1, ProductOfNone
  <2>2. CASE T # {}
    <3>1. Taken(T) \in T /\ IsFiniteSet(T)
      BY <2>2, FS_Subset DEF Taken
    <3>2. ProductOnSet(f, T \ {Taken(T)}) = ProductOnSet(g, T \ {Taken(T)})
      BY <1>1, <3>1
    <3>3. /\ ProductOnSet(f, T) = f[Taken(T)] * ProductOnSet(f, T \ {Taken(T)})
          /\ ProductOnSet(g, T) = g[Taken(T)] * ProductOnSet(g, T \ {Taken(T)})
      BY <2>2, <3>1, ProductPicks
    <3> QED
      BY <3>1, <3>2, <3>3
  <2> QED
    BY <2>1, <2>2
<1>2. SUBSET S \subseteq G
  <2> HIDE DEF G
  <2> QED
    BY <1>1, SubsetInduction
<1> QED
  BY <1>2

\* The product over the union of two sets that have nothing in common.
LEMMA ProductOfUnion ==
    ASSUME NEW S, IsFiniteSet(S), NEW Q, IsFiniteSet(Q), S \intersect Q = {},
           NEW f, \A x \in S \union Q : f[x] \in Int
    PROVE  ProductOnSet(f, S \union Q) = ProductOnSet(f, S) * ProductOnSet(f, Q)
<1> DEFINE G == {T \in SUBSET S : ProductOnSet(f, T \union Q) = ProductOnSet(f, T) * ProductOnSet(f, Q)}
<1>0. ProductOnSet(f, Q) \in Int
  BY ProductTakes
<1>1. ASSUME NEW T \in SUBSET S, \A x \in T : T \ {x} \in G PROVE T \in G
  <2>1. CASE T = {}
    <3>1. T \union Q = Q
      BY <2>1
    <3> QED
      BY <1>0, <2>1, <3>1, ProductOfNone
  <2>2. CASE T # {}
    <3>1. PICK x \in T : TRUE
      BY <2>2
    <3>2. IsFiniteSet(T) /\ IsFiniteSet(T \union Q)
      BY FS_Subset, FS_Union
    <3>3. T \ {x} \in G
      BY <1>1
    <3>4. ProductOnSet(f, T) = f[x] * ProductOnSet(f, T \ {x}) /\ f[x] \in Int
      BY <3>1, <3>2, ProductTakes
    <3>5. ProductOnSet(f, T \ {x}) \in Int
      <4>1. IsFiniteSet(T \ {x})
        BY FS_Subset
      <4> QED
        BY <4>1, ProductTakes
    <3>6. (T \union Q) \ {x} = (T \ {x}) \union Q
      OBVIOUS
    <3>7. ProductOnSet(f, T \union Q) = f[x] * ProductOnSet(f, (T \ {x}) \union Q)
      <4>1. x \in T \union Q /\ \A y \in T \union Q : f[y] \in Int
        OBVIOUS
      <4> QED
        BY <3>2, <3>6, <4>1, ProductTakes
    <3>8. ProductOnSet(f, (T \ {x}) \union Q) = ProductOnSet(f, T \ {x}) * ProductOnSet(f, Q)
      BY <3>3
    <3>9. f[x] * (ProductOnSet(f, T \ {x}) * ProductOnSet(f, Q)) = ProductOnSet(f, T) * ProductOnSet(f, Q)
      BY <1>0, <3>4, <3>5, ThreeFactors
    <3>10. ProductOnSet(f, T \union Q) = ProductOnSet(f, T) * ProductOnSet(f, Q)
      BY <3>7, <3>8, <3>9
    <3> QED
      BY <3>10
  <2> QED
    BY <2>1, <2>2
<1>2. SUBSET S \subseteq G
  <2> HIDE DEF G
  <2> QED
    BY <1>1, SubsetInduction
<1> QED
  BY <1>2

\* A product of natural numbers is one, and 0 exactly if one of them is.
LEMMA ProductOfNats ==
    ASSUME NEW S, IsFiniteSet(S), NEW f, \A x \in S : f[x] \in Nat
    PROVE  /\ ProductOnSet(f, S) \in Nat
           /\ ProductOnSet(f, S) = 0 <=> \E x \in S : f[x] = 0
<1> DEFINE Ok(T) == /\ ProductOnSet(f, T) \in Nat
                    /\ ProductOnSet(f, T) = 0 <=> \E x \in T : f[x] = 0
           G == {T \in SUBSET S : Ok(T)}
<1>1. ASSUME NEW T \in SUBSET S, \A x \in T : T \ {x} \in G PROVE Ok(T)
  <2>1. CASE T = {}
    BY <2>1, ProductOfNone
  <2>2. CASE T # {}
    <3>1. PICK x \in T : TRUE
      BY <2>2
    <3>2. IsFiniteSet(T)
      BY FS_Subset
    <3>3. ProductOnSet(f, T) = f[x] * ProductOnSet(f, T \ {x}) /\ f[x] \in Nat
      BY <3>1, <3>2, ProductTakes
    <3>4. Ok(T \ {x})
      BY <1>1, <3>1
    <3>5. \A a, b \in Nat : a * b \in Nat /\ (a * b = 0 <=> a = 0 \/ b = 0)
      OBVIOUS
    <3>6. /\ ProductOnSet(f, T) \in Nat
          /\ ProductOnSet(f, T) = 0 <=> f[x] = 0 \/ ProductOnSet(f, T \ {x}) = 0
      BY <3>3, <3>4, <3>5
    <3> QED
      BY <3>1, <3>4, <3>6
  <2> QED
    BY <2>1, <2>2
<1>2. \A T \in SUBSET S : (\A x \in T : T \ {x} \in G) => T \in G
  BY <1>1
<1>3. SUBSET S \subseteq G
  <2> HIDE DEF G
  <2> QED
    BY <1>2, SubsetInduction
<1> QED
  BY <1>3

-----------------------------------------------------------------------------
(* Assignments                                                             *)

LEMMA NodesFinite == IsFiniteSet(Nodes) /\ Nodes \subseteq Nat \ {0}
<1>1. N \in Nat
  BY NAssumption
<1>2. IsFiniteSet(1 .. N)
  BY <1>1, FS_Interval
<1> QED
  BY <1>1, <1>2 DEF Nodes

\* A finite set of variables has finitely many assignments: an assignment is
\* known from its graph.
LEMMA AssignFinite == ASSUME NEW S, IsFiniteSet(S) PROVE IsFiniteSet(Assign(S))
<1> DEFINE T == SUBSET (S \X Values)
           graph == [a \in Assign(S) |-> {<<v, a[v]>> : v \in S}]
<1>1. IsFiniteSet(S \X Values)
  BY BoundsAssumption, FS_Product
<1>2. IsFiniteSet(T)
  BY <1>1, FS_SUBSET
<1>3. ASSUME NEW a \in Assign(S) PROVE graph[a] \in T
  BY DEF Assign
<1>4. ASSUME NEW a \in Assign(S), NEW b \in Assign(S), graph[a] = graph[b] PROVE a = b
  <2>1. ASSUME NEW v \in S PROVE a[v] = b[v]
    <3>1. <<v, a[v]>> \in {<<u, b[u]>> : u \in S}
      BY <1>4
    <3> QED
      BY <3>1
  <2> QED
    BY <2>1 DEF Assign
<1>5. graph \in [Assign(S) -> T] /\ DOMAIN graph = Assign(S)
  BY <1>3
<1> HIDE DEF graph, T
<1>6. graph \in Injection(Assign(S), T)
  BY <1>4, <1>5 DEF Injection, IsInjective
<1> QED
  BY <1>2, <1>6, FS_Injection

-----------------------------------------------------------------------------
(* Learning                                                                *)

StructureOK == /\ parents \in [Nodes -> SUBSET Nodes]
               /\ \A v \in Nodes : parents[v] \subseteq 1 .. (v - 1)
               /\ prior \in BOOLEAN

\* What has been learned of a combination: the rows that have it, and one if it
\* is made of values of the first batch and there is a prior.
Extra(v, key) == IF prior /\ ~IsRoot(v) /\ \A u \in Family(v) : key[u] \in first[u] THEN 1 ELSE 0
CountOf(v, key) == SizeAt(data, key) + Extra(v, key)
KeysAt(v, pk) == {key \in Assign(Family(v)) : Key(v, key) = pk}
CountTable(v) == [key \in Assign(Family(v)) |-> CountOf(v, key)]
TotalOf(v, pk) == SumFunctionOnSet(CountTable(v), KeysAt(v, pk))

\* _P_sizes and P are those of all rows, for every combination.
TablesOK ==
    /\ sizes = [v \in Nodes |-> [pk \in Assign(parents[v]) |-> TotalOf(v, pk)]]
    /\ P = [v \in Nodes |-> [key \in Assign(Family(v)) |->
              [n |-> CountOf(v, key), d |-> Max({1, TotalOf(v, Key(v, key))})]]]

LearnInv == /\ StructureOK
            /\ learned \in BOOLEAN
            /\ data \in [Rows -> Nat]
            /\ ~learned => data = NoData
            /\ learned => TablesOK

\* The sizes and the families of a structure are finite.
LEMMA StructureFacts ==
    ASSUME StructureOK, NEW v \in Nodes
    PROVE  /\ parents[v] \subseteq Nodes /\ v \notin parents[v]
           /\ Family(v) \subseteq Nodes
           /\ IsFiniteSet(Assign(Family(v))) /\ IsFiniteSet(Assign(parents[v]))
           /\ \A key \in Assign(Family(v)) : Key(v, key) \in Assign(parents[v])
<1>1. parents[v] \subseteq Nodes /\ v \notin parents[v]
  <2>1. parents[v] \subseteq 1 .. (v - 1) /\ v \in Nat
    BY NodesFinite DEF StructureOK
  <2>2. v \notin 1 .. (v - 1)
    BY <2>1
  <2> QED
    BY <2>1, <2>2 DEF StructureOK
<1>2. Family(v) \subseteq Nodes
  BY <1>1 DEF Family
<1>3. IsFiniteSet(Family(v)) /\ IsFiniteSet(parents[v])
  BY <1>1, <1>2, NodesFinite, FS_Subset
<1>4. ASSUME NEW key \in Assign(Family(v)) PROVE Key(v, key) \in Assign(parents[v])
  BY DEF Key, Restrict, Assign, Family
<1> QED
  BY <1>1, <1>2, <1>3, <1>4, AssignFinite

LEMMA RowsFinite == IsFiniteSet(Rows)
BY NodesFinite, AssignFinite DEF Rows

LEMMA SizeIsNat == ASSUME NEW f \in [Rows -> Nat], NEW key PROVE SizeAt(f, key) \in Nat
<1> DEFINE R == {r \in Rows : IsRestriction(key, r)}
<1>1. IsFiniteSet(R) /\ \A r \in R : f[r] \in Nat
  BY RowsFinite, FS_Subset
<1> HIDE DEF R
<1> QED
  BY <1>1, SumOfNats DEF SizeAt, R

\* Counts are natural numbers, none larger than the total of its parents' values.
LEMMA CountFacts ==
    ASSUME StructureOK, data \in [Rows -> Nat], NEW v \in Nodes, NEW key \in Assign(Family(v))
    PROVE  /\ CountOf(v, key) \in Nat
           /\ TotalOf(v, Key(v, key)) \in Nat
           /\ CountOf(v, key) <= TotalOf(v, Key(v, key))
<1>1. ASSUME NEW k \in Assign(Family(v)) PROVE CountOf(v, k) \in Nat
  <2>3. SizeAt(data, k) \in Nat
    BY SizeIsNat
  <2>4. Extra(v, k) \in Nat
    BY DEF Extra
  <2> QED
    BY <2>3, <2>4 DEF CountOf
<1> DEFINE K == KeysAt(v, Key(v, key))
<1>2. key \in K /\ IsFiniteSet(K) /\ \A k \in K : CountTable(v)[k] = CountOf(v, k) /\ CountTable(v)[k] \in Nat
  BY <1>1, StructureFacts, FS_Subset DEF KeysAt, CountTable
<1> HIDE DEF K
<1>3. SumFunctionOnSet(CountTable(v), K) \in Nat /\ \A k \in K : CountTable(v)[k] <= SumFunctionOnSet(CountTable(v), K)
  BY <1>2, SumOfNats
<1> QED
  BY <1>2, <1>3 DEF TotalOf, K

\* The counts come back from the probabilities and the sizes.
LEMMA CountsComeBack ==
    ASSUME StructureOK, data \in [Rows -> Nat], TablesOK, NEW v \in Nodes, NEW key \in Assign(Family(v))
    PROVE  (P[v][key].n * sizes[v][Key(v, key)]) \div P[v][key].d = CountOf(v, key)
<1> DEFINE n == CountOf(v, key)
           T == TotalOf(v, Key(v, key))
<1>1. n \in Nat /\ T \in Nat /\ n <= T
  BY CountFacts
<1>2. Key(v, key) \in Assign(parents[v])
  BY StructureFacts
<1>3. P[v][key].n = n /\ sizes[v][Key(v, key)] = T /\ P[v][key].d = Max({1, T})
  BY <1>2 DEF TablesOK
<1>4. Max({1, T}) = IF T = 0 THEN 1 ELSE T
  BY <1>1, MaxOne
<1> HIDE DEF n, T
<1>5. CASE T = 0
  <2>1. n * T = 0 /\ n = 0
    BY <1>1, <1>5
  <2>2. 0 \div 1 = 0
    OBVIOUS
  <2> QED
    BY <1>3, <1>4, <1>5, <2>1, <2>2 DEF n
<1>6. CASE T # 0
  <2>1. (T * n) \div T = n
    BY <1>1, <1>6, DivideFactor
  <2>2. T * n = n * T
    BY <1>1
  <2> QED
    BY <1>3, <1>4, <1>6, <2>1, <2>2 DEF n
<1> QED
  BY <1>5, <1>6

\* Sizes of batches add up.
LEMMA SizesAdd ==
    ASSUME NEW f \in [Rows -> Nat], NEW g \in [Rows -> Nat], NEW key
    PROVE  SizeAt([r \in Rows |-> f[r] + g[r]], key) = SizeAt(f, key) + SizeAt(g, key)
<1> DEFINE R == {r \in Rows : IsRestriction(key, r)}
           h == [r \in Rows |-> f[r] + g[r]]
<1>1. IsFiniteSet(R) /\ \A r \in R : f[r] \in Int /\ g[r] \in Int /\ h[r] = f[r] + g[r]
  BY RowsFinite, FS_Subset
<1> HIDE DEF R, h
<1>2. SumFunctionOnSet(h, R) = SumFunctionOnSet(f, R) + SumFunctionOnSet(g, R)
  BY <1>1, SumPlus
<1> QED
  BY <1>2 DEF SizeAt, R, h

LEMMA SizeOfNone == ASSUME NEW key PROVE SizeAt(NoData, key) = 0
<1> DEFINE R == {r \in Rows : IsRestriction(key, r)}
<1>1. IsFiniteSet(R) /\ \A r \in R : NoData[r] = 0
  BY RowsFinite, FS_Subset DEF NoData
<1> HIDE DEF R
<1>2. SumFunctionOnSet(NoData, R) = 0
  BY <1>1, SumOfZeros
<1> QED
  BY <1>2 DEF SizeAt, R

LEMMA BatchType == ASSUME NEW b \in Batches PROVE b \in [Rows -> Nat]
<1>1. 0 .. MaxBatch \subseteq Nat
  BY BoundsAssumption
<1> QED
  BY <1>1 DEF Batches

\* New tables that hold the counts of all rows are as they should be.
LEMMA UpdateGives ==
    ASSUME StructureOK, NEW has, NEW b, Update(has, b), UNCHANGED netVars,
           \A v \in Nodes : \A key \in Assign(Family(v)) : CountsAfter(has, b, v, key) = CountOf(v, key)'
    PROVE  TablesOK'
<1> DEFINE counts == [v \in Nodes |-> [key \in Assign(Family(v)) |-> CountsAfter(has, b, v, key)]]
           total == [v \in Nodes |-> [pk \in Assign(parents[v]) |->
                       SumFunctionOnSet(counts[v], {key \in Assign(Family(v)) : Key(v, key) = pk})]]
<1>0. /\ parents' = parents
      /\ \A v \in Nodes : /\ Family(v)' = Family(v)
                          /\ \A key : Key(v, key)' = Key(v, key)
                          /\ \A pk : KeysAt(v, pk)' = KeysAt(v, pk)
  BY DEF netVars, Family, Key, KeysAt
<1>1. \A v \in Nodes : CountTable(v)' = counts[v]
  BY <1>0 DEF CountTable
<1>2. \A v \in Nodes : \A pk \in Assign(parents[v]) : TotalOf(v, pk)' = total[v][pk]
  BY <1>0, <1>1 DEF TotalOf, KeysAt
<1>3. sizes' = total
  BY DEF Update
<1>4. P' = [v \in Nodes |-> [key \in Assign(Family(v)) |->
              [n |-> counts[v][key], d |-> Max({1, total[v][Key(v, key)]})]]]
  BY DEF Update
<1>5. \A v \in Nodes : \A key \in Assign(Family(v)) :
        /\ Key(v, key) \in Assign(parents[v])
        /\ counts[v][key] = CountOf(v, key)'
  BY StructureFacts
<1> HIDE DEF counts, total
<1>6. sizes' = [v \in Nodes |-> [pk \in Assign(parents[v]) |-> TotalOf(v, pk)]]'
  <2>1. DOMAIN total = Nodes /\ \A v \in Nodes : DOMAIN total[v] = Assign(parents[v])
    BY DEF total
  <2>2. total = [v \in Nodes |-> [pk \in Assign(parents[v]) |-> total[v][pk]]]
    BY DEF total
  <2> QED
    BY <1>0, <1>2, <1>3, <2>2
<1>7. P' = [v \in Nodes |-> [key \in Assign(Family(v)) |->
              [n |-> CountOf(v, key), d |-> Max({1, TotalOf(v, Key(v, key))})]]]'
  BY <1>0, <1>2, <1>4, <1>5
<1> QED
  BY <1>6, <1>7 DEF TablesOK

\* The first call of partial_fit() or fit(): the counts are those of the batch.
LEMMA FirstCounts ==
    ASSUME StructureOK, NEW b, UNCHANGED netVars, first' = ValuesIn(b),
           \A key : SizeAt(data', key) = SizeAt(b, key),
           NEW v \in Nodes, NEW key \in Assign(Family(v))
    PROVE  CountsAfter(FALSE, b, v, key) = CountOf(v, key)'
<1>1. parents' = parents /\ prior' = prior
  BY DEF netVars
<1>2. Extra(v, key)' = IF prior /\ ~IsRoot(v) /\ \A u \in Family(v) : key[u] \in ValuesIn(b)[u] THEN 1 ELSE 0
  BY <1>1 DEF Extra, IsRoot, Family
<1> QED
  BY <1>2 DEF CountsAfter, CountOf, SizeAt

LEMMA LearnStep ==
    ASSUME LearnInv, [Next]_vars
    PROVE  LearnInv'
<1> USE DEF LearnInv
<1>1. ASSUME NEW b \in Batches, PartialFit(b) PROVE LearnInv'
  <2>1. /\ UNCHANGED netVars /\ Update(learned, b) /\ learned' = TRUE
        /\ data' = [r \in Rows |-> data[r] + b[r]]
        /\ first' = IF learned THEN first ELSE ValuesIn(b)
    BY <1>1 DEF PartialFit
  <2>2. b \in [Rows -> Nat] /\ data' \in [Rows -> Nat]
    BY <2>1, BatchType
  <2>3. \A key : SizeAt(data', key) = SizeAt(data, key) + SizeAt(b, key)
    BY <2>1, <2>2, SizesAdd
  <2>4. \A v \in Nodes : \A key \in Assign(Family(v)) : CountsAfter(learned, b, v, key) = CountOf(v, key)'
    <3>1. CASE learned
      <4> SUFFICES ASSUME NEW v \in Nodes, NEW key \in Assign(Family(v))
                   PROVE  CountsAfter(learned, b, v, key) = CountOf(v, key)'
        OBVIOUS
      <4>1. CountsAfter(learned, b, v, key) = CountOf(v, key) + SizeAt(b, key)
        BY <3>1, CountsComeBack DEF CountsAfter
      <4>2. Extra(v, key)' = Extra(v, key)
        BY <2>1, <3>1 DEF Extra, IsRoot, Family, netVars
      <4>3. CountOf(v, key)' = (SizeAt(data, key) + SizeAt(b, key)) + Extra(v, key)
        BY <2>3, <4>2 DEF CountOf, SizeAt
      <4>4. SizeAt(data, key) \in Int /\ SizeAt(b, key) \in Int /\ Extra(v, key) \in Int
        BY <2>2, SizeIsNat DEF Extra
      <4> QED
        BY <4>1, <4>3, <4>4 DEF CountOf
    <3>2. CASE ~learned
      <4>1. \A key : SizeAt(data', key) = SizeAt(b, key)
        BY <2>2, <2>3, <3>2, SizeIsNat, SizeOfNone
      <4>2. learned = FALSE /\ first' = ValuesIn(b)
        BY <2>1, <3>2
      <4> QED
        BY <2>1, <4>1, <4>2, FirstCounts
    <3> QED
      BY <3>1, <3>2
  <2>5. TablesOK'
    BY <2>1, <2>4, UpdateGives
  <2> QED
    BY <2>1, <2>2, <2>5 DEF StructureOK, netVars
<1>2. ASSUME NEW b \in Batches, Fit(b) PROVE LearnInv'
  <2>1. /\ UNCHANGED netVars /\ Update(FALSE, b) /\ learned' = TRUE
        /\ data' = b /\ first' = ValuesIn(b)
    BY <1>2 DEF Fit
  <2>2. b \in [Rows -> Nat]
    BY BatchType
  <2>3. \A v \in Nodes : \A key \in Assign(Family(v)) : CountsAfter(FALSE, b, v, key) = CountOf(v, key)'
    BY <2>1, FirstCounts
  <2>4. TablesOK'
    BY <2>1, <2>3, UpdateGives
  <2> QED
    BY <2>1, <2>2, <2>4 DEF StructureOK, netVars
<1>3. ASSUME UNCHANGED <<netVars, learnVars>> PROVE LearnInv'
  <2>1. /\ parents' = parents /\ prior' = prior /\ learned' = learned /\ P' = P /\ sizes' = sizes
        /\ data' = data /\ first' = first
    BY <1>3 DEF netVars, learnVars
  <2>2. TablesOK' <=> TablesOK
    BY <2>1 DEF TablesOK, TotalOf, CountTable, KeysAt, CountOf, Extra, SizeAt, Key, Family, IsRoot
  <2> QED
    BY <2>1, <2>2 DEF StructureOK
<1>4. Next => \/ \E b \in Batches : PartialFit(b) \/ Fit(b)
              \/ UNCHANGED <<netVars, learnVars>>
  BY DEF Next, Ask, Eliminate, Answer
<1> QED
  BY <1>1, <1>2, <1>3, <1>4 DEF vars

LEMMA LearnInit == ASSUME Init PROVE LearnInv
<1>1. prior \in BOOLEAN
  BY BoundsAssumption DEF Init
<1>2. NoData \in [Rows -> Nat]
  BY DEF NoData
<1> QED
  BY <1>1, <1>2 DEF Init, LearnInv, StructureOK

\* The steps of Sampling are steps of BayesNet, or leave its variables alone.
LEMMA StepsOfNet == ASSUME [SamplingNext]_<<vars, samplingVars>> PROVE [Next]_vars
<1>1. ASSUME SamplingNext PROVE [Next]_vars
  BY <1>1 DEF SamplingNext, Calm, Impute, DrawRaises, Draw, GibbsStart, GibbsStep, GibbsRaises, Return, Next
<1> QED
  BY <1>1

\* Sampling leaves the network as exact queries and learning would: every
\* behaviour of the samplers is one of BayesNet.
THEOREM SamplersLeaveTheNet == SamplingSpec => Spec
<1>1. SamplingInit => Init
  BY DEF SamplingInit
<1> QED
  BY <1>1, StepsOfNet, PTL DEF SamplingSpec, Spec

\* What partial_fit() and fit() have learned is learned from all rows.
LEMMA LearnInvImplies == ASSUME LearnInv PROVE LearnedFromAllRows
<1> SUFFICES ASSUME learned, NEW v \in Nodes, NEW key \in Assign(Family(v))
             PROVE  LET extra(k) == IF prior /\ ~IsRoot(v) /\ \A u \in Family(v) : k[u] \in first[u]
                                    THEN 1 ELSE 0
                        keys == {k \in Assign(Family(v)) : Key(v, k) = Key(v, key)}
                        count == [k \in keys |-> SizeAt(data, k) + extra(k)]
                    IN  /\ P[v][key].n = count[key]
                        /\ P[v][key].d = Max({1, SumFunction(count)})
  BY DEF LearnedFromAllRows
<1> DEFINE keys == KeysAt(v, Key(v, key))
           count == [k \in keys |-> CountOf(v, k)]
<1>1. keys \subseteq Assign(Family(v)) /\ IsFiniteSet(keys) /\ key \in keys
  <2>1. StructureOK
    BY DEF LearnInv
  <2> QED
    BY <2>1, StructureFacts, FS_Subset DEF KeysAt
<1>2. \A k \in keys : CountTable(v)[k] = count[k]
  BY <1>1 DEF CountTable
<1>3. SumFunction(count) = TotalOf(v, Key(v, key))
  <2>1. DOMAIN count = keys
    OBVIOUS
  <2> HIDE DEF count, keys
  <2>2. SumFunctionOnSet(count, keys) = SumFunctionOnSet(CountTable(v), keys)
    BY <1>1, <1>2, SumSame
  <2> QED
    BY <2>1, <2>2 DEF SumFunction, TotalOf, keys
<1>4. P[v][key].n = count[key] /\ P[v][key].d = Max({1, SumFunction(count)})
  <2>1. P[v][key] = [n |-> CountOf(v, key), d |-> Max({1, TotalOf(v, Key(v, key))})]
    <3> HIDE DEF count, keys
    <3>1. TablesOK
      BY DEF LearnInv
    <3>2. P = [w \in Nodes |-> [k \in Assign(Family(w)) |->
                 [n |-> CountOf(w, k), d |-> Max({1, TotalOf(w, Key(w, k))})]]]
      BY <3>1 DEF TablesOK
    <3>3. P[v] = [k \in Assign(Family(v)) |-> [n |-> CountOf(v, k), d |-> Max({1, TotalOf(v, Key(v, k))})]]
      BY <3>2
    <3> QED
      BY <3>3
  <2>2. count[key] = CountOf(v, key)
    BY <1>1
  <2> QED
    BY <1>3, <2>1, <2>2
<1>5. count = [k \in {k \in Assign(Family(v)) : Key(v, k) = Key(v, key)} |->
                 SizeAt(data, k) + (IF prior /\ ~IsRoot(v) /\ \A u \in Family(v) : k[u] \in first[u]
                                    THEN 1 ELSE 0)]
  BY DEF KeysAt, CountOf, Extra
<1> QED
  BY <1>4, <1>5

\* partial_fit() gets its counts back from the probabilities, and forgets or
\* repeats no batch: the estimates are those of all rows since the last fit().
THEOREM LearnedFromEveryRow == SamplingSpec => []LearnedFromAllRows
<1>1. SamplingInit => LearnInv
  BY LearnInit DEF SamplingInit
<1>2. LearnInv /\ [SamplingNext]_<<vars, samplingVars>> => LearnInv'
  BY LearnStep, StepsOfNet
<1>3. LearnInv => LearnedFromAllRows
  BY LearnInvImplies
<1> QED
  BY <1>1, <1>2, <1>3, PTL DEF SamplingSpec
-----------------------------------------------------------------------------
(* Sums over assignments                                                   *)

LEMMA SumOfSingle == ASSUME NEW f, NEW x, f[x] \in Int PROVE SumFunctionOnSet(f, {x}) = f[x]
<1>1. IsFiniteSet({x}) /\ \A y \in {x} : f[y] \in Int
  BY FS_Singleton
<1>2. SumFunctionOnSet(f, {x}) = f[x] + SumFunctionOnSet(f, {x} \ {x})
  BY <1>1, SumTakes
<1>3. {x} \ {x} = {}
  OBVIOUS
<1>4. SumFunctionOnSet(f, {x}) = f[x] + 0
  BY <1>2, <1>3, SumOfNone
<1> QED
  BY <1>4

LEMMA RestrictFacts ==
    ASSUME NEW L, NEW M, M \subseteq L, NEW a \in Assign(L)
    PROVE  /\ Restrict(a, M) \in Assign(M)
           /\ \A x \in M : Restrict(a, M)[x] = a[x]
           /\ \A b \in Assign(M) : IsRestriction(b, a) <=> Restrict(a, M) = b
<1>1. Restrict(a, M) \in Assign(M) /\ \A x \in M : Restrict(a, M)[x] = a[x]
  BY DEF Restrict, Assign
<1>2. ASSUME NEW b \in Assign(M) PROVE IsRestriction(b, a) <=> Restrict(a, M) = b
  <2>1. DOMAIN b = M /\ DOMAIN a = L /\ M \intersect L = M
    BY DEF Assign
  <2>2. IsRestriction(b, a) <=> \A x \in M : b[x] = a[x]
    BY <2>1 DEF IsRestriction
  <2>3. Restrict(a, M) = b <=> \A x \in M : a[x] = b[x]
    BY <2>1 DEF Restrict, Assign
  <2> QED
    BY <2>2, <2>3
<1> QED
  BY <1>1, <1>2

\* q is the table w over R, summed over what is not in L.
Marginal(q, L, w, R) ==
    \A a \in Assign(L) : q[a] = SumFunctionOnSet(w, {x \in Assign(R) : IsRestriction(a, x)})

\* Summed in two steps, over some of the variables and then over the others, a
\* table gives what it gives when it is summed at once.
LEMMA SumsRegroup ==
    ASSUME NEW R, IsFiniteSet(R), NEW L, L \subseteq R, NEW M, M \subseteq L,
           NEW w, \A x \in Assign(R) : w[x] \in Int,
           NEW q, Marginal(q, L, w, R),
           NEW b \in Assign(M)
    PROVE  SumFunctionOnSet(q, {a \in Assign(L) : IsRestriction(b, a)})
              = SumFunctionOnSet(w, {x \in Assign(R) : IsRestriction(b, x)})
<1> DEFINE S == {x \in Assign(R) : IsRestriction(b, x)}
           B == {a \in Assign(L) : IsRestriction(b, a)}
           F == [x \in S |-> Restrict(x, L)]
<1>1. IsFiniteSet(S) /\ IsFiniteSet(B)
  <2>1. IsFiniteSet(L)
    BY FS_Subset
  <2> QED
    BY <2>1, AssignFinite, FS_Subset
<1>2. ASSUME NEW x \in S PROVE F[x] \in B
  <2>1. Restrict(x, L) \in Assign(L) /\ \A y \in L : Restrict(x, L)[y] = x[y]
    BY RestrictFacts
  <2>2. M \subseteq R /\ Restrict(x, M) = b
    BY RestrictFacts
  <2>3. Restrict(Restrict(x, L), M) = Restrict(x, M)
    BY <2>1 DEF Restrict
  <2>4. IsRestriction(b, Restrict(x, L))
    BY <2>1, <2>2, <2>3, RestrictFacts
  <2> QED
    BY <2>1, <2>4
<1>3. ASSUME NEW a \in B PROVE {x \in S : F[x] = a} = {x \in Assign(R) : IsRestriction(a, x)}
  <2>1. ASSUME NEW x \in Assign(R), Restrict(x, L) = a PROVE x \in S
    <3>1. Restrict(a, M) = b
      BY RestrictFacts
    <3>2. Restrict(Restrict(x, L), M) = Restrict(x, M)
      BY RestrictFacts DEF Restrict
    <3>3. Restrict(x, M) = b /\ M \subseteq R
      BY <2>1, <3>1, <3>2
    <3> QED
      BY <3>3, RestrictFacts
  <2>2. \A x \in Assign(R) : IsRestriction(a, x) <=> Restrict(x, L) = a
    BY RestrictFacts
  <2>3. \A x \in S : x \in Assign(R) /\ F[x] = Restrict(x, L)
    OBVIOUS
  <2> HIDE DEF S, F, B
  <2> QED
    BY <2>1, <2>2, <2>3
<1>4. \A a \in B : q[a] = SumFunctionOnSet(w, {x \in S : F[x] = a})
  BY <1>3 DEF Marginal
<1>5. \A x \in S : w[x] \in Int
  OBVIOUS
<1>6. \A x \in S : F[x] \in B
  BY <1>2
<1> HIDE DEF S, B, F
<1>7. SumFunctionOnSet(q, B) = SumFunctionOnSet(w, S)
  <2>1. GroupSums(q, B, w, S, F)
    BY <1>4, <1>6 DEF GroupSums
  <2> QED
    BY <1>1, <1>5, <2>1, SumOfGroups
<1> QED
  BY <1>7 DEF S, B

-----------------------------------------------------------------------------
(* Families of factors                                                     *)

\* Tables of natural numbers, over some of the nodes.
GoodFamily(fs) == \A i \in DOMAIN fs : /\ fs[i].vars \subseteq Nodes
                                       /\ \A a \in Assign(fs[i].vars) : fs[i].table[a] \in Nat

UsesIn(fs, h) == {i \in DOMAIN fs : h \in fs[i].vars}

\* The family after one round of the loop.
Eliminated(fs, h) == [i \in (DOMAIN fs \ UsesIn(fs, h)) \union {h} |->
                        IF i = h THEN SumOut(Product(fs, UsesIn(fs, h)), {h}) ELSE fs[i]]

\* The entries that are multiplied at a.
Entries(fs, I, a) == [i \in I |-> fs[i].table[Restrict(a, fs[i].vars)]]

LEMMA ValueFacts ==
    ASSUME NEW fs, GoodFamily(fs), NEW I, I \subseteq DOMAIN fs, IsFiniteSet(I),
           NEW L, VarsOf(fs, I) \subseteq L, NEW a \in Assign(L)
    PROVE  /\ \A i \in I : Entries(fs, I, a)[i] \in Nat
           /\ ValueAt(fs, I, a) = ProductOnSet(Entries(fs, I, a), I)
           /\ ValueAt(fs, I, a) \in Nat
<1>1. ASSUME NEW i \in I PROVE Entries(fs, I, a)[i] \in Nat
  <2>1. fs[i].vars \subseteq L
    BY DEF VarsOf
  <2>2. Restrict(a, fs[i].vars) \in Assign(fs[i].vars)
    BY <2>1, RestrictFacts
  <2> QED
    BY <2>2 DEF GoodFamily, Entries
<1>2. ValueAt(fs, I, a) = ProductOnSet(Entries(fs, I, a), I)
  BY DEF ValueAt, Entries
<1>3. ProductOnSet(Entries(fs, I, a), I) \in Nat
  <2> DEFINE f == Entries(fs, I, a)
  <2>1. \A i \in I : f[i] \in Nat
    BY <1>1
  <2> HIDE DEF f
  <2>2. ProductOnSet(f, I) \in Nat
    BY <2>1, ProductOfNats
  <2> QED
    BY <2>2 DEF f
<1> QED
  BY <1>1, <1>2, <1>3

\* The variables of a factor that are not summed out keep their values, and the
\* one that is has any: what the product of the family is at the assignments
\* that extend b, added up, is what the new family's product is at b.
LEMMA EliminationSums ==
    ASSUME NEW fs, GoodFamily(fs), IsFiniteSet(DOMAIN fs),
           NEW K, IsFiniteSet(K), VarsOf(fs, DOMAIN fs) \subseteq K,
           NEW h \in VarsOf(fs, DOMAIN fs), h \in DOMAIN fs => h \in fs[h].vars,
           NEW b \in Assign(K \ {h})
    PROVE  ValueAt(Eliminated(fs, h), DOMAIN Eliminated(fs, h), b)
              = SumFunctionOnSet([a \in Assign(K) |-> ValueAt(fs, DOMAIN fs, a)],
                                 {a \in Assign(K) : IsRestriction(b, a)})
<1> DEFINE D == DOMAIN fs
           U == UsesIn(fs, h)
           V == VarsOf(fs, U)
           g == Eliminated(fs, h)
           c == Restrict(b, V \ {h})
           pt == [a \in Assign(V) |-> ValueAt(fs, U, a)]
           Sc == {a \in Assign(V) : IsRestriction(c, a)}
           t == Entries(g, DOMAIN g, b)
           R == ProductOnSet(t, D \ U)
           f == [a \in Assign(K) |-> ValueAt(fs, D, a)]
           S == {a \in Assign(K) : IsRestriction(b, a)}
           F == [a \in S |-> Restrict(a, V)]
           q == [a \in Sc |-> R * pt[a]]
<1>1. /\ U \subseteq D /\ IsFiniteSet(U) /\ IsFiniteSet(D \ U)
      /\ DOMAIN g = (D \ U) \union {h} /\ h \notin D \ U /\ (DOMAIN g) \ {h} = D \ U
      /\ IsFiniteSet(DOMAIN g)
  <2>1. U \subseteq D /\ (h \in D => h \in U)
    BY DEF UsesIn
  <2>2. DOMAIN g = (D \ U) \union {h}
    BY DEF Eliminated
  <2>3. IsFiniteSet(U) /\ IsFiniteSet(D \ U)
    BY <2>1, FS_Subset
  <2>4. IsFiniteSet((D \ U) \union {h})
    BY <2>3, FS_AddElement
  <2> HIDE DEF g, U
  <2> QED
    BY <2>1, <2>2, <2>3, <2>4
<1>2. V \subseteq K /\ h \in V /\ V \ {h} \subseteq K \ {h} /\ IsFiniteSet(V)
  <2>1. V \subseteq K
    BY DEF VarsOf, UsesIn
  <2>2. h \in V
    BY DEF VarsOf, UsesIn
  <2> HIDE DEF V
  <2> QED
    BY <2>1, <2>2, FS_Subset
<1>3. c \in Assign(V \ {h}) /\ \A x \in V \ {h} : c[x] = b[x]
  <2> HIDE DEF V
  <2> QED
    BY <1>2, RestrictFacts
<1>4. t[h] = SumFunctionOnSet(pt, Sc)
  <2>1. g[h] = SumOut(Product(fs, U), {h})
    BY DEF Eliminated
  <2>2. Product(fs, U).vars = V /\ Product(fs, U).table = pt
    BY DEF Product
  <2>3. g[h].vars = V \ {h} /\ g[h].table = [x \in Assign(V \ {h}) |->
              SumFunctionOnSet(pt, {a \in Assign(V) : IsRestriction(x, a)})]
    BY <2>1, <2>2 DEF SumOut
  <2>4. t[h] = g[h].table[Restrict(b, g[h].vars)]
    BY <1>1 DEF Entries
  <2>5. t[h] = g[h].table[c]
    BY <2>3, <2>4
  <2> HIDE DEF g, c, t, pt
  <2> QED
    BY <1>3, <2>3, <2>5
<1>5. \A i \in D \ U : /\ t[i] = fs[i].table[Restrict(b, fs[i].vars)]
                       /\ fs[i].vars \subseteq K \ {h}
                       /\ t[i] \in Nat
  <2> SUFFICES ASSUME NEW i \in D \ U
               PROVE  /\ t[i] = fs[i].table[Restrict(b, fs[i].vars)]
                      /\ fs[i].vars \subseteq K \ {h}
                      /\ t[i] \in Nat
    OBVIOUS
  <2>1. g[i] = fs[i]
    BY <1>1 DEF Eliminated
  <2>2. t[i] = fs[i].table[Restrict(b, fs[i].vars)]
    BY <1>1, <2>1 DEF Entries
  <2>3. fs[i].vars \subseteq K /\ h \notin fs[i].vars
    BY DEF VarsOf, UsesIn
  <2>4. Restrict(b, fs[i].vars) \in Assign(fs[i].vars)
    BY <2>3, RestrictFacts
  <2> QED
    BY <2>2, <2>3, <2>4 DEF GoodFamily
<1>6. R \in Int
  <2> HIDE DEF t
  <2> QED
    BY <1>1, <1>5, ProductOfNats
<1>7. \A a \in Assign(V) : pt[a] = ValueAt(fs, U, a) /\ pt[a] \in Int
  <2>1. \A a \in Assign(V) : ValueAt(fs, U, a) \in Nat
    BY <1>1, ValueFacts
  <2> QED
    BY <2>1
<1>8. IsFiniteSet(Sc) /\ IsFiniteSet(S)
  BY <1>2, AssignFinite, FS_Subset
<1>9. ValueAt(g, DOMAIN g, b) = R * SumFunctionOnSet(pt, Sc)
  <2>1. ValueAt(g, DOMAIN g, b) = ProductOnSet(t, DOMAIN g)
    BY DEF ValueAt, Entries
  <2>2. SumFunctionOnSet(pt, Sc) \in Int
    <3> HIDE DEF pt
    <3>1. \A a \in Sc : pt[a] \in Int
      BY <1>7
    <3> HIDE DEF Sc
    <3> QED
      BY <1>8, <3>1, SumTakes
  <2>3. \A i \in DOMAIN g : t[i] \in Int
    <3> HIDE DEF g, t, pt, Sc, U
    <3> QED
      BY <1>1, <1>4, <1>5, <2>2
  <2> HIDE DEF t, g, pt, Sc, U, D
  <2>4. ProductOnSet(t, DOMAIN g) = t[h] * R
    BY <1>1, <2>3, ProductTakes
  <2>5. t[h] * R = R * t[h]
    BY <1>4, <1>6, <2>2
  <2> QED
    BY <1>4, <2>1, <2>4, <2>5
<1>10. SumFunctionOnSet(q, Sc) = R * SumFunctionOnSet(pt, Sc)
  <2>1. \A a \in Sc : pt[a] \in Int /\ q[a] = R * pt[a]
    BY <1>7
  <2> HIDE DEF q, Sc, R, pt
  <2> QED
    BY <1>6, <1>8, <2>1, SumTimes
<1>11. \A a \in S : F[a] \in Sc /\ f[a] \in Int
  <2> SUFFICES ASSUME NEW a \in S PROVE F[a] \in Sc /\ f[a] \in Int
    OBVIOUS
  <2>1. Restrict(a, V) \in Assign(V) /\ \A x \in V : Restrict(a, V)[x] = a[x]
    BY <1>2, RestrictFacts
  <2>2. Restrict(a, K \ {h}) = b
    BY RestrictFacts
  <2>3. \A x \in V \ {h} : a[x] = b[x]
    BY <1>2, <2>2, RestrictFacts
  <2>4. Restrict(Restrict(a, V), V \ {h}) = c
    BY <1>3, <2>1, <2>3 DEF Restrict
  <2>5. IsRestriction(c, Restrict(a, V))
    <3>1. V \ {h} \subseteq V
      OBVIOUS
    <3> HIDE DEF V, c
    <3> QED
      BY <1>3, <2>1, <2>4, <3>1, RestrictFacts
  <2>6. ValueAt(fs, D, a) \in Nat
    BY ValueFacts
  <2> QED
    BY <2>1, <2>5, <2>6
<1>12. ASSUME NEW e \in Sc PROVE q[e] = SumFunctionOnSet(f, {a \in S : F[a] = e})
  <2> DEFINE x == [k \in K |-> IF k = h THEN e[h] ELSE b[k]]
             w == Entries(fs, D, x)
  <2>1. e \in Assign(V) /\ \A k \in V \ {h} : e[k] = b[k]
    <3> DEFINE M == V \ {h}
    <3>1. M \subseteq V /\ e \in Assign(V) /\ c \in Assign(M) /\ IsRestriction(c, e)
      BY <1>3
    <3> HIDE DEF V, c, M
    <3>2. Restrict(e, M) = c /\ \A k \in M : Restrict(e, M)[k] = e[k]
      BY <3>1, RestrictFacts
    <3> QED
      BY <1>3, <3>1, <3>2 DEF M
  <2>2. x \in Assign(K) /\ \A k \in V : x[k] = e[k]
    BY <1>2, <2>1 DEF Assign
  <2>3. \A k \in K \ {h} : x[k] = b[k]
    OBVIOUS
  <2>4. x \in S /\ F[x] = e
    <3>1. Restrict(x, K \ {h}) = b
      BY <2>2, <2>3 DEF Restrict, Assign
    <3>2. IsRestriction(b, x)
      BY <2>2, <3>1, RestrictFacts
    <3>3. Restrict(x, V) = e
      BY <2>1, <2>2 DEF Restrict, Assign
    <3> QED
      BY <2>2, <3>2, <3>3
  <2>5. ASSUME NEW a \in S, F[a] = e PROVE a = x
    <3> DEFINE M == K \ {h}
    <3>0. M \subseteq K /\ a \in Assign(K) /\ b \in Assign(M) /\ IsRestriction(b, a)
      OBVIOUS
    <3>2. \A k \in K \ {h} : a[k] = b[k]
      <4> HIDE DEF M
      <4>1. Restrict(a, M) = b /\ \A k \in M : Restrict(a, M)[k] = a[k]
        BY <3>0, RestrictFacts
      <4> QED
        BY <4>1 DEF M
    <3>3. a[h] = e[h]
      <4>1. Restrict(a, V) = e
        BY <2>5
      <4> HIDE DEF V
      <4> QED
        BY <1>2, <3>0, <4>1, RestrictFacts
    <3>4. \A k \in K : a[k] = x[k]
      BY <3>2, <3>3
    <3> QED
      BY <2>2, <3>4 DEF Assign
  <2>6. {a \in S : F[a] = e} = {x}
    <3> HIDE DEF S, F, x
    <3> QED
      BY <2>4, <2>5
  <2> HIDE DEF x
  <2>7. /\ f[x] = ProductOnSet(w, D)
        /\ \A i \in D : w[i] \in Nat
    BY <2>2, ValueFacts
  <2>8. D = (D \ U) \union U /\ (D \ U) \intersect U = {}
    BY <1>1
  <2>9. ProductOnSet(w, D) = ProductOnSet(w, D \ U) * ProductOnSet(w, U)
    <3>1. \A i \in (D \ U) \union U : w[i] \in Int
      BY <2>7, <2>8
    <3> HIDE DEF w, D, U
    <3> QED
      BY <1>1, <2>8, <3>1, ProductOfUnion
  <2>10. ProductOnSet(w, D \ U) = R
    <3>1. ASSUME NEW i \in D \ U PROVE w[i] = t[i]
      <4>1. Restrict(x, fs[i].vars) = Restrict(b, fs[i].vars)
        <5>1. \A k \in fs[i].vars : x[k] = b[k]
          BY <1>5, <2>3
        <5> QED
          BY <5>1 DEF Restrict
      <4>2. w[i] = fs[i].table[Restrict(x, fs[i].vars)]
        BY DEF Entries
      <4> HIDE DEF w, t
      <4> QED
        BY <1>5, <4>1, <4>2
    <3> HIDE DEF w, t, D, U
    <3> QED
      BY <1>1, <3>1, ProductSame
  <2>11. ProductOnSet(w, U) = pt[e]
    <3> DEFINE z == Entries(fs, U, e)
    <3>1. ASSUME NEW i \in U PROVE w[i] = z[i]
      <4>1. Restrict(x, fs[i].vars) = Restrict(e, fs[i].vars)
        <5>1. \A k \in fs[i].vars : x[k] = e[k]
          BY <2>2 DEF VarsOf
        <5> QED
          BY <5>1 DEF Restrict
      <4>2. w[i] = fs[i].table[Restrict(x, fs[i].vars)]
        BY <1>1 DEF Entries
      <4>3. z[i] = fs[i].table[Restrict(e, fs[i].vars)]
        BY DEF Entries
      <4> HIDE DEF w, z
      <4> QED
        BY <4>1, <4>2, <4>3
    <3>2. pt[e] = ProductOnSet(z, U)
      BY <1>7, <2>1 DEF ValueAt, Entries
    <3> HIDE DEF w, z, U, pt
    <3>3. ProductOnSet(w, U) = ProductOnSet(z, U)
      BY <1>1, <3>1, ProductSame
    <3> QED
      BY <3>2, <3>3
  <2>12. q[e] = R * pt[e]
    OBVIOUS
  <2>13. f[x] = q[e] /\ f[x] \in Int
    <3> HIDE DEF q, R, pt, f, w, S, F
    <3> QED
      BY <1>11, <2>4, <2>7, <2>9, <2>10, <2>11, <2>12
  <2> HIDE DEF f, q, S, F
  <2>14. SumFunctionOnSet(f, {x}) = f[x]
    BY <2>13, SumOfSingle
  <2> QED
    BY <2>6, <2>13, <2>14
<1>13. \A e \in Sc : q[e] = SumFunctionOnSet(f, {a \in S : F[a] = e})
  BY <1>12
<1> HIDE DEF S, Sc, F, q, f, pt, R
<1>14. SumFunctionOnSet(q, Sc) = SumFunctionOnSet(f, S)
  <2>1. GroupSums(q, Sc, f, S, F)
    BY <1>11, <1>13 DEF GroupSums
  <2> QED
    BY <1>8, <1>11, <2>1, SumOfGroups
<1> HIDE DEF g
<1>15. ValueAt(g, DOMAIN g, b) = SumFunctionOnSet(f, S)
  BY <1>9, <1>10, <1>14
<1> QED
  BY <1>15 DEF g, f, S
\* What a round does to the variables of the family.
LEMMA EliminatedFacts ==
    ASSUME NEW fs, GoodFamily(fs), IsFiniteSet(DOMAIN fs), NEW h \in VarsOf(fs, DOMAIN fs),
           h \in DOMAIN fs => h \in fs[h].vars
    PROVE  LET g == Eliminated(fs, h)
               V == VarsOf(fs, UsesIn(fs, h))
           IN  /\ DOMAIN g = (DOMAIN fs \ UsesIn(fs, h)) \union {h}
               /\ g[h].vars = V \ {h}
               /\ \A i \in DOMAIN fs \ UsesIn(fs, h) : i \in DOMAIN g /\ i # h /\ g[i] = fs[i]
               /\ VarsOf(g, DOMAIN g) = VarsOf(fs, DOMAIN fs) \ {h}
               /\ GoodFamily(g)
<1> DEFINE D == DOMAIN fs
           U == UsesIn(fs, h)
           V == VarsOf(fs, U)
           g == Eliminated(fs, h)
           pt == [a \in Assign(V) |-> ValueAt(fs, U, a)]
<1>1. DOMAIN g = (D \ U) \union {h}
  BY DEF Eliminated
<1>2. \A i \in D \ U : i \in DOMAIN g /\ i # h /\ g[i] = fs[i]
  BY DEF Eliminated, UsesIn
<1>3. /\ g[h].vars = V \ {h}
      /\ g[h].table = [x \in Assign(V \ {h}) |-> SumFunctionOnSet(pt, {a \in Assign(V) : IsRestriction(x, a)})]
  <2>1. g[h] = SumOut(Product(fs, U), {h})
    BY DEF Eliminated
  <2>2. Product(fs, U).vars = V /\ Product(fs, U).table = pt
    BY DEF Product
  <2> HIDE DEF g, V, U, pt
  <2> QED
    BY <2>1, <2>2 DEF SumOut
<1>4. V \subseteq VarsOf(fs, D) /\ U \subseteq D
  BY DEF VarsOf, UsesIn
<1>5. VarsOf(g, DOMAIN g) = VarsOf(fs, D) \ {h}
  <2>1. ASSUME NEW u, u \in VarsOf(g, DOMAIN g) PROVE u \in VarsOf(fs, D) \ {h}
    <3>1. PICK i \in DOMAIN g : u \in g[i].vars
      BY <2>1 DEF VarsOf
    <3>2. CASE i = h
      BY <1>3, <1>4, <3>1, <3>2
    <3>3. CASE i \in D \ U
      <4>1. u \in fs[i].vars /\ h \notin fs[i].vars
        BY <1>2, <3>1, <3>3 DEF UsesIn
      <4> QED
        BY <3>3, <4>1 DEF VarsOf
    <3> QED
      BY <1>1, <3>2, <3>3
  <2>2. ASSUME NEW u, u \in VarsOf(fs, D), u # h PROVE u \in VarsOf(g, DOMAIN g)
    <3>1. PICK i \in D : u \in fs[i].vars
      BY <2>2 DEF VarsOf
    <3>2. CASE i \in U
      <4>1. u \in V
        BY <3>1, <3>2 DEF VarsOf
      <4>2. u \in g[h].vars /\ h \in DOMAIN g
        BY <1>1, <1>3, <2>2, <4>1
      <4> HIDE DEF g
      <4> QED
        BY <4>2 DEF VarsOf
    <3>3. CASE i \notin U
      <4>1. i \in DOMAIN g /\ u \in g[i].vars
        BY <1>2, <3>1, <3>3
      <4> HIDE DEF g
      <4> QED
        BY <4>1 DEF VarsOf
    <3> QED
      BY <3>2, <3>3
  <2>3. h \notin VarsOf(g, DOMAIN g)
    BY <2>1
  <2> HIDE DEF g, D
  <2> QED
    BY <2>1, <2>2, <2>3
<1>6. GoodFamily(g)
  <2>0. VarsOf(fs, D) \subseteq Nodes
    BY DEF GoodFamily, VarsOf
  <2>1. g[h].vars \subseteq Nodes
    BY <1>3, <1>4, <2>0
  <2>2. ASSUME NEW x \in Assign(g[h].vars) PROVE g[h].table[x] \in Nat
    <3> DEFINE A == {a \in Assign(V) : IsRestriction(x, a)}
    <3>1. IsFiniteSet(V) /\ IsFiniteSet(U)
      BY <1>4, <2>0, NodesFinite, FS_Subset
    <3>2. IsFiniteSet(A)
      BY <3>1, AssignFinite, FS_Subset
    <3>3. \A a \in A : pt[a] \in Nat
      <4>1. \A a \in Assign(V) : ValueAt(fs, U, a) \in Nat
        <5> HIDE DEF U
        <5> QED
          BY <1>4, <3>1, ValueFacts
      <4> QED
        BY <4>1
    <3> HIDE DEF A, pt
    <3>4. SumFunctionOnSet(pt, A) \in Nat
      BY <3>2, <3>3, SumOfNats
    <3>5. g[h].table[x] = SumFunctionOnSet(pt, A)
      <4> HIDE DEF g, V
      <4> QED
        BY <1>3, <2>2 DEF A
    <3> QED
      BY <3>4, <3>5
  <2>3. \A i \in D \ U : g[i].vars \subseteq Nodes /\ \A a \in Assign(g[i].vars) : g[i].table[a] \in Nat
    BY <1>2 DEF GoodFamily
  <2> HIDE DEF g, U, D
  <2> QED
    BY <1>1, <2>1, <2>2, <2>3 DEF GoodFamily
<1> HIDE DEF g, V, U, D
<1> QED
  BY <1>1, <1>2, <1>3, <1>5, <1>6 DEF g, V, U, D

-----------------------------------------------------------------------------
(* Ancestors                                                               *)

IsAncestry(anc) == anc = [u \in Nodes |-> parents[u] \union UNION {anc[p] : p \in parents[u]}]

\* The recursion of Ancestors is well founded, since parents have smaller numbers.
LEMMA AncestryExists == ASSUME StructureOK PROVE \E anc : IsAncestry(anc)
<1> DEFINE Good(g, n) == \A u \in Nodes : u <= n => g[u] = parents[u] \union UNION {g[p] : p \in parents[u]}
           G == {n \in Nat : \E g : Good(g, n)}
<1>0. \A u \in Nodes : u \in Nat \ {0} /\ \A p \in parents[u] : p \in Nodes /\ p < u
  <2>1. \A u \in Nodes : u \in Nat \ {0} /\ parents[u] \subseteq Nodes /\ parents[u] \subseteq 1 .. (u - 1)
    BY NodesFinite DEF StructureOK
  <2>2. \A u \in Nat : \A p \in 1 .. (u - 1) : p < u
    OBVIOUS
  <2> QED
    BY <2>1, <2>2
<1>1. 0 \in G
  <2>1. Good([u \in Nodes |-> {}], 0)
    BY <1>0
  <2> HIDE DEF Good
  <2> QED
    BY <2>1
<1>2. ASSUME NEW n \in Nat, n \in G PROVE n + 1 \in G
  <2>1. PICK g : Good(g, n)
    BY <1>2
  <2> DEFINE h == [u \in Nodes |-> IF u <= n THEN g[u] ELSE parents[u] \union UNION {g[p] : p \in parents[u]}]
  <2>2. ASSUME NEW u \in Nodes, u <= n + 1
        PROVE  h[u] = parents[u] \union UNION {h[p] : p \in parents[u]}
    <3>1. \A p \in parents[u] : h[p] = g[p]
      BY <1>0, <2>2
    <3>2. {h[p] : p \in parents[u]} = {g[p] : p \in parents[u]}
      BY <3>1
    <3>3. h[u] = parents[u] \union UNION {g[p] : p \in parents[u]}
      BY <2>1
    <3> HIDE DEF h
    <3> QED
      BY <3>2, <3>3
  <2> HIDE DEF h
  <2>3. Good(h, n + 1)
    BY <2>2
  <2> HIDE DEF Good
  <2> QED
    BY <2>3
<1>3. N \in G
  <2> HIDE DEF G
  <2> QED
    BY <1>1, <1>2, NatSet, NAssumption
<1>4. PICK g : Good(g, N)
  BY <1>3
<1>5. \A u \in Nodes : u <= N
  BY NAssumption DEF Nodes
<1> DEFINE h == [u \in Nodes |-> g[u]]
<1>6. ASSUME NEW u \in Nodes PROVE h[u] = parents[u] \union UNION {h[p] : p \in parents[u]}
  <2>1. {h[p] : p \in parents[u]} = {g[p] : p \in parents[u]}
    BY <1>0
  <2>2. h[u] = g[u]
    OBVIOUS
  <2> HIDE DEF h
  <2> QED
    BY <1>4, <1>5, <2>1, <2>2
<1>7. h = [u \in Nodes |-> h[u]]
  OBVIOUS
<1> HIDE DEF h
<1>8. h = [u \in Nodes |-> parents[u] \union UNION {h[p] : p \in parents[u]}]
  BY <1>6, <1>7
<1> QED
  BY <1>8 DEF IsAncestry

LEMMA AncestorsStep ==
    ASSUME StructureOK, NEW v \in Nodes
    PROVE  Ancestors(v) = parents[v] \union UNION {Ancestors(p) : p \in parents[v]}
<1> DEFINE anc == CHOOSE anc : IsAncestry(anc)
<1>1. \A u : Ancestors(u) = anc[u]
  BY DEF Ancestors, IsAncestry
<1>2. IsAncestry(anc)
  BY AncestryExists
<1> HIDE DEF anc
<1>3. anc[v] = parents[v] \union UNION {anc[p] : p \in parents[v]}
  BY <1>2 DEF IsAncestry
<1> QED
  BY <1>1, <1>3

\* With a node, its parents are ancestors, and each ancestor is a parent of an
\* ancestor or of the node itself.
AncestorsOK(v) == /\ Ancestors(v) \subseteq Nodes
                  /\ \A u \in Ancestors(v) : /\ parents[u] \subseteq Ancestors(v)
                                             /\ \E w \in {v} \union Ancestors(v) : u \in parents[w]

LEMMA AncestorsFacts == ASSUME StructureOK PROVE \A v \in Nodes : AncestorsOK(v)
<1> DEFINE G == {n \in Nat : \A v \in Nodes : v <= n => AncestorsOK(v)}
<1>0. \A u \in Nodes : u \in Nat \ {0} /\ \A p \in parents[u] : p \in Nodes /\ p < u
  <2>1. \A u \in Nodes : u \in Nat \ {0} /\ parents[u] \subseteq Nodes /\ parents[u] \subseteq 1 .. (u - 1)
    BY NodesFinite DEF StructureOK
  <2>2. \A u \in Nat : \A p \in 1 .. (u - 1) : p < u
    OBVIOUS
  <2> QED
    BY <2>1, <2>2
<1>1. 0 \in G
  BY <1>0
<1>2. ASSUME NEW n \in Nat, n \in G PROVE n + 1 \in G
  <2>1. ASSUME NEW v \in Nodes, v <= n + 1 PROVE AncestorsOK(v)
    <3>1. \A p \in parents[v] : p \in Nodes /\ AncestorsOK(p)
      BY <1>0, <1>2, <2>1
    <3>2. /\ parents[v] \subseteq Ancestors(v)
          /\ \A p \in parents[v] : Ancestors(p) \subseteq Ancestors(v)
          /\ \A u \in Ancestors(v) : u \in parents[v] \/ \E p \in parents[v] : u \in Ancestors(p)
      BY AncestorsStep
    <3>3. Ancestors(v) \subseteq Nodes
      BY <3>1, <3>2 DEF AncestorsOK
    <3>4. ASSUME NEW u \in Ancestors(v)
          PROVE  parents[u] \subseteq Ancestors(v) /\ \E w \in {v} \union Ancestors(v) : u \in parents[w]
      <4>1. CASE u \in parents[v]
        <5>1. parents[u] \subseteq Ancestors(u)
          BY <3>1, <4>1, AncestorsStep
        <5> QED
          BY <3>2, <4>1, <5>1
      <4>2. CASE \E p \in parents[v] : u \in Ancestors(p)
        <5>1. PICK p \in parents[v] : u \in Ancestors(p)
          BY <4>2
        <5>2. parents[u] \subseteq Ancestors(p) /\ \E w \in {p} \union Ancestors(p) : u \in parents[w]
          BY <3>1, <5>1 DEF AncestorsOK
        <5> QED
          BY <3>2, <5>1, <5>2
      <4> QED
        BY <3>2, <4>1, <4>2
    <3> QED
      BY <3>3, <3>4 DEF AncestorsOK
  <2> QED
    BY <2>1
<1>3. N \in G
  <2> HIDE DEF G
  <2> QED
    BY <1>1, <1>2, NatSet, NAssumption
<1>4. \A v \in Nodes : v <= N
  BY NAssumption DEF Nodes
<1> QED
  BY <1>3, <1>4

\* The relevant nodes are closed under parents, and every one of them that is
\* not asked for is a parent of another.
LEMMA RelevantFacts ==
    ASSUME StructureOK, NEW q, q \subseteq Nodes, NEW e, DOMAIN e \subseteq Nodes
    PROVE  /\ Relevant(q, e) \subseteq Nodes
           /\ q \union DOMAIN e \subseteq Relevant(q, e)
           /\ \A v \in Relevant(q, e) : Family(v) \subseteq Relevant(q, e)
           /\ \A u \in Relevant(q, e) \ (q \union DOMAIN e) :
                 \E w \in Relevant(q, e) : u \in parents[w]
<1> DEFINE asked == q \union DOMAIN e
<1>1. \A v \in asked : v \in Nodes /\ AncestorsOK(v) /\ parents[v] \subseteq Ancestors(v)
  BY AncestorsFacts, AncestorsStep
<1>2. Relevant(q, e) = asked \union UNION {Ancestors(v) : v \in asked}
  BY DEF Relevant
<1> HIDE DEF asked
<1>3. Relevant(q, e) \subseteq Nodes
  BY <1>1, <1>2 DEF AncestorsOK
<1>4. ASSUME NEW v \in Relevant(q, e) PROVE Family(v) \subseteq Relevant(q, e)
  <2>1. CASE v \in asked
    BY <1>1, <1>2, <2>1 DEF Family
  <2>2. CASE \E w \in asked : v \in Ancestors(w)
    BY <1>1, <1>2, <2>2 DEF Family, AncestorsOK
  <2> QED
    BY <1>2, <2>1, <2>2
<1>5. ASSUME NEW u \in Relevant(q, e) \ asked PROVE \E w \in Relevant(q, e) : u \in parents[w]
  <2>1. PICK v \in asked : u \in Ancestors(v)
    BY <1>2
  <2>2. \E w \in {v} \union Ancestors(v) : u \in parents[w]
    BY <1>1, <2>1 DEF AncestorsOK
  <2> QED
    BY <1>2, <2>2
<1> QED
  BY <1>2, <1>3, <1>4, <1>5 DEF asked
-----------------------------------------------------------------------------
(* Variable elimination                                                    *)

Rel == Relevant(query, event)
Live == query \union DOMAIN event \union hidden

\* The tables that the query starts from, and their product: the joint
\* distribution of the relevant nodes, cut down to the event.
Started == [v \in Rel |-> FactorOf(v, event)]
Constrained == [x \in Assign(Rel) |-> ValueAt(Started, Rel, x)]

AskOK == /\ query \subseteq Nodes /\ query # {}
         /\ DOMAIN event \subseteq Nodes /\ event \in Assign(DOMAIN event)
         /\ query \intersect DOMAIN event = {}
         /\ hidden \subseteq Rel \ (query \union DOMAIN event)

\* The factors are over what is still to be summed out, asked for or given; a
\* sum stands where the table of its node was.
FamilyOK == /\ GoodFamily(factors)
            /\ DOMAIN factors \subseteq Nodes
            /\ VarsOf(factors, DOMAIN factors) = Live
            /\ \A i \in DOMAIN factors \intersect hidden : i \in factors[i].vars

\* What is to be summed out shares a factor with a later node.
Linked == \A h \in hidden : \E i \in DOMAIN factors :
             h \in factors[i].vars /\ \E u \in factors[i].vars : u > h

\* The product of the factors is the product of all tables, summed over what
\* has been eliminated.
SumsKept == \A a \in Assign(Live) :
               ValueAt(factors, DOMAIN factors, a)
                  = SumFunctionOnSet(Constrained, {x \in Assign(Rel) : IsRestriction(a, x)})

ElimInv == phase = "eliminate" => learned /\ AskOK /\ FamilyOK /\ Linked /\ SumsKept
NetInv == LearnInv /\ ElimInv

\* The multiples of 1/Scale that the tables hold.
LEMMA WeightFacts ==
    ASSUME LearnInv, learned, NEW v \in Nodes, NEW L, Family(v) \subseteq L, NEW a \in Assign(L)
    PROVE  Weight(v, a) \in Nat /\ Weight(v, Restrict(a, Family(v))) = Weight(v, a)
<1> DEFINE F == Family(v)
           k == Restrict(a, F)
<1>0. StructureOK /\ data \in [Rows -> Nat] /\ TablesOK
  BY DEF LearnInv
<1>1. k \in Assign(F) /\ Restrict(k, F) = k
  <2>1. k \in Assign(F)
    BY RestrictFacts
  <2> HIDE DEF k
  <2> QED
    BY <2>1 DEF Restrict, Assign
<1>2. CountOf(v, k) \in Nat /\ TotalOf(v, Key(v, k)) \in Nat
  BY <1>0, <1>1, CountFacts
<1>3. P[v][k] = [n |-> CountOf(v, k), d |-> Max({1, TotalOf(v, Key(v, k))})]
  <2> HIDE DEF k
  <2>1. P[v] = [key \in Assign(F) |-> [n |-> CountOf(v, key), d |-> Max({1, TotalOf(v, Key(v, key))})]]
    BY <1>0 DEF TablesOK
  <2> HIDE DEF F
  <2> QED
    BY <1>1, <2>1
<1>4. Max({1, TotalOf(v, Key(v, k))}) \in Nat \ {0}
  <2> HIDE DEF k
  <2> QED
    BY <1>2, MaxOne
<1>5. \A n \in Nat, d \in Nat \ {0} : n * (Scale \div d) \in Nat
  <2>1. \A d \in Nat \ {0} : Scale \div d \in Nat
    BY ScaleAssumption
  <2>2. \A n, m \in Nat : n * m \in Nat
    OBVIOUS
  <2> QED
    BY <2>1, <2>2
<1>6. Weight(v, a) = P[v][k].n * (Scale \div P[v][k].d)
  BY DEF Weight
<1>7. Weight(v, k) = Weight(v, a)
  BY <1>1 DEF Weight
<1> HIDE DEF k, F
<1>8. P[v][k].n \in Nat /\ P[v][k].d \in Nat \ {0}
  BY <1>2, <1>3, <1>4
<1> QED
  BY <1>5, <1>6, <1>7, <1>8 DEF k, F

\* The family that a query starts from.
LEMMA StartFacts ==
    ASSUME LearnInv, learned, NEW q, q \subseteq Nodes, NEW e, DOMAIN e \subseteq Nodes
    PROVE  LET rel == Relevant(q, e)
               fs == [v \in rel |-> FactorOf(v, e)]
           IN  /\ GoodFamily(fs)
               /\ IsFiniteSet(rel)
               /\ VarsOf(fs, rel) = rel
               /\ \A v \in rel : fs[v].vars = Family(v)
<1> DEFINE rel == Relevant(q, e)
           fs == [v \in rel |-> FactorOf(v, e)]
<1>0. StructureOK
  BY DEF LearnInv
<1>1. rel \subseteq Nodes /\ \A v \in rel : Family(v) \subseteq rel
  BY <1>0, RelevantFacts
<1> HIDE DEF rel
<1>2. \A v \in rel : fs[v].vars = Family(v) /\ v \in Family(v)
  BY DEF FactorOf, Family
<1>3. ASSUME NEW v \in rel, NEW a \in Assign(Family(v)) PROVE fs[v].table[a] \in Nat
  <2>1. Weight(v, a) \in Nat
    BY <1>1, WeightFacts
  <2>2. fs[v].table[a] = IF \A u \in Family(v) \intersect DOMAIN e : a[u] = e[u] THEN Weight(v, a) ELSE 0
    BY DEF FactorOf
  <2> QED
    BY <2>1, <2>2
<1>4. GoodFamily(fs)
  BY <1>1, <1>2, <1>3 DEF GoodFamily
<1>5. VarsOf(fs, rel) = rel
  <2> HIDE DEF fs
  <2> QED
    BY <1>1, <1>2 DEF VarsOf
<1>6. IsFiniteSet(rel)
  BY <1>1, NodesFinite, FS_Subset
<1> QED
  BY <1>2, <1>4, <1>5, <1>6 DEF rel

\* What there is of a state in the middle of a query.
LEMMA QueryFacts ==
    ASSUME NetInv, phase = "eliminate"
    PROVE  /\ Rel \subseteq Nodes /\ IsFiniteSet(Rel)
           /\ Live \subseteq Rel /\ query \subseteq Live
           /\ IsFiniteSet(DOMAIN factors)
           /\ \A x \in Assign(Rel) : Constrained[x] \in Nat
<1>0. LearnInv /\ learned /\ AskOK /\ FamilyOK
  BY DEF NetInv, ElimInv
<1>1. Rel \subseteq Nodes /\ query \union DOMAIN event \subseteq Rel
  BY <1>0, RelevantFacts DEF LearnInv, AskOK, Rel
<1>2. IsFiniteSet(Rel) /\ IsFiniteSet(DOMAIN factors)
  BY <1>0, <1>1, NodesFinite, FS_Subset DEF FamilyOK
<1>3. Live \subseteq Rel /\ query \subseteq Live
  BY <1>0, <1>1 DEF Live, AskOK
<1>4. GoodFamily(Started) /\ VarsOf(Started, Rel) = Rel
  BY <1>0, StartFacts DEF AskOK, Started, Rel
<1>5. DOMAIN Started = Rel
  BY DEF Started
<1>6. ASSUME NEW x \in Assign(Rel) PROVE Constrained[x] \in Nat
  <2>1. ValueAt(Started, Rel, x) \in Nat
    BY <1>2, <1>4, <1>5, ValueFacts
  <2> QED
    BY <2>1 DEF Constrained
<1> QED
  BY <1>1, <1>2, <1>3, <1>6

LEMMA AskKeeps ==
    ASSUME NetInv, NEW q \in SUBSET Nodes, NEW S \in SUBSET (Nodes \ q), NEW e \in Assign(S), Ask(q, e)
    PROVE  ElimInv'
<1>0. LearnInv /\ learned
  BY DEF NetInv, Ask
<1>1. /\ parents' = parents /\ P' = P /\ sizes' = sizes /\ learned' = learned
      /\ query' = q /\ event' = e /\ q # {} /\ q \intersect DOMAIN e = {}
      /\ hidden' = Relevant(q, e) \ (q \union DOMAIN e)
      /\ factors' = [v \in Relevant(q, e) |-> FactorOf(v, e)]
  BY DEF Ask, netVars, learnVars
<1> DEFINE rel == Relevant(q, e)
           fs == [v \in rel |-> FactorOf(v, e)]
<1>2. DOMAIN e = S /\ DOMAIN e \subseteq Nodes
  BY DEF Assign
<1>3. /\ rel \subseteq Nodes /\ q \union DOMAIN e \subseteq rel
      /\ \A u \in rel \ (q \union DOMAIN e) : \E w \in rel : u \in parents[w]
  BY <1>0, <1>2, RelevantFacts DEF LearnInv
<1>4. /\ GoodFamily(fs) /\ IsFiniteSet(rel) /\ VarsOf(fs, rel) = rel
      /\ \A v \in rel : fs[v].vars = Family(v)
  BY <1>0, <1>2, StartFacts
<1>5. /\ Rel' = rel /\ factors' = fs /\ Started' = fs
      /\ \A d, x : Restrict(d, x)' = Restrict(d, x)
  BY <1>1 DEF Rel, Relevant, Ancestors, Started, FactorOf, Weight, Family
<1>6. DOMAIN fs = rel
  OBVIOUS
<1> HIDE DEF rel, fs
<1>7. Live' = rel
  BY <1>1, <1>3 DEF Live, rel
<1>8. AskOK'
  BY <1>1, <1>2, <1>5 DEF AskOK, rel
<1>9. FamilyOK'
  <2>1. GoodFamily(factors)' /\ VarsOf(factors, DOMAIN factors)' = rel
    BY <1>4, <1>5, <1>6 DEF GoodFamily, VarsOf
  <2>2. \A i \in rel : i \in fs[i].vars
    BY <1>4 DEF Family
  <2> QED
    BY <1>3, <1>5, <1>6, <1>7, <2>1, <2>2 DEF FamilyOK
<1>10. Linked'
  <2>1. ASSUME NEW h \in rel \ (q \union DOMAIN e)
        PROVE  \E i \in DOMAIN fs : h \in fs[i].vars /\ \E u \in fs[i].vars : u > h
    <3>1. PICK w \in rel : h \in parents[w]
      BY <1>3
    <3>2. h \in fs[w].vars /\ w \in fs[w].vars
      BY <1>4, <3>1 DEF Family
    <3>3. w > h
      <4>1. w \in Nat /\ h \in 1 .. (w - 1)
        BY <1>0, <1>3, <3>1, NodesFinite DEF LearnInv, StructureOK
      <4> QED
        BY <4>1
    <3> QED
      BY <1>6, <3>2, <3>3
  <2> QED
    BY <1>1, <1>5, <2>1 DEF Linked, rel
<1>11. SumsKept'
  <2>1. ASSUME NEW a \in Assign(rel)
        PROVE  ValueAt(fs, rel, a) = SumFunctionOnSet([x \in Assign(rel) |-> ValueAt(fs, rel, x)],
                                                      {x \in Assign(rel) : IsRestriction(a, x)})
    <3> DEFINE w == [x \in Assign(rel) |-> ValueAt(fs, rel, x)]
    <3>1. \A x \in Assign(rel) : IsRestriction(a, x) <=> Restrict(x, rel) = a
      BY RestrictFacts
    <3>2. \A x \in Assign(rel) : Restrict(x, rel) = x
      BY DEF Restrict, Assign
    <3>3. {x \in Assign(rel) : IsRestriction(a, x)} = {a}
      BY <3>1, <3>2
    <3>4. w[a] = ValueAt(fs, rel, a) /\ w[a] \in Int
      <4>1. ValueAt(fs, rel, a) \in Nat
        BY <1>4, <1>6, ValueFacts
      <4> QED
        BY <4>1
    <3> HIDE DEF w
    <3>5. SumFunctionOnSet(w, {a}) = w[a]
      BY <3>4, SumOfSingle
    <3> QED
      BY <3>3, <3>4, <3>5 DEF w
  <2>2. Constrained' = [x \in Assign(rel) |-> ValueAt(fs, rel, x)]
    BY <1>5 DEF Constrained, ValueAt
  <2>3. \A a : ValueAt(factors, DOMAIN factors, a)' = ValueAt(fs, rel, a)
    BY <1>5, <1>6 DEF ValueAt
  <2> QED
    BY <1>5, <1>7, <2>1, <2>2, <2>3 DEF SumsKept
<1> QED
  BY <1>0, <1>1, <1>8, <1>9, <1>10, <1>11 DEF ElimInv

LEMMA EliminateKeeps ==
    ASSUME NetInv, NEW h \in Nodes, Eliminate(h)
    PROVE  ElimInv'
<1>0. /\ LearnInv /\ learned /\ AskOK /\ FamilyOK /\ Linked /\ SumsKept
      /\ phase = "eliminate" /\ h \in hidden
  BY DEF NetInv, ElimInv, Eliminate
<1> DEFINE D == DOMAIN factors
           U == UsesIn(factors, h)
           g == Eliminated(factors, h)
<1>1. /\ parents' = parents /\ P' = P /\ sizes' = sizes /\ learned' = learned /\ phase' = phase
      /\ query' = query /\ event' = event /\ hidden' = hidden \ {h}
      /\ factors' = g
  BY DEF Eliminate, netVars, learnVars, Uses, UsesIn, Eliminated
<1>2. Rel' = Rel /\ Started' = Started /\ Constrained' = Constrained
  <2>1. Rel' = Rel /\ Started' = Started
    BY <1>1 DEF Rel, Relevant, Ancestors, Started, FactorOf, Weight, Family
  <2> QED
    BY <2>1 DEF Constrained, ValueAt
<1>3. Rel \subseteq Nodes /\ IsFiniteSet(Rel) /\ Live \subseteq Rel /\ IsFiniteSet(D)
  BY <1>0, QueryFacts
<1>4. GoodFamily(factors) /\ VarsOf(factors, D) = Live /\ h \in VarsOf(factors, D)
  BY <1>0 DEF FamilyOK, Live
<1>5. h \in D => h \in factors[h].vars
  BY <1>0 DEF FamilyOK
<1>6. /\ DOMAIN g = (D \ U) \union {h}
      /\ g[h].vars = VarsOf(factors, U) \ {h}
      /\ \A i \in D \ U : i \in DOMAIN g /\ i # h /\ g[i] = factors[i]
      /\ VarsOf(g, DOMAIN g) = Live \ {h}
      /\ GoodFamily(g)
  BY <1>3, <1>4, <1>5, EliminatedFacts
<1>7. Live' = Live \ {h}
  BY <1>0, <1>1 DEF Live, AskOK
<1>8. AskOK'
  BY <1>0, <1>1, <1>2 DEF AskOK
<1> HIDE DEF g
<1>9. FamilyOK'
  <2>1. GoodFamily(factors)' /\ VarsOf(factors, DOMAIN factors)' = Live'
    BY <1>1, <1>6, <1>7 DEF GoodFamily, VarsOf
  <2>2. DOMAIN g \subseteq Nodes
    BY <1>0, <1>6 DEF FamilyOK
  <2>3. \A i \in DOMAIN g \intersect (hidden \ {h}) : i \in g[i].vars
    BY <1>0, <1>6 DEF FamilyOK
  <2> QED
    BY <1>1, <2>1, <2>2, <2>3 DEF FamilyOK
<1>10. Linked'
  <2>0. PICK j \in D : h \in factors[j].vars /\ \E u \in factors[j].vars : u > h
    BY <1>0 DEF Linked
  <2>1. PICK z \in factors[j].vars : h \in factors[j].vars /\ z > h
    BY <2>0
  <2>2. j \in U /\ z \in g[h].vars
    <3>1. j \in U /\ z \in VarsOf(factors, U)
      BY <2>1 DEF UsesIn, VarsOf
    <3>2. z # h
      <4>1. h \in Nat
        BY NodesFinite
      <4> QED
        BY <2>1, <4>1
    <3> QED
      BY <1>6, <3>1, <3>2
  <2>3. ASSUME NEW k \in hidden \ {h}
        PROVE  \E i \in DOMAIN g : k \in g[i].vars /\ \E u \in g[i].vars : u > k
    <3>0. PICK i \in D : k \in factors[i].vars /\ \E u \in factors[i].vars : u > k
      BY <1>0, <2>3 DEF Linked
    <3>1. PICK u \in factors[i].vars : k \in factors[i].vars /\ u > k
      BY <3>0
    <3>2. CASE i \in D \ U
      BY <1>6, <3>1, <3>2
    <3>3. CASE i \in U
      <4>1. k \in g[h].vars /\ (u # h => u \in g[h].vars)
        <5>1. k \in VarsOf(factors, U) /\ u \in VarsOf(factors, U)
          BY <3>1, <3>3 DEF VarsOf
        <5> QED
          BY <1>6, <2>3, <5>1
      <4>2. u = h => z > k
        <5>1. k \in Nat /\ h \in Nat /\ z \in Nat
          <6>1. k \in Nodes /\ z \in Nodes
            BY <1>0, <1>3, <2>1, <3>1 DEF FamilyOK, GoodFamily
          <6> QED
            BY <6>1, NodesFinite
        <5> QED
          BY <2>1, <3>1, <5>1
      <4> QED
        BY <1>6, <2>2, <3>1, <4>1, <4>2
    <3> QED
      BY <3>2, <3>3
  <2> QED
    BY <1>1, <2>3 DEF Linked
<1>11. SumsKept'
  <2>1. ASSUME NEW b \in Assign(Live \ {h})
        PROVE  ValueAt(g, DOMAIN g, b) = SumFunctionOnSet(Constrained, {x \in Assign(Rel) : IsRestriction(b, x)})
    <3> DEFINE L == Live
               M == L \ {h}
               q == [a \in Assign(L) |-> ValueAt(factors, D, a)]
    <3>1. IsFiniteSet(L)
      BY <1>3, FS_Subset
    <3>2. ValueAt(g, DOMAIN g, b) = SumFunctionOnSet(q, {a \in Assign(L) : IsRestriction(b, a)})
      BY <1>3, <1>4, <1>5, <3>1, EliminationSums DEF g
    <3>3. Marginal(q, L, Constrained, Rel)
      BY <1>0 DEF SumsKept, Marginal
    <3>4. M \subseteq L /\ L \subseteq Rel /\ b \in Assign(M)
      BY <1>3
    <3>5. \A x \in Assign(Rel) : Constrained[x] \in Int
      BY <1>0, QueryFacts
    <3> HIDE DEF L, M, q, g
    <3>6. SumFunctionOnSet(q, {a \in Assign(L) : IsRestriction(b, a)})
            = SumFunctionOnSet(Constrained, {x \in Assign(Rel) : IsRestriction(b, x)})
      BY <1>3, <3>3, <3>4, <3>5, SumsRegroup
    <3> QED
      BY <3>2, <3>6
  <2>2. \A b : ValueAt(factors, DOMAIN factors, b)' = ValueAt(g, DOMAIN g, b)
    BY <1>1 DEF ValueAt
  <2> QED
    BY <1>2, <1>7, <2>1, <2>2 DEF SumsKept
<1> QED
  BY <1>0, <1>1, <1>8, <1>9, <1>10, <1>11 DEF ElimInv

\* The product of the tables cut down to the event is the joint distribution
\* where the event holds, and 0 elsewhere.
LEMMA ConstrainedIs ==
    ASSUME NetInv, phase = "eliminate", NEW x \in Assign(Rel)
    PROVE  Constrained[x] = IF IsRestriction(event, x) THEN RelevantJoint[x] ELSE 0
<1> DEFINE w == Entries(Started, Rel, x)
           j == [v \in Rel |-> Weight(v, x)]
<1>0. LearnInv /\ learned /\ AskOK
  BY DEF NetInv, ElimInv
<1>1. /\ Rel \subseteq Nodes /\ IsFiniteSet(Rel) /\ DOMAIN event \subseteq Rel
      /\ \A v \in Rel : Family(v) \subseteq Rel
  <2>1. StructureOK /\ query \subseteq Nodes /\ DOMAIN event \subseteq Nodes
    BY <1>0 DEF LearnInv, AskOK
  <2> QED
    BY <2>1, RelevantFacts, QueryFacts DEF Rel
<1>2. GoodFamily(Started) /\ VarsOf(Started, Rel) = Rel /\ DOMAIN Started = Rel
  BY <1>0, StartFacts DEF AskOK, Started, Rel
<1>3. Constrained[x] = ProductOnSet(w, Rel) /\ \A v \in Rel : w[v] \in Nat
  BY <1>1, <1>2, ValueFacts DEF Constrained
<1>4. \A v \in Rel : w[v] = IF \A u \in Family(v) \intersect DOMAIN event : x[u] = event[u]
                            THEN Weight(v, x) ELSE 0
  <2> SUFFICES ASSUME NEW v \in Rel
               PROVE  w[v] = IF \A u \in Family(v) \intersect DOMAIN event : x[u] = event[u]
                             THEN Weight(v, x) ELSE 0
    OBVIOUS
  <2> DEFINE k == Restrict(x, Family(v))
  <2>1. w[v] = FactorOf(v, event).table[k]
    BY DEF Entries, Started, FactorOf
  <2>2. k \in Assign(Family(v)) /\ \A u \in Family(v) : k[u] = x[u]
    BY <1>1, RestrictFacts
  <2>3. Weight(v, k) = Weight(v, x)
    BY <1>0, <1>1, WeightFacts
  <2> HIDE DEF k, w
  <2>4. FactorOf(v, event).table[k] = IF \A u \in Family(v) \intersect DOMAIN event : k[u] = event[u]
                                      THEN Weight(v, k) ELSE 0
    BY <2>2 DEF FactorOf
  <2> QED
    BY <2>1, <2>2, <2>3, <2>4
<1> HIDE DEF w
<1>5. DOMAIN x = Rel
  BY DEF Assign
<1>6. CASE IsRestriction(event, x)
  <2>1. \A u \in DOMAIN event : event[u] = x[u]
    BY <1>1, <1>5, <1>6 DEF IsRestriction
  <2>2. \A v \in Rel : w[v] = j[v]
    BY <1>4, <2>1
  <2>3. RelevantJoint[x] = ProductOnSet(j, Rel)
    BY <1>6 DEF RelevantJoint, Rel
  <2> HIDE DEF j
  <2>4. ProductOnSet(w, Rel) = ProductOnSet(j, Rel)
    BY <1>1, <2>2, ProductSame
  <2> QED
    BY <1>3, <1>6, <2>3, <2>4
<1>7. CASE ~IsRestriction(event, x)
  <2>1. PICK u \in DOMAIN event : event[u] # x[u]
    BY <1>1, <1>5, <1>7 DEF IsRestriction
  <2>2. u \in Rel /\ u \in Family(u)
    BY <1>1 DEF Family
  <2>3. w[u] = 0
    BY <1>4, <2>1, <2>2
  <2>4. ProductOnSet(w, Rel) = 0
    BY <1>1, <1>3, <2>2, <2>3, ProductOfNats
  <2> QED
    BY <1>3, <1>7, <2>4
<1> QED
  BY <1>6, <1>7

\* Whatever has been eliminated, the answer would be the posterior.
LEMMA PosteriorIs ==
    ASSUME NetInv, phase = "eliminate", NEW b \in Assign(query)
    PROVE  /\ Posterior.table[b] = SumFunctionOnSet(RelevantJoint, {a \in DOMAIN RelevantJoint : IsRestriction(b, a)})
           /\ Posterior.table[b] \in Nat
<1> DEFINE D == DOMAIN factors
           pt == [a \in Assign(Live) |-> ValueAt(factors, D, a)]
           E == {r \in Assign(Rel) : IsRestriction(event, r)}
           X == {x \in Assign(Rel) : IsRestriction(b, x)}
           Y == {a \in E : IsRestriction(b, a)}
           Z == {x \in X : ~IsRestriction(event, x)}
<1>0. LearnInv /\ learned /\ AskOK /\ FamilyOK /\ SumsKept
  BY DEF NetInv, ElimInv
<1>1. /\ Rel \subseteq Nodes /\ IsFiniteSet(Rel) /\ Live \subseteq Rel /\ query \subseteq Live
      /\ \A x \in Assign(Rel) : Constrained[x] \in Int
  BY QueryFacts
<1>2. Posterior.table[b] = SumFunctionOnSet(pt, {a \in Assign(Live) : IsRestriction(b, a)})
  <2> DEFINE p == Product(factors, D)
             S == Live \ query
  <2>1. VarsOf(factors, D) = Live
    BY <1>0 DEF FamilyOK
  <2>2. p.vars = Live /\ p.table = pt
    BY <2>1 DEF Product
  <2>3. Posterior = SumOut(p, S)
    BY <2>1 DEF Posterior
  <2>4. Live \ S = query
    BY <1>1
  <2> HIDE DEF p, pt, S
  <2>5. SumOut(p, S).table = [x \in Assign(query) |->
            SumFunctionOnSet(pt, {a \in Assign(Live) : IsRestriction(x, a)})]
    BY <2>2, <2>4 DEF SumOut
  <2> QED
    BY <2>3, <2>5
<1>3. SumFunctionOnSet(pt, {a \in Assign(Live) : IsRestriction(b, a)}) = SumFunctionOnSet(Constrained, X)
  <2>1. Marginal(pt, Live, Constrained, Rel)
    BY <1>0 DEF SumsKept, Marginal
  <2> HIDE DEF pt
  <2> QED
    BY <1>1, <2>1, SumsRegroup
<1>4. X = Y \union Z /\ Y \intersect Z = {} /\ Y \subseteq X /\ Z \subseteq X
  OBVIOUS
<1>5. IsFiniteSet(X) /\ IsFiniteSet(Y) /\ IsFiniteSet(Z)
  <2>1. IsFiniteSet(X)
    BY <1>1, AssignFinite, FS_Subset
  <2> HIDE DEF X, Y, Z
  <2> QED
    BY <1>4, <2>1, FS_Subset
<1>6. \A x \in X : Constrained[x] \in Int
  BY <1>1
<1>7. \A x \in Y : Constrained[x] = RelevantJoint[x]
  BY ConstrainedIs
<1>8. \A x \in Z : Constrained[x] = 0
  BY ConstrainedIs
<1>9. Y = {a \in DOMAIN RelevantJoint : IsRestriction(b, a)}
  BY DEF RelevantJoint, Rel
<1> HIDE DEF X, Y, Z, pt
<1>10. SumFunctionOnSet(Constrained, Y \union Z) = SumFunctionOnSet(Constrained, Y) + SumFunctionOnSet(Constrained, Z)
  BY <1>4, <1>5, <1>6, SumOfUnion
<1>11. SumFunctionOnSet(Constrained, Z) = 0
  BY <1>5, <1>8, SumOfZeros
<1>12. SumFunctionOnSet(Constrained, Y) = SumFunctionOnSet(RelevantJoint, Y)
  BY <1>5, <1>7, SumSame
<1>13. SumFunctionOnSet(Constrained, Y) \in Int
  <2>1. \A x \in Y : Constrained[x] \in Int
    BY <1>4, <1>6
  <2> QED
    BY <1>5, <2>1, SumTakes
<1>14. Posterior.table[b] = SumFunctionOnSet(RelevantJoint, Y)
  BY <1>2, <1>3, <1>4, <1>10, <1>11, <1>12, <1>13
<1>15. SumFunctionOnSet(Constrained, X) \in Nat
  <2>1. \A x \in X : Constrained[x] \in Nat
    BY QueryFacts DEF X
  <2> QED
    BY <1>5, <2>1, SumOfNats
<1> QED
  BY <1>2, <1>3, <1>9, <1>14, <1>15

LEMMA NetInvImplies == ASSUME NetInv PROVE EliminationExact
<1>1. ASSUME phase = "eliminate" PROVE SumsAreProper
  <2>1. Linked /\ hidden \subseteq Nodes
    BY <1>1, QueryFacts DEF NetInv, ElimInv, AskOK
  <2>2. ASSUME NEW h \in hidden PROVE VarsOf(factors, Uses(h)) # {h}
    <3>1. PICK i \in DOMAIN factors : h \in factors[i].vars /\ \E u \in factors[i].vars : u > h
      BY <2>1 DEF Linked
    <3>2. PICK u \in factors[i].vars : u > h
      BY <3>1
    <3>3. u \in VarsOf(factors, Uses(h))
      BY <3>1 DEF VarsOf, Uses
    <3>4. u # h
      <4>1. h \in Nat
        BY <2>1, NodesFinite
      <4> QED
        BY <3>2, <4>1
    <3> QED
      BY <3>3, <3>4
  <2> QED
    BY <2>2 DEF SumsAreProper
<1> QED
  BY <1>1, PosteriorIs DEF EliminationExact

LEMMA NetStep == ASSUME NetInv, [Next]_vars PROVE NetInv'
<1>1. LearnInv'
  BY LearnStep DEF NetInv
<1>2. ASSUME NEW b \in Batches, PartialFit(b) \/ Fit(b) PROVE ElimInv'
  BY <1>2 DEF PartialFit, Fit, queryVars, ElimInv
<1>3. ASSUME Answer PROVE ElimInv'
  BY <1>3 DEF Answer, ElimInv
<1>4. ASSUME UNCHANGED vars PROVE ElimInv'
  <2>1. /\ parents' = parents /\ P' = P /\ sizes' = sizes /\ learned' = learned /\ phase' = phase
        /\ query' = query /\ event' = event /\ hidden' = hidden /\ factors' = factors
    BY <1>4 DEF vars, netVars, learnVars, queryVars
  <2>2. Rel' = Rel /\ Started' = Started /\ Live' = Live
    BY <2>1 DEF Rel, Relevant, Ancestors, Started, FactorOf, Weight, Family, Live
  <2>3. Constrained' = Constrained /\ (SumsKept' <=> SumsKept)
    <3>1. Constrained' = Constrained
      BY <2>2 DEF Constrained, ValueAt
    <3>2. \A a : ValueAt(factors, DOMAIN factors, a)' = ValueAt(factors, DOMAIN factors, a)
      BY <2>1 DEF ValueAt
    <3> QED
      BY <2>2, <3>1, <3>2 DEF SumsKept
  <2>4. (AskOK' <=> AskOK) /\ (FamilyOK' <=> FamilyOK) /\ (Linked' <=> Linked)
    BY <2>1, <2>2 DEF AskOK, FamilyOK, Linked, GoodFamily, VarsOf
  <2> QED
    BY <2>1, <2>3, <2>4 DEF NetInv, ElimInv
<1>5. ElimInv'
  BY <1>2, <1>3, <1>4, AskKeeps, EliminateKeeps DEF Next
<1> QED
  BY <1>1, <1>5 DEF NetInv

LEMMA NetInit == ASSUME Init PROVE NetInv
BY LearnInit DEF Init, NetInv, ElimInv

\* The posterior does not depend on the order in which the hidden nodes are
\* eliminated, and no sum leaves a table without columns.
THEOREM EliminationIsExact == SamplingSpec => []EliminationExact
<1>1. SamplingInit => NetInv
  BY NetInit DEF SamplingInit
<1>2. NetInv /\ [SamplingNext]_<<vars, samplingVars>> => NetInv'
  BY NetStep, StepsOfNet
<1>3. NetInv => EliminationExact
  BY NetInvImplies
<1> QED
  BY <1>1, <1>2, <1>3, PTL DEF SamplingSpec

-----------------------------------------------------------------------------
(* Imputation                                                              *)

LEMMA ImputeStep ==
    ASSUME NetInv, Impute
    PROVE  LET missing == Restrict(filled', query)
           IN  /\ IsRestriction(event, filled')
               /\ \A b \in Assign(query) :
                     SumFunctionOnSet(RelevantJoint, {a \in DOMAIN RelevantJoint : IsRestriction(b, a)})
                       <= SumFunctionOnSet(RelevantJoint, {a \in DOMAIN RelevantJoint : IsRestriction(missing, a)})
<1> DEFINE weight == [b \in Assign(query) |-> Posterior.table[b]]
           largest == Max({0} \union {weight[b] : b \in DOMAIN weight})
<1>0. phase = "eliminate" /\ AskOK
  BY DEF Impute, Answer, NetInv, ElimInv
<1>1. PICK b \in MostLikely : filled' = [v \in query \union DOMAIN event |-> IF v \in query THEN b[v] ELSE event[v]]
  BY DEF Impute
<1>2. b \in Assign(query) /\ weight[b] = largest
  BY DEF MostLikely
<1>3. \A x \in Assign(query) : weight[x] = Posterior.table[x] /\ weight[x] \in Nat
  BY <1>0, PosteriorIs
<1>4. \A x \in Assign(query) : weight[x] <= largest
  <2> DEFINE T == {0} \union {weight[x] : x \in Assign(query)}
  <2>1. DOMAIN weight = Assign(query)
    OBVIOUS
  <2> HIDE DEF weight
  <2>2. IsFiniteSet(Assign(query))
    <3>1. IsFiniteSet(query)
      BY <1>0, NodesFinite, FS_Subset DEF AskOK
    <3> QED
      BY <3>1, AssignFinite
  <2>3. IsFiniteSet(T)
    <3> DEFINE S == Assign(query)
               W == {weight[x] : x \in S}
    <3>1. (\A x \in S : weight[x] \in W) /\ \A y \in W : \E x \in S : y = weight[x]
      OBVIOUS
    <3>2. T = {0} \union W
      OBVIOUS
    <3> HIDE DEF S, W, T
    <3>3. IsFiniteSet(W)
      BY <2>2, <3>1, ImageFinite DEF S
    <3> QED
      BY <3>2, <3>3, FS_Singleton, FS_Union
  <2>4. T \subseteq Int /\ T # {}
    BY <1>3
  <2>5. \A x \in Assign(query) : weight[x] \in T
    OBVIOUS
  <2>6. largest = Max(T)
    BY <2>1
  <2> HIDE DEF T, largest
  <2>7. \A y \in T : y <= Max(T)
    BY <2>3, <2>4, MinMax
  <2> QED
    BY <2>5, <2>6, <2>7
<1>5. Restrict(filled', query) = b
  BY <1>1, <1>2 DEF Restrict, Assign
<1>6. IsRestriction(event, filled')
  BY <1>0, <1>1 DEF IsRestriction, AskOK
<1>7. \A x \in Assign(query) : Posterior.table[x] <= Posterior.table[b]
  <2> HIDE DEF weight, largest
  <2> QED
    BY <1>2, <1>3, <1>4
<1> HIDE DEF weight, largest
<1> QED
  BY <1>0, <1>2, <1>5, <1>6, <1>7, PosteriorIs

\* impute() keeps what it was given, and no other completion is more likely
\* than the one it returns.
THEOREM ImputesAMode == SamplingSpec => ImputesLikeliest
<1> DEFINE Fine == LET joint == RelevantJoint
                       missing == Restrict(filled', query)
                   IN  /\ IsRestriction(event, filled')
                       /\ \A b \in Assign(query) :
                             SumFunctionOnSet(joint, {a \in DOMAIN joint : IsRestriction(b, a)})
                               <= SumFunctionOnSet(joint, {a \in DOMAIN joint : IsRestriction(missing, a)})
<1>1. SamplingInit => NetInv
  BY NetInit DEF SamplingInit
<1>2. NetInv /\ [SamplingNext]_<<vars, samplingVars>> => NetInv'
  BY NetStep, StepsOfNet
<1>3. NetInv /\ [SamplingNext]_<<vars, samplingVars>> => [(filled' # <<>> => Fine)]_filled
  <2> SUFFICES ASSUME NetInv, [SamplingNext]_<<vars, samplingVars>>, filled' # filled, filled' # <<>>
               PROVE  Fine
    OBVIOUS
  <2>1. Impute
    BY DEF SamplingNext, Calm, DrawRaises, Draw, GibbsStart, GibbsStep, GibbsRaises, Return, samplingVars
  <2> QED
    BY <2>1, ImputeStep
<1> QED
  BY <1>1, <1>2, <1>3, PTL DEF SamplingSpec, ImputesLikeliest

-----------------------------------------------------------------------------
(* The order in which the Gibbs sampler takes the nodes                    *)

\* s lists the set S by increasing number.
Increasing(s, S) == /\ s \in [1 .. Cardinality(S) -> S]
                    /\ \A i, j \in 1 .. Cardinality(S) : i < j => s[i] < s[j]

\* Finitely many numbers can be listed in order: the largest goes last.
LEMMA IncreasingExists ==
    ASSUME NEW S, IsFiniteSet(S), S \subseteq Int
    PROVE  \E s : Increasing(s, S)
<1> DEFINE G == {T \in SUBSET S : \E s : Increasing(s, T)}
<1>1. ASSUME NEW T \in SUBSET S, \A x \in T : T \ {x} \in G PROVE T \in G
  <2>0. IsFiniteSet(T) /\ T \subseteq Int /\ Cardinality(T) \in Nat
    BY FS_Subset, FS_CardinalityType
  <2>1. CASE T = {}
    <3>1. Cardinality(T) = 0
      BY <2>1, FS_EmptySet
    <3>2. 1 .. 0 = {}
      OBVIOUS
    <3>3. Increasing([i \in 1 .. 0 |-> i], T)
      BY <2>1, <3>1, <3>2 DEF Increasing
    <3> QED
      BY <3>3
  <2>2. CASE T # {}
    <3> DEFINE m == Max(T)
               R == T \ {m}
               n == Cardinality(R)
    <3>1. m \in T /\ \A y \in T : y <= m
      BY <2>0, <2>2, MinMax
    <3> HIDE DEF m
    <3>2. IsFiniteSet(R) /\ n \in Nat /\ Cardinality(T) = n + 1
      BY <2>0, <3>1, FS_RemoveElement, FS_CardinalityType, FS_Subset
    <3>3. PICK s : Increasing(s, R)
      BY <1>1, <3>1
    <3> HIDE DEF n
    <3> DEFINE t == [i \in 1 .. (n + 1) |-> IF i = n + 1 THEN m ELSE s[i]]
    <3>4. s \in [1 .. n -> R] /\ \A i, j \in 1 .. n : i < j => s[i] < s[j]
      BY <3>3 DEF Increasing, n
    <3>5. \A i \in 1 .. (n + 1) : i = n + 1 \/ i \in 1 .. n
      BY <3>2
    <3>6. t \in [1 .. (n + 1) -> T]
      BY <3>1, <3>4, <3>5
    <3>7. ASSUME NEW i \in 1 .. (n + 1), NEW j \in 1 .. (n + 1), i < j PROVE t[i] < t[j]
      <4>1. i \in 1 .. n /\ t[i] = s[i]
        BY <3>2, <3>5, <3>7
      <4>2. s[i] \in R /\ s[i] < m
        <5>1. s[i] \in R
          BY <3>4, <4>1
        <5>2. s[i] \in Int /\ m \in Int /\ s[i] # m /\ s[i] <= m
          BY <2>0, <3>1, <5>1
        <5>3. s[i] < m
          BY <5>2
        <5> QED
          BY <5>1, <5>3
      <4>3. CASE j = n + 1
        BY <3>2, <4>1, <4>2, <4>3
      <4>4. CASE j \in 1 .. n
        <5>1. t[j] = s[j]
          BY <3>2, <4>4
        <5> QED
          BY <3>4, <3>7, <4>1, <4>4, <5>1
      <4> QED
        BY <3>5, <4>3, <4>4
    <3> HIDE DEF t
    <3>8. Increasing(t, T)
      BY <3>2, <3>6, <3>7 DEF Increasing
    <3> QED
      BY <3>8
  <2> QED
    BY <2>1, <2>2
<1>2. SUBSET S \subseteq G
  <2> HIDE DEF G
  <2> QED
    BY <1>1, SubsetInduction
<1> QED
  BY <1>2

\* The nodes that are not given are listed once each.
LEMMA NoneventsFacts ==
    ASSUME NEW e
    PROVE  LET S == Nodes \ DOMAIN e
               s == Nonevents(e)
           IN  /\ Len(s) = Cardinality(S) /\ Len(s) \in Nat
               /\ \A i \in 1 .. Len(s) : s[i] \in S
               /\ S # {} => Len(s) # 0
<1> DEFINE S == Nodes \ DOMAIN e
           n == Cardinality(S)
           Sorted(s) == \A i, j \in DOMAIN s : i < j => s[i] < s[j]
           s == CHOOSE s \in [1 .. n -> S] : Sorted(s)
<1>1. IsFiniteSet(S) /\ S \subseteq Int /\ n \in Nat
  <2>1. S \subseteq Nodes
    OBVIOUS
  <2> HIDE DEF S
  <2>2. IsFiniteSet(S)
    BY <2>1, NodesFinite, FS_Subset
  <2> QED
    BY <2>1, <2>2, NodesFinite, FS_CardinalityType
<1>2. \E x \in [1 .. n -> S] : Sorted(x)
  <2>1. PICK x : Increasing(x, S)
    BY <1>1, IncreasingExists
  <2>2. x \in [1 .. n -> S] /\ DOMAIN x = 1 .. n
    BY <2>1 DEF Increasing
  <2>3. Sorted(x)
    BY <2>1, <2>2 DEF Increasing
  <2> QED
    BY <2>2, <2>3
<1>3. s \in [1 .. n -> S]
  <2> HIDE DEF S, Sorted
  <2> QED
    BY <1>2
<1>4. Nonevents(e) = s
  BY DEF Nonevents
<1>5. S # {} => n # 0
  BY <1>1, FS_EmptySet
<1> HIDE DEF S, n, s
<1>6. Len(s) = n /\ \A i \in 1 .. n : s[i] \in S
  BY <1>1, <1>3
<1> QED
  BY <1>1, <1>4, <1>5, <1>6 DEF S, n

-----------------------------------------------------------------------------
(* Gibbs sampling                                                          *)

\* A row is possible if every table has it.
LEMMA JointFacts ==
    ASSUME LearnInv, learned, NEW a \in Rows
    PROVE  /\ \A v \in Nodes : Weight(v, a) \in Nat
           /\ Joint(a) \in Nat
           /\ Joint(a) > 0 <=> \A v \in Nodes : Weight(v, a) > 0
<1> DEFINE j == [v \in Nodes |-> Weight(v, a)]
<1>0. a \in Assign(Nodes) /\ \A v \in Nodes : Family(v) \subseteq Nodes
  BY StructureFacts DEF LearnInv, Rows
<1>1. \A v \in Nodes : j[v] = Weight(v, a) /\ j[v] \in Nat
  BY <1>0, WeightFacts
<1>2. Joint(a) = ProductOnSet(j, Nodes)
  BY DEF Joint
<1> HIDE DEF j
<1>3. Joint(a) \in Nat /\ (Joint(a) = 0 <=> \E v \in Nodes : j[v] = 0)
  BY <1>1, <1>2, NodesFinite, ProductOfNats
<1> QED
  BY <1>1, <1>3

\* The product of the tables of v and its children is the joint distribution,
\* but for a factor that does not depend on the value of v.
LEMMA ConditionalFacts ==
    ASSUME LearnInv, learned, NEW v \in Nodes, NEW a \in Rows
    PROVE  LET C == ProductOnSet([u \in Nodes |-> Weight(u, a)], Nodes \ Posteriors(v))
           IN  /\ C \in Nat /\ (Joint(a) > 0 => C > 0)
               /\ \A x \in Values : /\ [a EXCEPT ![v] = x] \in Rows
                                    /\ Conditional(v, a)[x] \in Nat
                                    /\ Joint([a EXCEPT ![v] = x]) = Conditional(v, a)[x] * C
<1> DEFINE S == Posteriors(v)
           R == Nodes \ S
           j == [u \in Nodes |-> Weight(u, a)]
           C == ProductOnSet(j, R)
<1>0. StructureOK
  BY DEF LearnInv
<1>1. S \subseteq Nodes /\ S \intersect R = {} /\ S \union R = Nodes /\ R \subseteq Nodes
  BY DEF Posteriors, Children
<1>2. IsFiniteSet(S) /\ IsFiniteSet(R)
  <2> HIDE DEF S, R
  <2> QED
    BY <1>1, NodesFinite, FS_Subset
<1>3. \A u \in R : v \notin Family(u)
  BY DEF Posteriors, Children, Family
<1>4. \A u \in Nodes : j[u] = Weight(u, a) /\ j[u] \in Nat
  BY JointFacts
<1> HIDE DEF S, R
<1>5. C \in Nat /\ (Joint(a) > 0 => C > 0)
  <2>1. \A u \in R : j[u] \in Nat
    BY <1>1, <1>4
  <2> HIDE DEF j
  <2>2. C \in Nat /\ (C = 0 <=> \E u \in R : j[u] = 0)
    BY <1>2, <2>1, ProductOfNats
  <2>3. Joint(a) > 0 => \A u \in R : j[u] > 0
    BY <1>1, <1>4, JointFacts
  <2>4. Joint(a) > 0 => C # 0
    BY <2>1, <2>2, <2>3
  <2> QED
    BY <2>2, <2>4
<1>6. ASSUME NEW x \in Values
      PROVE  /\ [a EXCEPT ![v] = x] \in Rows
             /\ Conditional(v, a)[x] \in Nat
             /\ Joint([a EXCEPT ![v] = x]) = Conditional(v, a)[x] * C
  <2> DEFINE b == [a EXCEPT ![v] = x]
             k == [u \in Nodes |-> Weight(u, b)]
             w == [u \in S |-> Weight(u, b)]
  <2>1. b \in Rows /\ \A u \in Nodes \ {v} : b[u] = a[u]
    BY DEF Rows, Assign
  <2> HIDE DEF b
  <2>2. \A u \in Nodes : k[u] = Weight(u, b) /\ k[u] \in Nat
    BY <2>1, JointFacts
  <2>3. \A u \in R : k[u] = j[u]
    <3> SUFFICES ASSUME NEW u \in R PROVE Weight(u, b) = Weight(u, a)
      BY <1>1
    <3>1. Family(u) \subseteq Nodes \ {v}
      BY <1>0, <1>1, <1>3, StructureFacts
    <3>2. Restrict(b, Family(u)) = Restrict(a, Family(u))
      BY <2>1, <3>1 DEF Restrict
    <3> QED
      BY <3>2 DEF Weight
  <2>4. \A u \in S : w[u] = k[u]
    BY <1>1
  <2>5. Conditional(v, a)[x] = ProductOnSet(w, S)
    BY DEF Conditional, S, b
  <2>6. Joint(b) = ProductOnSet(k, S \union R)
    BY <1>1 DEF Joint
  <2> HIDE DEF k, w, j
  <2>7. ProductOnSet(k, S \union R) = ProductOnSet(k, S) * ProductOnSet(k, R)
    <3>1. \A u \in S \union R : k[u] \in Int
      BY <1>1, <2>2
    <3> QED
      BY <1>1, <1>2, <3>1, ProductOfUnion
  <2>8. ProductOnSet(k, R) = C
    BY <1>2, <2>3, ProductSame
  <2>9. ProductOnSet(w, S) = ProductOnSet(k, S)
    BY <1>2, <2>4, ProductSame
  <2>10. ProductOnSet(k, S) \in Nat
    <3>1. \A u \in S : k[u] \in Nat
      BY <1>1, <2>2
    <3> QED
      BY <1>2, <3>1, ProductOfNats
  <2>11. Joint(b) = Conditional(v, a)[x] * C /\ Conditional(v, a)[x] \in Nat
    BY <2>5, <2>6, <2>7, <2>8, <2>9, <2>10
  <2> QED
    BY <2>1, <2>11 DEF b
<1> HIDE DEF C
<1> QED
  BY <1>5, <1>6 DEF C, R, S

GibbsInv == alg = "gibbs" =>
                /\ learned
                /\ DOMAIN given \subseteq Nodes /\ DOMAIN given # Nodes
                /\ state \in Rows
                /\ turn \in 1 .. Len(Nonevents(given))
                /\ possible => IsRestriction(given, state) /\ Joint(state) > 0

SamplingInv == NetInv /\ GibbsInv

\* The node whose turn it is is not given.
LEMMA TurnFacts ==
    ASSUME SamplingInv, alg = "gibbs"
    PROVE  LET v == Nonevents(given)[turn] IN v \in Nodes /\ v \notin DOMAIN given
BY NoneventsFacts DEF SamplingInv, GibbsInv

LEMMA GibbsImplies == ASSUME SamplingInv PROVE GibbsConditional
<1> SUFFICES ASSUME alg = "gibbs", possible
             PROVE  LET v == Nonevents(given)[turn]
                        full == [x \in Values |-> Joint([state EXCEPT ![v] = x])]
                        used == Conditional(v, state)
                    IN  /\ \E x \in Values : used[x] > 0
                        /\ \A x, y \in Values : used[x] * full[y] = used[y] * full[x]
  BY DEF GibbsConditional
<1> DEFINE v == Nonevents(given)[turn]
           used == Conditional(v, state)
           full == [x \in Values |-> Joint([state EXCEPT ![v] = x])]
           C == ProductOnSet([u \in Nodes |-> Weight(u, state)], Nodes \ Posteriors(v))
<1>1. LearnInv /\ learned /\ state \in Rows /\ Joint(state) > 0 /\ v \in Nodes
  BY TurnFacts DEF SamplingInv, NetInv, GibbsInv
<1> HIDE DEF v
<1>2. /\ C \in Nat /\ C > 0
      /\ \A x \in Values : used[x] \in Nat /\ full[x] = used[x] * C
  BY <1>1, ConditionalFacts
<1>3. \E x \in Values : used[x] > 0
  <2>1. state[v] \in Values /\ [state EXCEPT ![v] = state[v]] = state
    BY <1>1 DEF Rows, Assign
  <2>2. full[state[v]] = Joint(state)
    BY <2>1
  <2> HIDE DEF full, used, C
  <2>3. used[state[v]] * C > 0 /\ used[state[v]] \in Nat
    BY <1>1, <1>2, <2>1, <2>2
  <2>4. \A n \in Nat : n * C > 0 => n > 0
    BY <1>2
  <2> QED
    BY <2>1, <2>3, <2>4
<1>4. ASSUME NEW x \in Values, NEW y \in Values PROVE used[x] * full[y] = used[y] * full[x]
  <2> HIDE DEF full, used, C
  <2>1. used[x] * (used[y] * C) = used[y] * (used[x] * C)
    BY <1>2, ThreeFactors
  <2> QED
    BY <1>2, <2>1
<1> HIDE DEF full, used
<1> QED
  BY <1>3, <1>4 DEF full, used, v

LEMMA GibbsStarts ==
    ASSUME NetInv, NEW S \in SUBSET Nodes, NEW e \in Assign(S), NEW a \in Rows, GibbsStart(e, a)
    PROVE  GibbsInv'
<1>1. /\ UNCHANGED vars /\ learned /\ DOMAIN e # Nodes /\ given' = e /\ state' = a /\ turn' = 1
      /\ possible' = (Joint(a) > 0) /\ IsRestriction(e, a)
  BY DEF GibbsStart, MayStart, ForwardSamples
<1>2. DOMAIN e = S
  BY DEF Assign
<1>3. Len(Nonevents(e)) \in Nat /\ Len(Nonevents(e)) # 0
  <2>1. Nodes \ DOMAIN e # {}
    BY <1>1, <1>2
  <2> QED
    BY <2>1, NoneventsFacts
<1>4. learned' = learned /\ Joint(state)' = Joint(a)
  BY <1>1 DEF vars, netVars, learnVars, Joint, Weight, Family
<1>5. Nonevents(given)' = Nonevents(e)
  BY <1>1 DEF Nonevents
<1>6. turn' \in 1 .. Len(Nonevents(given))'
  BY <1>1, <1>3, <1>5
<1> QED
  BY <1>1, <1>2, <1>4, <1>6 DEF GibbsInv

LEMMA GibbsSteps == ASSUME SamplingInv, NEW x \in Values, GibbsStep(x) PROVE GibbsInv'
<1> DEFINE order == Nonevents(given)
           v == order[turn]
           C == ProductOnSet([u \in Nodes |-> Weight(u, state)], Nodes \ Posteriors(v))
           b == [state EXCEPT ![v] = x]
<1>1. /\ alg = "gibbs" /\ UNCHANGED <<vars, alg, given, draws, possible, filled>>
      /\ Conditional(v, state)[x] > 0 /\ state' = b /\ turn' = (turn % Len(order)) + 1
  BY DEF GibbsStep
<1>2. /\ LearnInv /\ learned /\ DOMAIN given \subseteq Nodes /\ DOMAIN given # Nodes
      /\ state \in Rows /\ turn \in 1 .. Len(order)
      /\ possible => IsRestriction(given, state) /\ Joint(state) > 0
  BY <1>1 DEF SamplingInv, NetInv, GibbsInv
<1>3. v \in Nodes /\ v \notin DOMAIN given
  BY <1>1, TurnFacts
<1>4. Len(order) \in Nat
  BY NoneventsFacts
<1>5. turn' \in 1 .. Len(order)
  <2> DEFINE n == Len(order)
  <2>1. n \in Nat \ {0} /\ turn \in Nat
    BY <1>2, <1>4
  <2> HIDE DEF n
  <2>2. turn % n \in 0 .. n - 1
    BY <2>1
  <2>3. turn' = (turn % n) + 1
    BY <1>1 DEF n
  <2>4. turn' \in 1 .. n
    BY <2>1, <2>2, <2>3
  <2> QED
    BY <2>4 DEF n
<1> HIDE DEF v
<1>6. /\ C \in Nat /\ (Joint(state) > 0 => C > 0)
      /\ b \in Rows /\ Conditional(v, state)[x] \in Nat
      /\ Joint(b) = Conditional(v, state)[x] * C
  BY <1>2, <1>3, ConditionalFacts
<1>7. ASSUME possible PROVE IsRestriction(given, b) /\ Joint(b) > 0
  <2>1. IsRestriction(given, b)
    BY <1>2, <1>3, <1>7 DEF IsRestriction, Rows, Assign
  <2>2. C > 0
    BY <1>2, <1>6, <1>7
  <2> HIDE DEF C, b
  <2>3. \A m, n \in Nat : m > 0 /\ n > 0 => m * n > 0
    OBVIOUS
  <2> QED
    BY <1>1, <1>6, <2>1, <2>2, <2>3
<1>8. /\ learned' = learned /\ Joint(state)' = Joint(b) /\ Nonevents(given)' = order
      /\ possible' = possible /\ given' = given /\ state' = b
  <2>1. given' = given /\ possible' = possible /\ UNCHANGED vars
    BY <1>1
  <2>2. Joint(state)' = Joint(b) /\ learned' = learned
    BY <1>1, <2>1 DEF vars, netVars, learnVars, Joint, Weight, Family
  <2> QED
    BY <1>1, <2>1, <2>2 DEF Nonevents
<1> HIDE DEF b, order
<1> QED
  BY <1>2, <1>5, <1>6, <1>7, <1>8 DEF GibbsInv

LEMMA SamplingStep ==
    ASSUME SamplingInv, [SamplingNext]_<<vars, samplingVars>>
    PROVE  SamplingInv'
<1>1. NetInv'
  BY NetStep, StepsOfNet DEF SamplingInv
<1>2. ASSUME alg' # "gibbs" PROVE GibbsInv'
  BY <1>2 DEF GibbsInv
<1>3. ASSUME UNCHANGED <<vars, samplingVars>> PROVE GibbsInv'
  <2>1. Joint(state)' = Joint(state) /\ Nonevents(given)' = Nonevents(given) /\ learned' = learned
    BY <1>3 DEF vars, netVars, learnVars, samplingVars, samplerVars, Joint, Weight, Family, Nonevents
  <2>2. alg' = alg /\ given' = given /\ state' = state /\ turn' = turn /\ possible' = possible
    BY <1>3 DEF samplingVars, samplerVars
  <2> QED
    BY <2>1, <2>2 DEF SamplingInv, GibbsInv
<1>4. ASSUME SamplingNext
      PROVE  \/ alg' # "gibbs"
             \/ \E S \in SUBSET Nodes : \E e \in Assign(S) : \E a \in Rows : GibbsStart(e, a)
             \/ \E x \in Values : GibbsStep(x)
  BY <1>4 DEF SamplingNext, Calm, AtRest, samplingVars, samplerVars, Impute, DrawRaises, Draw,
              GibbsRaises, Return
<1>5. GibbsInv'
  BY <1>2, <1>3, <1>4, GibbsStarts, GibbsSteps DEF SamplingInv
<1> QED
  BY <1>1, <1>5 DEF SamplingInv

LEMMA SamplingStarts == ASSUME SamplingInit PROVE SamplingInv
BY NetInit DEF SamplingInit, SamplingInv, GibbsInv

\* A chain that starts in a possible row stays in possible rows that agree with
\* the event, and each node is drawn from its distribution given all others.
THEOREM GibbsDrawsRight == SamplingSpec => []GibbsConditional
<1>1. SamplingInit => SamplingInv
  BY SamplingStarts
<1>2. SamplingInv /\ [SamplingNext]_<<vars, samplingVars>> => SamplingInv'
  BY SamplingStep
<1>3. SamplingInv => GibbsConditional
  BY GibbsImplies
<1> QED
  BY <1>1, <1>2, <1>3, PTL DEF SamplingSpec

-----------------------------------------------------------------------------
(* Rejection sampling and likelihood weighting                             *)

\* The posterior at b is at least the weight of any row that it adds up.
LEMMA ExactFacts ==
    ASSUME LearnInv, learned, NEW b, NEW e, NEW a \in Rows, IsRestriction(b, a), IsRestriction(e, a)
    PROVE  Exact(JointTable, b, e) \in Nat /\ Joint(a) <= Exact(JointTable, b, e)
<1> DEFINE S == {x \in Rows : IsRestriction(b, x) /\ IsRestriction(e, x)}
<1>1. IsFiniteSet(S) /\ a \in S
  BY RowsFinite, FS_Subset
<1>2. \A x \in S : JointTable[x] = Joint(x) /\ JointTable[x] \in Nat
  BY JointFacts DEF JointTable
<1> HIDE DEF S
<1>3. SumFunctionOnSet(JointTable, S) \in Nat /\ \A x \in S : JointTable[x] <= SumFunctionOnSet(JointTable, S)
  BY <1>1, <1>2, SumOfNats
<1> QED
  BY <1>1, <1>2, <1>3 DEF Exact, S

DrawsInv == /\ draws \in Seq([sample : Rows, likelihood : Nat])
            /\ alg = "none" => draws = <<>>
            /\ alg = "forward" =>
                  /\ learned
                  /\ \A i \in DOMAIN draws : /\ draws[i].sample \in ForwardSamples(given)
                                             /\ draws[i].likelihood = Joint(draws[i].sample)

LEMMA DrawKeeps ==
    ASSUME SamplingInv, DrawsInv, NEW e, NEW a \in Rows, Draw(e, a)
    PROVE  DrawsInv'
<1> DEFINE d == [sample |-> a, likelihood |-> Likelihood(e, a)]
<1>1. /\ UNCHANGED vars /\ a \in ForwardSamples(e) /\ given' = e /\ alg' = "forward"
      /\ draws' = Append(draws, d)
      /\ learned
      /\ alg = "forward" => given = e
      /\ alg # "forward" => draws = <<>>
  BY DEF Draw, MayStart, AtRest, DrawsInv
<1>2. LearnInv
  BY DEF SamplingInv, NetInv
<1>3. Likelihood(e, a) = Joint(a) /\ Joint(a) \in Nat
  BY <1>1, <1>2, JointFacts DEF Likelihood, Joint
<1>4. d \in [sample : Rows, likelihood : Nat] /\ d.sample = a /\ d.likelihood = Joint(a)
  BY <1>3
<1> HIDE DEF d
<1>5. draws \in Seq([sample : Rows, likelihood : Nat])
  BY DEF DrawsInv
<1>6. /\ draws' \in Seq([sample : Rows, likelihood : Nat])
      /\ \A i \in DOMAIN draws' : draws'[i] = d \/ (i \in DOMAIN draws /\ draws'[i] = draws[i])
  <2> DEFINE R == [sample : Rows, likelihood : Nat]
  <2>1. d \in R /\ draws \in Seq(R)
    BY <1>4, <1>5
  <2> HIDE DEF R
  <2>2. Append(draws, d) \in Seq(R)
    BY <2>1
  <2>3. \A i \in DOMAIN Append(draws, d) :
           Append(draws, d)[i] = d \/ (i \in DOMAIN draws /\ Append(draws, d)[i] = draws[i])
    BY <2>1
  <2> QED
    BY <1>1, <2>2, <2>3 DEF R
<1>7. \A i \in DOMAIN draws : /\ draws[i].sample \in ForwardSamples(e)
                              /\ draws[i].likelihood = Joint(draws[i].sample)
  BY <1>1, <1>5 DEF DrawsInv
<1>8. \A i \in DOMAIN draws' : /\ draws'[i].sample \in ForwardSamples(e)
                               /\ draws'[i].likelihood = Joint(draws'[i].sample)
  BY <1>1, <1>4, <1>6, <1>7
<1>9. /\ \A x : ForwardSamples(x)' = ForwardSamples(x) /\ Joint(x)' = Joint(x)
      /\ learned'
  BY <1>1 DEF vars, netVars, learnVars, ForwardSamples, Drawable, Found, Likely, Joint, Weight, Family
<1>10. /\ ForwardSamples(given)' = ForwardSamples(e)
       /\ \A i \in DOMAIN draws' : Joint(draws[i].sample)' = Joint(draws'[i].sample)
  BY <1>1, <1>9 DEF vars, netVars, learnVars, ForwardSamples, Drawable, Found, Likely, Joint, Weight, Family
<1> QED
  BY <1>1, <1>6, <1>8, <1>9, <1>10 DEF DrawsInv

LEMMA DrawsStep ==
    ASSUME SamplingInv, DrawsInv, [SamplingNext]_<<vars, samplingVars>>
    PROVE  DrawsInv'
<1>1. ASSUME alg' # "forward", draws' \in {draws, <<>>}, alg' = "none" => draws' = <<>> PROVE DrawsInv'
  <2>1. draws' \in Seq([sample : Rows, likelihood : Nat])
    <3> DEFINE R == [sample : Rows, likelihood : Nat]
    <3>1. draws \in Seq(R)
      BY DEF DrawsInv
    <3> HIDE DEF R
    <3>2. <<>> \in Seq(R)
      OBVIOUS
    <3>3. draws' \in Seq(R)
      BY <1>1, <3>1, <3>2
    <3> QED
      BY <3>3 DEF R
  <2> QED
    BY <1>1, <2>1 DEF DrawsInv
<1>2. ASSUME UNCHANGED <<vars, samplingVars>> PROVE DrawsInv'
  <2>1. draws' = draws /\ alg' = alg /\ learned' = learned
    BY <1>2 DEF vars, learnVars, samplingVars, samplerVars
  <2>2. /\ ForwardSamples(given)' = ForwardSamples(given)
        /\ \A i \in DOMAIN draws : Joint(draws[i].sample)' = Joint(draws[i].sample)
    BY <1>2 DEF vars, netVars, learnVars, samplingVars, samplerVars, ForwardSamples, Drawable, Found, Likely,
                Joint, Weight, Family
  <2> QED
    BY <2>1, <2>2 DEF DrawsInv
<1>3. ASSUME SamplingNext
      PROVE  \/ /\ alg' # "forward"
                /\ draws' \in {draws, <<>>} /\ (alg' = "none" => draws' = <<>>)
             \/ \E S \in SUBSET Nodes : \E e \in Assign(S) : \E a \in Rows : Draw(e, a)
  BY <1>3 DEF SamplingNext, Calm, AtRest, samplingVars, samplerVars, Impute, DrawRaises, GibbsStart,
              GibbsStep, GibbsRaises, Return, DrawsInv
<1> QED
  BY <1>1, <1>2, <1>3, DrawKeeps

\* What the two algorithms that start afresh answer.
LEMMA ForwardAgrees ==
    ASSUME SamplingInv, DrawsInv, alg = "forward", NEW i \in DOMAIN draws,
           NEW Q \in SUBSET (Nodes \ DOMAIN given)
    PROVE  LET joint == JointTable
               b == Restrict(draws[i].sample, Q)
               mean == MeanLikelihood(b)
           IN  /\ mean.sum > 0 => Exact(joint, b, given) > 0
               /\ Q \union DOMAIN given = Nodes => mean.sum = mean.count * Exact(joint, b, given)
               /\ given = <<>> =>
                     \A S \in SUBSET (Nodes \ Q) :
                        LET e == Restrict(draws[i].sample, S)
                        IN  RejectionCount(b, e) > 0 => Exact(joint, b, e) > 0
<1> DEFINE a == draws[i].sample
           b == Restrict(a, Q)
           G == Group(b)
           l == [k \in G |-> draws[k].likelihood]
<1>0. LearnInv /\ learned
  BY DEF SamplingInv, NetInv, DrawsInv
<1>1. \A k \in DOMAIN draws : /\ draws[k].sample \in Rows /\ IsRestriction(given, draws[k].sample)
                              /\ draws[k].likelihood = Joint(draws[k].sample)
                              /\ Drawable(given, draws[k].sample, Nodes)
  BY DEF DrawsInv, ForwardSamples
<1>2. G \subseteq DOMAIN draws /\ \A k \in G : IsRestriction(b, draws[k].sample)
  BY DEF Group
<1>3. IsFiniteSet(DOMAIN draws) /\ IsFiniteSet(G)
  <2>1. draws \in Seq([sample : Rows, likelihood : Nat])
    BY DEF DrawsInv
  <2>2. DOMAIN draws = 1 .. Len(draws) /\ Len(draws) \in Nat
    BY <2>1
  <2>3. IsFiniteSet(1 .. Len(draws))
    BY <2>2, FS_Interval
  <2>4. IsFiniteSet(DOMAIN draws)
    BY <2>2, <2>3
  <2> HIDE DEF G
  <2> QED
    BY <1>2, <2>4, FS_Subset
<1>4. MeanLikelihood(b).sum = SumFunctionOnSet(l, G) /\ MeanLikelihood(b).count = Cardinality(G)
  BY DEF MeanLikelihood
<1>5. \A k \in G : l[k] = Joint(draws[k].sample) /\ l[k] \in Nat
  BY <1>0, <1>1, <1>2, JointFacts
<1> HIDE DEF G, l
<1>6. ASSUME SumFunctionOnSet(l, G) > 0 PROVE Exact(JointTable, b, given) > 0
  <2>1. ASSUME \A k \in G : l[k] = 0 PROVE FALSE
    <3>1. SumFunctionOnSet(l, G) = 0
      BY <1>3, <2>1, SumOfZeros
    <3> QED
      BY <1>6, <3>1
  <2>2. PICK k \in G : l[k] # 0
    BY <2>1
  <2>3. Joint(draws[k].sample) > 0
    BY <1>5, <2>2
  <2>4. /\ draws[k].sample \in Rows /\ IsRestriction(given, draws[k].sample)
        /\ IsRestriction(b, draws[k].sample)
    BY <1>1, <1>2
  <2> HIDE DEF b
  <2>5. /\ Exact(JointTable, b, given) \in Nat
        /\ Joint(draws[k].sample) <= Exact(JointTable, b, given)
    BY <1>0, <2>4, ExactFacts
  <2>6. Joint(draws[k].sample) \in Nat
    BY <1>0, <2>4, JointFacts
  <2> QED
    BY <2>3, <2>5, <2>6
<1>7. ASSUME Q \union DOMAIN given = Nodes
      PROVE  SumFunctionOnSet(l, G) = Cardinality(G) * Exact(JointTable, b, given)
  <2> DEFINE S == {x \in Rows : IsRestriction(b, x) /\ IsRestriction(given, x)}
  <2>1. a \in Rows /\ IsRestriction(given, a)
    BY <1>1
  <2>2. ASSUME NEW x \in Rows, IsRestriction(b, x), IsRestriction(given, x) PROVE x = a
    <3>1. DOMAIN b = Q /\ DOMAIN x = Nodes /\ DOMAIN a = Nodes /\ \A u \in Q : b[u] = a[u]
      BY <2>1 DEF Restrict, Rows, Assign
    <3>2. \A u \in Q : x[u] = a[u]
      BY <2>2, <3>1 DEF IsRestriction
    <3>3. \A u \in DOMAIN given : x[u] = a[u]
      BY <1>7, <2>1, <2>2, <3>1 DEF IsRestriction
    <3>4. \A u \in Nodes : x[u] = a[u]
      BY <1>7, <3>2, <3>3
    <3> HIDE DEF a
    <3> QED
      BY <2>1, <3>4 DEF Rows, Assign
  <2>3. IsRestriction(b, a)
    BY <2>1 DEF IsRestriction, Restrict, Rows, Assign
  <2>4. S = {a}
    BY <2>1, <2>2, <2>3
  <2>5. JointTable[a] = Joint(a) /\ Joint(a) \in Int
    BY <1>0, <2>1, JointFacts DEF JointTable
  <2> HIDE DEF a
  <2>6. SumFunctionOnSet(JointTable, {a}) = Joint(a)
    BY <2>5, SumOfSingle
  <2>7. Exact(JointTable, b, given) = Joint(a)
    BY <2>4, <2>6 DEF Exact
  <2>8. \A k \in G : l[k] = Joint(a)
    <3> HIDE DEF b
    <3> QED
      BY <1>1, <1>2, <1>5, <2>2
  <2>9. SumFunctionOnSet(l, G) = Joint(a) * Cardinality(G) /\ Cardinality(G) \in Int
    BY <1>3, <2>5, <2>8, SumOfSame, FS_CardinalityType
  <2>10. Joint(a) * Cardinality(G) = Cardinality(G) * Joint(a)
    BY <2>5, <2>9
  <2> QED
    BY <2>7, <2>9, <2>10
<1>8. ASSUME given = <<>>, NEW S \in SUBSET (Nodes \ Q), RejectionCount(b, Restrict(a, S)) > 0
      PROVE  Exact(JointTable, b, Restrict(a, S)) > 0
  <2> DEFINE e == Restrict(a, S)
             H == {k \in Accepted(e) : IsRestriction(b, draws[k].sample)}
  <2>1. H # {}
    <3>1. Cardinality(H) > 0
      BY <1>8 DEF RejectionCount
    <3> HIDE DEF H
    <3>2. Cardinality({}) = 0
      BY FS_EmptySet
    <3> QED
      BY <3>1, <3>2
  <2>2. PICK k \in H : TRUE
    BY <2>1
  <2> DEFINE x == draws[k].sample
  <2>3. k \in DOMAIN draws /\ x \in Rows /\ IsRestriction(e, x) /\ IsRestriction(b, x)
    BY <1>1, <2>2 DEF Accepted
  <2>4. \A v \in Nodes : Weight(v, x) > 0
    <3>1. Drawable(given, x, Nodes)
      BY <1>1, <2>3
    <3>2. DOMAIN given = {}
      BY <1>8
    <3> QED
      BY <3>1, <3>2 DEF Drawable, Likely
  <2> HIDE DEF e, b, x
  <2>5. Joint(x) > 0 /\ Joint(x) \in Nat
    BY <1>0, <2>3, <2>4, JointFacts
  <2>6. Exact(JointTable, b, e) \in Nat /\ Joint(x) <= Exact(JointTable, b, e)
    BY <1>0, <2>3, ExactFacts
  <2>7. Exact(JointTable, b, e) > 0
    BY <2>5, <2>6
  <2> QED
    BY <2>7 DEF e
<1> QED
  BY <1>4, <1>6, <1>7, <1>8

\* Rejection, likelihood weighting and Gibbs sampling give weight to nothing
\* that the exact posterior excludes, and the weights of likelihood weighting
\* are those of the posterior where query and event leave no node out.
THEOREM SamplersDoAgree == SamplingSpec => []SamplersAgree
<1>1. SamplingInit => SamplingInv /\ DrawsInv
  <2>1. SamplingInit => DrawsInv
    BY DEF SamplingInit, DrawsInv
  <2> QED
    BY <2>1, SamplingStarts
<1>2. SamplingInv /\ DrawsInv /\ [SamplingNext]_<<vars, samplingVars>> => SamplingInv' /\ DrawsInv'
  BY SamplingStep, DrawsStep
<1>3. SamplingInv /\ DrawsInv => SamplersAgree
  BY ForwardAgrees DEF SamplersAgree, SamplingInv, GibbsInv
<1> QED
  BY <1>1, <1>2, <1>3, PTL DEF SamplingSpec

-----------------------------------------------------------------------------
(* How many rows there are                                                 *)

\* The rows are at least one and no more than MaxRows, and the first batch had
\* a value for every node.
RowsInv ==
    /\ Total(data) <= MaxRows
    /\ learned => /\ Total(data) >= 1
                  /\ prior => \A v \in Nodes : first[v] # {} /\ first[v] \subseteq Values

LEMMA TotalFacts ==
    ASSUME NEW f \in [Rows -> Nat]
    PROVE  /\ Total(f) = SumFunctionOnSet(f, Rows) /\ Total(f) \in Nat
           /\ Total(f) >= 1 => \E r \in Rows : f[r] > 0
<1>1. Total(f) = SumFunctionOnSet(f, Rows)
  BY DEF Total, SumFunction
<1>2. \A r \in Rows : f[r] \in Nat
  OBVIOUS
<1>3. SumFunctionOnSet(f, Rows) \in Nat
  BY <1>2, RowsFinite, SumOfNats
<1>4. ASSUME Total(f) >= 1 PROVE \E r \in Rows : f[r] > 0
  <2>1. ASSUME \A r \in Rows : f[r] = 0 PROVE FALSE
    <3>1. SumFunctionOnSet(f, Rows) = 0
      BY <2>1, RowsFinite, SumOfZeros
    <3> QED
      BY <1>1, <1>4, <3>1
  <2> QED
    BY <1>2, <2>1
<1> QED
  BY <1>1, <1>3, <1>4

\* The values of a batch: none is missing, if there is a prior to take them for.
LEMMA ValuesInFacts ==
    ASSUME NEW b \in Batches, prior
    PROVE  \A v \in Nodes : ValuesIn(b)[v] # {} /\ ValuesIn(b)[v] \subseteq Values
<1>1. b \in [Rows -> Nat] /\ Total(b) >= 1
  <2>1. Total(b) \in 1 .. MaxBatch
    BY DEF Batches
  <2> QED
    BY <2>1, BatchType
<1>2. PICK r \in Rows : b[r] > 0
  BY <1>1, TotalFacts
<1>3. ASSUME NEW v \in Nodes PROVE ValuesIn(b)[v] # {} /\ ValuesIn(b)[v] \subseteq Values
  <2>1. ValuesIn(b)[v] = {x[v] : x \in {y \in Rows : b[y] > 0}}
    BY DEF ValuesIn
  <2>2. r[v] \in ValuesIn(b)[v]
    BY <1>2, <2>1
  <2>3. \A x \in Rows : x[v] \in Values
    BY DEF Rows, Assign
  <2> QED
    BY <2>1, <2>2, <2>3
<1> QED
  BY <1>3

LEMMA RowsInit == ASSUME Init PROVE RowsInv
<1>1. NoData \in [Rows -> Nat] /\ \A r \in Rows : NoData[r] = 0
  BY DEF NoData
<1>2. Total(NoData) = 0
  <2>1. SumFunctionOnSet(NoData, Rows) = 0
    BY <1>1, RowsFinite, SumOfZeros
  <2> QED
    BY <1>1, <2>1, TotalFacts
<1>3. 0 <= MaxRows
  BY BoundsAssumption
<1> QED
  BY <1>2, <1>3 DEF Init, RowsInv

LEMMA RowsStep == ASSUME LearnInv, RowsInv, [Next]_vars PROVE RowsInv'
<1>1. ASSUME NEW b \in Batches, PartialFit(b) PROVE RowsInv'
  <2>1. /\ Total(data) + Total(b) <= MaxRows
        /\ data' = [r \in Rows |-> data[r] + b[r]]
        /\ first' = IF learned THEN first ELSE ValuesIn(b)
        /\ prior' = prior
    BY <1>1 DEF PartialFit, netVars
  <2>2. data \in [Rows -> Nat] /\ b \in [Rows -> Nat] /\ Total(b) \in 1 .. MaxBatch
    BY BatchType DEF LearnInv, Batches
  <2>3. data' \in [Rows -> Nat]
    BY <2>1, <2>2
  <2>4. Total(data') = Total(data) + Total(b)
    <3> DEFINE h == [r \in Rows |-> data[r] + b[r]]
    <3>1. \A r \in Rows : data[r] \in Int /\ b[r] \in Int /\ h[r] = data[r] + b[r]
      BY <2>2
    <3>2. h \in [Rows -> Nat] /\ h = data'
      BY <2>1, <2>2
    <3> HIDE DEF h
    <3>3. SumFunctionOnSet(h, Rows) = SumFunctionOnSet(data, Rows) + SumFunctionOnSet(b, Rows)
      BY <3>1, RowsFinite, SumPlus
    <3> QED
      BY <2>2, <3>2, <3>3, TotalFacts
  <2>5. Total(data) \in Nat /\ Total(b) \in Nat /\ Total(b) >= 1
    BY <2>2, TotalFacts
  <2>6. prior => \A v \in Nodes : first'[v] # {} /\ first'[v] \subseteq Values
    BY <2>1, ValuesInFacts DEF RowsInv
  <2> QED
    BY <2>1, <2>4, <2>5, <2>6 DEF RowsInv, Total
<1>2. ASSUME NEW b \in Batches, Fit(b) PROVE RowsInv'
  <2>1. Total(b) <= MaxRows /\ data' = b /\ first' = ValuesIn(b) /\ prior' = prior
    BY <1>2 DEF Fit, netVars
  <2>2. Total(b) >= 1
    <3>1. Total(b) \in 1 .. MaxBatch
      BY DEF Batches
    <3> QED
      BY <3>1
  <2> QED
    BY <2>1, <2>2, ValuesInFacts DEF RowsInv, Total
<1>3. ASSUME UNCHANGED <<netVars, learnVars>> PROVE RowsInv'
  BY <1>3 DEF RowsInv, netVars, learnVars, Total
<1>4. Next => \/ \E b \in Batches : PartialFit(b) \/ Fit(b)
              \/ UNCHANGED <<netVars, learnVars>>
  BY DEF Next, Ask, Eliminate, Answer
<1> QED
  BY <1>1, <1>2, <1>3, <1>4 DEF vars

-----------------------------------------------------------------------------
(* What has been counted of a combination                                  *)

\* The total of a combination of parents is that of its rows, and of the prior
\* that its combinations with a value of the node have.
LEMMA TotalIs ==
    ASSUME LearnInv, NEW v \in Nodes, NEW pk \in Assign(parents[v])
    PROVE  \E e \in 0 .. Cardinality(Values) : TotalOf(v, pk) = SizeAt(data, pk) + e
<1> DEFINE K == KeysAt(v, pk)
           size == [key \in Assign(Family(v)) |-> SizeAt(data, key)]
           extra == [key \in Assign(Family(v)) |-> Extra(v, key)]
           one == [key \in K |-> 1]
           E == SumFunctionOnSet(extra, K)
<1>0. /\ StructureOK /\ data \in [Rows -> Nat]
      /\ parents[v] \subseteq Family(v) /\ Family(v) \subseteq Nodes /\ IsFiniteSet(Assign(Family(v)))
  BY StructureFacts DEF LearnInv, Family
<1>1. K = {key \in Assign(Family(v)) : IsRestriction(pk, key)}
  BY <1>0, RestrictFacts DEF KeysAt, Key
<1>2. IsFiniteSet(K) /\ \A key \in K : key \in Assign(Family(v))
  <2>1. K \subseteq Assign(Family(v))
    BY <1>1
  <2> HIDE DEF K
  <2> QED
    BY <1>0, <2>1, FS_Subset
<1>3. \A key \in Assign(Family(v)) : /\ size[key] \in Nat /\ extra[key] \in {0, 1}
                                     /\ CountTable(v)[key] = size[key] + extra[key]
  BY <1>0, SizeIsNat DEF Extra, CountTable, CountOf
<1>4. SumFunctionOnSet(size, K) = SizeAt(data, pk)
  <2>1. Marginal(size, Family(v), data, Nodes)
    BY DEF Marginal, SizeAt, Rows
  <2>2. \A x \in Assign(Nodes) : data[x] \in Int
    BY <1>0 DEF Rows
  <2> HIDE DEF size, K
  <2>3. SumFunctionOnSet(size, {key \in Assign(Family(v)) : IsRestriction(pk, key)})
          = SumFunctionOnSet(data, {x \in Assign(Nodes) : IsRestriction(pk, x)})
    BY <1>0, <2>1, <2>2, NodesFinite, SumsRegroup
  <2> QED
    BY <1>1, <2>3 DEF SizeAt, Rows
<1>5. TotalOf(v, pk) = SumFunctionOnSet(size, K) + E
  <2>1. \A key \in K : /\ size[key] \in Int /\ extra[key] \in Int
                       /\ CountTable(v)[key] = size[key] + extra[key]
    BY <1>2, <1>3
  <2> HIDE DEF size, extra, K
  <2>2. SumFunctionOnSet(CountTable(v), K) = SumFunctionOnSet(size, K) + SumFunctionOnSet(extra, K)
    BY <1>2, <2>1, SumPlus
  <2> QED
    BY <2>2 DEF TotalOf, K
<1>6. E \in Nat /\ E <= Cardinality(K)
  <2>1. \A key \in K : /\ extra[key] \in Nat /\ extra[key] \in Int
                       /\ one[key] \in Int /\ one[key] = 1 /\ extra[key] <= one[key]
    BY <1>2, <1>3
  <2> HIDE DEF extra, one, K
  <2>2. E \in Nat
    BY <1>2, <2>1, SumOfNats
  <2>3. E <= SumFunctionOnSet(one, K)
    BY <1>2, <2>1, SumAtMost
  <2>4. Cardinality(K) \in Nat
    BY <1>2, FS_CardinalityType
  <2>5. \A key \in K : one[key] = 1
    BY <2>1
  <2>6. SumFunctionOnSet(one, K) = 1 * Cardinality(K)
    BY <1>2, <2>5, SumOfSame
  <2>7. SumFunctionOnSet(one, K) = Cardinality(K)
    BY <2>4, <2>6
  <2> QED
    BY <2>2, <2>3, <2>7
<1>7. Cardinality(K) <= Cardinality(Values)
  <2> DEFINE f == [key \in K |-> key[v]]
  <2>1. \A key \in K : key[v] \in Values
    BY <1>2 DEF Assign, Family
  <2>2. ASSUME NEW a \in K, NEW b \in K, a[v] = b[v] PROVE a = b
    <3>1. Restrict(a, parents[v]) = pk /\ Restrict(b, parents[v]) = pk
      BY DEF KeysAt, Key
    <3>2. \A u \in parents[v] : a[u] = b[u]
      BY <3>1 DEF Restrict
    <3>3. a \in Assign(Family(v)) /\ b \in Assign(Family(v))
      BY <1>2
    <3> QED
      BY <2>2, <3>2, <3>3 DEF Family, Assign
  <2>3. f \in Injection(K, Values)
    BY <2>1, <2>2 DEF Injection, IsInjective
  <2> HIDE DEF f, K
  <2> QED
    BY <2>3, BoundsAssumption, FS_Injection
<1>8. Cardinality(K) \in Nat /\ Cardinality(Values) \in Nat
  BY <1>2, BoundsAssumption, FS_CardinalityType
<1> HIDE DEF E, K, size
<1>9. E \in 0 .. Cardinality(Values)
  BY <1>6, <1>7, <1>8
<1> QED
  BY <1>4, <1>5, <1>9

\* Every total divides Scale, and the size of a combination is in its total.
LEMMA TotalDivides ==
    ASSUME LearnInv, RowsInv, NEW v \in Nodes, NEW pk \in Assign(parents[v])
    PROVE  LET T == TotalOf(v, pk)
           IN  /\ T \in Nat /\ SizeAt(data, pk) \in Nat /\ SizeAt(data, pk) <= T
               /\ T > 0 => Scale \div T \in Nat \ {0} /\ T * (Scale \div T) = Scale
<1> DEFINE T == TotalOf(v, pk)
           s == SizeAt(data, pk)
           R == {r \in Rows : IsRestriction(pk, r)}
<1>0. data \in [Rows -> Nat]
  BY DEF LearnInv
<1>1. PICK e \in 0 .. Cardinality(Values) : T = s + e
  BY TotalIs
<1>2. s \in Nat /\ s <= Total(data) /\ Total(data) \in Nat
  <2>1. R \subseteq Rows /\ IsFiniteSet(R) /\ IsFiniteSet(Rows \ R) /\ R \intersect (Rows \ R) = {}
        /\ R \union (Rows \ R) = Rows
    BY RowsFinite, FS_Subset
  <2>2. \A r \in Rows : data[r] \in Nat /\ data[r] \in Int
    BY <1>0
  <2> HIDE DEF R
  <2>3. SumFunctionOnSet(data, R) \in Nat /\ SumFunctionOnSet(data, Rows \ R) \in Nat
    BY <2>1, <2>2, SumOfNats
  <2>4. SumFunctionOnSet(data, R \union (Rows \ R))
          = SumFunctionOnSet(data, R) + SumFunctionOnSet(data, Rows \ R)
    BY <2>1, <2>2, SumOfUnion
  <2>5. s = SumFunctionOnSet(data, R) /\ Total(data) = SumFunctionOnSet(data, Rows)
    BY <1>0, TotalFacts DEF SizeAt, R
  <2> QED
    BY <2>1, <2>3, <2>4, <2>5
<1> HIDE DEF T, s
<1>3. Cardinality(Values) \in Nat /\ MaxRows \in Nat
  BY BoundsAssumption, FS_CardinalityType
<1>4. T \in Nat /\ s <= T /\ T <= MaxRows + Cardinality(Values)
  BY <1>1, <1>2, <1>3 DEF RowsInv
<1>5. ASSUME T > 0 PROVE Scale \div T \in Nat \ {0} /\ T * (Scale \div T) = Scale
  <2>1. T \in Nat \ {0} /\ Scale % T = 0 /\ Scale \in Nat \ {0}
    <3>1. T \in 1 .. MaxRows + Cardinality(Values)
      BY <1>3, <1>4, <1>5
    <3> QED
      BY <1>4, <1>5, <3>1, ScaleAssumption
  <2>2. Scale = T * (Scale \div T) + (Scale % T) /\ Scale \div T \in Nat
    BY <2>1
  <2>3. \A q \in Nat : Scale = T * q + 0 => q # 0
    BY <2>1
  <2> DEFINE q == Scale \div T
  <2> HIDE DEF q
  <2>4. q \in Nat /\ Scale = T * q + 0
    BY <2>1, <2>2 DEF q
  <2>5. T * q \in Nat
    BY <2>1, <2>4
  <2>6. q # 0 /\ T * q = Scale
    BY <2>3, <2>4, <2>5
  <2> QED
    BY <2>4, <2>6 DEF q
<1> QED
  BY <1>2, <1>4, <1>5 DEF T, s

\* A table entry in terms of counts.
LEMMA WeightIs ==
    ASSUME LearnInv, RowsInv, learned, NEW v \in Nodes, NEW L, Family(v) \subseteq L, NEW a \in Assign(L)
    PROVE  LET k == Restrict(a, Family(v))
               T == TotalOf(v, Restrict(a, parents[v]))
           IN  /\ k \in Assign(Family(v)) /\ Key(v, k) = Restrict(a, parents[v])
               /\ Restrict(a, parents[v]) \in Assign(parents[v])
               /\ sizes[v][Restrict(a, parents[v])] = T
               /\ CountOf(v, k) \in Nat /\ T \in Nat /\ CountOf(v, k) <= T
               /\ Weight(v, a) = CountOf(v, k) * (Scale \div Max({1, T}))
               /\ Weight(v, a) > 0 <=> CountOf(v, k) > 0
<1> DEFINE F == Family(v)
           k == Restrict(a, F)
           pk == Restrict(a, parents[v])
           T == TotalOf(v, pk)
           n == CountOf(v, k)
<1>0. StructureOK /\ data \in [Rows -> Nat] /\ TablesOK
  BY DEF LearnInv
<1>1. parents[v] \subseteq F /\ parents[v] \subseteq L
  BY DEF Family
<1>2. k \in Assign(F) /\ pk \in Assign(parents[v]) /\ Key(v, k) = pk
  <2>1. k \in Assign(F) /\ pk \in Assign(parents[v])
    BY <1>1, RestrictFacts
  <2>2. Key(v, k) = pk
    BY <1>1 DEF Key, Restrict
  <2> QED
    BY <2>1, <2>2
<1>3. sizes[v][pk] = T
  <2> HIDE DEF pk
  <2> QED
    BY <1>0, <1>2 DEF TablesOK
<1>4. n \in Nat /\ T \in Nat /\ n <= T
  <2> HIDE DEF k, pk
  <2> QED
    BY <1>0, <1>2, CountFacts
<1>5. P[v][k] = [n |-> CountOf(v, k), d |-> Max({1, T})]
  <2> HIDE DEF k, T
  <2>1. P[v] = [key \in Assign(F) |-> [n |-> CountOf(v, key), d |-> Max({1, TotalOf(v, Key(v, key))})]]
    BY <1>0 DEF TablesOK
  <2> HIDE DEF F, pk
  <2> QED
    BY <1>2, <2>1 DEF T
<1>6. Weight(v, a) = n * (Scale \div Max({1, T}))
  BY <1>5 DEF Weight
<1>7. Weight(v, a) > 0 <=> n > 0
  <2>1. T > 0 => Max({1, T}) = T /\ Scale \div T \in Nat \ {0}
    <3> HIDE DEF pk
    <3>1. T > 0 => Scale \div T \in Nat \ {0}
      BY <1>2, TotalDivides
    <3> HIDE DEF T
    <3> QED
      BY <1>4, <3>1, MaxOne
  <2>2. T = 0 => n = 0 /\ Max({1, T}) = 1 /\ Scale \div 1 \in Nat
    <3> HIDE DEF T, n
    <3> QED
      BY <1>4, MaxOne, ScaleAssumption
  <2>3. \A x \in Nat, y \in Nat : (x * y > 0) => x > 0
    OBVIOUS
  <2>4. \A x \in Nat, y \in Nat \ {0} : x > 0 => x * y > 0
    OBVIOUS
  <2> HIDE DEF T, n
  <2>5. CASE T = 0
    <3>1. 0 * (Scale \div 1) = 0
      BY <2>2, <2>5
    <3> QED
      BY <1>6, <2>2, <2>5, <3>1
  <2>6. CASE T > 0
    BY <1>4, <1>6, <2>1, <2>3, <2>4, <2>6
  <2> QED
    BY <1>4, <2>5, <2>6
<1> HIDE DEF k, pk, T, n
<1> QED
  BY <1>2, <1>3, <1>4, <1>6, <1>7 DEF k, pk, T, n

\* The distribution of a node sums to 1 at parents that have a total, and to 0
\* elsewhere: summed over the values that v adds to a.
TotalAt(v, a) == TotalOf(v, Restrict(a, parents[v]))
NodeTable(v) == [b \in Assign(1 .. v) |-> Weight(v, b)]

LEMMA UpTo ==
    ASSUME StructureOK, NEW v \in Nodes
    PROVE  /\ 1 .. v = (1 .. (v - 1)) \union {v} /\ v \notin 1 .. (v - 1)
           /\ 1 .. v \subseteq Nodes /\ 1 .. (v - 1) \subseteq 1 .. v
           /\ parents[v] \subseteq 1 .. (v - 1) /\ Family(v) \subseteq 1 .. v
           /\ \A u \in 1 .. (v - 1) : u \in Nodes /\ Family(u) \subseteq 1 .. (v - 1)
           /\ IsFiniteSet(Assign(1 .. v)) /\ IsFiniteSet(Assign(1 .. (v - 1)))
<1>1. v \in Nat \ {0} /\ v <= N /\ N \in Nat
  BY NAssumption DEF Nodes
<1>2. /\ 1 .. v = (1 .. (v - 1)) \union {v} /\ v \notin 1 .. (v - 1)
      /\ 1 .. v \subseteq Nodes /\ 1 .. (v - 1) \subseteq 1 .. v
  BY <1>1 DEF Nodes
<1>3. parents[v] \subseteq 1 .. (v - 1)
  BY DEF StructureOK
<1>4. ASSUME NEW u \in 1 .. (v - 1) PROVE u \in Nodes /\ Family(u) \subseteq 1 .. (v - 1)
  <2>1. u \in Nodes /\ u \in Nat /\ 1 .. (u - 1) \subseteq 1 .. (v - 1)
    BY <1>1, <1>2
  <2>2. parents[u] \subseteq 1 .. (u - 1)
    BY <2>1 DEF StructureOK
  <2> QED
    BY <2>1, <2>2 DEF Family
<1>5. IsFiniteSet(Assign(1 .. v)) /\ IsFiniteSet(Assign(1 .. (v - 1)))
  <2>1. IsFiniteSet(1 .. v) /\ IsFiniteSet(1 .. (v - 1))
    BY <1>2, NodesFinite, FS_Subset
  <2> QED
    BY <2>1, AssignFinite
<1> QED
  BY <1>2, <1>3, <1>4, <1>5 DEF Family

LEMMA NodeSum ==
    ASSUME LearnInv, RowsInv, learned, NEW v \in Nodes, NEW a \in Assign(1 .. (v - 1))
    PROVE  /\ TotalAt(v, a) \in Nat
           /\ SumFunctionOnSet(NodeTable(v), {b \in Assign(1 .. v) : IsRestriction(a, b)})
                = IF TotalAt(v, a) > 0 THEN Scale ELSE 0
<1> DEFINE F == Family(v)
           L == 1 .. v
           M == 1 .. (v - 1)
           pk == Restrict(a, parents[v])
           K == KeysAt(v, pk)
           S == {b \in Assign(L) : IsRestriction(a, b)}
           T == TotalOf(v, pk)
           c == Scale \div Max({1, T})
           G == [b \in S |-> Restrict(b, F)]
           f == [b \in S |-> CountOf(v, Restrict(b, F))]
<1>0. StructureOK /\ data \in [Rows -> Nat]
  BY DEF LearnInv
<1>1. /\ L = M \union {v} /\ v \notin M /\ F \subseteq L /\ parents[v] \subseteq M /\ M \subseteq L
      /\ F = parents[v] \union {v} /\ IsFiniteSet(Assign(L))
  BY <1>0, UpTo DEF Family
<1>2. pk \in Assign(parents[v]) /\ \A u \in parents[v] : pk[u] = a[u]
  <2> HIDE DEF M
  <2> QED
    BY <1>1, RestrictFacts DEF M
<1>3. ASSUME NEW b \in S
      PROVE  /\ b \in Assign(L) /\ Restrict(b, parents[v]) = pk
             /\ Restrict(b, F) \in Assign(F) /\ Key(v, Restrict(b, F)) = pk
             /\ CountOf(v, Restrict(b, F)) \in Nat /\ T \in Nat
             /\ NodeTable(v)[b] = CountOf(v, Restrict(b, F)) * c
  <2>1. b \in Assign(L) /\ \A u \in M : b[u] = a[u]
    <3>1. DOMAIN a = M
      BY DEF Assign
    <3> QED
      BY <3>1 DEF IsRestriction
  <2>2. parents[v] \subseteq L
    BY <1>1
  <2>3. Restrict(b, parents[v]) = pk
    <3>1. /\ Restrict(b, parents[v]) \in Assign(parents[v])
          /\ \A u \in parents[v] : Restrict(b, parents[v])[u] = b[u]
      <4> HIDE DEF L
      <4> QED
        BY <2>1, <2>2, RestrictFacts
    <3>2. \A u \in parents[v] : Restrict(b, parents[v])[u] = pk[u]
      BY <1>1, <1>2, <2>1, <3>1
    <3> HIDE DEF pk
    <3> QED
      BY <1>2, <3>1, <3>2 DEF Assign
  <2> HIDE DEF L, M, pk
  <2>4. /\ Restrict(b, F) \in Assign(F) /\ Key(v, Restrict(b, F)) = Restrict(b, parents[v])
        /\ CountOf(v, Restrict(b, F)) \in Nat /\ TotalOf(v, Restrict(b, parents[v])) \in Nat
        /\ Weight(v, b) = CountOf(v, Restrict(b, F)) * (Scale \div Max({1, TotalOf(v, Restrict(b, parents[v]))}))
    BY <1>1, <2>1, WeightIs
  <2>5. NodeTable(v)[b] = Weight(v, b)
    BY <2>1 DEF NodeTable, L
  <2> QED
    BY <2>1, <2>3, <2>4, <2>5
<1>4. ASSUME NEW key \in K
      PROVE  \E b \in S : {x \in S : G[x] = key} = {b} /\ f[b] = CountTable(v)[key]
  <2> DEFINE b == [u \in L |-> IF u = v THEN key[v] ELSE a[u]]
  <2>1. key \in Assign(F) /\ Restrict(key, parents[v]) = pk
    BY DEF KeysAt, Key
  <2>2. \A u \in parents[v] : key[u] = a[u]
    <3>1. /\ \A u \in parents[v] : Restrict(key, parents[v])[u] = key[u]
      <4> HIDE DEF F, pk
      <4> QED
        BY <1>1, <2>1, RestrictFacts
    <3> HIDE DEF pk
    <3> QED
      BY <1>2, <2>1, <3>1
  <2>3. b \in Assign(L)
    <3>1. key[v] \in Values /\ \A u \in M : a[u] \in Values
      BY <1>1, <2>1 DEF Assign
    <3> HIDE DEF M, L
    <3> QED
      BY <1>1, <3>1 DEF Assign
  <2>4. (\A u \in M : b[u] = a[u]) /\ b[v] = key[v]
    <3> HIDE DEF M, L
    <3> QED
      BY <1>1
  <2> HIDE DEF b, L
  <2>5. b \in S
    <3>1. DOMAIN a = M /\ DOMAIN b = L
      BY <2>3 DEF Assign
    <3> HIDE DEF M
    <3> QED
      BY <1>1, <2>3, <2>4, <3>1 DEF IsRestriction
  <2>6. ASSUME NEW x \in Assign(L) PROVE Restrict(x, F) = key <=> \A u \in F : x[u] = key[u]
    <3> HIDE DEF F, M, S, K, G, f
    <3>0. F \subseteq L /\ x \in Assign(L)
      BY <1>1
    <3>1. Restrict(x, F) \in Assign(F) /\ \A u \in F : Restrict(x, F)[u] = x[u]
      BY <3>0, RestrictFacts
    <3>2. PICK r : r = Restrict(x, F)
      OBVIOUS
    <3>3. r = key <=> \A u \in F : r[u] = key[u]
      BY <2>1, <3>1, <3>2 DEF Assign
    <3> QED
      BY <3>1, <3>2, <3>3
  <2>7. G[b] = key
    <3>1. \A u \in F : b[u] = key[u]
      <4> HIDE DEF F, M
      <4> QED
        BY <1>1, <2>2, <2>4
    <3> QED
      BY <2>3, <2>5, <2>6, <3>1
  <2>8. ASSUME NEW x \in S, G[x] = key PROVE x = b
    <3>1. DOMAIN a = M
      BY DEF Assign
    <3>2. x \in Assign(L) /\ \A u \in M : x[u] = a[u]
      BY <2>8, <3>1 DEF IsRestriction
    <3>3. x[v] = key[v]
      <4>1. Restrict(x, F) = key /\ v \in F
        BY <1>1, <2>8
      <4> HIDE DEF F
      <4> QED
        BY <2>6, <3>2, <4>1
    <3> HIDE DEF M
    <3>4. \A u \in L : x[u] = b[u]
      BY <1>1, <2>4, <3>2, <3>3
    <3> QED
      BY <2>3, <3>2, <3>4 DEF Assign
  <2>9. f[b] = CountTable(v)[key]
    <3>1. Restrict(b, F) = key
      BY <2>5, <2>7
    <3> HIDE DEF F, S
    <3> QED
      BY <2>1, <2>5, <3>1 DEF CountTable, F
  <2> HIDE DEF S, G, f
  <2> QED
    BY <2>5, <2>7, <2>8, <2>9
<1>5. IsFiniteSet(S) /\ IsFiniteSet(K) /\ S \subseteq Assign(L)
  <2>1. S \subseteq Assign(L) /\ K \subseteq Assign(F) /\ IsFiniteSet(Assign(F))
    BY <1>0, StructureFacts DEF KeysAt
  <2> HIDE DEF S, K, L
  <2> QED
    BY <1>1, <2>1, FS_Subset
<1>6. \A b \in S : /\ G[b] \in K /\ f[b] \in Nat
                   /\ NodeTable(v)[b] = c * f[b]
  <2>1. ASSUME NEW b \in S PROVE G[b] \in K /\ f[b] \in Nat /\ NodeTable(v)[b] = f[b] * c
    <3>1. Restrict(b, F) \in K
      BY <1>3 DEF KeysAt
    <3> HIDE DEF F, K, c, T
    <3> QED
      BY <1>3, <3>1
  <2>2. c \in Int
    <3>1. T \in Nat
      <4> HIDE DEF pk
      <4> QED
        BY <1>2, TotalDivides
    <3> HIDE DEF T
    <3>2. Max({1, T}) \in Nat \ {0}
      BY <3>1, MaxOne
    <3> QED
      BY <3>2, ScaleAssumption
  <2>3. \A x \in Nat, y \in Int : x * y = y * x
    OBVIOUS
  <2> HIDE DEF c, f, G, K, S
  <2> QED
    BY <2>1, <2>2, <2>3
<1>7. T \in Nat
  <2> HIDE DEF pk
  <2> QED
    BY <1>2, TotalDivides
<1>8. SumFunctionOnSet(f, S) = T
  <2> HIDE DEF S, G, f
  <2>1. ASSUME NEW key \in K PROVE CountTable(v)[key] = SumFunctionOnSet(f, {x \in S : G[x] = key})
    <3>1. PICK b \in S : {x \in S : G[x] = key} = {b} /\ f[b] = CountTable(v)[key]
      BY <1>4
    <3>2. f[b] \in Int
      BY <1>6
    <3> QED
      BY <3>1, <3>2, SumOfSingle
  <2> HIDE DEF K
  <2>2. GroupSums(CountTable(v), K, f, S, G)
    BY <1>6, <2>1 DEF GroupSums
  <2>3. SumFunctionOnSet(CountTable(v), K) = SumFunctionOnSet(f, S)
    BY <1>5, <1>6, <2>2, SumOfGroups
  <2> QED
    BY <2>3 DEF TotalOf, K
<1>9. c \in Int /\ (T > 0 => T * c = Scale) /\ (T = 0 => c * T = 0)
  <2>1. T > 0 => Scale \div T \in Nat \ {0} /\ T * (Scale \div T) = Scale
    <3> HIDE DEF pk
    <3> QED
      BY <1>2, TotalDivides
  <2> HIDE DEF T
  <2>2. Max({1, T}) = IF T = 0 THEN 1 ELSE T
    BY <1>7, MaxOne
  <2>3. Max({1, T}) \in Nat \ {0}
    BY <1>7, <2>2
  <2>4. c \in Int
    BY <2>3, ScaleAssumption
  <2>5. T > 0 => T * c = Scale
    BY <1>7, <2>1, <2>2
  <2> HIDE DEF c
  <2> QED
    BY <2>4, <2>5
<1>10. SumFunctionOnSet(NodeTable(v), S) = c * T
  <2> HIDE DEF S, f, G, c
  <2>1. \A b \in S : f[b] \in Int /\ NodeTable(v)[b] = c * f[b]
    BY <1>6
  <2> HIDE DEF T
  <2>2. SumFunctionOnSet(NodeTable(v), S) = c * SumFunctionOnSet(f, S)
    BY <1>5, <1>9, <2>1, SumTimes
  <2> QED
    BY <1>8, <2>2
<1>11. SumFunctionOnSet(NodeTable(v), S) = IF T > 0 THEN Scale ELSE 0
  <2> HIDE DEF S, T, c
  <2>1. c * T = T * c
    BY <1>7, <1>9
  <2> QED
    BY <1>7, <1>9, <1>10, <2>1
<1> QED
  BY <1>7, <1>11 DEF TotalAt

\* The product of the tables of the first k nodes, and 1 as such a product.
TableUpTo(k) == [a \in Assign(1 .. k) |-> ProductOnSet([u \in Nodes |-> Weight(u, a)], 1 .. k)]
SumUpTo(k) == SumFunctionOnSet(TableUpTo(k), Assign(1 .. k))
CertainUpTo(k) == ProductOnSet([u \in Nodes |-> Scale], 1 .. k)

\* What the sampler may meet at node v: values of the first nodes that it draws,
\* and no row that has the values of the parents.
Stuck(v) == \E a \in Assign(1 .. (v - 1)) : TableUpTo(v - 1)[a] > 0 /\ TotalAt(v, a) = 0

\* The products: of natural numbers, and positive if every entry is.
LEMMA TableFacts ==
    ASSUME LearnInv, learned, NEW k \in 0 .. N, NEW a \in Assign(1 .. k)
    PROVE  /\ \A u \in 1 .. k : Weight(u, a) \in Nat
           /\ TableUpTo(k)[a] \in Nat
           /\ TableUpTo(k)[a] > 0 <=> \A u \in 1 .. k : Weight(u, a) > 0
<1> DEFINE j == [u \in Nodes |-> Weight(u, a)]
           D == 1 .. k
<1>0. StructureOK /\ N \in Nat /\ D \subseteq Nodes /\ IsFiniteSet(D)
  <2>1. N \in Nat /\ D \subseteq Nodes
    BY NAssumption DEF Nodes
  <2> HIDE DEF D
  <2> QED
    BY <2>1, NodesFinite, FS_Subset DEF LearnInv
<1>1. ASSUME NEW u \in D PROVE Weight(u, a) \in Nat /\ j[u] = Weight(u, a)
  <2>1. u \in Nodes /\ Family(u) \subseteq D
    <3>1. u \in Nodes /\ 1 .. (u - 1) \subseteq D /\ u \in D
      BY <1>0
    <3>2. parents[u] \subseteq 1 .. (u - 1)
      BY <1>0, <3>1 DEF StructureOK
    <3> QED
      BY <3>1, <3>2 DEF Family
  <2> HIDE DEF D
  <2> QED
    BY <2>1, WeightFacts DEF D
<1>2. TableUpTo(k)[a] = ProductOnSet(j, D)
  BY DEF TableUpTo
<1> HIDE DEF j, D
<1>3. ProductOnSet(j, D) \in Nat /\ (ProductOnSet(j, D) = 0 <=> \E u \in D : j[u] = 0)
  BY <1>0, <1>1, ProductOfNats
<1> QED
  BY <1>1, <1>2, <1>3 DEF D

\* The sum over the first v nodes, in terms of the one over the nodes before v.
LEMMA SumStep ==
    ASSUME LearnInv, RowsInv, learned, NEW v \in Nodes
    PROVE  SumUpTo(v) = SumFunctionOnSet([a \in Assign(1 .. (v - 1)) |->
                              IF TotalAt(v, a) > 0 THEN Scale * TableUpTo(v - 1)[a] ELSE 0],
                            Assign(1 .. (v - 1)))
<1> DEFINE L == 1 .. v
           M == 1 .. (v - 1)
           S == Assign(L)
           B == Assign(M)
           t == TableUpTo(v - 1)
           w == TableUpTo(v)
           q == [a \in B |-> IF TotalAt(v, a) > 0 THEN Scale * t[a] ELSE 0]
           G == [b \in S |-> Restrict(b, M)]
<1>0. StructureOK /\ v \in 0 .. N /\ v - 1 \in 0 .. N
  BY NAssumption DEF LearnInv, Nodes
<1>1. /\ L = M \union {v} /\ v \notin M /\ M \subseteq L /\ L \subseteq Nodes /\ v \in L
      /\ Family(v) \subseteq L /\ (\A u \in M : u \in Nodes /\ Family(u) \subseteq M)
      /\ IsFiniteSet(S) /\ IsFiniteSet(B) /\ IsFiniteSet(L)
  BY <1>0, UpTo, NodesFinite, FS_Subset
<1>2. \A a \in B : t[a] \in Nat
  BY <1>0, TableFacts
<1>3. \A b \in S : w[b] \in Nat /\ \A u \in L : Weight(u, b) \in Nat
  BY <1>0, TableFacts
<1>4. ASSUME NEW b \in S, NEW a \in B, Restrict(b, M) = a
      PROVE  w[b] = t[a] * NodeTable(v)[b]
  <2> DEFINE jb == [u \in Nodes |-> Weight(u, b)]
             ja == [u \in Nodes |-> Weight(u, a)]
  <2>1. w[b] = ProductOnSet(jb, L) /\ t[a] = ProductOnSet(ja, M)
    BY DEF TableUpTo
  <2>2. NodeTable(v)[b] = jb[v]
    BY DEF NodeTable
  <2>3. \A u \in L : jb[u] \in Int
    BY <1>1, <1>3
  <2>4. ASSUME NEW u \in M PROVE jb[u] = ja[u]
    <3> DEFINE F == Family(u)
    <3>1. u \in Nodes /\ F \subseteq M /\ F \subseteq L
      BY <1>1
    <3>2. Weight(u, Restrict(b, F)) = Weight(u, b) /\ Weight(u, Restrict(a, F)) = Weight(u, a)
      <4> HIDE DEF L, M
      <4> QED
        BY <3>1, WeightFacts
    <3>3. Restrict(a, F) = Restrict(b, F)
      <4> HIDE DEF M, F, L
      <4>1. DOMAIN b = L
        BY DEF Assign
      <4> QED
        BY <1>1, <1>4, <3>1, <4>1 DEF Restrict
    <3> QED
      BY <3>1, <3>2, <3>3
  <2>5. L \ {v} = M
    <3> HIDE DEF L, M
    <3> QED
      BY <1>1
  <2> HIDE DEF jb, ja, L, M, w, t
  <2>6. ProductOnSet(jb, L) = jb[v] * ProductOnSet(jb, M)
    BY <1>1, <2>3, <2>5, ProductTakes
  <2>7. ProductOnSet(jb, M) = ProductOnSet(ja, M)
    <3>1. IsFiniteSet(M)
      BY <1>1, FS_Subset
    <3> QED
      BY <2>4, <3>1, ProductSame
  <2>8. jb[v] \in Int /\ t[a] \in Int
    BY <1>1, <1>2, <2>3
  <2>9. \A x, y \in Int : x * y = y * x
    OBVIOUS
  <2> QED
    BY <2>1, <2>2, <2>6, <2>7, <2>8, <2>9
<1>5. ASSUME NEW a \in B PROVE q[a] = SumFunctionOnSet(w, {b \in S : G[b] = a})
  <2> DEFINE H == {b \in S : IsRestriction(a, b)}
  <2>1. {b \in S : G[b] = a} = H /\ \A b \in H : Restrict(b, M) = a /\ b \in S
    <3>1. \A b \in Assign(L) : IsRestriction(a, b) <=> Restrict(b, M) = a
      <4> HIDE DEF L, M
      <4> QED
        BY <1>1, RestrictFacts
    <3> HIDE DEF L, M
    <3> QED
      BY <3>1
  <2>2. IsFiniteSet(H)
    BY <1>1, FS_Subset
  <2>3. /\ TotalAt(v, a) \in Nat
        /\ SumFunctionOnSet(NodeTable(v), H) = IF TotalAt(v, a) > 0 THEN Scale ELSE 0
    BY NodeSum
  <2>4. \A b \in H : NodeTable(v)[b] \in Int
    BY <1>1, <1>3 DEF NodeTable
  <2> HIDE DEF H, S, B, L, M, w, t, G
  <2>5. t[a] \in Int
    BY <1>2
  <2>6. \A b \in H : NodeTable(v)[b] \in Int /\ w[b] = t[a] * NodeTable(v)[b]
    BY <1>4, <2>1, <2>4
  <2>7. SumFunctionOnSet(w, H) = t[a] * SumFunctionOnSet(NodeTable(v), H)
    BY <2>2, <2>5, <2>6, SumTimes
  <2>8. t[a] * 0 = 0 /\ t[a] * Scale = Scale * t[a]
    BY <2>5, ScaleAssumption
  <2> QED
    BY <2>1, <2>3, <2>7, <2>8
<1>6. \A b \in S : G[b] \in B
  <2> HIDE DEF L, M
  <2> QED
    BY <1>1, RestrictFacts
<1> HIDE DEF S, B, t, w, q, G, L, M
<1>7. GroupSums(q, B, w, S, G)
  BY <1>5, <1>6 DEF GroupSums
<1>8. SumFunctionOnSet(q, B) = SumFunctionOnSet(w, S)
  BY <1>1, <1>3, <1>7, SumOfGroups
<1> QED
  BY <1>8 DEF SumUpTo, q, B, M, w, S, L, t

\* Each node adds a factor Scale to the sum, unless the sampler may be stuck there.
LEMMA SumGrows ==
    ASSUME LearnInv, RowsInv, learned, NEW v \in Nodes
    PROVE  /\ SumUpTo(v) \in Nat /\ SumUpTo(v - 1) \in Nat
           /\ SumUpTo(v) <= Scale * SumUpTo(v - 1)
           /\ SumUpTo(v) = Scale * SumUpTo(v - 1) <=> ~Stuck(v)
<1> DEFINE B == Assign(1 .. (v - 1))
           t == TableUpTo(v - 1)
           q == [a \in B |-> IF TotalAt(v, a) > 0 THEN Scale * t[a] ELSE 0]
           g == [a \in B |-> Scale * t[a]]
<1>0. StructureOK /\ v - 1 \in 0 .. N /\ IsFiniteSet(B) /\ Scale \in Nat \ {0}
  BY UpTo, NAssumption, ScaleAssumption DEF LearnInv, Nodes
<1>1. \A a \in B : t[a] \in Nat /\ TotalAt(v, a) \in Nat
  BY <1>0, TableFacts, NodeSum
<1>2. SumUpTo(v) = SumFunctionOnSet(q, B) /\ SumUpTo(v - 1) = SumFunctionOnSet(t, B)
  BY SumStep DEF SumUpTo
<1>3. Stuck(v) <=> \E a \in B : t[a] > 0 /\ TotalAt(v, a) = 0
  BY DEF Stuck
<1>4. \A x, y \in Nat : x * y \in Nat
  OBVIOUS
<1>5. \A a \in B : /\ q[a] = IF TotalAt(v, a) > 0 THEN Scale * t[a] ELSE 0
                   /\ g[a] = Scale * t[a]
  OBVIOUS
<1> HIDE DEF B, t, q, g
<1>6. \A a \in B : q[a] \in Nat /\ g[a] \in Nat /\ q[a] <= g[a]
  BY <1>0, <1>1, <1>4, <1>5
<1>7. SumFunctionOnSet(g, B) = Scale * SumFunctionOnSet(t, B)
  BY <1>0, <1>1, <1>5, SumTimes
<1>8. SumFunctionOnSet(q, B) \in Nat /\ SumFunctionOnSet(t, B) \in Nat
  BY <1>0, <1>1, <1>6, SumOfNats
<1>9. SumFunctionOnSet(q, B) <= SumFunctionOnSet(g, B)
  BY <1>0, <1>6, SumAtMost
<1>10. ASSUME ~Stuck(v) PROVE SumFunctionOnSet(q, B) = SumFunctionOnSet(g, B)
  <2>1. ASSUME NEW a \in B PROVE q[a] = g[a]
    <3>1. CASE TotalAt(v, a) > 0
      BY <1>5, <3>1
    <3>2. CASE TotalAt(v, a) = 0
      <4>1. t[a] = 0
        BY <1>1, <1>3, <1>10, <3>2
      <4>2. Scale * 0 = 0
        BY <1>0
      <4> QED
        BY <1>5, <3>2, <4>1, <4>2
    <3> QED
      BY <1>1, <3>1, <3>2
  <2> QED
    BY <1>0, <2>1, SumSame
<1>11. ASSUME SumFunctionOnSet(q, B) = SumFunctionOnSet(g, B), NEW a \in B, t[a] > 0, TotalAt(v, a) = 0
       PROVE  FALSE
  <2>1. q[a] = g[a]
    <3>1. \A x \in B : q[x] \in Int /\ g[x] \in Int /\ q[x] <= g[x]
      BY <1>6
    <3>2. SumFunctionOnSet(q, B) >= SumFunctionOnSet(g, B)
      BY <1>8, <1>11
    <3> QED
      BY <1>0, <3>1, <3>2, SumsEqual
  <2>2. q[a] = 0 /\ g[a] = Scale * t[a] /\ t[a] \in Nat \ {0}
    BY <1>1, <1>5, <1>11
  <2>3. \A x, y \in Nat \ {0} : x * y # 0
    OBVIOUS
  <2> QED
    BY <1>0, <2>1, <2>2, <2>3
<1> QED
  BY <1>2, <1>3, <1>7, <1>8, <1>9, <1>10, <1>11

LEMMA CertainGrows ==
    /\ CertainUpTo(0) = 1
    /\ \A v \in Nodes : CertainUpTo(v) = Scale * CertainUpTo(v - 1)
<1>1. CertainUpTo(0) = 1
  <2>1. 1 .. 0 = {}
    OBVIOUS
  <2> QED
    BY <2>1, ProductOfNone DEF CertainUpTo
<1>2. ASSUME NEW v \in Nodes PROVE CertainUpTo(v) = Scale * CertainUpTo(v - 1)
  <2> DEFINE j == [u \in Nodes |-> Scale]
             D == 1 .. v
  <2>1. v \in D /\ D \subseteq Nodes /\ D \ {v} = 1 .. (v - 1)
    BY NAssumption DEF Nodes
  <2>2. \A u \in Nodes : j[u] = Scale /\ j[u] \in Int
    BY ScaleAssumption
  <2> HIDE DEF j, D
  <2>3. IsFiniteSet(D) /\ \A u \in D : j[u] \in Int
    BY <2>1, <2>2, NodesFinite, FS_Subset
  <2>4. ProductOnSet(j, D) = j[v] * ProductOnSet(j, D \ {v})
    BY <2>1, <2>3, ProductTakes
  <2> QED
    BY <2>1, <2>2, <2>4 DEF CertainUpTo, j, D
<1> QED
  BY <1>1, <1>2

\* The product of the first tables is a whole distribution exactly if the sampler
\* is stuck at none of the first nodes.
LEMMA WholeUpTo ==
    ASSUME LearnInv, RowsInv, learned, NEW n \in 0 .. N
    PROVE  /\ SumUpTo(n) \in Nat /\ CertainUpTo(n) \in Nat
           /\ SumUpTo(n) <= CertainUpTo(n)
           /\ SumUpTo(n) = CertainUpTo(n) <=> \A v \in 1 .. n : ~Stuck(v)
<1> DEFINE Ok(k) == /\ SumUpTo(k) \in Nat /\ CertainUpTo(k) \in Nat
                    /\ SumUpTo(k) <= CertainUpTo(k)
                    /\ SumUpTo(k) = CertainUpTo(k) <=> \A v \in 1 .. k : ~Stuck(v)
           G == {k \in Nat : k <= N => Ok(k)}
<1>1. Ok(0)
  <2> DEFINE a == [u \in 1 .. 0 |-> CHOOSE x \in Values : TRUE]
  <2>1. 1 .. 0 = {}
    OBVIOUS
  <2>2. Assign(1 .. 0) = {a}
    <3>1. a \in Assign(1 .. 0)
      BY <2>1 DEF Assign
    <3>2. ASSUME NEW b \in Assign(1 .. 0) PROVE b = a
      BY <2>1 DEF Assign
    <3> HIDE DEF a
    <3> QED
      BY <3>1, <3>2
  <2> HIDE DEF a
  <2>3. TableUpTo(0)[a] = 1
    BY <2>1, <2>2, ProductOfNone DEF TableUpTo
  <2>4. SumUpTo(0) = 1
    BY <2>2, <2>3, SumOfSingle DEF SumUpTo
  <2> QED
    BY <2>1, <2>4, CertainGrows
<1>2. ASSUME NEW k \in Nat, k \in G PROVE k + 1 \in G
  <2> SUFFICES ASSUME k + 1 <= N PROVE Ok(k + 1)
    OBVIOUS
  <2>1. k <= N /\ k + 1 \in Nodes /\ (k + 1) - 1 = k /\ N \in Nat
    BY NAssumption DEF Nodes
  <2>2. Ok(k)
    BY <1>2, <2>1
  <2>3. /\ SumUpTo(k + 1) \in Nat /\ SumUpTo(k) \in Nat
        /\ SumUpTo(k + 1) <= Scale * SumUpTo(k)
        /\ SumUpTo(k + 1) = Scale * SumUpTo(k) <=> ~Stuck(k + 1)
    <3> HIDE DEF Ok, G
    <3> QED
      BY <2>1, SumGrows
  <2>4. CertainUpTo(k + 1) = Scale * CertainUpTo(k)
    BY <2>1, CertainGrows
  <2>5. \A s \in Nat \ {0}, x, y \in Nat : s * x \in Nat /\ (x <= y => s * x <= s * y)
    OBVIOUS
  <2>6. \A s \in Nat \ {0}, x, y \in Nat : x < y => s * x < s * y
    OBVIOUS
  <2>7. Scale \in Nat \ {0}
    BY ScaleAssumption
  <2>8. (\A v \in 1 .. (k + 1) : ~Stuck(v)) <=> (\A v \in 1 .. k : ~Stuck(v)) /\ ~Stuck(k + 1)
    <3>1. \A v : v \in 1 .. (k + 1) <=> v \in 1 .. k \/ v = k + 1
      OBVIOUS
    <3> QED
      BY <3>1
  <2> DEFINE z == SumUpTo(k)
             zz == SumUpTo(k + 1)
             c == CertainUpTo(k)
             cc == CertainUpTo(k + 1)
  <2>9. z \in Nat /\ c \in Nat /\ z <= c /\ (z = c <=> \A v \in 1 .. k : ~Stuck(v))
    BY <2>2
  <2>10. zz \in Nat /\ zz <= Scale * z /\ (zz = Scale * z <=> ~Stuck(k + 1)) /\ cc = Scale * c
    BY <2>3, <2>4
  <2> HIDE DEF z, zz, c, cc
  <2>11. cc \in Nat /\ Scale * z \in Nat /\ Scale * z <= Scale * c
    BY <2>5, <2>7, <2>9, <2>10
  <2>12. z < c => Scale * z < Scale * c
    BY <2>6, <2>7, <2>9
  <2>13. zz <= cc /\ (zz = cc <=> z = c /\ zz = Scale * z)
    BY <2>7, <2>9, <2>10, <2>11, <2>12
  <2> QED
    BY <2>8, <2>9, <2>10, <2>11, <2>13 DEF zz, cc
<1>3. Nat \subseteq G
  <2>1. 0 \in G
    BY <1>1
  <2> HIDE DEF G, Ok
  <2> QED
    BY <1>2, <2>1, NatSet
<1>4. n \in Nat /\ n <= N
  BY NAssumption
<1> QED
  BY <1>3, <1>4

-----------------------------------------------------------------------------
(* When sampling and predict_proba() find what they look for               *)

\* A row that was learned gives a total to the values of its parents.
LEMMA RowGivesTotal ==
    ASSUME LearnInv, RowsInv, NEW v \in Nodes, NEW pk \in Assign(parents[v]),
           NEW r \in Rows, data[r] > 0, \A u \in parents[v] : r[u] = pk[u]
    PROVE  TotalOf(v, pk) > 0
<1> DEFINE R == {x \in Rows : IsRestriction(pk, x)}
<1>1. data \in [Rows -> Nat] /\ parents[v] \subseteq Nodes
  BY StructureFacts DEF LearnInv
<1>2. r \in R
  BY <1>1 DEF IsRestriction, Assign, Rows
<1>3. IsFiniteSet(R) /\ \A x \in R : data[x] \in Nat
  BY <1>1, RowsFinite, FS_Subset
<1>4. SizeAt(data, pk) = SumFunctionOnSet(data, R)
  BY DEF SizeAt
<1> HIDE DEF R
<1>5. data[r] <= SizeAt(data, pk) /\ data[r] \in Nat
  BY <1>2, <1>3, <1>4, SumOfNats
<1> DEFINE s == SizeAt(data, pk)
           T == TotalOf(v, pk)
<1>6. s \in Nat /\ T \in Nat /\ s <= T
  BY TotalDivides
<1> HIDE DEF s, T
<1>7. T > 0
  BY <1>5, <1>6 DEF s
<1> QED
  BY <1>7 DEF T

\* So does the prior, if all those values were in the first batch.
LEMMA PriorGivesTotal ==
    ASSUME LearnInv, RowsInv, learned, prior, NEW v \in Nodes, NEW pk \in Assign(parents[v]),
           ~IsRoot(v), \A u \in parents[v] : pk[u] \in first[u]
    PROVE  TotalOf(v, pk) > 0
<1>1. PICK x : x \in first[v] /\ x \in Values
  BY DEF RowsInv
<1> DEFINE F == Family(v)
           key == [u \in F |-> IF u = v THEN x ELSE pk[u]]
<1>2. F = parents[v] \union {v} /\ v \notin parents[v] /\ StructureOK /\ data \in [Rows -> Nat]
  BY StructureFacts DEF LearnInv, Family
<1>3. key \in Assign(F)
  <2>1. \A u \in parents[v] : pk[u] \in Values
    BY DEF Assign
  <2> QED
    BY <1>1, <1>2, <2>1 DEF Assign
<1>4. key[v] = x /\ \A u \in parents[v] : key[u] = pk[u]
  BY <1>2
<1> HIDE DEF key
<1>5. Key(v, key) = pk
  <2>1. Key(v, key) \in Assign(parents[v]) /\ \A u \in parents[v] : Key(v, key)[u] = key[u]
    <3>1. parents[v] \subseteq F
      BY <1>2
    <3> HIDE DEF F
    <3> QED
      BY <1>3, <3>1, RestrictFacts DEF Key
  <2>2. PICK k : k = Key(v, key)
    OBVIOUS
  <2>3. k = pk
    BY <1>4, <2>1, <2>2 DEF Assign
  <2> QED
    BY <2>2, <2>3
<1>6. Extra(v, key) = 1
  BY <1>1, <1>2, <1>4 DEF Extra
<1>7. CountOf(v, key) > 0
  <2>1. SizeAt(data, key) \in Nat
    BY <1>2, SizeIsNat
  <2> QED
    BY <1>6, <2>1 DEF CountOf
<1>8. CountOf(v, key) \in Nat /\ TotalOf(v, pk) \in Nat /\ CountOf(v, key) <= TotalOf(v, pk)
  BY <1>2, <1>3, <1>5, CountFacts
<1> QED
  BY <1>7, <1>8

\* A value that is drawn was in a row that was learned, or it comes from the prior.
LEMMA SeenBefore ==
    ASSUME LearnInv, RowsInv, learned, NEW v \in Nodes,
           NEW L, Family(v) \subseteq L, NEW a \in Assign(L), Weight(v, a) > 0
    PROVE  (\E r \in Rows : data[r] > 0 /\ r[v] = a[v]) \/ (prior /\ a[v] \in first[v])
<1> DEFINE k == Restrict(a, Family(v))
           R == {r \in Rows : IsRestriction(k, r)}
<1>1. k \in Assign(Family(v)) /\ CountOf(v, k) > 0
  BY WeightIs
<1>2. data \in [Rows -> Nat] /\ v \in Family(v)
  BY DEF LearnInv, Family
<1>3. k[v] = a[v]
  <2> HIDE DEF k
  <2> QED
    BY <1>2, RestrictFacts DEF k
<1>4. CASE Extra(v, k) # 0
  BY <1>2, <1>3, <1>4 DEF Extra
<1>5. CASE Extra(v, k) = 0
  <2> HIDE DEF k
  <2>1. SizeAt(data, k) > 0 /\ SizeAt(data, k) \in Nat
    <3>1. SizeAt(data, k) \in Nat
      BY <1>2, SizeIsNat
    <3> QED
      BY <1>1, <1>5, <3>1 DEF CountOf
  <2>2. \E r \in R : data[r] # 0
    <3>0. IsFiniteSet(R) /\ SizeAt(data, k) = SumFunctionOnSet(data, R)
      BY RowsFinite, FS_Subset DEF SizeAt
    <3> HIDE DEF R
    <3>1. ASSUME \A r \in R : data[r] = 0 PROVE FALSE
      <4>1. SumFunctionOnSet(data, R) = 0
        BY <3>0, <3>1, SumOfZeros
      <4> QED
        BY <2>1, <3>0, <4>1
    <3> QED
      BY <3>1
  <2>3. PICK r \in R : data[r] # 0
    BY <2>2
  <2>4. r \in Rows /\ data[r] > 0 /\ r[v] = k[v]
    <3>1. DOMAIN k = Family(v)
      BY <1>1 DEF Assign
    <3> QED
      BY <1>2, <2>3, <3>1 DEF IsRestriction
  <2> QED
    BY <1>3, <2>4
<1> QED
  BY <1>4, <1>5

\* A tree, and a network with a prior for all its values, has no node where the
\* sampler may be stuck.
LEMMA NeverStuck ==
    ASSUME LearnInv, RowsInv, learned, IsTree \/ Covered, NEW v \in Nodes
    PROVE  ~Stuck(v)
<1> SUFFICES ASSUME NEW a \in Assign(1 .. (v - 1)), TableUpTo(v - 1)[a] > 0, TotalAt(v, a) = 0
             PROVE  FALSE
  BY DEF Stuck
<1> DEFINE pk == Restrict(a, parents[v])
           M == 1 .. (v - 1)
<1>0. StructureOK /\ v - 1 \in 0 .. N /\ data \in [Rows -> Nat]
  BY NAssumption DEF LearnInv, Nodes
<1>1. parents[v] \subseteq M /\ \A u \in M : u \in Nodes /\ Family(u) \subseteq M
  BY <1>0, UpTo
<1>2. pk \in Assign(parents[v]) /\ \A u \in parents[v] : pk[u] = a[u]
  <2> HIDE DEF M
  <2> QED
    BY <1>1, RestrictFacts DEF M
<1>3. TotalOf(v, pk) = 0
  BY DEF TotalAt
<1>4. \A u \in M : Weight(u, a) > 0
  BY <1>0, TableFacts
<1> HIDE DEF pk, M
<1>5. ASSUME NEW r \in Rows, data[r] > 0, \A u \in parents[v] : r[u] = a[u] PROVE FALSE
  <2>1. TotalOf(v, pk) > 0
    BY <1>2, <1>5, RowGivesTotal
  <2> QED
    BY <1>3, <2>1
<1>6. ASSUME prior, ~IsRoot(v), \A u \in parents[v] : a[u] \in first[u] PROVE FALSE
  <2>1. TotalOf(v, pk) > 0
    BY <1>2, <1>6, PriorGivesTotal
  <2> QED
    BY <1>3, <2>1
<1>7. ASSUME NEW u \in parents[v]
      PROVE  (\E r \in Rows : data[r] > 0 /\ r[u] = a[u]) \/ (prior /\ a[u] \in first[u])
  <2>1. u \in M /\ u \in Nodes /\ Family(u) \subseteq M /\ Weight(u, a) > 0 /\ a \in Assign(M)
    BY <1>1, <1>4 DEF M
  <2> QED
    BY <2>1, SeenBefore
<1>8. CASE IsRoot(v)
  <2>1. PICK r \in Rows : data[r] > 0
    BY <1>0, TotalFacts DEF RowsInv
  <2> QED
    BY <1>5, <1>8, <2>1 DEF IsRoot
<1>9. CASE ~IsRoot(v) /\ Covered
  <2>1. \A u \in parents[v] : a[u] \in first[u]
    <3>1. \A u \in parents[v] : u \in Nodes
      BY <1>1
    <3> QED
      BY <1>7, <1>9, <3>1 DEF Covered
  <2> QED
    BY <1>6, <1>9, <2>1 DEF Covered
<1>10. CASE ~IsRoot(v) /\ IsTree
  <2>1. PICK p : parents[v] = {p}
    <3>1. parents[v] # {} /\ Cardinality(parents[v]) <= 1
      BY <1>10 DEF IsRoot, IsTree
    <3>2. IsFiniteSet(parents[v])
      BY <1>0, StructureFacts, NodesFinite, FS_Subset
    <3>3. Cardinality(parents[v]) = 1
      <4>1. Cardinality(parents[v]) \in Nat /\ Cardinality(parents[v]) # 0
        BY <3>1, <3>2, FS_CardinalityType, FS_EmptySet
      <4> QED
        BY <3>1, <4>1
    <3> QED
      BY <3>2, <3>3, FS_Singleton
  <2> QED
    BY <1>5, <1>6, <1>7, <1>10, <2>1
<1> QED
  BY <1>8, <1>9, <1>10

\* _forward_sample() can raise exactly if it may be stuck somewhere.
LEMMA RaisesIfStuck ==
    ASSUME LearnInv, RowsInv, learned
    PROVE  ForwardRaises(<<>>) <=> \E v \in Nodes : Stuck(v)
<1>0. StructureOK /\ data \in [Rows -> Nat] /\ N \in Nat
  BY NAssumption DEF LearnInv
<1>1. ASSUME NEW v \in Nodes, NEW r \in Rows, NEW a \in Assign(1 .. (v - 1)),
             \A u \in 1 .. (v - 1) : r[u] = a[u]
      PROVE  /\ ~Found(v, r) <=> TotalAt(v, a) = 0
             /\ Drawable(<<>>, r, 1 .. (v - 1)) <=> TableUpTo(v - 1)[a] > 0
  <2> DEFINE M == 1 .. (v - 1)
  <2>0. /\ M \subseteq Nodes /\ parents[v] \subseteq M /\ Family(v) \subseteq Nodes /\ v - 1 \in 0 .. N
        /\ (\A u \in M : u \in Nodes /\ Family(u) \subseteq M /\ Family(u) \subseteq Nodes)
    <3>1. v - 1 \in 0 .. N /\ M \subseteq Nodes
      BY <1>0 DEF Nodes
    <3>2. parents[v] \subseteq M /\ \A u \in M : u \in Nodes /\ Family(u) \subseteq M
      BY <1>0, UpTo
    <3> HIDE DEF M
    <3> QED
      BY <1>0, <3>1, <3>2, StructureFacts
  <2>1. r \in Assign(Nodes) /\ DOMAIN r = Nodes /\ a \in Assign(M) /\ DOMAIN a = M
    BY DEF Rows, Assign
  <2> HIDE DEF M
  <2>2. ASSUME NEW W, W \subseteq M PROVE Restrict(r, W) = Restrict(a, W)
    BY <1>1, <2>0, <2>1, <2>2 DEF Restrict, M
  <2>3. ASSUME NEW u \in M
        PROVE  /\ Weight(u, r) = Weight(u, a) /\ Weight(u, a) \in Nat
               /\ Weight(u, r) > 0 => Found(u, r)
    <3>1. Weight(u, Restrict(r, Family(u))) = Weight(u, r)
      BY <2>0, <2>1, WeightFacts
    <3>2. Weight(u, Restrict(a, Family(u))) = Weight(u, a) /\ Weight(u, a) \in Nat
      BY <2>0, <2>1, WeightFacts
    <3>3. Weight(u, r) > 0 => Found(u, r)
      <4> DEFINE k == Restrict(r, Family(u))
                 T == TotalOf(u, Restrict(r, parents[u]))
                 n == CountOf(u, k)
      <4>1. /\ sizes[u][Restrict(r, parents[u])] = T /\ n \in Nat /\ T \in Nat /\ n <= T
            /\ Weight(u, r) > 0 <=> n > 0
        BY <2>0, <2>1, WeightIs
      <4> HIDE DEF T, n
      <4> QED
        BY <4>1 DEF Found
    <3> QED
      BY <2>0, <2>2, <3>1, <3>2, <3>3
  <2>4. sizes[v][Restrict(r, parents[v])] = TotalOf(v, Restrict(r, parents[v]))
        /\ TotalOf(v, Restrict(r, parents[v])) \in Nat
    BY <2>0, <2>1, WeightIs
  <2>5. ~Found(v, r) <=> TotalAt(v, a) = 0
    <3>1. Restrict(r, parents[v]) = Restrict(a, parents[v])
      BY <2>0, <2>2
    <3> QED
      BY <2>4, <3>1 DEF Found, TotalAt
  <2>6. TableUpTo(v - 1)[a] > 0 <=> \A u \in M : Weight(u, a) > 0
    BY <2>0, TableFacts DEF M
  <2>7. Drawable(<<>>, r, M) <=> \A u \in M : Weight(u, a) > 0
    <3>1. DOMAIN <<>> = {}
      OBVIOUS
    <3> QED
      BY <2>3, <3>1 DEF Drawable, Likely
  <2> QED
    BY <2>5, <2>6, <2>7 DEF M
<1>2. ASSUME ForwardRaises(<<>>) PROVE \E v \in Nodes : Stuck(v)
  <2>1. PICK r \in Rows : \E v \in Nodes : Drawable(<<>>, r, 1 .. (v - 1)) /\ ~Found(v, r)
    BY <1>2 DEF ForwardRaises
  <2>2. PICK v \in Nodes : Drawable(<<>>, r, 1 .. (v - 1)) /\ ~Found(v, r)
    BY <2>1
  <2> DEFINE M == 1 .. (v - 1)
             a == Restrict(r, M)
  <2>3. M \subseteq Nodes
    BY <1>0 DEF Nodes
  <2> HIDE DEF M
  <2>4. a \in Assign(M) /\ \A u \in M : r[u] = a[u]
    BY <2>3, RestrictFacts DEF Rows
  <2> HIDE DEF a
  <2>5. TableUpTo(v - 1)[a] > 0 /\ TotalAt(v, a) = 0
    BY <1>1, <2>2, <2>4 DEF M
  <2> QED
    BY <2>4, <2>5 DEF Stuck, M
<1>3. ASSUME NEW v \in Nodes, Stuck(v) PROVE ForwardRaises(<<>>)
  <2>1. PICK a \in Assign(1 .. (v - 1)) : TableUpTo(v - 1)[a] > 0 /\ TotalAt(v, a) = 0
    BY <1>3 DEF Stuck
  <2>2. PICK x \in Rows : data[x] > 0
    BY <1>0, TotalFacts DEF RowsInv
  <2> DEFINE M == 1 .. (v - 1)
             r == [u \in Nodes |-> IF u \in M THEN a[u] ELSE x[u]]
  <2>3. M \subseteq Nodes
    BY <1>0 DEF Nodes
  <2> HIDE DEF M
  <2>4. r \in Rows /\ \A u \in M : r[u] = a[u]
    <3>1. (\A u \in M : a[u] \in Values) /\ \A u \in Nodes : x[u] \in Values
      BY DEF Rows, Assign, M
    <3> QED
      BY <2>3, <3>1 DEF Rows, Assign
  <2> HIDE DEF r
  <2>5. ~Found(v, r) /\ Drawable(<<>>, r, 1 .. (v - 1))
    BY <1>1, <2>1, <2>4 DEF M
  <2>6. IsRestriction(<<>>, r)
    <3>1. DOMAIN <<>> = {}
      OBVIOUS
    <3> QED
      BY <3>1 DEF IsRestriction
  <2> QED
    BY <2>4, <2>5, <2>6 DEF ForwardRaises
<1> QED
  BY <1>2, <1>3

\* Every row that was learned is possible.
LEMMA RowsPossible ==
    ASSUME LearnInv, RowsInv, learned, NEW r \in Rows, data[r] > 0
    PROVE  Joint(r) > 0
<1>1. ASSUME NEW v \in Nodes PROVE Weight(v, r) > 0
  <2> DEFINE k == Restrict(r, Family(v))
             R == {x \in Rows : IsRestriction(k, x)}
  <2>1. data \in [Rows -> Nat] /\ Family(v) \subseteq Nodes /\ r \in Assign(Nodes)
    BY StructureFacts DEF LearnInv, Rows
  <2>2. k \in Assign(Family(v)) /\ CountOf(v, k) \in Nat /\ (Weight(v, r) > 0 <=> CountOf(v, k) > 0)
    BY <2>1, WeightIs
  <2>3. r \in R
    <3> HIDE DEF k
    <3> QED
      BY <2>1, <2>2, RestrictFacts DEF k
  <2>4. IsFiniteSet(R) /\ \A x \in R : data[x] \in Nat
    BY <2>1, RowsFinite, FS_Subset
  <2>5. SizeAt(data, k) = SumFunctionOnSet(data, R)
    BY DEF SizeAt
  <2> HIDE DEF R, k
  <2>6. data[r] <= SizeAt(data, k) /\ SizeAt(data, k) \in Nat /\ data[r] \in Nat
    BY <2>3, <2>4, <2>5, SumOfNats
  <2>7. Extra(v, k) \in Nat
    BY DEF Extra
  <2>8. CountOf(v, k) > 0
    BY <2>6, <2>7 DEF CountOf
  <2> QED
    BY <2>2, <2>8
<1> QED
  BY <1>1, JointFacts

\* The joint distribution is the product of all tables.
LEMMA JointSumIs ==
    JointSum = SumUpTo(N) /\ Certain = CertainUpTo(N)
<1>1. Nodes = 1 .. N /\ Rows = Assign(1 .. N)
  BY DEF Nodes, Rows
<1>2. JointTable = TableUpTo(N)
  BY <1>1 DEF JointTable, TableUpTo, Joint
<1>3. JointSum = SumFunctionOnSet(JointTable, Rows)
  BY DEF JointSum, SumFunction, JointTable
<1> QED
  BY <1>1, <1>2, <1>3 DEF SumUpTo, Certain, CertainUpTo

LEMMA TotalImplies == ASSUME LearnInv, RowsInv PROVE SamplingTotal
<1> SUFFICES ASSUME learned
             PROVE  /\ IsTree \/ Covered => ~ForwardRaises(<<>>)
                    /\ ForwardRaises(<<>>) <=> JointSum < Certain
                    /\ \A r \in Rows : data[r] > 0 => Joint(r) > 0
  BY DEF SamplingTotal
<1>1. IsTree \/ Covered => ~ForwardRaises(<<>>)
  BY NeverStuck, RaisesIfStuck
<1>2. ForwardRaises(<<>>) <=> JointSum < Certain
  <2>1. N \in 0 .. N /\ Nodes = 1 .. N
    BY NAssumption DEF Nodes
  <2>2. /\ SumUpTo(N) \in Nat /\ CertainUpTo(N) \in Nat /\ SumUpTo(N) <= CertainUpTo(N)
        /\ SumUpTo(N) = CertainUpTo(N) <=> \A v \in 1 .. N : ~Stuck(v)
    BY <2>1, WholeUpTo
  <2>3. SumUpTo(N) < CertainUpTo(N) <=> \E v \in Nodes : Stuck(v)
    BY <2>1, <2>2
  <2> QED
    BY <2>3, RaisesIfStuck, JointSumIs
<1>3. \A r \in Rows : data[r] > 0 => Joint(r) > 0
  BY RowsPossible
<1> QED
  BY <1>1, <1>2, <1>3

\* Trees, and networks with a prior for all their values, are sampled without a
\* KeyError; in general sampling succeeds exactly if the product of the tables is
\* a whole distribution, and no row that was learned is impossible.
THEOREM SamplingIsTotal == SamplingSpec => []SamplingTotal
<1>1. SamplingInit => LearnInv /\ RowsInv
  BY LearnInit, RowsInit DEF SamplingInit
<1>2. LearnInv /\ RowsInv /\ [SamplingNext]_<<vars, samplingVars>> => LearnInv' /\ RowsInv'
  BY StepsOfNet, LearnStep, RowsStep
<1>3. LearnInv /\ RowsInv => SamplingTotal
  BY TotalImplies
<1> QED
  BY <1>1, <1>2, <1>3, PTL DEF SamplingSpec
=============================================================================
