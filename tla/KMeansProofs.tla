---------------------------- MODULE KMeansProofs ----------------------------
(***************************************************************************)
(* What is proved of KMeans: the clusters that the three calls hand to     *)
(* each other exist and are where the data are, canopy() fails only for    *)
(* want of distinct points in the first call, and no step makes a          *)
(* clustering worse.                                                       *)
(***************************************************************************)
EXTENDS KMeans, SumLemmas, TLAPS

-----------------------------------------------------------------------------
(* The inductive invariant                                                 *)

Distinct == Cardinality(Range(data))
Seeding == {"seed", "pick", "raised"}
Reporting == {"report", "done", "unprintable"}

\* The lists of numbers of clusters: the first is cluster_range, and whatever
\* has been through a whole turn of the loop is no more than the distinct
\* points, which then holds for the lists derived from it.
ListsInv ==
    /\ clusters \in Seq(Nat)
    /\ call = 1 => clusters = cluster_range /\ \A i \in 1 .. at - 1 : clusters[i] <= Distinct
    /\ call # 1 => \A i \in DOMAIN clusters : clusters[i] <= Distinct
    /\ call = 3 => Len(clusters) = 1
    /\ pc \in Reporting => call = 3
    /\ sc \in Seq(Int)

\* The clustering of this turn: after the seeds there is a centroid, after the
\* first assignment every point has one and they are no more than the points.
TurnInv ==
    /\ pc \in Seeding \union {"assign", "update", "score"} \union Reporting
    /\ Count \in Nat
    /\ pc # "seed" => Count >= 1
    /\ pc = "pick" => assign = <<>>
    /\ pc \notin Seeding => /\ clu <= Distinct
                            /\ assign \in [Points -> DOMAIN cents]

IInv == TypeOK /\ CanopyOK /\ ListsInv /\ TurnInv

-----------------------------------------------------------------------------
(* The powers of two                                                       *)

\* g holds the powers of two up to n.
Doubles(g, n) == \A k \in 0 .. n : g[k] = IF k = 0 THEN 1 ELSE 2 * g[k - 1]

\* Whatever doubles up to n holds the same numbers, and they are numbers.
LEMMA DoublesCoincide ==
    ASSUME NEW n \in Nat, NEW g, NEW h, Doubles(g, n), Doubles(h, n)
    PROVE  \A k \in 0 .. n : g[k] \in Nat /\ g[k] = h[k]
<1> DEFINE G == {k \in Nat : k <= n => g[k] \in Nat /\ g[k] = h[k]}
<1>1. 0 \in G
  BY DEF Doubles
<1>2. ASSUME NEW k \in Nat, k \in G PROVE k + 1 \in G
  <2>1. SUFFICES ASSUME k + 1 <= n PROVE g[k + 1] \in Nat /\ g[k + 1] = h[k + 1]
    OBVIOUS
  <2>2. k + 1 \in 0 .. n /\ k + 1 # 0 /\ (k + 1) - 1 = k /\ k <= n
    BY <2>1
  <2>3. g[k + 1] = 2 * g[k] /\ h[k + 1] = 2 * h[k]
    BY <2>2 DEF Doubles
  <2>4. g[k] \in Nat /\ g[k] = h[k]
    BY <1>2, <2>2
  <2> QED
    BY <2>3, <2>4
<1>3. Nat \subseteq G
  <2> HIDE DEF G
  <2> QED
    BY <1>1, <1>2, NatSet
<1> QED
  BY <1>3

\* For every n there is one.
LEMMA DoublesExist == \A n \in Nat : \E g : Doubles(g, n)
<1> DEFINE G == {n \in Nat : \E g : Doubles(g, n)}
<1>1. 0 \in G
  <2>1. Doubles([k \in {0} |-> 1], 0)
    BY DEF Doubles
  <2> QED
    BY <2>1
<1>2. ASSUME NEW n \in Nat, n \in G PROVE n + 1 \in G
  <2>1. PICK g : Doubles(g, n)
    BY <1>2
  <2> DEFINE h == [k \in 0 .. n + 1 |-> IF k <= n THEN g[k] ELSE 2 * g[n]]
  <2>2. Doubles(h, n + 1)
    <3>1. SUFFICES ASSUME NEW k \in 0 .. n + 1
                   PROVE  h[k] = IF k = 0 THEN 1 ELSE 2 * h[k - 1]
      BY DEF Doubles
    <3>2. CASE k <= n
      BY <2>1, <3>2 DEF Doubles
    <3>3. CASE k = n + 1
      BY <3>3
    <3> QED
      BY <3>2, <3>3
  <2> HIDE DEF h
  <2> QED
    BY <2>2
<1>3. Nat \subseteq G
  <2> HIDE DEF G
  <2> QED
    BY <1>1, <1>2, NatSet
<1> QED
  BY <1>3

\* The recursion that defines powers has a solution.
LEMMA PowersExist ==
    \E g : g = [n \in Nat |-> IF n = 0 THEN 1 ELSE 2 * g[n - 1]]
<1> DEFINE upTo == [n \in Nat |-> CHOOSE g : Doubles(g, n)]
           h == [n \in Nat |-> upTo[n][n]]
<1>1. \A n \in Nat : Doubles(upTo[n], n)
  BY DoublesExist
<1> HIDE DEF upTo
<1>2. ASSUME NEW n \in Nat PROVE h[n] = IF n = 0 THEN 1 ELSE 2 * h[n - 1]
  <2>1. CASE n = 0
    BY <1>1, <2>1 DEF Doubles
  <2>2. CASE n # 0
    <3>1. n - 1 \in Nat /\ n \in 0 .. n /\ n - 1 \in 0 .. n - 1
      BY <2>2
    <3>2. Doubles(upTo[n], n) /\ Doubles(upTo[n - 1], n - 1)
      BY <1>1, <3>1
    <3>3. Doubles(upTo[n], n - 1)
      BY <3>2 DEF Doubles
    <3>4. upTo[n][n - 1] = upTo[n - 1][n - 1]
      <4> DEFINE a == upTo[n]
                 b == upTo[n - 1]
                 m == n - 1
      <4>1. Doubles(a, m) /\ Doubles(b, m) /\ m \in Nat /\ m \in 0 .. m
        BY <3>1, <3>2, <3>3
      <4> HIDE DEF a, b, m
      <4>2. a[m] = b[m]
        BY <4>1, DoublesCoincide
      <4> QED
        BY <4>2 DEF a, b, m
    <3>5. upTo[n][n] = 2 * upTo[n][n - 1]
      BY <2>2, <3>1, <3>2 DEF Doubles
    <3> QED
      BY <2>2, <3>1, <3>4, <3>5
  <2> QED
    BY <2>1, <2>2
<1>3. h = [n \in Nat |-> IF n = 0 THEN 1 ELSE 2 * h[n - 1]]
  BY <1>2
<1> HIDE DEF h
<1> QED
  BY <1>3

\* The numbers of clusters of the first call are numbers.
LEMMA ClusterRange ==
    /\ cluster_range \in Seq(Nat)
    /\ DOMAIN cluster_range = 1 .. Exponents /\ Len(cluster_range) = Exponents
<1>1. powers = [n \in Nat |-> IF n = 0 THEN 1 ELSE 2 * powers[n - 1]]
  BY PowersExist DEF powers
<1>2. ASSUME NEW n \in Nat PROVE powers[n] \in Nat
  <2>1. \A k \in Nat : powers[k] = IF k = 0 THEN 1 ELSE 2 * powers[k - 1]
    BY <1>1
  <2>2. Doubles(powers, n)
    BY <2>1 DEF Doubles
  <2> QED
    BY <2>2, DoublesCoincide
<1>3. \A n \in 1 .. Exponents : n - 1 \in Nat /\ powers[n - 1] \in Nat
  BY <1>2, ExponentsAssumption
<1>4. cluster_range \in [1 .. Exponents -> Nat]
  BY <1>3 DEF cluster_range
<1> QED
  BY <1>4, ExponentsAssumption
-----------------------------------------------------------------------------
(* The data and the means                                                  *)

\* What the data are: finitely many integers, and at least one.
LEMMA DataFacts ==
    ASSUME NEW d \in DataSets
    PROVE  /\ DOMAIN d = 1 .. Len(d) /\ Len(d) \in Nat /\ 1 \in DOMAIN d
           /\ IsFiniteSet(DOMAIN d) /\ DOMAIN d \subseteq Int
           /\ \A p \in DOMAIN d : d[p] \in Int /\ d[p] \in Range(d)
           /\ Range(d) \subseteq Int /\ Range(d) # {} /\ IsFiniteSet(Range(d))
           /\ Cardinality(Range(d)) \in Nat
<1>1. d \in Seq(Int) /\ Len(d) > 0
  BY DataAssumption
<1>2. DOMAIN d = 1 .. Len(d) /\ Len(d) \in Nat /\ 1 \in DOMAIN d
  BY <1>1
<1>3. IsFiniteSet(DOMAIN d)
  BY <1>2, FS_Interval
<1>4. \A p \in DOMAIN d : d[p] \in Int /\ d[p] \in Range(d)
  BY <1>1, <1>2 DEF Range
<1>5. Range(d) \subseteq Int /\ Range(d) # {}
  BY <1>2, <1>4 DEF Range
<1>6. IsFiniteSet(Range(d))
  <2>1. d \in Surjection(DOMAIN d, Range(d))
    <3>1. d \in [DOMAIN d -> Range(d)]
      BY <1>1, <1>4
    <3>2. \A t \in Range(d) : \E p \in DOMAIN d : d[p] = t
      BY DEF Range
    <3> QED
      BY <3>1, <3>2 DEF Surjection
  <2> QED
    BY <1>3, <2>1, FS_Surjection
<1> QED
  BY <1>2, <1>3, <1>4, <1>5, <1>6, FS_CardinalityType

\* The points lie between the least and the greatest.
LEMMA DataBounds ==
    ASSUME NEW d \in DataSets
    PROVE  /\ Min(Range(d)) \in Int /\ Max(Range(d)) \in Int
           /\ \A p \in DOMAIN d : /\ Min(Range(d)) <= d[p] /\ d[p] <= Max(Range(d))
                                  /\ Scale * d[p] \in Scale * Min(Range(d)) .. Scale * Max(Range(d))
<1>1. /\ Min(Range(d)) \in Int /\ Max(Range(d)) \in Int
      /\ \A x \in Range(d) : Min(Range(d)) <= x /\ x <= Max(Range(d))
  BY DataFacts, MinMax
<1>2. \A s \in Nat, a, b \in Int : a <= b => s * a <= s * b
  OBVIOUS
<1>3. ASSUME NEW p \in DOMAIN d
      PROVE  /\ Min(Range(d)) <= d[p] /\ d[p] <= Max(Range(d))
             /\ Scale * d[p] \in Scale * Min(Range(d)) .. Scale * Max(Range(d))
  <2>1. d[p] \in Int /\ Min(Range(d)) <= d[p] /\ d[p] <= Max(Range(d))
    BY <1>1, DataFacts
  <2>2. Scale * Min(Range(d)) <= Scale * d[p] /\ Scale * d[p] <= Scale * Max(Range(d))
    BY <1>1, <1>2, <2>1, ScaleAssumption
  <2>3. \A a, b \in Int : Scale * a \in Int
    BY ScaleAssumption
  <2> QED
    BY <1>1, <2>1, <2>2, <2>3
<1> QED
  BY <1>1, <1>3

\* The mean of some of the points, times their number, is their sum, and it lies
\* between the bounds of the data.
LEMMA MeanFacts ==
    ASSUME NEW d \in DataSets, NEW M \in SUBSET DOMAIN d, M # {}
    PROVE  LET n == Cardinality(M)
               m == (Scale * SumFunctionOnSet(d, M)) \div n
           IN /\ n \in Nat \ {0} /\ m \in Int
              /\ n * m = Scale * SumFunctionOnSet(d, M)
              /\ m \in Scale * Min(Range(d)) .. Scale * Max(Range(d))
<1> DEFINE n == Cardinality(M)
           s == SumFunctionOnSet(d, M)
           q == Scale \div n
           lo == Min(Range(d))
           hi == Max(Range(d))
<1>1. IsFiniteSet(M) /\ \A p \in M : d[p] \in Int /\ lo <= d[p] /\ d[p] <= hi
  BY DataFacts, DataBounds, FS_Subset
<1>2. n \in 1 .. Len(d)
  <2>1. Cardinality(DOMAIN d) = Len(d)
    <3>1. DOMAIN d = 1 .. Len(d) /\ Len(d) \in Nat /\ 1 \in 1 .. Len(d)
      BY DataFacts
    <3>2. Cardinality(1 .. Len(d)) = Len(d)
      BY <3>1, FS_Interval
    <3> QED
      BY <3>1, <3>2
  <2>2. n <= Len(d)
    BY <2>1, DataFacts, FS_Subset
  <2>3. n \in Nat /\ n # 0
    BY <1>1, FS_EmptySet, FS_CardinalityType
  <2> QED
    BY <2>2, <2>3, DataFacts
<1>3. Scale % n = 0 /\ Scale \in Nat \ {0}
  BY <1>2, ScaleAssumption
<1>4. lo \in Int /\ hi \in Int
  BY DataBounds
<1>5. s \in Int
  BY <1>1, SumTakes
<1>6. lo * n <= s /\ s <= hi * n
  <2> DEFINE los == [p \in M |-> lo]
             his == [p \in M |-> hi]
  <2>1. \A p \in M : los[p] = lo /\ his[p] = hi
    OBVIOUS
  <2> HIDE DEF los, his, lo, hi
  <2>2. SumFunctionOnSet(los, M) = lo * n /\ SumFunctionOnSet(his, M) = hi * n
    BY <1>1, <1>4, <2>1, SumOfSame
  <2>3. \A p \in M : /\ los[p] \in Int /\ d[p] \in Int /\ his[p] \in Int
                     /\ los[p] <= d[p] /\ d[p] <= his[p]
    BY <1>1, <1>4, <2>1
  <2>4. SumFunctionOnSet(los, M) <= SumFunctionOnSet(d, M)
    BY <1>1, <2>3, SumAtMost
  <2>5. SumFunctionOnSet(d, M) <= SumFunctionOnSet(his, M)
    BY <1>1, <2>3, SumAtMost
  <2> QED
    BY <2>2, <2>4, <2>5
<1> HIDE DEF n, s, lo, hi
<1>7. q \in Nat /\ Scale = n * q
  BY <1>2, <1>3
<1> HIDE DEF q
<1>8. Scale * s = n * (q * s)
  BY <1>2, <1>5, <1>7
<1>9. (Scale * s) \div n = q * s /\ q * s \in Int
  BY <1>2, <1>5, <1>7, <1>8, DivideFactor
<1>10. Scale * lo <= q * s /\ q * s <= Scale * hi
  <2>1. \A a, b \in Int : a <= b => q * a <= q * b
    BY <1>7
  <2>2. lo * n \in Int /\ hi * n \in Int
    BY <1>2, <1>4
  <2>3. q * (lo * n) <= q * s /\ q * s <= q * (hi * n)
    BY <1>5, <1>6, <2>1, <2>2
  <2>4. q * (lo * n) = Scale * lo /\ q * (hi * n) = Scale * hi
    BY <1>2, <1>4, <1>7
  <2> QED
    BY <2>3, <2>4
<1>11. q * s \in Scale * lo .. Scale * hi
  BY <1>3, <1>4, <1>9, <1>10
<1> QED
  BY <1>2, <1>8, <1>9, <1>11 DEF n, s, lo, hi
-----------------------------------------------------------------------------
(* What the invariant says of a state                                      *)

\* The facts about a state that the steps below use.
LEMMA StateFacts ==
    ASSUME IInv
    PROVE  /\ data \in DataSets /\ Points = DOMAIN data
           /\ Count \in Nat /\ DOMAIN cents = 0 .. Count - 1
           /\ IsFiniteSet(DOMAIN cents) /\ DOMAIN cents \subseteq Int
           /\ pc # "seed" => DOMAIN cents # {}
           /\ \A c \in DOMAIN cents : cents[c] \in Int
           /\ Len(clusters) \in Nat /\ at \in 1 .. Len(clusters) /\ clu \in Nat
           /\ Distinct \in Nat
           /\ call # 1 => clu <= Distinct
<1>1. data \in DataSets /\ Points = DOMAIN data
  BY DEF IInv, TypeOK, Points
<1>2. Count \in Nat /\ DOMAIN cents = 0 .. Count - 1
  BY DEF IInv, TypeOK, TurnInv
<1>3. IsFiniteSet(DOMAIN cents) /\ DOMAIN cents \subseteq Int
  BY <1>2, FS_Interval
<1>4. pc # "seed" => DOMAIN cents # {}
  <2>1. SUFFICES ASSUME pc # "seed" PROVE 0 \in 0 .. Count - 1
    BY <1>2
  <2>2. Count >= 1
    BY <2>1 DEF IInv, TurnInv
  <2> QED
    BY <1>2, <2>2
<1>5. \A c \in DOMAIN cents : cents[c] \in Int
  BY DEF IInv, TypeOK
<1>6. Len(clusters) \in Nat /\ at \in 1 .. Len(clusters) /\ clu \in Nat
  BY DEF IInv, TypeOK, ListsInv, clu
<1>7. Distinct \in Nat
  BY <1>1, DataFacts DEF Distinct
<1>8. call # 1 => clu <= Distinct
  BY DEF IInv, TypeOK, ListsInv, clu
<1> QED
  BY <1>1, <1>2, <1>3, <1>4, <1>5, <1>6, <1>7, <1>8

LEMMA AbsNat == \A x \in Int : abs(x) \in Nat
BY DEF abs

\* kmeans_assign() gives a point a centroid that exists and than which none is
\* nearer.
LEMMA NearestIsNearest ==
    ASSUME NEW p, NEW cs, IsFiniteSet(DOMAIN cs), DOMAIN cs \subseteq Int, DOMAIN cs # {},
           Scale * data[p] \in Int, \A c \in DOMAIN cs : cs[c] \in Int
    PROVE  /\ Nearest(p, cs) \in DOMAIN cs
           /\ \A d \in DOMAIN cs : abs(Scale * data[p] - cs[Nearest(p, cs)]) <= abs(Scale * data[p] - cs[d])
<1> DEFINE f == [c \in DOMAIN cs |-> abs(Scale * data[p] - cs[c])]
           Best(c) == \A d \in DOMAIN cs : f[c] < f[d] \/ (f[c] = f[d] /\ c <= d)
<1>1. \A c \in DOMAIN cs : f[c] \in Int /\ f[c] = abs(Scale * data[p] - cs[c])
  BY AbsNat
<1>2. Nearest(p, cs) = CHOOSE c \in DOMAIN cs : Best(c)
  BY DEF Nearest
<1> HIDE DEF f
<1>3. \E c \in DOMAIN cs : Best(c)
  BY <1>1, BestExists
<1>4. Nearest(p, cs) \in DOMAIN cs /\ Best(Nearest(p, cs))
  BY <1>2, <1>3
<1>5. ASSUME NEW d \in DOMAIN cs PROVE f[Nearest(p, cs)] <= f[d]
  BY <1>1, <1>4
<1> QED
  BY <1>1, <1>4, <1>5

\* An assignment maps the points to the nearest of the centroids.
LEMMA AssignmentFacts ==
    ASSUME IInv, pc # "seed"
    PROVE  /\ [p \in Points |-> Nearest(p, cents)] \in [Points -> DOMAIN cents]
           /\ \A p \in Points : /\ Nearest(p, cents) \in DOMAIN cents
                                /\ Scale * data[p] \in Int
                                /\ \A d \in DOMAIN cents : abs(Scale * data[p] - cents[Nearest(p, cents)])
                                                           <= abs(Scale * data[p] - cents[d])
<1>1. \A p \in Points : Scale * data[p] \in Int
  <2>1. \A p \in Points : data[p] \in Int
    BY StateFacts, DataFacts
  <2> QED
    BY <2>1, ScaleAssumption
<1>2. ASSUME NEW p \in Points
      PROVE  /\ Nearest(p, cents) \in DOMAIN cents
             /\ \A d \in DOMAIN cents : abs(Scale * data[p] - cents[Nearest(p, cents)])
                                        <= abs(Scale * data[p] - cents[d])
  BY <1>1, StateFacts, NearestIsNearest
<1> QED
  BY <1>1, <1>2

\* canopy() takes its next centroid from the points that are none yet.
LEMMA FarthestIsCandidate ==
    ASSUME IInv, Candidates # {}
    PROVE  Farthest \in Candidates
<1> DEFINE f == [p \in Candidates |-> -Remoteness(p)]
<1>1. ASSUME NEW p \in Candidates PROVE Remoteness(p) \in Int
  <2> DEFINE away == [c \in DOMAIN cents |-> abs(Scale * data[p] - cents[c])]
  <2>1. Scale * data[p] \in Int
    <3>1. p \in DOMAIN data /\ data \in DataSets
      <4>1. p \in Points
        BY DEF Candidates
      <4> QED
        BY <4>1, StateFacts
    <3>2. data[p] \in Int
      BY <3>1, DataFacts
    <3> QED
      BY <3>2, ScaleAssumption
  <2>2. \A c \in DOMAIN cents : away[c] \in Int
    <3>1. \A c \in DOMAIN cents : Scale * data[p] - cents[c] \in Int
      BY <2>1, StateFacts
    <3> QED
      BY <3>1, AbsNat
  <2>3. DOMAIN away = DOMAIN cents
    OBVIOUS
  <2>4. Remoteness(p) = SumFunctionOnSet(away, DOMAIN cents)
    BY <2>3 DEF Remoteness, SumFunction
  <2> HIDE DEF away
  <2> QED
    BY <2>2, <2>4, StateFacts, SumTakes
<1>2. IsFiniteSet(Candidates) /\ Candidates \subseteq Int
  <2>1. Candidates \subseteq DOMAIN data
    BY StateFacts DEF Candidates
  <2> QED
    BY <2>1, StateFacts, DataFacts, FS_Subset
<1>3. \A p \in Candidates : f[p] \in Int /\ f[p] = -Remoteness(p)
  BY <1>1
<1> HIDE DEF f
<1>4. PICK p \in Candidates : \A q \in Candidates : f[p] < f[q] \/ (f[p] = f[q] /\ p <= q)
  BY <1>2, <1>3, BestExists
<1>5. \A q \in Candidates : \/ Remoteness(q) < Remoteness(p)
                            \/ Remoteness(q) = Remoteness(p) /\ p <= q
  BY <1>1, <1>3, <1>4
<1> QED
  BY <1>5 DEF Farthest

\* The centroids that canopy() has chosen are no more than the distinct points.
LEMMA ChosenAreDistinct ==
    ASSUME IInv, pc = "pick"
    PROVE  Count <= Distinct
<1>1. IsInjective(cents) /\ Chosen \subseteq {Scale * data[p] : p \in Points}
  BY DEF IInv, CanopyOK
<1>2. \A c \in DOMAIN cents : \E x \in Range(data) : cents[c] = Scale * x
  BY <1>1, StateFacts, DataFacts DEF Chosen, Range
<1> DEFINE f == [c \in DOMAIN cents |-> CHOOSE x \in Range(data) : cents[c] = Scale * x]
<1>3. \A c \in DOMAIN cents : f[c] \in Range(data) /\ cents[c] = Scale * f[c]
  BY <1>2
<1>4. f \in [DOMAIN cents -> Range(data)]
  BY <1>3
<1> HIDE DEF f
<1>5. f \in Injection(DOMAIN cents, Range(data))
  BY <1>1, <1>3, <1>4 DEF Injection, IsInjective
<1> QED
  BY <1>5, StateFacts, DataFacts, FS_Injection DEF Count, Distinct

\* When every point is a centroid, the centroids are no fewer than the distinct
\* points.
LEMMA AllAreChosen ==
    ASSUME IInv, Candidates = {}
    PROVE  Distinct <= Count
<1>1. \A x \in Range(data) : \E c \in DOMAIN cents : cents[c] = Scale * x
  BY StateFacts DEF Candidates, Chosen, Range
<1> DEFINE f == [x \in Range(data) |-> CHOOSE c \in DOMAIN cents : cents[c] = Scale * x]
<1>2. \A x \in Range(data) : f[x] \in DOMAIN cents /\ cents[f[x]] = Scale * x
  BY <1>1
<1>3. f \in [Range(data) -> DOMAIN cents]
  BY <1>2
<1> HIDE DEF f
<1>4. \A x, y \in Int : Scale * x = Scale * y => x = y
  BY ScaleAssumption
<1>5. ASSUME NEW x \in Range(data), NEW y \in Range(data), f[x] = f[y] PROVE x = y
  <2>1. x \in Int /\ y \in Int
    BY StateFacts, DataFacts
  <2>2. Scale * x = Scale * y
    BY <1>2, <1>5
  <2> QED
    BY <1>4, <2>1, <2>2
<1>6. f \in Injection(Range(data), DOMAIN cents)
  BY <1>3, <1>5 DEF Injection, IsInjective
<1> QED
  BY <1>6, StateFacts, FS_Injection DEF Count, Distinct
-----------------------------------------------------------------------------
(* The invariant is inductive                                              *)

LEMMA InitInv == Init => IInv
<1>1. SUFFICES ASSUME Init PROVE IInv
  OBVIOUS
<1>2. data \in DataSets /\ call = 1 /\ clusters = cluster_range /\ at = 1 /\ pc = "seed"
      /\ cents = <<>> /\ assign = <<>> /\ sc = <<>>
  BY <1>1 DEF Init
<1>3. DOMAIN cents = {} /\ Count = 0 /\ DOMAIN cents = 0 .. Count - 1
  <2>1. DOMAIN cents = {}
    BY <1>2
  <2>2. Count = 0
    BY <2>1, FS_EmptySet DEF Count
  <2> QED
    BY <2>1, <2>2
<1>4. at \in DOMAIN clusters /\ clu \in Nat
  BY <1>2, ClusterRange, ExponentsAssumption DEF clu
<1>5. TypeOK
  <2>1. call \in 1 .. 3 /\ Len(sc) = at - 1
    BY <1>2
  <2>2. \A c \in DOMAIN cents : cents[c] \in Scale * Min(Range(data)) .. Scale * Max(Range(data))
    BY <1>3
  <2>3. assign \in {<<>>} \union [Points -> DOMAIN cents]
    BY <1>2
  <2> QED
    BY <1>2, <1>3, <1>4, <2>1, <2>2, <2>3 DEF TypeOK
<1>6. CanopyOK
  BY <1>2 DEF CanopyOK
<1>7. ListsInv
  <2>1. \A i \in 1 .. at - 1 : clusters[i] <= Distinct
    BY <1>2
  <2>2. sc \in Seq(Int)
    BY <1>2
  <2> QED
    BY <1>2, <2>1, <2>2, ClusterRange DEF ListsInv, Reporting
<1>8. TurnInv
  BY <1>2, <1>3 DEF TurnInv, Seeding
<1> QED
  BY <1>5, <1>6, <1>7, <1>8 DEF IInv

\* canopy() begins with one centroid, which is a point.
LEMMA SeedInv == ASSUME IInv, NEW p \in Points, Seed(p) PROVE IInv'
<1>1. /\ pc = "seed" /\ pc' = "pick" /\ assign' = <<>>
      /\ cents' = [c \in {0} |-> Scale * data[p]]
      /\ UNCHANGED <<data, call, clusters, at, sc>>
  BY DEF Seed
<1>2. DOMAIN cents' = {0} /\ cents'[0] = Scale * data[p]
  BY <1>1
<1>3. Count' = 1 /\ DOMAIN cents' = 0 .. Count' - 1
  <2>1. Count' = 1
    BY <1>2, FS_Singleton DEF Count
  <2> QED
    BY <1>2, <2>1
<1>4. clu' = clu /\ Points' = Points /\ Distinct' = Distinct
  BY <1>1 DEF clu, Points, Distinct
<1>5. Count' <= Max({1, clu})
  BY <1>3, StateFacts, MaxOne
<1>6. \A c \in DOMAIN cents' : cents'[c] \in Scale * Min(Range(data)) .. Scale * Max(Range(data))
  BY <1>2, StateFacts, DataBounds
<1>7. TypeOK'
  BY <1>1, <1>3, <1>4, <1>5, <1>6 DEF TypeOK, IInv
<1>8. CanopyOK'
  <2>1. IsInjective(cents')
    BY <1>2 DEF IsInjective
  <2>2. Chosen' \subseteq {Scale * data[q] : q \in Points}
    BY <1>2 DEF Chosen, Range
  <2> QED
    BY <1>1, <1>4, <2>1, <2>2 DEF CanopyOK
<1>9. ListsInv'
  BY <1>1, <1>4 DEF ListsInv, IInv, Reporting
<1>10. TurnInv'
  BY <1>1, <1>3 DEF TurnInv, Seeding
<1> QED
  BY <1>7, <1>8, <1>9, <1>10 DEF IInv

\* Every further centroid is a point that is none yet.
LEMMA PickInv == ASSUME IInv, Pick PROVE IInv'
<1> DEFINE far == Scale * data[Farthest]
<1>1. /\ pc = "pick" /\ ~Seeded /\ Candidates # {}
      /\ cents' = [c \in 0 .. Count |-> IF c = Count THEN far ELSE cents[c]]
      /\ UNCHANGED <<data, call, clusters, at, pc, assign, sc>>
  BY DEF Pick
<1>2. Farthest \in Points /\ far \notin Chosen
  BY <1>1, FarthestIsCandidate DEF Candidates
<1>3. far \in Scale * Min(Range(data)) .. Scale * Max(Range(data))
  BY <1>2, StateFacts, DataBounds
<1> HIDE DEF far
<1>4. Count \in Nat /\ Count >= 1 /\ DOMAIN cents = 0 .. Count - 1 /\ Count < clu /\ clu \in Nat
  BY <1>1, StateFacts DEF IInv, TurnInv, Seeded
<1>5. DOMAIN cents' = 0 .. Count
  BY <1>1
<1>6. Count' = Count + 1
  BY <1>4, <1>5, FS_Interval DEF Count
<1>7. /\ cents'[Count] = far
      /\ \A c \in DOMAIN cents : c \in 0 .. Count /\ c # Count /\ cents'[c] = cents[c]
      /\ \A c \in 0 .. Count : c = Count \/ c \in DOMAIN cents
  BY <1>1, <1>4
<1>8. clu' = clu /\ Points' = Points /\ Distinct' = Distinct
  BY <1>1 DEF clu, Points, Distinct
<1>9. TypeOK'
  <2>1. DOMAIN cents' = 0 .. Count' - 1
    BY <1>4, <1>5, <1>6
  <2>2. Count' <= Max({1, clu})
    BY <1>4, <1>6, MaxOne
  <2>3. \A c \in DOMAIN cents' : cents'[c] \in Scale * Min(Range(data)) .. Scale * Max(Range(data))
    BY <1>3, <1>5, <1>7 DEF IInv, TypeOK
  <2>4. assign' = <<>>
    BY <1>1 DEF IInv, TurnInv
  <2> QED
    BY <1>1, <1>8, <2>1, <2>2, <2>3, <2>4 DEF TypeOK, IInv
<1>10. CanopyOK'
  <2>1. IsInjective(cents) /\ Chosen \subseteq {Scale * data[p] : p \in Points}
    BY <1>1 DEF IInv, CanopyOK
  <2>2. \A c \in DOMAIN cents : cents[c] # far
    BY <1>2 DEF Chosen, Range
  <2>3. IsInjective(cents')
    BY <1>5, <1>7, <2>1, <2>2 DEF IsInjective
  <2>4. Chosen' \subseteq {Scale * data[p] : p \in Points}
    <3>1. far \in {Scale * data[p] : p \in Points}
      BY <1>2 DEF far
    <3>2. \A c \in DOMAIN cents : cents[c] \in {Scale * data[p] : p \in Points}
      BY <2>1 DEF Chosen, Range
    <3> HIDE DEF far
    <3> QED
      BY <1>5, <1>7, <3>1, <3>2 DEF Chosen, Range
  <2> QED
    BY <1>1, <1>8, <2>3, <2>4 DEF CanopyOK
<1>11. ListsInv'
  BY <1>1, <1>8 DEF ListsInv, IInv, Reporting
<1>12. TurnInv'
  BY <1>1, <1>4, <1>6 DEF TurnInv, IInv, Seeding
<1> QED
  BY <1>9, <1>10, <1>11, <1>12 DEF IInv

\* max() of an empty list raises only for want of distinct points, and only in
\* the first call, since the clusters of the others are no more than those.
LEMMA NothingToPickInv == ASSUME IInv, NothingToPick PROVE IInv'
<1>1. /\ pc = "pick" /\ ~Seeded /\ Candidates = {} /\ pc' = "raised"
      /\ UNCHANGED <<data, call, clusters, at, cents, assign, sc>>
  BY DEF NothingToPick
<1>2. Distinct <= Count /\ Count < clu
  BY <1>1, AllAreChosen, StateFacts DEF Seeded
<1>3. Distinct < clu /\ call = 1
  BY <1>2, StateFacts
<1>4. clu' = clu /\ Points' = Points /\ Distinct' = Distinct /\ Count' = Count
  BY <1>1 DEF clu, Points, Distinct, Count
<1>5. TypeOK'
  BY <1>1, <1>4 DEF TypeOK, IInv
<1>6. CanopyOK'
  BY <1>1, <1>3, <1>4 DEF CanopyOK, Distinct
<1>7. ListsInv'
  BY <1>1, <1>4 DEF ListsInv, IInv, Reporting
<1>8. TurnInv'
  BY <1>1, <1>4 DEF TurnInv, IInv, Seeding
<1> QED
  BY <1>5, <1>6, <1>7, <1>8 DEF IInv

\* The first assignment finds no more centroids than distinct points, and every
\* assignment gives each point one of them.
LEMMA AssignInv == ASSUME IInv, Assign PROVE IInv'
<1>1. /\ (pc = "pick" /\ Seeded) \/ pc = "assign"
      /\ assign' = [p \in Points |-> Nearest(p, cents)]
      /\ pc' = "update"
      /\ UNCHANGED <<data, call, clusters, at, cents, sc>>
  BY DEF Assign
<1>2. clu' = clu /\ Points' = Points /\ Distinct' = Distinct /\ Count' = Count
  BY <1>1 DEF clu, Points, Distinct, Count
<1>3. assign' \in [Points -> DOMAIN cents]
  BY <1>1, AssignmentFacts
<1>4. clu <= Distinct /\ Count = Max({1, clu})
  <2>1. CASE pc = "pick"
    <3>1. Count >= clu /\ Count >= 1 /\ Count <= Max({1, clu}) /\ Count <= Distinct
      BY <1>1, <2>1, ChosenAreDistinct DEF Seeded, IInv, TypeOK, TurnInv
    <3> QED
      BY <3>1, StateFacts, MaxOne
  <2>2. CASE pc = "assign"
    BY <2>2 DEF IInv, TypeOK, TurnInv, Seeding
  <2> QED
    BY <1>1, <2>1, <2>2
<1>5. TypeOK'
  BY <1>1, <1>2, <1>3, <1>4, StateFacts, MaxOne DEF TypeOK, IInv
<1>6. CanopyOK'
  BY <1>1 DEF CanopyOK
<1>7. ListsInv'
  BY <1>1, <1>2 DEF ListsInv, IInv, Reporting
<1>8. TurnInv'
  BY <1>1, <1>2, <1>3, <1>4 DEF TurnInv, IInv, Seeding
<1> QED
  BY <1>5, <1>6, <1>7, <1>8 DEF IInv

\* A centroid that is replaced becomes the mean of points.
LEMMA UpdatedFacts ==
    ASSUME IInv, assign \in [Points -> DOMAIN cents]
    PROVE  /\ DOMAIN Updated = DOMAIN cents
           /\ \A c \in DOMAIN cents :
                 /\ Updated[c] \in Scale * Min(Range(data)) .. Scale * Max(Range(data))
                 /\ Updated[c] \in Int
                 /\ \/ Updated[c] = cents[c]
                    \/ /\ Members(c) # {} /\ Cardinality(Members(c)) \in Nat \ {0}
                       /\ Cardinality(Members(c)) * Updated[c] = Scale * SumFunctionOnSet(data, Members(c))
<1>1. DOMAIN Updated = DOMAIN cents
  BY DEF Updated
<1>2. ASSUME NEW c \in DOMAIN cents
      PROVE  /\ Updated[c] \in Scale * Min(Range(data)) .. Scale * Max(Range(data))
             /\ Updated[c] \in Int
             /\ \/ Updated[c] = cents[c]
                \/ /\ Members(c) # {} /\ Cardinality(Members(c)) \in Nat \ {0}
                   /\ Cardinality(Members(c)) * Updated[c] = Scale * SumFunctionOnSet(data, Members(c))
  <2>1. CASE c \in Used /\ Position(c) = c
    <3>1. Updated[c] = Mean(c)
      BY <2>1 DEF Updated
    <3>2. Members(c) # {} /\ Members(c) \in SUBSET DOMAIN data
      BY <2>1, StateFacts DEF Used, Range, Members
    <3>3. data \in DataSets
      BY StateFacts
    <3> QED
      BY <3>1, <3>2, <3>3, MeanFacts DEF Mean
  <2>2. CASE ~(c \in Used /\ Position(c) = c)
    <3>1. Updated[c] = cents[c]
      BY <2>2 DEF Updated
    <3> QED
      BY <3>1, StateFacts DEF IInv, TypeOK
  <2> QED
    BY <2>1, <2>2
<1> QED
  BY <1>1, <1>2

\* An update leaves the centroids where the data are.
LEMMA UpdateInv == ASSUME IInv, Update PROVE IInv'
<1>1. /\ pc = "update" /\ cents' = Updated /\ pc' \in {"score", "assign"}
      /\ UNCHANGED <<data, call, clusters, at, assign, sc>>
  BY DEF Update
<1>2. clu <= Distinct /\ assign \in [Points -> DOMAIN cents] /\ Count = Max({1, clu}) /\ Count >= 1
  BY <1>1 DEF IInv, TurnInv, TypeOK, Seeding
<1>3. /\ DOMAIN cents' = DOMAIN cents
      /\ \A c \in DOMAIN cents : cents'[c] \in Scale * Min(Range(data)) .. Scale * Max(Range(data))
  BY <1>1, <1>2, UpdatedFacts
<1>4. clu' = clu /\ Points' = Points /\ Distinct' = Distinct /\ Count' = Count
  BY <1>1, <1>3 DEF clu, Points, Distinct, Count
<1>5. TypeOK'
  BY <1>1, <1>2, <1>3, <1>4 DEF TypeOK, IInv
<1>6. CanopyOK'
  BY <1>1 DEF CanopyOK
<1>7. ListsInv'
  BY <1>1, <1>4 DEF ListsInv, IInv, Reporting
<1>8. TurnInv'
  BY <1>1, <1>2, <1>3, <1>4 DEF TurnInv, IInv, Seeding
<1> QED
  BY <1>5, <1>6, <1>7, <1>8 DEF IInv

\* new_k is an index into cluster_range, and the clusters of the second call run
\* up to the number found there.
LEMMA NewClustersFacts ==
    ASSUME NEW scores \in Seq(Int), Len(scores) = Exponents
    PROVE  LET k == NewK(scores) + 1
               ks == NewClusters(scores)
           IN /\ k \in 1 .. Exponents
              /\ ks \in Seq(Nat) /\ Len(ks) >= 1 /\ DOMAIN ks = 1 .. Len(ks)
              /\ \A i \in DOMAIN ks : ks[i] <= cluster_range[k]
<1> DEFINE stops == {i \in 1 .. Len(scores) - 2 : ~(scores[i + 2] > scores[i + 1])}
           k == NewK(scores) + 1
           top == cluster_range[k]
           low == top \div 4
           ks == NewClusters(scores)
<1>1. k \in 1 .. Exponents
  <2>1. NewK(scores) = IF stops = {} THEN 0 ELSE Min(stops) + 1
    BY DEF NewK
  <2>2. stops \subseteq 1 .. Exponents - 2
    OBVIOUS
  <2>3. IsFiniteSet(stops) /\ stops \subseteq Int
    <3> DEFINE inner == 1 .. Exponents - 2
    <3>1. IsFiniteSet(inner) /\ inner \subseteq Int
      BY ExponentsAssumption, FS_Interval
    <3>2. stops \in SUBSET inner
      BY <2>2
    <3> HIDE DEF stops, inner
    <3> QED
      BY <3>1, <3>2, FS_Subset
  <2> HIDE DEF stops
  <2>4. CASE stops = {}
    BY <2>1, <2>4, ExponentsAssumption
  <2>5. CASE stops # {}
    <3>1. Min(stops) \in 1 .. Exponents - 2
      BY <2>2, <2>3, <2>5, MinMax
    <3> QED
      BY <2>1, <2>5, <3>1, ExponentsAssumption
  <2> QED
    BY <2>4, <2>5
<1>2. top \in Nat
  BY <1>1, ClusterRange
<1>3. low \in Nat /\ low <= top
  BY <1>2
<1>4. ks = [i \in 1 .. top - low + 1 |-> low + i - 1]
  BY DEF NewClusters
<1> HIDE DEF top, low, k, ks
<1>5. top - low + 1 \in Nat /\ top - low + 1 >= 1
  BY <1>2, <1>3
<1>6. \A i \in 1 .. top - low + 1 : low + i - 1 \in Nat /\ low + i - 1 <= top
  BY <1>2, <1>3
<1>7. ks \in [1 .. top - low + 1 -> Nat]
  BY <1>4, <1>6
<1>8. ks \in Seq(Nat) /\ Len(ks) = top - low + 1
  BY <1>5, <1>7
<1>9. \A i \in DOMAIN ks : ks[i] <= top
  BY <1>4, <1>6
<1> QED
  BY <1>1, <1>5, <1>8, <1>9 DEF k, ks, top

\* The optimum is one of the numbers of clusters that have been through.
LEMMA OptimumFacts ==
    ASSUME NEW ks \in Seq(Nat), NEW scores \in Seq(Int), Len(scores) = Len(ks), Len(ks) >= 1
    PROVE  OptimumK(ks, scores) \in Nat /\ \E i \in DOMAIN ks : OptimumK(ks, scores) = ks[i]
<1>1. CASE ks[1] = 0
  BY <1>1 DEF OptimumK
<1>2. CASE ks[1] # 0
  <2> DEFINE Best(i) == \A j \in DOMAIN scores :
                            scores[j] < scores[i] \/ (scores[j] = scores[i] /\ i <= j)
             f == [i \in DOMAIN scores |-> -scores[i]]
  <2>1. DOMAIN scores = 1 .. Len(ks) /\ DOMAIN ks = 1 .. Len(ks) /\ Len(ks) \in Nat
    OBVIOUS
  <2>2. IsFiniteSet(DOMAIN scores) /\ DOMAIN scores \subseteq Int /\ DOMAIN scores # {}
    <3>1. IsFiniteSet(1 .. Len(ks))
      BY <2>1, FS_Interval
    <3>2. 1 \in 1 .. Len(ks)
      BY <2>1
    <3> QED
      BY <2>1, <3>1, <3>2
  <2>3. \A i \in DOMAIN scores : scores[i] \in Int /\ f[i] \in Int /\ f[i] = -scores[i]
    OBVIOUS
  <2> HIDE DEF f
  <2>4. PICK i \in DOMAIN scores : \A j \in DOMAIN scores : f[i] < f[j] \/ (f[i] = f[j] /\ i <= j)
    BY <2>2, <2>3, BestExists
  <2>5. Best(i)
    BY <2>3, <2>4
  <2>6. OptimumK(ks, scores) = ks[CHOOSE j \in DOMAIN scores : Best(j)]
    BY <1>2 DEF OptimumK
  <2> HIDE DEF Best
  <2>7. PICK j \in DOMAIN scores : OptimumK(ks, scores) = ks[j]
    BY <2>5, <2>6
  <2> QED
    BY <2>1, <2>7
<1> QED
  BY <1>1, <1>2

\* A turn ends with clusters that were no more than the distinct points, and the
\* next call gets clusters that are no more than those of this one.
LEMMA ScoreInv == ASSUME IInv, NEW s \in Scores, Score(s) PROVE IInv'
<1> DEFINE scores == Append(sc, IF clu = 1 THEN 0 ELSE s)
<1>1. /\ pc = "score"
      /\ assign' = [p \in Points |-> Nearest(p, cents)]
      /\ cents' = cents
      /\ data' = data
  BY DEF Score
<1>2. /\ clu <= Distinct /\ Count = Max({1, clu}) /\ Count >= 1 /\ Count \in Nat
      /\ call \in 1 .. 3 /\ Len(sc) = at - 1 /\ sc \in Seq(Int)
  BY <1>1 DEF IInv, TurnInv, TypeOK, ListsInv, Seeding, Reporting
<1>3. scores \in Seq(Int) /\ Len(scores) = at
  <2>1. (IF clu = 1 THEN 0 ELSE s) \in Int
    BY ScoresAssumption
  <2>2. Len(sc) + 1 = at
    BY <1>2, StateFacts
  <2> QED
    BY <1>2, <2>1, <2>2
<1>4. Points' = Points /\ Distinct' = Distinct /\ Count' = Count
  BY <1>1 DEF Points, Distinct, Count
<1>5. assign' \in [Points -> DOMAIN cents]
  BY <1>1, AssignmentFacts
<1>7. \A i \in 1 .. at : call = 1 => clusters[i] <= Distinct
  <2>1. \A i \in 1 .. at - 1 : call = 1 => clusters[i] <= Distinct
    BY DEF IInv, ListsInv
  <2> QED
    BY <1>2, <2>1, StateFacts DEF clu
<1>8. /\ data \in DataSets /\ DOMAIN cents = 0 .. Count - 1
      /\ \A c \in DOMAIN cents : cents[c] \in Scale * Min(Range(data)) .. Scale * Max(Range(data))
  BY DEF IInv, TypeOK
<1>9. \/ /\ at < Len(clusters)
         /\ at' = at + 1 /\ sc' = scores /\ pc' = "seed" /\ call' = call /\ clusters' = clusters
      \/ at = Len(clusters) /\ call = 1 /\ Restart(NewClusters(scores))
      \/ at = Len(clusters) /\ call = 2 /\ Restart(<<OptimumK(clusters, scores)>>)
      \/ /\ at = Len(clusters) /\ call = 3
         /\ sc' = scores /\ pc' = "report" /\ call' = call /\ clusters' = clusters /\ at' = at
  BY DEF Score
<1> HIDE DEF scores
<1>10. ASSUME pc' = "seed", call' \in 1 .. 3, at' \in DOMAIN clusters', Len(sc') = at' - 1, ListsInv'
       PROVE  IInv'
  <2>1. TypeOK'
    BY <1>1, <1>4, <1>5, <1>8, <1>10 DEF TypeOK
  <2>2. CanopyOK'
    BY <1>10 DEF CanopyOK
  <2>3. TurnInv'
    BY <1>2, <1>4, <1>10 DEF TurnInv, Seeding
  <2> QED
    BY <1>10, <2>1, <2>2, <2>3 DEF IInv
<1>11. CASE /\ at < Len(clusters)
            /\ at' = at + 1 /\ sc' = scores /\ pc' = "seed" /\ call' = call /\ clusters' = clusters
  <2>1. at' \in DOMAIN clusters' /\ Len(sc') = at' - 1 /\ at' - 1 = at
    BY <1>3, <1>11, StateFacts
  <2>2. ListsInv'
    BY <1>3, <1>4, <1>7, <1>11, <2>1 DEF ListsInv, IInv, Reporting
  <2> QED
    BY <1>2, <1>10, <1>11, <2>1, <2>2
<1>12. CASE at = Len(clusters) /\ call = 1 /\ Restart(NewClusters(scores))
  <2> DEFINE ks == NewClusters(scores)
             k == NewK(scores) + 1
  <2>1. clusters' = ks /\ at' = 1 /\ sc' = <<>> /\ call' = 2 /\ pc' = "seed"
    BY <1>12 DEF Restart
  <2>2. clusters = cluster_range /\ Len(scores) = Exponents
    BY <1>3, <1>12, ClusterRange DEF IInv, ListsInv
  <2>3. /\ k \in 1 .. Exponents
        /\ ks \in Seq(Nat) /\ Len(ks) >= 1 /\ DOMAIN ks = 1 .. Len(ks)
        /\ \A i \in DOMAIN ks : ks[i] <= cluster_range[k]
    BY <1>3, <2>2, NewClustersFacts
  <2>4. cluster_range[k] <= Distinct /\ cluster_range[k] \in Nat
    BY <1>7, <1>12, <2>2, <2>3, ClusterRange
  <2> HIDE DEF ks, k
  <2>5. \A i \in DOMAIN ks : ks[i] <= Distinct
    <3>1. ASSUME NEW i \in DOMAIN ks PROVE ks[i] <= Distinct
      <4>1. ks[i] \in Nat /\ ks[i] <= cluster_range[k] /\ Distinct \in Nat
        BY <2>3, StateFacts
      <4> QED
        BY <2>4, <4>1
    <3> QED
      BY <3>1
  <2>6. at' \in DOMAIN clusters' /\ Len(sc') = at' - 1 /\ call' \in 1 .. 3
    BY <2>1, <2>3
  <2>7. ListsInv'
    BY <1>4, <2>1, <2>3, <2>5 DEF ListsInv, Reporting
  <2> QED
    BY <1>10, <2>1, <2>6, <2>7
<1>13. CASE at = Len(clusters) /\ call = 2 /\ Restart(<<OptimumK(clusters, scores)>>)
  <2> DEFINE k == OptimumK(clusters, scores)
  <2>1. clusters' = <<k>> /\ at' = 1 /\ sc' = <<>> /\ call' = 3 /\ pc' = "seed"
    BY <1>13 DEF Restart
  <2>2. clusters \in Seq(Nat) /\ \A i \in DOMAIN clusters : clusters[i] <= Distinct
    BY <1>13 DEF IInv, ListsInv
  <2>3. Len(scores) = Len(clusters) /\ Len(clusters) >= 1
    BY <1>3, <1>13, StateFacts
  <2>4. k \in Nat /\ \E i \in DOMAIN clusters : k = clusters[i]
    BY <1>3, <2>2, <2>3, OptimumFacts
  <2> HIDE DEF k
  <2>5. k <= Distinct
    BY <2>2, <2>4
  <2>6. <<k>> \in Seq(Nat) /\ Len(<<k>>) = 1 /\ \A i \in DOMAIN <<k>> : <<k>>[i] <= Distinct
    BY <2>4, <2>5
  <2>7. at' \in DOMAIN clusters' /\ Len(sc') = at' - 1 /\ call' \in 1 .. 3
    BY <2>1, <2>6
  <2>8. ListsInv'
    BY <1>4, <2>1, <2>6 DEF ListsInv, Reporting
  <2> QED
    BY <1>10, <2>1, <2>7, <2>8
<1>14. CASE /\ at = Len(clusters) /\ call = 3
            /\ sc' = scores /\ pc' = "report" /\ call' = call /\ clusters' = clusters /\ at' = at
  <2>1. Len(clusters) = 1 /\ clu' = clu
    BY <1>14 DEF IInv, ListsInv, clu
  <2>2. TypeOK'
    <3>1. at = 1 /\ at' \in DOMAIN clusters' /\ call' \in 1 .. 3 /\ pc' \in {"report", "done", "unprintable"}
      BY <1>2, <1>14, <2>1, StateFacts
    <3>2. Len(sc') = 1
      BY <1>3, <1>14, <3>1
    <3>3. DOMAIN cents' = 0 .. Count' - 1 /\ Count' = Max({1, clu'}) /\ Count' <= Max({1, clu'})
      BY <1>1, <1>2, <1>4, <1>8, <2>1
    <3>4. \A c \in DOMAIN cents' : cents'[c] \in Scale * Min(Range(data')) .. Scale * Max(Range(data'))
      BY <1>1, <1>8
    <3>5. data' \in DataSets /\ assign' \in [Points' -> DOMAIN cents']
      BY <1>1, <1>4, <1>5, <1>8
    <3> QED
      BY <3>1, <3>2, <3>3, <3>4, <3>5 DEF TypeOK
  <2>3. CanopyOK'
    BY <1>14 DEF CanopyOK
  <2>4. ListsInv'
    BY <1>3, <1>4, <1>14 DEF ListsInv, IInv, Reporting
  <2>5. TurnInv'
    BY <1>1, <1>2, <1>4, <1>5, <1>14, <2>1 DEF TurnInv, Seeding, Reporting
  <2> QED
    BY <2>2, <2>3, <2>4, <2>5 DEF IInv
<1> QED
  BY <1>9, <1>11, <1>12, <1>13, <1>14

\* The report only says how the script ends.
LEMMA ReportInv == ASSUME IInv, Report PROVE IInv'
<1>1. /\ pc = "report" /\ pc' \in {"unprintable", "done"}
      /\ UNCHANGED <<data, call, clusters, at, cents, assign, sc>>
  BY DEF Report
<1>2. clu' = clu /\ Points' = Points /\ Distinct' = Distinct /\ Count' = Count
  BY <1>1 DEF clu, Points, Distinct, Count
<1>3. TypeOK'
  BY <1>1, <1>2 DEF TypeOK, IInv
<1>4. CanopyOK'
  BY <1>1 DEF CanopyOK
<1>5. ListsInv'
  BY <1>1, <1>2 DEF ListsInv, IInv, Reporting
<1>6. TurnInv'
  BY <1>1, <1>2 DEF TurnInv, IInv, Seeding, Reporting
<1> QED
  BY <1>3, <1>4, <1>5, <1>6 DEF IInv

\* A step that changes nothing.
LEMMA StutterInv == ASSUME IInv, UNCHANGED vars PROVE IInv'
<1>1. UNCHANGED <<data, call, clusters, at, pc, cents, assign, sc>>
  BY DEF vars
<1>2. TypeOK'
  BY <1>1 DEF IInv, TypeOK, Count, Points, clu
<1>3. CanopyOK'
  BY <1>1 DEF IInv, CanopyOK, Chosen, Points, clu
<1>4. ListsInv'
  BY <1>1 DEF IInv, ListsInv, Distinct
<1>5. TurnInv'
  <2>1. Count' = Count /\ Distinct' = Distinct /\ clu' = clu /\ Points' = Points
    BY <1>1 DEF Count, Distinct, clu, Points
  <2> QED
    BY <1>1, <2>1 DEF IInv, TurnInv
<1> QED
  BY <1>2, <1>3, <1>4, <1>5 DEF IInv

LEMMA NextInv == IInv /\ [Next]_vars => IInv'
<1>1. SUFFICES ASSUME IInv, [Next]_vars PROVE IInv'
  OBVIOUS
<1>2. CASE UNCHANGED vars
  BY <1>1, <1>2, StutterInv
<1>3. ASSUME NEW p \in Points, Seed(p) PROVE IInv'
  BY <1>1, <1>3, SeedInv
<1>4. CASE Pick
  BY <1>1, <1>4, PickInv
<1>5. CASE NothingToPick
  BY <1>1, <1>5, NothingToPickInv
<1>6. CASE Assign
  BY <1>1, <1>6, AssignInv
<1>7. CASE Update
  BY <1>1, <1>7, UpdateInv
<1>8. ASSUME NEW s \in Scores, Score(s) PROVE IInv'
  BY <1>1, <1>8, ScoreInv
<1>9. CASE Report
  BY <1>1, <1>9, ReportInv
<1> QED
  BY <1>1, <1>2, <1>3, <1>4, <1>5, <1>6, <1>7, <1>8, <1>9 DEF Next

LEMMA InvariantHolds == Spec => []IInv
BY InitInv, NextInv, PTL DEF Spec

\* In every state of all three calls, the clusters are as TypeOK says, and
\* canopy() raises only in the first call and for want of distinct points.
THEOREM ClustersAreOK == Spec => []ClustersOK
<1>1. IInv => ClustersOK
  BY DEF IInv, ClustersOK
<1> QED
  BY <1>1, InvariantHolds, PTL

-----------------------------------------------------------------------------
(* The cost                                                                *)

\* A point in units of 1/Scale, its distance to its centroid squared, and the
\* sum of those, for any centroids and any assignment.
Scaled == [p \in Points |-> Scale * data[p]]
Squares(cs, as) == [p \in Points |-> square(Scaled[p] - cs[as[p]])]
CostOf(cs, as) == SumFunctionOnSet(Squares(cs, as), Points)

\* The cost is that of the centroids and the assignment of the state.
LEMMA CostIs == Cost = CostOf(cents, assign)
<1>1. [p \in Points |-> square(Scale * data[p] - cents[assign[p]])] = Squares(cents, assign)
  BY DEF Squares, Scaled
<1>2. DOMAIN Squares(cents, assign) = Points
  BY DEF Squares
<1> QED
  BY <1>1, <1>2 DEF Cost, CostOf, SumFunction

LEMMA IntDifference == \A x, y \in Int : x - y \in Int
OBVIOUS

LEMMA SquareNat == \A x \in Int : square(x) \in Nat /\ square(x) \in Int
BY DEF square

\* What is further away has the greater square.
LEMMA SquareGrows == \A x, y \in Int : abs(x) <= abs(y) => square(x) <= square(y)
<1>1. \A a, b \in Nat : a <= b => a * a <= b * b
  <2>1. SUFFICES ASSUME NEW a \in Nat, NEW b \in Nat, a <= b PROVE a * a <= b * b
    OBVIOUS
  <2>2. a * a <= a * b /\ a * b <= b * b
    BY <2>1
  <2> QED
    BY <2>2
<1>2. \A x \in Int : abs(x) \in Nat /\ square(x) = abs(x) * abs(x)
  BY DEF abs, square
<1> QED
  BY <1>1, <1>2

\* What the sums of this section need of a state with an assignment.
LEMMA SquaresFacts ==
    ASSUME IInv, NEW cs, \A c \in DOMAIN cents : cs[c] \in Int,
           NEW as \in [Points -> DOMAIN cents]
    PROVE  /\ IsFiniteSet(Points)
           /\ \A p \in Points : /\ Scaled[p] \in Int /\ Scaled[p] = Scale * data[p]
                                /\ Squares(cs, as)[p] = square(Scaled[p] - cs[as[p]])
                                /\ Squares(cs, as)[p] \in Int
<1>1. IsFiniteSet(Points) /\ \A p \in Points : data[p] \in Int
  BY StateFacts, DataFacts
<1>2. ASSUME NEW p \in Points
      PROVE  /\ Scaled[p] \in Int /\ Scaled[p] = Scale * data[p]
             /\ Squares(cs, as)[p] = square(Scaled[p] - cs[as[p]])
             /\ Squares(cs, as)[p] \in Int
  <2>1. Scaled[p] \in Int /\ Scaled[p] = Scale * data[p]
    BY <1>1, ScaleAssumption DEF Scaled
  <2>2. Scaled[p] - cs[as[p]] \in Int
    <3>1. as[p] \in DOMAIN cents
      OBVIOUS
    <3>2. cs[as[p]] \in Int /\ Scaled[p] \in Int
      BY <2>1, <3>1
    <3> QED
      BY <3>2, IntDifference, Zenon
  <2>3. Squares(cs, as)[p] = square(Scaled[p] - cs[as[p]])
    BY DEF Squares
  <2>4. square(Scaled[p] - cs[as[p]]) \in Int
    BY <2>2, SquareNat, Zenon
  <2> QED
    BY <2>1, <2>3, <2>4
<1> QED
  BY <1>1, <1>2

\* Points that go to their nearest centroids cost no more.
LEMMA NearestCostsLess ==
    ASSUME IInv, pc \notin Seeding
    PROVE  CostOf(cents, [p \in Points |-> Nearest(p, cents)]) <= CostOf(cents, assign)
<1> DEFINE as == [p \in Points |-> Nearest(p, cents)]
<1>1. pc # "seed" /\ assign \in [Points -> DOMAIN cents]
  BY DEF IInv, TurnInv, Seeding
<1>2. /\ as \in [Points -> DOMAIN cents]
      /\ \A p \in Points : /\ as[p] = Nearest(p, cents)
                           /\ \A d \in DOMAIN cents : abs(Scale * data[p] - cents[as[p]])
                                                      <= abs(Scale * data[p] - cents[d])
  BY <1>1, AssignmentFacts
<1> HIDE DEF as
<1>3. \A c \in DOMAIN cents : cents[c] \in Int
  BY StateFacts
<1>4. ASSUME NEW p \in Points
      PROVE  Squares(cents, as)[p] <= Squares(cents, assign)[p]
  <2>1. /\ Scaled[p] \in Int /\ Scaled[p] = Scale * data[p]
        /\ Squares(cents, as)[p] = square(Scaled[p] - cents[as[p]])
    BY <1>2, <1>3, SquaresFacts
  <2>2. Squares(cents, assign)[p] = square(Scaled[p] - cents[assign[p]])
    BY <1>1, <1>3, SquaresFacts
  <2>3. abs(Scaled[p] - cents[as[p]]) <= abs(Scaled[p] - cents[assign[p]])
    BY <1>1, <1>2, <2>1
  <2>4. Scaled[p] - cents[as[p]] \in Int /\ Scaled[p] - cents[assign[p]] \in Int
    <3>1. as[p] \in DOMAIN cents /\ assign[p] \in DOMAIN cents
      BY <1>1, <1>2
    <3>2. cents[as[p]] \in Int /\ cents[assign[p]] \in Int /\ Scaled[p] \in Int
      BY <1>3, <2>1, <3>1
    <3> QED
      BY <3>2, IntDifference, Zenon
  <2> QED
    BY <2>1, <2>2, <2>3, <2>4, SquareGrows
<1>5. /\ IsFiniteSet(Points)
      /\ \A p \in Points : Squares(cents, as)[p] \in Int /\ Squares(cents, assign)[p] \in Int
  BY <1>1, <1>2, <1>3, SquaresFacts
<1>6. CostOf(cents, as) <= CostOf(cents, assign)
  BY <1>4, <1>5, SumAtMost DEF CostOf
<1> QED
  BY <1>6 DEF as

\* (y - k)^2 from (y - m)^2, by distributing one product at a time.
LEMMA Binomial ==
    \A y, m, k \in Int : (y - k) * (y - k) = (y - m) * (y - m) + (2 * (m - k)) * y + (k * k - m * m)
<1>1. SUFFICES ASSUME NEW y \in Int, NEW m \in Int, NEW k \in Int
               PROVE  (y - k) * (y - k) = (y - m) * (y - m) + (2 * (m - k)) * y + (k * k - m * m)
  OBVIOUS
<1>2. (y - k) * (y - k) = y * y - 2 * (k * y) + k * k
  OBVIOUS
<1>3. (y - m) * (y - m) = y * y - 2 * (m * y) + m * m
  OBVIOUS
<1>4. (2 * (m - k)) * y = 2 * (m * y) - 2 * (k * y)
  OBVIOUS
<1>5. y * y \in Int /\ k * y \in Int /\ m * y \in Int /\ m * m \in Int /\ k * k \in Int
  OBVIOUS
<1> QED
  BY <1>2, <1>3, <1>4, <1>5

LEMMA BinomialTimes ==
    \A n, m, k \in Int : (2 * (m - k)) * (n * m) + (k * k - m * m) * n = n * ((m - k) * (m - k))
<1>1. SUFFICES ASSUME NEW n \in Int, NEW m \in Int, NEW k \in Int
               PROVE  (2 * (m - k)) * (n * m) + (k * k - m * m) * n = n * ((m - k) * (m - k))
  OBVIOUS
<1>2. n * m \in Int /\ m * m \in Int /\ m * k \in Int /\ k * k \in Int
  OBVIOUS
<1>3. (m - k) * (m - k) = m * m - 2 * (m * k) + k * k
  OBVIOUS
<1>4. (2 * (m - k)) * (n * m) = 2 * (n * (m * m)) - 2 * (n * (m * k))
  OBVIOUS
<1>5. (k * k - m * m) * n = n * (k * k) - n * (m * m)
  BY <1>2
<1>6. n * (m * m - 2 * (m * k) + k * k) = n * (m * m) - 2 * (n * (m * k)) + n * (k * k)
  BY <1>2
<1>7. n * (m * m) \in Int /\ n * (m * k) \in Int /\ n * (k * k) \in Int
  BY <1>2
<1> QED
  BY <1>3, <1>4, <1>5, <1>6, <1>7

\* Of all places, the mean has the least sum of squared distances.
LEMMA MeanIsBest ==
    ASSUME NEW M, IsFiniteSet(M), NEW x, \A p \in M : x[p] \in Int,
           NEW m \in Int, NEW k \in Int, Cardinality(M) * m = SumFunctionOnSet(x, M),
           NEW f, \A p \in M : f[p] = square(x[p] - m),
           NEW g, \A p \in M : g[p] = square(x[p] - k)
    PROVE  SumFunctionOnSet(f, M) <= SumFunctionOnSet(g, M)
<1> DEFINE e == 2 * (m - k)
           c == k * k - m * m
           n == Cardinality(M)
           turns == [p \in M |-> e * x[p]]
           shift == [p \in M |-> c]
           rise == [p \in M |-> turns[p] + shift[p]]
<1>1. n \in Nat /\ e \in Int /\ c \in Int
  BY FS_CardinalityType
<1>2. \A p \in M : turns[p] = e * x[p] /\ turns[p] \in Int
  BY <1>1
<1>3. \A p \in M : shift[p] = c /\ shift[p] \in Int
  BY <1>1
<1> HIDE DEF turns, shift
<1>4. \A p \in M : rise[p] = turns[p] + shift[p] /\ rise[p] \in Int
  BY <1>2, <1>3
<1> HIDE DEF rise
<1>5. \A p \in M : f[p] \in Int
  BY SquareNat
<1>6. ASSUME NEW p \in M PROVE g[p] = f[p] + rise[p]
  <2>2. x[p] \in Int /\ rise[p] = e * x[p] + c
    BY <1>2, <1>3, <1>4
  <2>3. g[p] = (x[p] - k) * (x[p] - k) /\ f[p] = (x[p] - m) * (x[p] - m)
    BY DEF square
  <2>4. (x[p] - k) * (x[p] - k) = (x[p] - m) * (x[p] - m) + e * x[p] + c
    BY <2>2, Binomial
  <2> HIDE DEF e, c
  <2>5. (x[p] - m) * (x[p] - m) \in Int /\ e * x[p] \in Int
    BY <1>1, <2>2
  <2> QED
    BY <1>1, <2>2, <2>3, <2>4, <2>5
<1> HIDE DEF e, c, n
<1>7. SumFunctionOnSet(g, M) = SumFunctionOnSet(f, M) + SumFunctionOnSet(rise, M)
  BY <1>4, <1>5, <1>6, SumPlus
<1>8. SumFunctionOnSet(rise, M) = SumFunctionOnSet(turns, M) + SumFunctionOnSet(shift, M)
  BY <1>2, <1>3, <1>4, SumPlus
<1>9. SumFunctionOnSet(turns, M) = e * (n * m)
  <2>1. SumFunctionOnSet(turns, M) = e * SumFunctionOnSet(x, M)
    BY <1>1, <1>2, SumTimes
  <2> QED
    BY <2>1 DEF n
<1>10. SumFunctionOnSet(shift, M) = c * n
  BY <1>1, <1>3, SumOfSame DEF n
<1>11. e * (n * m) + c * n >= 0
  <2>1. e * (n * m) + c * n = n * ((m - k) * (m - k))
    BY <1>1, BinomialTimes DEF e, c
  <2>2. (m - k) * (m - k) \in Nat
    OBVIOUS
  <2> QED
    BY <1>1, <2>1, <2>2
<1>12. SumFunctionOnSet(f, M) \in Int /\ SumFunctionOnSet(rise, M) \in Int
  BY <1>4, <1>5, SumTakes
<1> QED
  BY <1>7, <1>8, <1>9, <1>10, <1>11, <1>12

\* A centroid that moves to the mean of its members costs them no more.
LEMMA OneUpdateCostsLess ==
    ASSUME IInv, assign \in [Points -> DOMAIN cents], NEW c \in DOMAIN cents,
           NEW old, \A d \in DOMAIN cents : old[d] \in Int,
           NEW new, \A d \in DOMAIN cents : new[d] \in Int,
           old[c] = cents[c], new[c] = Updated[c],
           \A d \in DOMAIN cents : d # c => new[d] = old[d]
    PROVE  CostOf(new, assign) <= CostOf(old, assign)
<1> DEFINE M == Members(c)
           N == Points \ M
           f == Squares(new, assign)
           g == Squares(old, assign)
<1>1. /\ IsFiniteSet(Points)
      /\ \A p \in Points : /\ f[p] \in Int /\ f[p] = square(Scaled[p] - new[assign[p]])
                           /\ g[p] \in Int /\ g[p] = square(Scaled[p] - old[assign[p]])
                           /\ Scaled[p] \in Int /\ Scaled[p] = Scale * data[p]
  BY SquaresFacts
<1> HIDE DEF f, g
<1>2. /\ IsFiniteSet(M) /\ IsFiniteSet(N) /\ M \intersect N = {} /\ M \union N = Points
      /\ \A p \in M : p \in Points /\ assign[p] = c
      /\ \A p \in N : p \in Points /\ assign[p] \in DOMAIN cents /\ assign[p] # c
  <2>1. M \subseteq Points /\ \A p \in Points : p \in M <=> assign[p] = c
    BY DEF Members
  <2>2. IsFiniteSet(M) /\ IsFiniteSet(N)
    BY <1>1, <2>1, FS_Subset
  <2> QED
    BY <2>1, <2>2
<1>3. SumFunctionOnSet(f, N) = SumFunctionOnSet(g, N)
  <2>1. \A p \in N : f[p] = g[p]
    BY <1>1, <1>2
  <2> QED
    BY <1>2, <2>1, SumSame
<1>4. SumFunctionOnSet(f, M) <= SumFunctionOnSet(g, M)
  <2>1. CASE Updated[c] = cents[c]
    <3>1. \A p \in M : f[p] = g[p]
      BY <1>1, <1>2, <2>1
    <3>2. SumFunctionOnSet(f, M) = SumFunctionOnSet(g, M) /\ SumFunctionOnSet(g, M) \in Int
      BY <1>1, <1>2, <3>1, SumSame, SumTakes
    <3> QED
      BY <3>2
  <2>2. CASE Updated[c] # cents[c]
    <3>1. Cardinality(M) * new[c] = Scale * SumFunctionOnSet(data, M)
      BY <2>2, UpdatedFacts
    <3>2. SumFunctionOnSet(Scaled, M) = Scale * SumFunctionOnSet(data, M)
      <4>1. \A p \in M : data[p] \in Int /\ Scaled[p] = Scale * data[p]
        BY <1>1, <1>2, StateFacts, DataFacts
      <4>2. Scale \in Int
        BY ScaleAssumption
      <4> HIDE DEF M
      <4> QED
        BY <1>2, <4>1, <4>2, SumTimes
    <3>3. /\ \A p \in M : Scaled[p] \in Int /\ f[p] = square(Scaled[p] - new[c]) /\ g[p] = square(Scaled[p] - old[c])
          /\ new[c] \in Int /\ old[c] \in Int
      BY <1>1, <1>2
    <3>4. Cardinality(M) * new[c] = SumFunctionOnSet(Scaled, M)
      BY <3>1, <3>2
    <3> HIDE DEF M
    <3> QED
      BY <1>2, <3>3, <3>4, MeanIsBest
  <2> QED
    BY <2>1, <2>2
<1> HIDE DEF M, N
<1>5. /\ SumFunctionOnSet(f, Points) = SumFunctionOnSet(f, M) + SumFunctionOnSet(f, N)
      /\ SumFunctionOnSet(g, Points) = SumFunctionOnSet(g, M) + SumFunctionOnSet(g, N)
  BY <1>1, <1>2, SumOfUnion
<1>6. /\ SumFunctionOnSet(f, M) \in Int /\ SumFunctionOnSet(f, N) \in Int
      /\ SumFunctionOnSet(g, M) \in Int /\ SumFunctionOnSet(g, N) \in Int
  <2>1. \A p \in M : f[p] \in Int /\ g[p] \in Int
    BY <1>1, <1>2
  <2>2. \A p \in N : f[p] \in Int /\ g[p] \in Int
    BY <1>1, <1>2
  <2> QED
    BY <1>2, <2>1, <2>2, SumTakes
<1> QED
  BY <1>3, <1>4, <1>5, <1>6 DEF CostOf, f, g

\* An update costs no more: one centroid after the other is moved to its mean,
\* whichever of them the names allow to be stored.
LEMMA UpdateCostsLess ==
    ASSUME IInv, assign \in [Points -> DOMAIN cents]
    PROVE  CostOf(Updated, assign) <= CostOf(cents, assign)
<1> DEFINE part(V) == [c \in DOMAIN cents |-> IF c \in V THEN Updated[c] ELSE cents[c]]
           G == {V \in SUBSET DOMAIN cents : CostOf(part(V), assign) <= CostOf(cents, assign)}
<1>1. ASSUME NEW V \in SUBSET DOMAIN cents
      PROVE  /\ \A c \in DOMAIN cents : part(V)[c] \in Int
             /\ CostOf(part(V), assign) \in Int
  <2>1. \A c \in DOMAIN cents : part(V)[c] \in Int
    BY StateFacts, UpdatedFacts
  <2>2. IsFiniteSet(Points) /\ \A p \in Points : Squares(part(V), assign)[p] \in Int
    <3> DEFINE cs == part(V)
    <3>1. \A c \in DOMAIN cents : cs[c] \in Int
      BY <2>1
    <3> HIDE DEF cs
    <3>2. IsFiniteSet(Points) /\ \A p \in Points : Squares(cs, assign)[p] \in Int
      BY <3>1, SquaresFacts
    <3> QED
      BY <3>2 DEF cs
  <2> HIDE DEF part
  <2>3. CostOf(part(V), assign) \in Int
    BY <2>2, SumTakes DEF CostOf
  <2> QED
    BY <2>1, <2>3
<1>2. CostOf(part({}), assign) = CostOf(cents, assign) /\ CostOf(cents, assign) \in Int
  <2>1. \A p \in Points : part({})[assign[p]] = cents[assign[p]]
    OBVIOUS
  <2>2. CostOf(part({}), assign) = CostOf(cents, assign)
    <3>1. \A c \in DOMAIN cents : cents[c] \in Int /\ part({})[c] \in Int
      BY <1>1, StateFacts
    <3> DEFINE none == part({})
    <3>2. /\ \A p \in Points : none[assign[p]] = cents[assign[p]]
          /\ \A c \in DOMAIN cents : none[c] \in Int
      BY <2>1, <3>1
    <3> HIDE DEF none
    <3>3. \A p \in Points : Squares(none, assign)[p] = square(Scaled[p] - none[assign[p]])
      BY <3>2, SquaresFacts
    <3>4. \A p \in Points : Squares(cents, assign)[p] = square(Scaled[p] - cents[assign[p]])
      BY <3>1, SquaresFacts
    <3>5. \A p \in Points : Squares(none, assign)[p] = Squares(cents, assign)[p]
      BY <3>2, <3>3, <3>4
    <3>6. CostOf(none, assign) = CostOf(cents, assign)
      BY <3>5, StateFacts, DataFacts, SumSame DEF CostOf
    <3> QED
      BY <3>6 DEF none
  <2>3. CostOf(part({}), assign) \in Int
    <3> HIDE DEF part
    <3>1. {} \in SUBSET DOMAIN cents
      OBVIOUS
    <3> QED
      BY <1>1, <3>1
  <2> QED
    BY <2>2, <2>3
<1>3. ASSUME NEW V \in SUBSET DOMAIN cents, \A c \in V : V \ {c} \in G
      PROVE  V \in G
  <2>1. CASE V = {}
    BY <1>2, <2>1
  <2>2. CASE V # {}
    <3>1. PICK c \in V : TRUE
      BY <2>2
    <3> DEFINE old == part(V \ {c})
               new == part(V)
    <3>2. /\ \A d \in DOMAIN cents : old[d] \in Int /\ new[d] \in Int
          /\ CostOf(old, assign) \in Int /\ CostOf(new, assign) \in Int
      BY <1>1
    <3>3. /\ c \in DOMAIN cents /\ old[c] = cents[c] /\ new[c] = Updated[c]
          /\ \A d \in DOMAIN cents : d # c => new[d] = old[d]
      BY <3>1
    <3>4. CostOf(old, assign) <= CostOf(cents, assign)
      BY <1>3, <3>1
    <3> HIDE DEF old, new
    <3>5. CostOf(new, assign) <= CostOf(old, assign)
      BY <3>2, <3>3, OneUpdateCostsLess
    <3>6. CostOf(new, assign) <= CostOf(cents, assign)
      BY <1>2, <3>2, <3>4, <3>5
    <3> QED
      BY <3>6 DEF new
  <2> QED
    BY <2>1, <2>2
<1>4. SUBSET DOMAIN cents \subseteq G
  <2> DEFINE S == DOMAIN cents
  <2>1. \A V \in SUBSET S : (\A c \in V : V \ {c} \in G) => V \in G
    BY <1>3
  <2>2. IsFiniteSet(S)
    BY StateFacts
  <2> HIDE DEF G, S
  <2>3. SUBSET S \subseteq G
    BY <2>1, <2>2, SubsetInduction
  <2> QED
    BY <2>3 DEF S
<1>5. Updated = part(DOMAIN cents)
  BY DEF Updated
<1>6. CostOf(part(DOMAIN cents), assign) <= CostOf(cents, assign)
  BY <1>4
<1> QED
  BY <1>5, <1>6

\* No step from a state with an assignment makes the clustering worse.
LEMMA StepCostsLess ==
    ASSUME IInv, Next, pc \in {"update", "assign", "score"}
    PROVE  Cost' <= Cost
<1>1. pc \notin Seeding /\ assign \in [Points -> DOMAIN cents]
  BY DEF IInv, TurnInv, Seeding
<1>2. Cost = CostOf(cents, assign)
  BY CostIs
<1>3. ASSUME data' = data
      PROVE  Cost' = CostOf(cents', assign')
  <2>1. Points' = Points
    BY <1>3 DEF Points
  <2>2. [p \in Points |-> square(Scale * data'[p] - cents'[assign'[p]])] = Squares(cents', assign')
    BY <1>3 DEF Squares, Scaled
  <2>3. DOMAIN Squares(cents', assign') = Points
    BY DEF Squares
  <2>4. Cost' = SumFunction([p \in Points' |-> square(Scale * data'[p] - cents'[assign'[p]])])
    BY DEF Cost
  <2> QED
    BY <2>1, <2>2, <2>3, <2>4 DEF CostOf, SumFunction
<1>4. CASE Assign
  <2>1. /\ assign' = [p \in Points |-> Nearest(p, cents)] /\ cents' = cents /\ data' = data
    BY <1>4 DEF Assign
  <2> QED
    BY <1>1, <1>2, <1>3, <2>1, NearestCostsLess
<1>5. CASE Update
  <2>1. assign' = assign /\ cents' = Updated /\ data' = data
    BY <1>5 DEF Update
  <2> QED
    BY <1>1, <1>2, <1>3, <2>1, UpdateCostsLess
<1>6. ASSUME NEW s \in Scores, Score(s) PROVE Cost' <= Cost
  <2>1. /\ assign' = [p \in Points |-> Nearest(p, cents)] /\ cents' = cents /\ data' = data
    BY <1>6 DEF Score
  <2> QED
    BY <1>1, <1>2, <1>3, <2>1, NearestCostsLess
<1>7. CASE (\E p \in Points : Seed(p)) \/ Pick \/ NothingToPick \/ Report
  BY <1>7 DEF Seed, Pick, NothingToPick, Report
<1> QED
  BY <1>4, <1>5, <1>6, <1>7 DEF Next

\* Neither an assignment nor an update makes the clustering worse, for any data
\* and although some of the means are not stored.
THEOREM TheCostNeverGrows == Spec => CostNeverGrows
<1>1. IInv /\ [Next]_vars => [(pc \in {"update", "assign", "score"} => Cost' <= Cost)]_<<pc, cents, assign>>
  <2>1. SUFFICES ASSUME IInv, [Next]_vars, <<pc, cents, assign>>' # <<pc, cents, assign>>,
                        pc \in {"update", "assign", "score"}
                 PROVE  Cost' <= Cost
    OBVIOUS
  <2>2. Next
    BY <2>1 DEF vars
  <2> QED
    BY <2>1, <2>2, StepCostsLess
<1> QED
  BY <1>1, InvariantHolds, PTL DEF Spec, CostNeverGrows
=============================================================================
