------------------------------- MODULE KMeans -------------------------------
(***************************************************************************)
(* The clustering script k-mean/main.py: three calls of k_means(), each    *)
(* over a list of numbers of clusters; canopy() seeds the centroids,       *)
(* kmeans_assign() and kmeans_update() alternate until the centroids stop, *)
(* silhoutte() scores the outcome, and main() chooses the next list from   *)
(* the scores.                                                             *)
(*                                                                         *)
(* The data have one feature.  Centroids are integers in units of 1/Scale, *)
(* Scale being a multiple of every cluster size.  The silhouette           *)
(* coefficient is any member of Scores.  Names of clusters are digit       *)
(* strings in base Base, which is 10 in the code.                          *)
(***************************************************************************)
EXTENDS Integers, Sequences, FiniteSets, FiniteSetsExt, Functions, SequencesExt

CONSTANTS
    DataSets,   \* the contents that sample.dat may have: sequences of numbers
    Exponents,  \* cluster_range is 2^n for n below this (6 in the code)
    Base,
    Scale,
    Scores

ASSUME BaseAssumption == Base \in Nat \ {0, 1}
ASSUME ExponentsAssumption == Exponents \in Nat \ {0, 1}
ASSUME DataAssumption == \A d \in DataSets : d \in Seq(Int) /\ Len(d) > 0
ASSUME ScaleAssumption == /\ Scale \in Nat \ {0}
                          /\ \A d \in DataSets : \A i \in 1 .. Len(d) : Scale % i = 0
ASSUME ScoresAssumption == Scores \subseteq Int

VARIABLES
    data,       \* the points
    call,       \* which call of k_means(): 1, 2, 3
    clusters,   \* its list of numbers of clusters
    at,         \* index in that list
    pc,
    cents,      \* centroids, numbered from 0
    assign,     \* point -> its cluster, or <<>> before the first assignment
    sc          \* scores so far in this call

vars == <<data, call, clusters, at, pc, cents, assign, sc>>

Points == DOMAIN data
clu == clusters[at]
abs(x) == IF x < 0 THEN -x ELSE x
square(x) == x * x

powers[n \in Nat] == IF n = 0 THEN 1 ELSE 2 * powers[n - 1]
cluster_range == [n \in 1 .. Exponents |-> powers[n - 1]]

-----------------------------------------------------------------------------
Init == /\ data \in DataSets
        /\ call = 1
        /\ clusters = cluster_range
        /\ at = 1
        /\ pc = "seed"
        /\ cents = <<>> /\ assign = <<>> /\ sc = <<>>

-----------------------------------------------------------------------------
(* canopy() *)

Seed(p) == /\ pc = "seed"
           /\ cents' = [c \in {0} |-> Scale * data[p]]
           /\ assign' = <<>>
           /\ pc' = "pick"
           /\ UNCHANGED <<data, call, clusters, at, sc>>

Chosen == Range(cents)
Remoteness(p) == SumFunction([c \in DOMAIN cents |-> abs(Scale * data[p] - cents[c])])
Candidates == {p \in Points : Scale * data[p] \notin Chosen}
Farthest == CHOOSE p \in Candidates :
                \A q \in Candidates : \/ Remoteness(q) < Remoteness(p)
                                      \/ Remoteness(q) = Remoteness(p) /\ p <= q

Count == Cardinality(DOMAIN cents)

\* Mutant of Seeded: the loop runs while i <= clu.
SeededOneMore == Count > clu

Seeded == Count >= clu

Pick == /\ pc = "pick"
        /\ ~Seeded
        /\ Candidates # {}
        /\ cents' = [c \in 0 .. Count |-> IF c = Count THEN Scale * data[Farthest] ELSE cents[c]]
        /\ UNCHANGED <<data, call, clusters, at, pc, assign, sc>>

\* max() of an empty list raises ValueError.
NothingToPick == /\ pc = "pick"
                 /\ ~Seeded
                 /\ Candidates = {}
                 /\ pc' = "raised"
                 /\ UNCHANGED <<data, call, clusters, at, cents, assign, sc>>

-----------------------------------------------------------------------------
(* kmeans_assign() and kmeans_update() *)

\* idxmin(): the first of the nearest centroids.
Nearest(p, cs) == CHOOSE c \in DOMAIN cs :
    \A d \in DOMAIN cs : LET dc == abs(Scale * data[p] - cs[c])
                             dd == abs(Scale * data[p] - cs[d])
                         IN dc < dd \/ (dc = dd /\ c <= d)

Assign == /\ \/ pc = "pick" /\ Seeded
             \/ pc = "assign"
          /\ assign' = [p \in Points |-> Nearest(p, cents)]
          /\ pc' = "update"
          /\ UNCHANGED <<data, call, clusters, at, cents, sc>>

Members(c) == {p \in Points : assign[p] = c}
Mean(c) == (Scale * SumFunctionOnSet(data, Members(c))) \div Cardinality(Members(c))

\* Names sort as strings: the position of the name of c among those in use.
Digits(c) == IF c < Base THEN <<c>> ELSE <<c \div Base, c % Base>>
Before(c, d) == LET a == Digits(c)  b == Digits(d)
                IN \/ a[1] < b[1]
                   \/ a[1] = b[1] /\ Len(a) < Len(b)
                   \/ a[1] = b[1] /\ Len(a) = 2 /\ Len(b) = 2 /\ a[2] < b[2]
Used == Range(assign)
Position(c) == Cardinality({d \in Used : Before(d, c)})

\* Mutant of Updated: centroids[ad] is replaced whatever the name at ad.
UpdatedUnchecked ==
    [c \in DOMAIN cents |-> IF \E d \in Used : Position(d) = c
                           THEN Mean(CHOOSE d \in Used : Position(d) = c)
                           ELSE cents[c]]

\* A mean is stored only if its name stands at its own index.
Updated == [c \in DOMAIN cents |-> IF c \in Used /\ Position(c) = c THEN Mean(c) ELSE cents[c]]

\* Mutant of Unmoved: the test of error the wrong way round.
UnmovedInverted(old, new) == SumFunction(old) # SumFunction(new)

\* error: the sums of all centroids before and after.
Unmoved(old, new) == SumFunction(old) = SumFunction(new)

Update == /\ pc = "update"
          /\ cents' = Updated
          /\ pc' = IF Unmoved(cents, Updated) THEN "score" ELSE "assign"
          /\ UNCHANGED <<data, call, clusters, at, assign, sc>>

-----------------------------------------------------------------------------
(* silhoutte(), the end of k_means() and the choices of main() *)

\* The first position, counted from 0, after which the score does not rise
\* further; 0 if it rises all the way.
NewK(scores) ==
    LET stops == {i \in 1 .. Len(scores) - 2 : ~(scores[i + 2] > scores[i + 1])}
    IN IF stops = {} THEN 0 ELSE Min(stops) + 1

\* Mutant of NewClusters: the end of the range is one too far.
NewClustersTooFar(scores) ==
    LET top == cluster_range[NewK(scores) + 1]
        low == top \div 4
    IN [i \in 1 .. top - low + 2 |-> low + i - 1]

NewClusters(scores) ==
    LET top == cluster_range[NewK(scores) + 1]
        low == top \div 4
    IN [i \in 1 .. top - low + 1 |-> low + i - 1]

\* The first maximum.  A list that begins with 0 clusters begins with the score
\* nan, which max() keeps.
OptimumK(ks, scores) ==
    IF ks[1] = 0 THEN 0
    ELSE ks[CHOOSE i \in DOMAIN scores : \A j \in DOMAIN scores :
                scores[j] < scores[i] \/ (scores[j] = scores[i] /\ i <= j)]

Restart(ks) == /\ clusters' = ks
               /\ at' = 1
               /\ sc' = <<>>
               /\ call' = call + 1
               /\ pc' = "seed"

Score(s) ==
    LET scores == Append(sc, IF clu = 1 THEN 0 ELSE s)
    IN  /\ pc = "score"
        /\ assign' = [p \in Points |-> Nearest(p, cents)]
        /\ cents' = cents
        /\ data' = data
        /\ \/ /\ at < Len(clusters)
              /\ at' = at + 1 /\ sc' = scores /\ pc' = "seed"
              /\ UNCHANGED <<call, clusters>>
           \/ at = Len(clusters) /\ call = 1 /\ Restart(NewClusters(scores))
           \/ at = Len(clusters) /\ call = 2 /\ Restart(<<OptimumK(clusters, scores)>>)
           \/ /\ at = Len(clusters) /\ call = 3
              /\ sc' = scores /\ pc' = "report"
              /\ UNCHANGED <<call, clusters, at>>

\* The report appends a cluster of one point as a list of lists, and float() of
\* a list raises TypeError.
Report == /\ pc = "report"
          /\ pc' = IF \E c \in Used : Cardinality(Members(c)) = 1 THEN "unprintable" ELSE "done"
          /\ UNCHANGED <<data, call, clusters, at, cents, assign, sc>>

Next == \/ \E p \in Points : Seed(p)
        \/ Pick
        \/ NothingToPick
        \/ Assign
        \/ Update
        \/ \E s \in Scores : Score(s)
        \/ Report

Spec == Init /\ [][Next]_vars
FairSpec == Spec /\ WF_vars(Next)

-----------------------------------------------------------------------------
\* Centroids lie between the least and the greatest point and are as many as
\* asked for, and every point is in a cluster that exists.
TypeOK ==
    /\ data \in DataSets
    /\ call \in 1 .. 3
    /\ at \in DOMAIN clusters
    /\ DOMAIN cents = 0 .. Count - 1
    /\ pc # "seed" => Count <= Max({1, clu})
    /\ pc \notin {"seed", "pick", "raised"} => Count = Max({1, clu})
    /\ \A c \in DOMAIN cents : cents[c] \in Scale * Min(Range(data)) .. Scale * Max(Range(data))
    /\ assign \in {<<>>} \union [Points -> DOMAIN cents]
    /\ Len(sc) = IF pc \in {"report", "done", "unprintable"} THEN 1 ELSE at - 1

\* canopy() seeds distinct data points, and it can fail in the first call only,
\* when there are fewer distinct points than clusters: what the first call has
\* been through bounds the numbers of clusters of the others.
CanopyOK ==
    /\ pc = "pick" => /\ IsInjective(cents)
                      /\ Chosen \subseteq {Scale * data[p] : p \in Points}
    /\ pc = "raised" => call = 1 /\ Cardinality(Range(data)) < clu

\* Both: the invariants of the clusters that the calls hand to each other.
ClustersOK == TypeOK /\ CanopyOK

Cost == SumFunction([p \in Points |-> square(Scale * data[p] - cents[assign[p]])])

\* Neither a new assignment nor an update makes the clustering worse, although
\* from the first name out of order on the means are not stored.
CostNeverGrows == [][(pc \in {"update", "assign", "score"} => Cost' <= Cost)]_<<pc, cents, assign>>

\* The centroids stop, for every number of clusters, and the script ends: with
\* its report, or with one of its two exceptions.
Terminates == <>(pc \in {"done", "unprintable", "raised"})
=============================================================================
