----------------------------- MODULE MCKMeans -----------------------------
\* The instance of KMeans that TLC checks.
EXTENDS KMeans

MCSize == 6
MCMax == 6

\* Every multiset of six numbers up to six, in ascending order, and some data
\* in other orders, on which ties between the farthest points depend.
MCDataSets ==
    {d \in [1 .. MCSize -> 0 .. MCMax] : \A i \in 2 .. MCSize : d[i - 1] <= d[i]}
        \union {<<3, 0, 6, 1, 5, 4>>, <<6, 5, 3, 2, 1, 0>>, <<4, 0, 2, 2, 6, 3>>}
=============================================================================
