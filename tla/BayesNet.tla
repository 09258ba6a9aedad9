------------------------------ MODULE BayesNet ------------------------------
(***************************************************************************)
(* The Bayesian network of CTBN/bayes_net.py: conditional distributions    *)
(* that are learned batch by batch (partial_fit, fit), and exact queries   *)
(* on them by variable elimination.                                        *)
(*                                                                         *)
(* Nodes are numbered in the topological order of the constructor.  A      *)
(* series is a table from assignments of its variables to values; rows     *)
(* that a series lacks have value 0 here.  A conditional probability is    *)
(* kept as a numerator and a denominator, so that the multiplication by    *)
(* _P_sizes gives the counts back as it does in the code.                  *)
(***************************************************************************)
EXTENDS Integers, Sequences, FiniteSets, FiniteSetsExt, Functions, SequencesExt

CONSTANTS
    N,          \* number of nodes
    Values,     \* values of every variable
    MaxBatch,   \* rows in one batch
    MaxRows,    \* rows in all batches since fit()
    Priors,     \* may prior_count be given?  Subset of BOOLEAN
    Scale       \* probabilities are multiples of 1/Scale

ASSUME NAssumption == N \in Nat \ {0}
ASSUME BoundsAssumption == /\ {MaxBatch, MaxRows} \subseteq Nat \ {0}
                           /\ Priors \subseteq BOOLEAN
                           /\ IsFiniteSet(Values)
ASSUME ScaleAssumption == /\ Scale \in Nat \ {0}
                          /\ \A i \in 1 .. MaxRows + Cardinality(Values) : Scale % i = 0

Nodes == 1 .. N
Assign(S) == [S -> Values]
Rows == Assign(Nodes)

\* A data frame: how often it has each row.
Total(frame) == SumFunction(frame)
Batches == {b \in [Rows -> 0 .. MaxBatch] : Total(b) \in 1 .. MaxBatch}
NoData == [r \in Rows |-> 0]

\* X.groupby(S).size() at one key.
SizeAt(frame, key) == SumFunctionOnSet(frame, {r \in Rows : IsRestriction(key, r)})

VARIABLES
    parents,    \* node -> its parents
    prior,      \* prior_count is given
    learned,    \* the nodes are in P
    P,          \* node -> assignment of its family -> [n, d]
    sizes,      \* _P_sizes: node -> assignment of its parents -> count
    phase,      \* "idle", or inside _variable_elimination()
    query, event,
    hidden,     \* hidden nodes still to be eliminated
    factors,    \* sequence of [vars, table]
    data,       \* history: the rows since the last fit()
    first       \* history: the values in the first batch, when a prior is given

netVars == <<parents, prior>>
learnVars == <<learned, P, sizes, data, first>>
queryVars == <<phase, query, event, hidden, factors>>
vars == <<netVars, learnVars, queryVars>>

Family(v) == parents[v] \union {v}
IsRoot(v) == parents[v] = {}
Key(v, key) == Restrict(key, parents[v])

\* self.ancestors(v): parents have smaller numbers.
Ancestors(v) ==
    LET anc[u \in Nodes] == parents[u] \union UNION {anc[p] : p \in parents[u]}
    IN anc[v]

-----------------------------------------------------------------------------
Init == /\ parents \in {ps \in [Nodes -> SUBSET Nodes] : \A v \in Nodes : ps[v] \subseteq 1 .. (v - 1)}
        /\ prior \in Priors
        /\ learned = FALSE
        /\ P = <<>> /\ sizes = <<>>
        /\ data = NoData
        /\ first = [v \in Nodes |-> {}]
        /\ phase = "idle"
        /\ query = {} /\ event = <<>> /\ hidden = {} /\ factors = <<>>

\* X[var].unique() of the prior's loop.
ValuesIn(batch) == [v \in Nodes |-> IF prior THEN {r[v] : r \in {x \in Rows : batch[x] > 0}} ELSE {}]

\* Mutant of CountsAfter: the prior is added with each batch.
CountsAfterAlwaysPrior(has, batch, v, key) ==
    (IF has THEN (P[v][key].n * sizes[v][Key(v, key)]) \div P[v][key].d ELSE 0)
        + SizeAt(batch, key)
        + (IF prior /\ ~IsRoot(v) /\ (\A u \in Family(v) : key[u] \in ValuesIn(batch)[u]) THEN 1 ELSE 0)

\* The counts that partial_fit() has afterwards for node v: those it had, from
\* the probabilities, and those of the batch; or, at first, those of the batch
\* and one for each combination of the batch's values.
CountsAfter(has, batch, v, key) ==
    IF has
    THEN (P[v][key].n * sizes[v][Key(v, key)]) \div P[v][key].d + SizeAt(batch, key)
    ELSE SizeAt(batch, key)
            + (IF prior /\ ~IsRoot(v) /\ (\A u \in Family(v) : key[u] \in ValuesIn(batch)[u]) THEN 1 ELSE 0)

\* The new sizes and probabilities; a combination of parents without rows has none.
Update(has, batch) ==
    LET counts == [v \in Nodes |-> [key \in Assign(Family(v)) |-> CountsAfter(has, batch, v, key)]]
        total == [v \in Nodes |-> [pk \in Assign(parents[v]) |->
                    SumFunctionOnSet(counts[v], {key \in Assign(Family(v)) : Key(v, key) = pk})]]
    IN  /\ sizes' = total
        /\ P' = [v \in Nodes |-> [key \in Assign(Family(v)) |->
                    [n |-> counts[v][key],
                     d |-> Max({1, total[v][Key(v, key)]})]]]

PartialFit(batch) ==
    /\ phase = "idle"
    /\ Total(data) + Total(batch) <= MaxRows
    /\ Update(learned, batch)
    /\ learned' = TRUE
    /\ data' = [r \in Rows |-> data[r] + batch[r]]
    /\ first' = IF learned THEN first ELSE ValuesIn(batch)
    /\ UNCHANGED <<netVars, queryVars>>

Fit(batch) ==
    /\ phase = "idle"
    /\ learned
    /\ Total(batch) <= MaxRows
    /\ Update(FALSE, batch)
    /\ data' = batch
    /\ first' = ValuesIn(batch)
    /\ UNCHANGED <<learned, netVars, queryVars>>

-----------------------------------------------------------------------------
(* Variable elimination.  Every probability is a multiple of 1/Scale, and   *)
(* tables hold the multiples.                                               *)

ProductOnSet(f, S) == FoldFunctionOnSet(LAMBDA x, y : x * y, 1, f, S)

Weight(v, a) == LET p == P[v][Restrict(a, Family(v))] IN p.n * (Scale \div p.d)

Relevant(q, e) == LET asked == q \union DOMAIN e
                  IN asked \union UNION {Ancestors(v) : v \in asked}

\* A copy of P[v] without the rows that contradict the event.
FactorOf(v, e) == [vars |-> Family(v),
                   table |-> [a \in Assign(Family(v)) |->
                       IF \A u \in Family(v) \intersect DOMAIN e : a[u] = e[u]
                       THEN Weight(v, a) ELSE 0]]

\* pointwise_mul(): rows agree on the shared variables; rows of value 0 drop out.
\* The factors are those at I of the family fs.
VarsOf(fs, I) == UNION {fs[i].vars : i \in I}
ValueAt(fs, I, a) == ProductOnSet([i \in I |-> fs[i].table[Restrict(a, fs[i].vars)]], I)
Product(fs, I) == [vars |-> VarsOf(fs, I), table |-> [a \in Assign(VarsOf(fs, I)) |-> ValueAt(fs, I, a)]]

\* cdt.sum_out(): the sum over the values of S.
SumOut(f, S) == [vars |-> f.vars \ S,
                 table |-> [b \in Assign(f.vars \ S) |->
                    SumFunctionOnSet(f.table, {a \in Assign(f.vars) : IsRestriction(b, a)})]]

Ask(q, e) ==
    /\ phase = "idle"
    /\ learned
    /\ q # {}
    /\ q \intersect DOMAIN e = {}
    /\ phase' = "eliminate"
    /\ query' = q
    /\ event' = e
    /\ hidden' = Relevant(q, e) \ (q \union DOMAIN e)
    /\ factors' = [v \in Relevant(q, e) |-> FactorOf(v, e)]
    /\ UNCHANGED <<netVars, learnVars>>

\* The factors that h occurs in.
Uses(h) == {i \in DOMAIN factors : h \in factors[i].vars}

\* Mutant of Eliminate: the factors that were multiplied stay in the list.
EliminateKeepsFactors(h) ==
    /\ phase = "eliminate"
    /\ h \in hidden
    /\ hidden' = hidden \ {h}
    /\ factors' = [factors EXCEPT ![h] = SumOut(Product(factors, Uses(h)), {h})]
    /\ UNCHANGED <<netVars, learnVars, phase, query, event>>

\* One round of the loop over hidden, which is a set: any order.  Neither has the
\* list of factors an order that matters.  It is a family here: at v is at first
\* the table of v, and the sum over h takes the place of the table of h, which is
\* always among those that were multiplied.
Eliminate(h) ==
    /\ phase = "eliminate"
    /\ h \in hidden
    /\ hidden' = hidden \ {h}
    /\ factors' = [i \in (DOMAIN factors \ Uses(h)) \union {h} |->
                      IF i = h THEN SumOut(Product(factors, Uses(h)), {h}) ELSE factors[i]]
    /\ UNCHANGED <<netVars, learnVars, phase, query, event>>

\* The posterior before it is divided by its sum, with the levels of the query.
Posterior == SumOut(Product(factors, DOMAIN factors), VarsOf(factors, DOMAIN factors) \ query)

Answer == /\ phase = "eliminate"
          /\ hidden = {}
          /\ phase' = "idle"
          /\ query' = {} /\ event' = <<>> /\ factors' = <<>>
          /\ UNCHANGED <<netVars, learnVars, hidden>>

Next == \/ \E b \in Batches : PartialFit(b) \/ Fit(b)
        \/ \E q \in SUBSET Nodes : \E S \in SUBSET (Nodes \ q) : \E e \in Assign(S) : Ask(q, e)
        \/ \E h \in Nodes : Eliminate(h)
        \/ Answer

Spec == Init /\ [][Next]_vars

\* The values are interchangeable: no definition orders or names them.
ValueSymmetry == Permutations(Values)

-----------------------------------------------------------------------------
\* However the rows were cut into batches, the probabilities are those of all
\* rows together, plus one for each combination of values of the first batch
\* when a prior is given.
LearnedFromAllRows ==
    learned =>
        \A v \in Nodes : \A key \in Assign(Family(v)) :
            LET extra(k) == IF prior /\ ~IsRoot(v) /\ \A u \in Family(v) : k[u] \in first[u]
                            THEN 1 ELSE 0
                keys == {k \in Assign(Family(v)) : Key(v, k) = Key(v, key)}
                count == [k \in keys |-> SizeAt(data, k) + extra(k)]
            IN  /\ P[v][key].n = count[key]
                /\ P[v][key].d = Max({1, SumFunction(count)})

\* Whatever is eliminated in whatever order, no product is left with only the
\* node to be summed out (groupby of no columns raises), and the product of the
\* factors, summed over the rest, is the joint distribution of the relevant
\* nodes summed over all that is not asked for: the answer is the posterior.
SumsAreProper == \A h \in hidden : VarsOf(factors, Uses(h)) # {h}
RelevantJoint ==
    LET rel == Relevant(query, event)
    IN  [a \in {r \in Assign(rel) : IsRestriction(event, r)} |->
            ProductOnSet([v \in rel |-> Weight(v, a)], rel)]
EliminationExact ==
    phase = "eliminate" => SumsAreProper /\
        LET answer == Posterior.table
            joint == RelevantJoint
        IN  \A b \in Assign(query) :
                answer[b] = SumFunctionOnSet(joint, {a \in DOMAIN joint : IsRestriction(b, a)})
=============================================================================
