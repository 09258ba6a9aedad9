------------------------------ MODULE Sampling ------------------------------
(***************************************************************************)
(* The queries of CTBN/bayes_net.py that sample: rejection, likelihood     *)
(* weighting and Gibbs, and what is built on the joint distribution and on *)
(* queries: predict_proba() and impute().  The networks are those that     *)
(* BayesNet learns.                                                        *)
(*                                                                         *)
(* A draw is a choice among the values of positive probability.  One       *)
(* action is one sample, that is one turn of an n_iterations loop.         *)
(***************************************************************************)
EXTENDS BayesNet

CONSTANT MaxDraws   \* n_iterations of the two algorithms that start afresh

ASSUME DrawsAssumption == MaxDraws \in Nat \ {0}

VARIABLES
    alg,        \* "none", "forward" (rejection, likelihood), "gibbs", or "failed"
    given,      \* event: what is not drawn
    draws,      \* what _forward_sample() has yielded: [sample, likelihood]
    state,      \* state of _gibbs_sampling()
    turn,       \* position in its cycle
    possible,   \* history: the first state had a positive likelihood
    filled      \* what impute() has returned

samplerVars == <<alg, given, draws, state, turn, possible>>
samplingVars == <<samplerVars, filled>>

\* full_joint_dist(), before it is divided by its sum.
Joint(a) == ProductOnSet([v \in Nodes |-> Weight(v, a)], Nodes)
JointTable == [a \in Rows |-> Joint(a)]
JointSum == SumFunction(JointTable)
\* The probability 1, as a product of multiples of 1/Scale.
Certain == ProductOnSet([v \in Nodes |-> Scale], Nodes)

\* Mutant of Found: the values of the parents are looked up one by one.
FoundByParent(v, a) ==
    \A p \in parents[v] : \E key \in Assign(parents[v]) : key[p] = a[p] /\ sizes[v][key] > 0

\* P.cdt[condition] finds rows; else it raises KeyError.
Found(v, a) == sizes[v][Restrict(a, parents[v])] > 0
Likely(v, a) == Weight(v, a) > 0

\* _forward_sample(init): what it can yield, and whether it can raise.
Drawable(e, a, upto) ==
    \A v \in upto : Found(v, a) /\ (v \in DOMAIN e \/ Likely(v, a))
ForwardSamples(e) == {a \in Rows : IsRestriction(e, a) /\ Drawable(e, a, Nodes)}
ForwardRaises(e) == \E a \in Rows : \E v \in Nodes :
                        /\ IsRestriction(e, a)
                        /\ Drawable(e, a, 1 .. (v - 1))
                        /\ ~Found(v, a)

Children(v) == {c \in Nodes : v \in parents[c]}

\* sorted(set(self.nodes) - set(event)), by name.  Here a node is its topological
\* number; the cycle is some fixed order of the nodes either way.
Nonevents(e) ==
    LET S == Nodes \ DOMAIN e
    IN  CHOOSE s \in [1 .. Cardinality(S) -> S] : \A i, j \in DOMAIN s : i < j => s[i] < s[j]

\* Mutant of Posteriors: the node's own distribution is left out.
PosteriorsOfChildren(v) == Children(v)

\* The nodes whose tables are multiplied for posteriors[v].
Posteriors(v) == {v} \union Children(v)

\* posteriors[v] at the condition that v's Markov boundary has in a.
Conditional(v, a) ==
    [x \in Values |-> LET b == [a EXCEPT ![v] = x]
                       IN ProductOnSet([u \in Posteriors(v) |-> Weight(u, b)], Posteriors(v))]

-----------------------------------------------------------------------------
SamplingInit == /\ Init
                /\ alg = "none" /\ given = <<>> /\ draws = <<>>
                /\ state = <<>> /\ turn = 1 /\ possible = FALSE
                /\ filled = <<>>

\* No call is under way, and the caller has taken the last answer.
AtRest == alg = "none" /\ filled = <<>>
MayStart == AtRest /\ phase = "idle" /\ learned

\* Mutant of Likelihood: weighs the sample by the nodes of the event only.
LikelihoodOfEvent(e, a) ==
    ProductOnSet([v \in Nodes |-> Weight(v, a)], DOMAIN e)

\* likelihood *= P.get(node_value, 0), for every node.
Likelihood(e, a) == ProductOnSet([v \in Nodes |-> Weight(v, a)], Nodes)

\* One more sample of rejection (no event is given to the sampler) or of
\* likelihood weighting.
Draw(e, a) ==
    /\ MayStart \/ (alg = "forward" /\ given = e)
    /\ Len(draws) < MaxDraws
    /\ a \in ForwardSamples(e)
    /\ alg' = "forward"
    /\ given' = e
    /\ draws' = Append(draws, [sample |-> a, likelihood |-> Likelihood(e, a)])
    /\ UNCHANGED <<vars, state, turn, possible, filled>>

\* The sampler meets a combination of parents that no row had.
DrawRaises(e) ==
    /\ MayStart \/ (alg = "forward" /\ given = e)
    /\ ForwardRaises(e)
    /\ alg' = "failed"
    /\ given' = e
    /\ UNCHANGED <<vars, draws, state, turn, possible, filled>>

\* state = next(self._forward_sample(init=event))[0]
GibbsStart(e, a) ==
    /\ MayStart
    /\ DOMAIN e # Nodes
    /\ a \in ForwardSamples(e)
    /\ alg' = "gibbs"
    /\ given' = e
    /\ state' = a
    /\ turn' = 1
    /\ possible' = (Joint(a) > 0)
    /\ UNCHANGED <<vars, draws, filled>>

\* One turn of the cycle: the node is drawn anew, given its boundary.
GibbsStep(x) ==
    /\ alg = "gibbs"
    /\ LET order == Nonevents(given)
           v == order[turn]
       IN  /\ Conditional(v, state)[x] > 0
           /\ state' = [state EXCEPT ![v] = x]
           /\ turn' = (turn % Len(order)) + 1
    /\ UNCHANGED <<vars, alg, given, draws, possible, filled>>

\* The boundary's values are not in the table: KeyError.
GibbsRaises ==
    /\ alg = "gibbs"
    /\ \A x \in Values : Conditional(Nonevents(given)[turn], state)[x] = 0
    /\ alg' = "failed"
    /\ UNCHANGED <<vars, given, draws, state, turn, possible, filled>>

\* The query returns, or its exception leaves it.
Return == /\ ~AtRest
          /\ alg' = "none" /\ given' = <<>> /\ draws' = <<>>
          /\ state' = <<>> /\ turn' = 1 /\ possible' = FALSE
          /\ filled' = <<>>
          /\ UNCHANGED vars

\* Mutant of MostLikely: takes a value that is possible.
PossibleAnswer == LET weight == Posterior.table IN {b \in Assign(query) : weight[b] > 0}

\* posterior.idxmax(); an empty posterior has none.
MostLikely == LET weight == [b \in Assign(query) |-> Posterior.table[b]]
                  largest == Max({0} \union {weight[b] : b \in DOMAIN weight})
              IN  {b \in DOMAIN weight : weight[b] = largest /\ largest > 0}

\* impute(), with two or more missing values: a query, then its largest entry.
Impute == /\ AtRest
          /\ Answer
          /\ Cardinality(query) >= 2
          /\ \E b \in MostLikely :
                filled' = [v \in query \union DOMAIN event |-> IF v \in query THEN b[v] ELSE event[v]]
          /\ UNCHANGED samplerVars

\* The network learns, or answers an exact query.
Calm == AtRest /\ UNCHANGED samplingVars

SamplingNext ==
    \/ \E b \in Batches : Calm /\ (PartialFit(b) \/ Fit(b))
    \/ \E q \in SUBSET Nodes : \E S \in SUBSET (Nodes \ q) : \E e \in Assign(S) : Calm /\ Ask(q, e)
    \/ \E h \in Nodes : Calm /\ Eliminate(h)
    \/ Calm /\ Answer
    \/ Impute
    \/ \E S \in SUBSET Nodes : \E e \in Assign(S) : DrawRaises(e)
    \/ \E S \in SUBSET Nodes : \E e \in Assign(S) : \E a \in Rows : Draw(e, a) \/ GibbsStart(e, a)
    \/ \E x \in Values : GibbsStep(x)
    \/ GibbsRaises
    \/ Return

SamplingSpec == SamplingInit /\ [][SamplingNext]_<<vars, samplingVars>>

-----------------------------------------------------------------------------
\* The answers, for every query and event that the samples may serve.

\* _rejection_sampling(): how often the value b is among the samples that agree with e.
Accepted(e) == {i \in DOMAIN draws : IsRestriction(e, draws[i].sample)}
RejectionCount(b, e) == Cardinality({i \in Accepted(e) : IsRestriction(b, draws[i].sample)})

\* _llh_weighting(): groupby (query) ['likelihood'].mean (), as a sum and a count.
Group(b) == {i \in DOMAIN draws : IsRestriction(b, draws[i].sample)}
MeanLikelihood(b) == [sum |-> SumFunctionOnSet([i \in Group(b) |-> draws[i].likelihood], Group(b)),
                      count |-> Cardinality(Group(b))]

\* The weight of the exact posterior at b, given e.
Exact(joint, b, e) ==
    SumFunctionOnSet(joint, {a \in Rows : IsRestriction(b, a) /\ IsRestriction(e, a)})

\* is_tree: no node has two parents.
IsTree == \A v \in Nodes : Cardinality(parents[v]) <= 1
\* Every value was in the first batch, for whose combinations there is a prior.
Covered == prior /\ \A r \in Rows : data[r] > 0 => \A v \in Nodes : r[v] \in first[v]

\* The three samplers give weight to no answer that the exact posterior
\* excludes, and likelihood weighting, which multiplies the probabilities of all
\* nodes and takes means, weighs answers as the posterior does when the query
\* and the event leave no node out.
SamplersAgree ==
    /\ alg = "forward" =>
        LET joint == JointTable IN
        \A i \in DOMAIN draws : \A Q \in SUBSET (Nodes \ DOMAIN given) :
            LET b == Restrict(draws[i].sample, Q)
                mean == MeanLikelihood(b)
            IN  /\ mean.sum > 0 => Exact(joint, b, given) > 0
                /\ Q \union DOMAIN given = Nodes => mean.sum = mean.count * Exact(joint, b, given)
                /\ given = <<>> =>
                      \A S \in SUBSET (Nodes \ Q) :
                         LET e == Restrict(draws[i].sample, S)
                         IN  RejectionCount(b, e) > 0 => Exact(joint, b, e) > 0
    /\ (alg = "gibbs" /\ possible) => IsRestriction(given, state) /\ Joint(state) > 0

\* The Gibbs sampler draws a node from its distribution given all the other
\* nodes, though it looks at the boundary only.
GibbsConditional ==
    (alg = "gibbs" /\ possible) =>
        LET v == Nonevents(given)[turn]
            full == [x \in Values |-> Joint([state EXCEPT ![v] = x])]
            used == Conditional(v, state)
        IN  /\ \E x \in Values : used[x] > 0
            /\ \A x, y \in Values : used[x] * full[y] = used[y] * full[x]

\* A tree, such as chow_liu() finds, is sampled without a KeyError whatever it
\* has learned; so is any network with a prior whose values all came in the
\* first batch.  In general sampling succeeds exactly if the product of the
\* tables is a whole distribution.  And predict_proba() finds every row that was
\* learned, however the rows were split into batches.
SamplingTotal ==
    learned =>
        /\ IsTree \/ Covered => ~ForwardRaises(<<>>)
        /\ ForwardRaises(<<>>) <=> JointSum < Certain
        /\ \A r \in Rows : data[r] > 0 => Joint(r) > 0

\* impute() keeps what it was given and completes it in a most likely way.
ImputesLikeliest ==
    [][ filled' # <<>> =>
            LET joint == RelevantJoint
                missing == Restrict(filled', query)
            IN  /\ IsRestriction(event, filled')
                /\ \A b \in Assign(query) :
                      SumFunctionOnSet(joint, {a \in DOMAIN joint : IsRestriction(b, a)})
                        <= SumFunctionOnSet(joint, {a \in DOMAIN joint : IsRestriction(missing, a)})
      ]_filled
=============================================================================
