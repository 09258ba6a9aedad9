------------------------------ MODULE ChowLiu ------------------------------
(***************************************************************************)
(* CTBN/structure.py: the tree that chow_liu() lays over the columns of a  *)
(* data set.  kruskal() considers the pairs of columns by falling mutual   *)
(* information and keeps a pair unless a disjoint-set forest (union by     *)
(* size) says that it closes a cycle; orient_tree() then walks the kept    *)
(* pairs from the root and yields directed arcs.                           *)
(*                                                                         *)
(* Columns are numbered in sorted order.  The mutual information, a number *)
(* computed from data, can rank the pairs in any way, so the pairs are     *)
(* considered in any order.                                                *)
(***************************************************************************)
EXTENDS Naturals, Sequences, FiniteSets

CONSTANTS
    N,      \* number of columns
    Root    \* the caller's root, or the first column of the frame

\* With one column there is no pair, and nothing to do.
ASSUME ColumnsAssumption == N \in Nat \ {0, 1} /\ Root \in 1 .. N

Vertices == 1 .. N

\* itertools.combinations(sorted(X.columns), 2)
Edges == {e \in Vertices \X Vertices : e[1] < e[2]}

VARIABLES
    pc,         \* the loop head, one of the four calls of find(), or orient_tree()
    todo,       \* edges not considered yet
    edge,       \* the edge <<u, v>> of this iteration
    cursor,     \* x in find()
    found,      \* the result of the first of a pair of calls of find()
    parents,    \* DisjointSet.parents
    sizes,      \* DisjointSet.sizes
    neighbors,  \* kruskal()'s result; a vertex without a key has no neighbors
    stack,      \* the frames of the generator orient_tree()
    arcs,       \* the arcs yielded so far
    rep         \* history: the representative of the set a vertex is in

vars == <<pc, todo, edge, cursor, found, parents, sizes, neighbors, stack, arcs, rep>>

Finding == {"compare_u", "compare_v", "union_u", "union_v"}

-----------------------------------------------------------------------------
\* ds = DisjointSet(*vertices); neighbors = defaultdict(set)
Init ==
    /\ pc = "next"
    /\ todo = Edges
    /\ edge = <<1, 1>>                      \* no edge yet
    /\ cursor = 1
    /\ found = 1
    /\ parents = [v \in Vertices |-> v]
    /\ sizes = [v \in Vertices |-> 1]
    /\ neighbors = [v \in Vertices |-> {}]
    /\ stack = << >>
    /\ arcs = << >>
    /\ rep = [v \in Vertices |-> v]

\* orient_tree(neighbors, root, visited=set())
StartOrient ==
    /\ pc' = "orient"
    /\ stack' = <<[node |-> Root, pending |-> neighbors[Root]]>>

\* The end of an iteration: the loop is left by break, when every vertex has an
\* edge, or when the edges are used up.
AfterEdge ==
    IF (\A v \in Vertices : neighbors[v] # {}) \/ todo = {}
    THEN StartOrient
    ELSE pc' = "next" /\ UNCHANGED stack

\* The next pair of columns; the comparison starts with find(u).
TakeEdge(e) ==
    /\ pc = "next"
    /\ e \in todo
    /\ todo' = todo \ {e}
    /\ edge' = e
    /\ cursor' = e[1]
    /\ pc' = "compare_u"
    /\ UNCHANGED <<found, parents, sizes, neighbors, stack, arcs, rep>>

\* Mutant of Follow: the assignment reverses the link to the parent.
FollowReverses ==
    /\ pc \in Finding
    /\ parents[cursor] # cursor
    /\ cursor' = parents[cursor]
    /\ parents' = [parents EXCEPT ![parents[cursor]] = cursor]
    /\ UNCHANGED <<pc, todo, edge, found, sizes, neighbors, stack, arcs, rep>>

\* One turn of the loop in find().  The tuple assignment evaluates its right
\* side first and then assigns from left to right: x is the parent already
\* when self.parents[x] is assigned.
Follow ==
    /\ pc \in Finding
    /\ parents[cursor] # cursor
    /\ cursor' = parents[cursor]
    /\ parents' = [parents EXCEPT ![cursor'] = parents[parents[cursor]]]
    /\ UNCHANGED <<pc, todo, edge, found, sizes, neighbors, stack, arcs, rep>>

\* find() returns in the given call.
Returns(call) == pc = call /\ parents[cursor] = cursor

\* ds.find(u) != ...
CompareU ==
    /\ Returns("compare_u")
    /\ found' = cursor
    /\ cursor' = edge[2]
    /\ pc' = "compare_v"
    /\ UNCHANGED <<todo, edge, parents, sizes, neighbors, stack, arcs, rep>>

Link(u, v) == neighbors' = [neighbors EXCEPT ![u] = @ \cup {v}, ![v] = @ \cup {u}]

\* Mutant of KeepEdge: the sets are not compared.
KeepAnyEdge ==
    /\ Returns("compare_v")
    /\ Link(edge[1], edge[2])
    /\ cursor' = edge[1]
    /\ pc' = "union_u"
    /\ UNCHANGED <<todo, edge, found, parents, sizes, stack, arcs, rep>>

\* Different sets: the edge is kept and the union starts with find(u).
KeepEdge ==
    /\ Returns("compare_v")
    /\ found # cursor
    /\ Link(edge[1], edge[2])
    /\ cursor' = edge[1]
    /\ pc' = "union_u"
    /\ UNCHANGED <<todo, edge, found, parents, sizes, stack, arcs, rep>>

\* The same set: the edge is passed over.
SkipEdge ==
    /\ Returns("compare_v")
    /\ found = cursor
    /\ AfterEdge
    /\ UNCHANGED <<todo, edge, cursor, found, parents, sizes, neighbors, arcs, rep>>

UnionU ==
    /\ Returns("union_u")
    /\ found' = cursor
    /\ cursor' = edge[2]
    /\ pc' = "union_v"
    /\ UNCHANGED <<todo, edge, parents, sizes, neighbors, stack, arcs, rep>>

\* Make y a child of x.
Attach(x, y) ==
    /\ parents' = [parents EXCEPT ![y] = x]
    /\ sizes' = [sizes EXCEPT ![x] = @ + sizes[y]]
    /\ rep' = [v \in Vertices |-> IF rep[v] = y THEN x ELSE rep[v]]

\* Mutant of Union: the order of the arguments decides.
UnionUnsized(x, y) == Attach(x, y)

\* The smaller set goes below the root of the larger.
Union(x, y) == IF sizes[x] < sizes[y] THEN Attach(y, x) ELSE Attach(x, y)

\* Mutant of UnionV: the ends of the edge are merged, not their roots.
UnionEnds ==
    /\ Returns("union_v")
    /\ Union(edge[1], edge[2])
    /\ AfterEdge
    /\ UNCHANGED <<todo, edge, cursor, found, neighbors, arcs>>

UnionV ==
    /\ Returns("union_v")
    /\ Union(found, cursor)
    /\ AfterEdge
    /\ UNCHANGED <<todo, edge, cursor, found, neighbors, arcs>>

\* A frame of orient_tree(): its vertex, and the neighbors not yielded yet.
Top == stack[Len(stack)]

\* Mutant of Yield: the frame of the neighbor forgets where it came from.
YieldForgets(n) ==
    /\ pc = "orient"
    /\ n \in Top.pending
    /\ Len(arcs) < 2 * N
    /\ arcs' = Append(arcs, <<Top.node, n>>)
    /\ stack' = Append([stack EXCEPT ![Len(stack)].pending = @ \ {n}],
                       [node |-> n, pending |-> neighbors[n]])
    /\ UNCHANGED <<pc, todo, edge, cursor, found, parents, sizes, neighbors, rep>>

\* Mutant of Yield: only the first neighbor of a vertex is followed.
YieldFirst(n) ==
    /\ pc = "orient"
    /\ n \in Top.pending
    /\ arcs' = Append(arcs, <<Top.node, n>>)
    /\ stack' = Append([stack EXCEPT ![Len(stack)].pending = {}],
                       [node |-> n, pending |-> neighbors[n] \ {Top.node}])
    /\ UNCHANGED <<pc, todo, edge, cursor, found, parents, sizes, neighbors, rep>>

\* Yield an arc and go down; neighbors come in the order of a set.
Yield(n) ==
    /\ pc = "orient"
    /\ n \in Top.pending
    /\ arcs' = Append(arcs, <<Top.node, n>>)
    /\ stack' = Append([stack EXCEPT ![Len(stack)].pending = @ \ {n}],
                       [node |-> n, pending |-> neighbors[n] \ {Top.node}])
    /\ UNCHANGED <<pc, todo, edge, cursor, found, parents, sizes, neighbors, rep>>

\* Mutant of Exhausted: the end of the outermost call is missed.
ExhaustedGoesOn ==
    /\ pc = "orient"
    /\ Top.pending = {}
    /\ stack' = SubSeq(stack, 1, Len(stack) - 1)
    /\ UNCHANGED <<pc, todo, edge, cursor, found, parents, sizes, neighbors, arcs, rep>>

\* A frame is exhausted; the generator ends with its first frame.
Exhausted ==
    /\ pc = "orient"
    /\ Top.pending = {}
    /\ stack' = SubSeq(stack, 1, Len(stack) - 1)
    /\ pc' = IF Len(stack) = 1 THEN "done" ELSE "orient"
    /\ UNCHANGED <<todo, edge, cursor, found, parents, sizes, neighbors, arcs, rep>>

Done == pc = "done" /\ UNCHANGED vars

Next ==
    \/ \E e \in Edges : TakeEdge(e)
    \/ Follow
    \/ CompareU
    \/ KeepEdge
    \/ SkipEdge
    \/ UnionU
    \/ UnionV
    \/ \E n \in Vertices : Yield(n)
    \/ Exhausted
    \/ Done

Spec == Init /\ [][Next]_vars

\* One sequential program.
FairSpec == Spec /\ WF_vars(Next)

-----------------------------------------------------------------------------
(* Properties.                                                             *)

Frame == [node : Vertices, pending : SUBSET Vertices]

\* Every variable has its type.
TypeOK ==
    /\ pc \in Finding \cup {"next", "orient", "done"}
    /\ todo \subseteq Edges
    /\ edge \in Vertices \X Vertices
    /\ cursor \in Vertices
    /\ found \in Vertices
    /\ parents \in [Vertices -> Vertices]
    /\ sizes \in [Vertices -> Nat \ {0}]
    /\ neighbors \in [Vertices -> SUBSET Vertices]
    /\ stack \in Seq(Frame)
    /\ arcs \in Seq(Vertices \X Vertices)
    /\ rep \in [Vertices -> Vertices]
    /\ pc = "orient" => stack # << >>

\* Union by size: a vertex that is not a root has at most half the weight of
\* its parent.  So parents have no cycle, find() ends, and it makes at most
\* log2(N) steps although its path halving has no effect.
Balanced ==
    \A v \in Vertices : parents[v] # v => 2 * sizes[v] <= sizes[parents[v]]

\* The disjoint-set forest represents exactly the partition of the vertices
\* that the unions so far have made.
Represents ==
    \A v \in Vertices :
        /\ parents[rep[v]] = rep[v]
        /\ rep[parents[v]] = rep[v]
        /\ parents[v] = v => rep[v] = v

\* While find() walks, x stays in the set of the vertex it was called with, and
\* at union() the arguments are still the two different roots that the
\* comparison saw, although find() writes to parents.
FindsRepresentative ==
    /\ pc \in {"compare_u", "union_u"} => rep[cursor] = rep[edge[1]]
    /\ pc \in {"compare_v", "union_v"} => /\ rep[cursor] = rep[edge[2]]
                                          /\ found = rep[edge[1]]
    /\ pc \in {"union_u", "union_v"} => rep[edge[1]] # rep[edge[2]]

\* The disjoint sets work: they are balanced, they are the partition that the
\* unions have made, and find() returns the representative of its argument.
ForestSound == Balanced /\ Represents /\ FindsRepresentative

-----------------------------------------------------------------------------
(* Refinement: the algorithm without the data structures.                  *)

\* The edges kept so far.
Forest == {e \in Edges : e[2] \in neighbors[e[1]]}

\* An edge counts as considered when its comparison is over.
Left == IF pc \in {"compare_u", "compare_v"} THEN todo \cup {edge} ELSE todo

Greedy == INSTANCE GreedyForest WITH left <- Left, forest <- Forest

Connected(a, b) == Greedy!Joined(Forest, a, b)

\* kruskal() keeps the edges that the greedy algorithm keeps, in whatever order
\* the mutual information ranks them.
ImplementsGreedy == Greedy!Spec

\* Between two edges, two vertices have the same representative exactly when
\* the edges kept so far connect them, although parents and neighbors are
\* updated at different times.
SetsAreComponents ==
    pc \notin {"union_u", "union_v"} =>
        \A a, b \in Vertices : rep[a] = rep[b] <=> Connected(a, b)

-----------------------------------------------------------------------------
(* The result.                                                             *)

HeadOf(i) == arcs[i][2]

\* The arcs grow one tree downwards from the root: an arc starts in the tree
\* and ends at a new vertex, along a kept edge, although a frame remembers only
\* the one vertex that it came from.
ArcsGrowTree ==
    \A i \in 1 .. Len(arcs) :
        /\ arcs[i][1] = Root \/ \E j \in 1 .. i - 1 : arcs[i][1] = HeadOf(j)
        /\ HeadOf(i) # Root /\ \A j \in 1 .. i - 1 : HeadOf(i) # HeadOf(j)
        /\ HeadOf(i) \in neighbors[arcs[i][1]]

\* At the end the tree has every vertex that is connected to the root.
TreeIsComplete ==
    pc = "done" =>
        {Root} \cup {HeadOf(i) : i \in 1 .. Len(arcs)} = {v \in Vertices : Connected(Root, v)}

\* What orient_tree() yields is one tree downwards from the root, and has in the
\* end every column that the kept edges connect to the root.
TreeBelowRoot == ArcsGrowTree /\ TreeIsComplete

\* chow_liu() returns.
Termination == <>(pc = "done")

\* What the names kruskal (a spanning tree) and orient_tree say: every column
\* is in the tree that chow_liu() returns.
TreeSpansColumns == pc = "done" => Len(arcs) = N - 1

-----------------------------------------------------------------------------
(* The inductive invariant of the proofs.                                  *)

\* While an edge is compared and united it is neither waiting nor, before the
\* comparison is over, kept.
EdgeInHand ==
    /\ pc \in Finding => edge \in Edges /\ edge \notin todo
    /\ pc \in {"union_u", "union_v"} => edge \in Forest

\* A kept edge lies inside one set, but for the edge whose union is under way.
KeptInside ==
    \A e \in Forest :
        rep[e[1]] = rep[e[2]] \/ (pc \in {"union_u", "union_v"} /\ e = edge)

\* A set is connected by kept edges.
SetsConnected == \A a, b \in Vertices : rep[a] = rep[b] => Connected(a, b)

IInv ==
    /\ TypeOK /\ Balanced /\ Represents /\ FindsRepresentative
    /\ EdgeInHand /\ KeptInside /\ SetsConnected
============================================================================
