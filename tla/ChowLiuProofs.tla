--------------------------- MODULE ChowLiuProofs ---------------------------
(***************************************************************************)
(* Proofs about ChowLiu, for any number of columns and any root.           *)
(*                                                                         *)
(* The history variable rep is the partition that the unions have made.    *)
(* The disjoint-set forest represents it (Represents), find() walks inside *)
(* one of its sets (FindsRepresentative), and its sets are the components  *)
(* of the kept edges (SetsAreComponents).  So a kept edge joins two        *)
(* components, which is what the greedy algorithm asks.  It also follows   *)
(* that the kept edges have no cycle (Bridges), and with it that what      *)
(* orient_tree() goes down to next has not been seen (TreeInv).            *)
(***************************************************************************)
EXTENDS ChowLiu, SequenceTheorems, TLAPS

\* The assignment in find() that looks like path halving changes nothing.
LEMMA FollowKeepsParents == ASSUME TypeOK, Follow PROVE parents' = parents
BY DEF Follow, TypeOK

\* Every edge goes from a vertex to a larger one.
LEMMA EdgesAreVertices ==
    \A e \in Edges : e[1] \in Vertices /\ e[2] \in Vertices /\ e[1] < e[2] /\ e[1] # e[2]
BY DEF Edges, Vertices

-----------------------------------------------------------------------------
(* Types.                                                                  *)

\* The initial state has the types.
LEMMA InitTypeOK == Init => TypeOK
BY ColumnsAssumption DEF Init, TypeOK, Vertices, Edges

\* orient_tree() starts with one well-typed frame.
LEMMA StartOrientType ==
    ASSUME TypeOK, StartOrient
    PROVE  pc' = "orient" /\ stack' \in Seq(Frame) /\ stack' # << >>
<1>1. [node |-> Root, pending |-> neighbors[Root]] \in Frame
  BY ColumnsAssumption DEF TypeOK, Frame, Vertices
<1> QED
  BY <1>1 DEF StartOrient

\* After an edge the loop goes on, or orient_tree() starts.
LEMMA AfterEdgeType ==
    ASSUME TypeOK, AfterEdge
    PROVE  /\ pc' \in {"next", "orient"} /\ stack' \in Seq(Frame)
           /\ pc' = "orient" => stack' # << >>
<1>1. CASE StartOrient
  BY <1>1, StartOrientType
<1>2. CASE pc' = "next" /\ UNCHANGED stack
  BY <1>2 DEF TypeOK
<1> QED
  BY <1>1, <1>2 DEF AfterEdge

\* Attaching keeps the types.
LEMMA AttachType ==
    ASSUME TypeOK, NEW x \in Vertices, NEW y \in Vertices, Attach(x, y)
    PROVE  /\ parents' \in [Vertices -> Vertices] /\ sizes' \in [Vertices -> Nat \ {0}]
           /\ rep' \in [Vertices -> Vertices]
<1>1. sizes[x] + sizes[y] \in Nat \ {0}
  BY DEF TypeOK
<1> QED
  BY <1>1 DEF Attach, TypeOK

\* Every step keeps the types.
LEMMA NextTypeOK == TypeOK /\ [Next]_vars => TypeOK'
<1> SUFFICES ASSUME TypeOK, [Next]_vars PROVE TypeOK'
  OBVIOUS
<1>1. ASSUME NEW e \in Edges, TakeEdge(e) PROVE TypeOK'
  BY <1>1, EdgesAreVertices DEF TakeEdge, TypeOK, Edges, Finding
<1>2. CASE Follow
  BY <1>2, FollowKeepsParents DEF Follow, TypeOK, Finding
<1>3. CASE CompareU
  BY <1>3 DEF CompareU, TypeOK, Finding
<1>4. CASE KeepEdge
  BY <1>4 DEF KeepEdge, Link, TypeOK, Finding
<1>5. CASE SkipEdge
  BY <1>5, AfterEdgeType DEF SkipEdge, TypeOK
<1>6. CASE UnionU
  BY <1>6 DEF UnionU, TypeOK, Finding
<1>7. CASE UnionV
  <2>1. found \in Vertices /\ cursor \in Vertices
    BY DEF TypeOK
  <2>2. /\ parents' \in [Vertices -> Vertices] /\ sizes' \in [Vertices -> Nat \ {0}]
        /\ rep' \in [Vertices -> Vertices]
    BY <1>7, <2>1, AttachType DEF UnionV, Union
  <2> QED
    BY <1>7, <2>2, AfterEdgeType DEF UnionV, TypeOK
<1>8. ASSUME NEW n \in Vertices, Yield(n) PROVE TypeOK'
  <2>1. Len(stack) \in 1 .. Len(stack) /\ stack \in Seq(Frame) /\ Top \in Frame
    BY <1>8 DEF Yield, TypeOK, Top
  <2>2. [stack EXCEPT ![Len(stack)].pending = @ \ {n}] \in Seq(Frame)
    BY <2>1 DEF Frame, Top
  <2>3. [node |-> n, pending |-> neighbors[n] \ {Top.node}] \in Frame
    BY DEF TypeOK, Frame
  <2>4. stack' \in Seq(Frame) /\ stack' # << >>
    BY <1>8, <2>2, <2>3, AppendProperties DEF Yield
  <2>5. <<Top.node, n>> \in Vertices \X Vertices
    BY <2>1 DEF Frame
  <2>6. arcs' \in Seq(Vertices \X Vertices)
    BY <1>8, <2>5 DEF Yield, TypeOK
  <2> QED
    BY <1>8, <2>4, <2>6 DEF Yield, TypeOK
<1>9. CASE Exhausted
  <2>1. stack \in Seq(Frame) /\ stack # << >>
    BY <1>9 DEF Exhausted, TypeOK
  <2>2. stack' \in Seq(Frame) /\ (Len(stack) # 1 => stack' # << >>)
    <3> DEFINE n == Len(stack) - 1
    <3>1. n \in Nat /\ Len(stack) = n + 1 /\ \A i \in 1 .. n : stack[i] \in Frame
      BY <2>1, EmptySeq, LenProperties
    <3>2. stack' = SubSeq(stack, 1, n)
      BY <1>9 DEF Exhausted
    <3> HIDE DEF n
    <3>3. stack' \in Seq(Frame) /\ Len(stack') = n
      BY <3>1, <3>2, SubSeqProperties
    <3>4. n # 0 => stack' # << >>
      BY <3>1, <3>3, EmptySeq
    <3> QED
      BY <3>1, <3>3, <3>4
  <2> QED
    BY <1>9, <2>2 DEF Exhausted, TypeOK
<1>10. CASE UNCHANGED vars
  BY <1>10 DEF vars, TypeOK
<1> QED
  BY <1>1, <1>2, <1>3, <1>4, <1>5, <1>6, <1>7, <1>8, <1>9, <1>10 DEF Next, Done

\* The variables of chow_liu() keep their types.
THEOREM TypeCorrect == Spec => []TypeOK
BY InitTypeOK, NextTypeOK, PTL DEF Spec

-----------------------------------------------------------------------------
(* The disjoint-set forest.                                                *)

\* A union under way is called with the two different roots of the edge.
LEMMA UnionOfRoots ==
    ASSUME IInv, Returns("union_v")
    PROVE  /\ found \in Vertices /\ cursor \in Vertices /\ found # cursor
           /\ parents[found] = found /\ parents[cursor] = cursor
           /\ found = rep[edge[1]] /\ cursor = rep[edge[2]]
           /\ edge \in Edges /\ edge[1] \in Vertices /\ edge[2] \in Vertices
<1>1. edge \in Edges /\ edge[1] \in Vertices /\ edge[2] \in Vertices
  BY EdgesAreVertices DEF IInv, EdgeInHand, Returns, Finding
<1>2. cursor \in Vertices /\ parents[cursor] = cursor /\ cursor = rep[edge[2]]
  BY DEF IInv, TypeOK, Returns, Represents, FindsRepresentative
<1>3. found = rep[edge[1]] /\ rep[edge[1]] # rep[edge[2]]
  BY DEF IInv, Returns, FindsRepresentative
<1>4. found \in Vertices /\ parents[found] = found
  BY <1>1, <1>3 DEF IInv, TypeOK, Represents
<1> QED
  BY <1>1, <1>2, <1>3, <1>4

\* Attaching the lighter root below the heavier keeps the forest balanced.
LEMMA AttachBalanced ==
    ASSUME TypeOK, Balanced, NEW x \in Vertices, NEW y \in Vertices, x # y,
           parents[x] = x, parents[y] = y, sizes[y] <= sizes[x], Attach(x, y)
    PROVE  Balanced'
<1> SUFFICES ASSUME NEW v \in Vertices, parents'[v] # v
             PROVE  2 * sizes'[v] <= sizes'[parents'[v]]
  BY DEF Balanced
<1>1. /\ sizes' = [sizes EXCEPT ![x] = @ + sizes[y]] /\ parents' = [parents EXCEPT ![y] = x]
      /\ \A w \in Vertices : sizes[w] \in Nat /\ parents[w] \in Vertices
  BY DEF Attach, TypeOK
<1>2. v # x
  BY <1>1 DEF TypeOK
<1>3. sizes'[v] = sizes[v]
  BY <1>1, <1>2 DEF TypeOK
<1>4. CASE v = y
  BY <1>1, <1>3, <1>4 DEF TypeOK
<1>5. CASE v # y
  <2>1. parents'[v] = parents[v] /\ 2 * sizes[v] <= sizes[parents[v]]
    BY <1>1, <1>5 DEF TypeOK, Balanced
  <2>2. PICK p \in Vertices : p = parents[v]
    BY <1>1
  <2>3. sizes'[p] = IF p = x THEN sizes[x] + sizes[y] ELSE sizes[p]
    BY <1>1 DEF TypeOK
  <2>4. sizes[p] <= sizes'[p] /\ sizes'[p] \in Nat
    BY <1>1, <2>3
  <2> QED
    BY <1>1, <1>3, <2>1, <2>2, <2>4
<1> QED
  BY <1>4, <1>5

\* Attaching one root below another merges exactly their two sets.
LEMMA AttachRepresents ==
    ASSUME TypeOK, Represents, NEW x \in Vertices, NEW y \in Vertices, x # y,
           parents[x] = x, parents[y] = y, Attach(x, y)
    PROVE  Represents'
<1>1. /\ parents' = [parents EXCEPT ![y] = x]
      /\ rep' = [v \in Vertices |-> IF rep[v] = y THEN x ELSE rep[v]]
      /\ parents \in [Vertices -> Vertices] /\ rep \in [Vertices -> Vertices]
  BY DEF Attach, TypeOK
<1>2. rep[x] = x /\ rep[y] = y
  BY DEF Represents
<1> SUFFICES ASSUME NEW v \in Vertices
             PROVE  /\ parents'[rep'[v]] = rep'[v]
                    /\ rep'[parents'[v]] = rep'[v]
                    /\ parents'[v] = v => rep'[v] = v
  BY DEF Represents
<1>3. parents[rep[v]] = rep[v] /\ rep[parents[v]] = rep[v] /\ (parents[v] = v => rep[v] = v)
  BY DEF Represents
<1>4. parents'[rep'[v]] = rep'[v]
  BY <1>1, <1>3
<1>5. rep'[parents'[v]] = rep'[v]
  BY <1>1, <1>2, <1>3
<1>6. parents'[v] = v => rep'[v] = v
  BY <1>1, <1>3
<1> QED
  BY <1>4, <1>5, <1>6

\* What union() does to the forest and to the partition.
LEMMA UnionEffect ==
    ASSUME IInv, UnionV
    PROVE  /\ Balanced' /\ Represents'
           /\ \A a, b \in Vertices :
                rep'[a] = rep'[b] <=>
                    \/ rep[a] = rep[b]
                    \/ rep[a] \in {found, cursor} /\ rep[b] \in {found, cursor}
<1>1. /\ found \in Vertices /\ cursor \in Vertices /\ found # cursor
      /\ parents[found] = found /\ parents[cursor] = cursor
  BY UnionOfRoots DEF UnionV
<1>2. TypeOK /\ Balanced /\ Represents /\ sizes[found] \in Nat /\ sizes[cursor] \in Nat
  BY <1>1 DEF IInv, TypeOK
<1>3. \A x, y \in {found, cursor} : x # y /\ Attach(x, y) =>
        \A a, b \in Vertices : rep'[a] = rep'[b] <=>
            rep[a] = rep[b] \/ (rep[a] \in {found, cursor} /\ rep[b] \in {found, cursor})
  <2> SUFFICES ASSUME NEW x \in {found, cursor}, NEW y \in {found, cursor}, x # y,
                      Attach(x, y), NEW a \in Vertices, NEW b \in Vertices
               PROVE  rep'[a] = rep'[b] <=>
                        \/ rep[a] = rep[b]
                        \/ rep[a] \in {found, cursor} /\ rep[b] \in {found, cursor}
    OBVIOUS
  <2>1. {found, cursor} = {x, y}
    OBVIOUS
  <2>2. /\ rep'[a] = IF rep[a] = y THEN x ELSE rep[a]
        /\ rep'[b] = IF rep[b] = y THEN x ELSE rep[b]
    BY DEF Attach
  <2> QED
    BY <2>1, <2>2
<1>4. CASE sizes[found] < sizes[cursor]
  <2>1. Attach(cursor, found)
    BY <1>4 DEF UnionV, Union
  <2> QED
    BY <1>1, <1>2, <1>3, <1>4, <2>1, AttachBalanced, AttachRepresents
<1>5. CASE ~(sizes[found] < sizes[cursor])
  <2>1. Attach(found, cursor)
    BY <1>5 DEF UnionV, Union
  <2> QED
    BY <1>1, <1>2, <1>3, <1>5, <2>1, AttachBalanced, AttachRepresents
<1> QED
  BY <1>4, <1>5

-----------------------------------------------------------------------------
(* Being joined is an equivalence, and grows with the edges.               *)

\* A vertex is joined to itself.
LEMMA JoinedReflexive ==
    ASSUME NEW F, NEW a PROVE Greedy!Joined(F, a, a)
BY DEF Greedy!Joined

\* A cut between a and c separates a from b or b from c.
LEMMA JoinedTransitive ==
    ASSUME NEW F, NEW a, NEW b, NEW c, Greedy!Joined(F, a, b), Greedy!Joined(F, b, c)
    PROVE  Greedy!Joined(F, a, c)
BY DEF Greedy!Joined

\* More edges cross more cuts.
LEMMA JoinedGrows ==
    ASSUME NEW F, NEW G, F \subseteq G, NEW a, NEW b, Greedy!Joined(F, a, b)
    PROVE  Greedy!Joined(G, a, b)
BY DEF Greedy!Joined

\* A cut that separates b from a is the complement of one that separates a from b.
LEMMA JoinedSymmetric ==
    ASSUME NEW F \in SUBSET Edges, NEW a \in Vertices, NEW b \in Vertices,
           Greedy!Joined(F, a, b)
    PROVE  Greedy!Joined(F, b, a)
<1> SUFFICES ASSUME NEW S \in SUBSET Vertices, b \in S, a \notin S
             PROVE  \E e \in F : Greedy!Crosses(e, S)
  BY DEF Greedy!Joined
<1> DEFINE T == Vertices \ S
<1>1. T \in SUBSET Vertices /\ a \in T /\ b \notin T
  OBVIOUS
<1>2. PICK e \in F : Greedy!Crosses(e, T)
  BY <1>1 DEF Greedy!Joined
<1>3. e[1] \in Vertices /\ e[2] \in Vertices
  BY EdgesAreVertices
<1>4. Greedy!Crosses(e, S)
  BY <1>2, <1>3 DEF Greedy!Crosses
<1> QED
  BY <1>4

\* An edge joins its ends.
LEMMA EdgeJoins ==
    ASSUME NEW F, NEW e \in F PROVE Greedy!Joined(F, e[1], e[2])
BY DEF Greedy!Joined, Greedy!Crosses

\* Joined vertices are in every set that no edge leaves: if all edges lie
\* inside sets of a partition, so do connections.
LEMMA JoinedStaysInside ==
    ASSUME NEW F, NEW a \in Vertices, NEW b \in Vertices, NEW class,
           \A e \in F : e[1] \in Vertices /\ e[2] \in Vertices /\ class[e[1]] = class[e[2]],
           Greedy!Joined(F, a, b)
    PROVE  class[a] = class[b]
<1> DEFINE S == {v \in Vertices : class[v] = class[a]}
<1>1. \A e \in F : ~Greedy!Crosses(e, S)
  BY DEF Greedy!Crosses
<1>2. S \in SUBSET Vertices /\ a \in S
  OBVIOUS
<1>3. b \in S
  BY <1>1, <1>2 DEF Greedy!Joined
<1> QED
  BY <1>3

-----------------------------------------------------------------------------
(* The inductive invariant.                                                *)

\* Kept edges are edges.
LEMMA ForestInEdges == Forest \subseteq Edges
BY DEF Forest

\* At the start every vertex is alone in its set.
LEMMA InitIInv == Init => IInv
<1> SUFFICES ASSUME Init PROVE IInv
  OBVIOUS
<1>1. TypeOK
  BY InitTypeOK
<1>2. Balanced /\ Represents /\ FindsRepresentative /\ EdgeInHand
  BY DEF Init, Balanced, Represents, FindsRepresentative, EdgeInHand, Finding
<1>3. Forest = {}
  BY EdgesAreVertices DEF Init, Forest
<1>4. KeptInside
  BY <1>3 DEF KeptInside
<1>5. SetsConnected
  <2> SUFFICES ASSUME NEW a \in Vertices, NEW b \in Vertices, rep[a] = rep[b]
               PROVE  Connected(a, b)
    BY DEF SetsConnected
  <2>1. a = b
    BY DEF Init
  <2> QED
    BY <2>1, JoinedReflexive DEF Connected
<1> QED
  BY <1>1, <1>2, <1>4, <1>5 DEF IInv

\* A step that leaves the sets and the edges alone keeps the invariant if it
\* keeps what is said about the walk of find() and the edge in hand.
LEMMA QuietStep ==
    ASSUME IInv, TypeOK', FindsRepresentative', EdgeInHand',
           UNCHANGED <<parents, sizes, rep, neighbors>>,
           (pc' \in {"union_u", "union_v"} /\ edge' = edge) \/ pc \notin {"union_u", "union_v"}
    PROVE  IInv'
<1>1. Balanced' /\ Represents'
  BY DEF IInv, Balanced, Represents
<1>2. Forest' = Forest
  BY DEF Forest
<1>3. KeptInside'
  BY <1>2 DEF IInv, KeptInside
<1>4. SetsConnected'
  BY <1>2 DEF IInv, SetsConnected, Connected
<1> QED
  BY <1>1, <1>3, <1>4 DEF IInv

\* Keeping an edge adds exactly this edge to the forest.
LEMMA LinkEffect ==
    ASSUME TypeOK, NEW e \in Edges, Link(e[1], e[2])
    PROVE  Forest' = Forest \cup {e}
<1>1. e[1] \in Vertices /\ e[2] \in Vertices /\ e[1] < e[2] /\ e[1] # e[2] /\ e = <<e[1], e[2]>>
  BY DEF Edges, Vertices
<1>2. neighbors' = [neighbors EXCEPT ![e[1]] = @ \cup {e[2]}, ![e[2]] = @ \cup {e[1]}]
  BY DEF Link
<1>3. ASSUME NEW d \in Edges PROVE d[2] \in neighbors'[d[1]] <=> (d[2] \in neighbors[d[1]] \/ d = e)
  <2>1. d[1] \in Vertices /\ d[2] \in Vertices /\ d[1] < d[2] /\ d = <<d[1], d[2]>>
    BY DEF Edges, Vertices
  <2>2. CASE d[1] = e[1]
    <3>1. neighbors'[d[1]] = neighbors[d[1]] \cup {e[2]}
      BY <1>1, <1>2, <2>2 DEF TypeOK
    <3> QED
      BY <1>1, <2>1, <2>2, <3>1
  <2>3. CASE d[1] = e[2]
    <3>1. neighbors'[d[1]] = neighbors[d[1]] \cup {e[1]}
      BY <1>1, <1>2, <2>3 DEF TypeOK
    <3>2. d[2] # e[1] /\ d # e
      BY <1>1, <2>1, <2>3 DEF Vertices
    <3> QED
      BY <3>1, <3>2
  <2>4. CASE d[1] # e[1] /\ d[1] # e[2]
    <3>1. neighbors'[d[1]] = neighbors[d[1]]
      BY <1>1, <1>2, <2>1, <2>4 DEF TypeOK
    <3> QED
      BY <2>4, <3>1
  <2> QED
    BY <2>2, <2>3, <2>4
<1> QED
  BY <1>3 DEF Forest

\* The comparison has found the representatives of both ends.
LEMMA ComparisonIsExact ==
    ASSUME IInv, Returns("compare_v")
    PROVE  /\ edge \in Edges /\ edge[1] \in Vertices /\ edge[2] \in Vertices
           /\ found = cursor <=> rep[edge[1]] = rep[edge[2]]
<1>1. edge \in Edges /\ edge[1] \in Vertices /\ edge[2] \in Vertices
  BY EdgesAreVertices DEF IInv, EdgeInHand, Returns, Finding
<1>2. rep[cursor] = rep[edge[2]] /\ found = rep[edge[1]]
  BY DEF IInv, FindsRepresentative, Returns
<1>3. rep[cursor] = cursor
  BY DEF IInv, Represents, Returns, TypeOK
<1> QED
  BY <1>1, <1>2, <1>3

\* Keeping an edge: its union is pending.
LEMMA KeepEdgeKeepsIInv == ASSUME IInv, KeepEdge, TypeOK' PROVE IInv'
<1>1. /\ edge \in Edges /\ edge[1] \in Vertices /\ edge[2] \in Vertices
      /\ rep[edge[1]] # rep[edge[2]]
  BY ComparisonIsExact DEF KeepEdge
<1>2. /\ pc = "compare_v" /\ pc' = "union_u" /\ cursor' = edge[1]
      /\ Link(edge[1], edge[2])
      /\ UNCHANGED <<todo, edge, found, parents, sizes, rep>>
  BY DEF KeepEdge, Returns
<1>3. Forest' = Forest \cup {edge}
  BY <1>1, <1>2, LinkEffect DEF IInv
<1>4. Balanced' /\ Represents'
  BY <1>2 DEF IInv, Balanced, Represents
<1>5. FindsRepresentative'
  BY <1>1, <1>2 DEF FindsRepresentative
<1>6. EdgeInHand'
  BY <1>1, <1>2, <1>3 DEF IInv, EdgeInHand, Finding
<1>7. KeptInside'
  BY <1>2, <1>3 DEF IInv, KeptInside
<1>8. SetsConnected'
  BY <1>2, <1>3, JoinedGrows DEF IInv, SetsConnected, Connected
<1> QED
  BY <1>4, <1>5, <1>6, <1>7, <1>8 DEF IInv

\* The union of the edge kept last.
LEMMA UnionVKeepsIInv == ASSUME IInv, UnionV, TypeOK' PROVE IInv'
<1>1. /\ found = rep[edge[1]] /\ cursor = rep[edge[2]]
      /\ edge \in Edges /\ edge[1] \in Vertices /\ edge[2] \in Vertices
  BY UnionOfRoots DEF UnionV
<1>2. /\ Balanced' /\ Represents'
      /\ \A a, b \in Vertices : rep'[a] = rep'[b] <=>
            rep[a] = rep[b] \/ (rep[a] \in {found, cursor} /\ rep[b] \in {found, cursor})
  BY UnionEffect
<1>3. /\ pc = "union_v" /\ pc' \in {"next", "orient"} /\ Forest' = Forest /\ edge' = edge
      /\ edge \in Forest
  BY AfterEdgeType DEF UnionV, Returns, Forest, IInv, EdgeInHand
<1>4. FindsRepresentative' /\ EdgeInHand'
  BY <1>3 DEF FindsRepresentative, EdgeInHand, Finding
<1>5. KeptInside'
  <2> SUFFICES ASSUME NEW e \in Forest PROVE rep'[e[1]] = rep'[e[2]]
    BY <1>3 DEF KeptInside
  <2>1. e[1] \in Vertices /\ e[2] \in Vertices
    BY EdgesAreVertices, ForestInEdges
  <2>2. rep[e[1]] = rep[e[2]] \/ e = edge
    BY DEF IInv, KeptInside
  <2> QED
    BY <1>1, <1>2, <2>1, <2>2
<1>6. SetsConnected'
  <2> SUFFICES ASSUME NEW a \in Vertices, NEW b \in Vertices, rep'[a] = rep'[b]
               PROVE  Greedy!Joined(Forest, a, b)
    BY <1>3 DEF SetsConnected, Connected
  <2> DEFINE J(c, d) == Greedy!Joined(Forest, c, d)
  <2>1. \A c, d \in Vertices : rep[c] = rep[d] => J(c, d)
    BY DEF IInv, SetsConnected, Connected
  <2>2. J(edge[1], edge[2])
    BY <1>3, EdgeJoins
  <2>3. J(edge[2], edge[1])
    BY <1>1, <2>2, JoinedSymmetric, ForestInEdges
  <2>4. \A c, d, e \in Vertices : J(c, d) /\ J(d, e) => J(c, e)
    BY JoinedTransitive
  <2> HIDE DEF J
  <2>5. CASE rep[a] = rep[b]
    BY <2>1, <2>5 DEF J
  <2>6. CASE rep[a] \in {found, cursor} /\ rep[b] \in {found, cursor}
    <3>1. \/ J(a, edge[1]) \/ J(a, edge[2])
      BY <1>1, <2>1, <2>6
    <3>2. \/ J(edge[1], b) \/ J(edge[2], b)
      BY <1>1, <2>1, <2>6
    <3>3. J(a, b)
      BY <1>1, <2>2, <2>3, <2>4, <3>1, <3>2
    <3> QED
      BY <3>3 DEF J
  <2> QED
    BY <1>2, <2>5, <2>6
<1> QED
  BY <1>2, <1>4, <1>5, <1>6 DEF IInv

\* IInv is inductive.
LEMMA NextIInv == IInv /\ [Next]_vars => IInv'
<1> SUFFICES ASSUME IInv, [Next]_vars PROVE IInv'
  OBVIOUS
<1>1. TypeOK'
  BY NextTypeOK DEF IInv
<1>2. ASSUME NEW e \in Edges, TakeEdge(e) PROVE IInv'
  <2>1. FindsRepresentative' /\ EdgeInHand'
    BY <1>2 DEF TakeEdge, FindsRepresentative, EdgeInHand, Finding
  <2> QED
    BY <1>1, <1>2, <2>1, QuietStep DEF TakeEdge
<1>3. CASE Follow
  <2>1. parents' = parents
    BY <1>3, FollowKeepsParents DEF IInv
  <2>2. rep[cursor'] = rep[cursor]
    BY <1>3 DEF Follow, IInv, TypeOK, Represents
  <2>3. FindsRepresentative'
    BY <1>3, <2>2 DEF Follow, FindsRepresentative, IInv
  <2>4. EdgeInHand'
    BY <1>3 DEF Follow, EdgeInHand, IInv, Forest
  <2> QED
    BY <1>1, <1>3, <2>1, <2>3, <2>4, QuietStep DEF Follow
<1>4. CASE CompareU
  <2>1. rep[cursor] = cursor
    BY <1>4 DEF CompareU, Returns, IInv, Represents, TypeOK
  <2>2. FindsRepresentative' /\ EdgeInHand'
    BY <1>4, <2>1 DEF CompareU, Returns, FindsRepresentative, EdgeInHand, IInv, Finding
  <2> QED
    BY <1>1, <1>4, <2>2, QuietStep DEF CompareU, Returns
<1>5. CASE KeepEdge
  BY <1>1, <1>5, KeepEdgeKeepsIInv
<1>6. CASE SkipEdge
  <2>1. pc' \in {"next", "orient"} /\ pc = "compare_v"
    BY <1>6, AfterEdgeType DEF SkipEdge, Returns, IInv
  <2>2. FindsRepresentative' /\ EdgeInHand'
    BY <2>1 DEF FindsRepresentative, EdgeInHand, Finding
  <2> QED
    BY <1>1, <1>6, <2>1, <2>2, QuietStep DEF SkipEdge
<1>7. CASE UnionU
  <2>1. rep[cursor] = cursor
    BY <1>7 DEF UnionU, Returns, IInv, Represents, TypeOK
  <2>2. FindsRepresentative'
    BY <1>7, <2>1 DEF UnionU, Returns, FindsRepresentative, IInv
  <2>3. EdgeInHand'
    BY <1>7 DEF UnionU, Returns, EdgeInHand, IInv, Finding, Forest
  <2> QED
    BY <1>1, <1>7, <2>2, <2>3, QuietStep DEF UnionU
<1>8. CASE UnionV
  BY <1>1, <1>8, UnionVKeepsIInv
<1>9. ASSUME NEW n \in Vertices, Yield(n) PROVE IInv'
  <2>1. FindsRepresentative' /\ EdgeInHand'
    BY <1>9 DEF Yield, FindsRepresentative, EdgeInHand, Finding
  <2> QED
    BY <1>1, <1>9, <2>1, QuietStep DEF Yield
<1>10. CASE Exhausted
  <2>1. FindsRepresentative' /\ EdgeInHand'
    BY <1>10 DEF Exhausted, FindsRepresentative, EdgeInHand, Finding
  <2> QED
    BY <1>1, <1>10, <2>1, QuietStep DEF Exhausted
<1>11. CASE UNCHANGED vars
  <2>1. FindsRepresentative' /\ EdgeInHand'
    BY <1>11 DEF vars, FindsRepresentative, EdgeInHand, IInv, Forest
  <2> QED
    BY <1>1, <1>11, <2>1, QuietStep DEF vars
<1> QED
  BY <1>2, <1>3, <1>4, <1>5, <1>6, <1>7, <1>8, <1>9, <1>10, <1>11 DEF Next, Done

\* The invariant holds in every behaviour.
LEMMA SpecIInv == Spec => []IInv
BY InitIInv, NextIInv, PTL DEF Spec

-----------------------------------------------------------------------------
(* The theorems.                                                           *)

\* Union by size halves: a child has at most half the weight of its parent, so
\* that find() ends after at most log2(N) steps.
THEOREM ForestIsBalanced == Spec => []Balanced
<1>1. IInv => Balanced
  BY DEF IInv
<1> QED
  BY <1>1, SpecIInv, PTL

\* The parents represent the partition made by the unions.
THEOREM ForestRepresentsPartition == Spec => []Represents
<1>1. IInv => Represents
  BY DEF IInv
<1> QED
  BY <1>1, SpecIInv, PTL

\* find() ends at the representative of its argument, and union() gets the two
\* roots that the comparison found to be different.
THEOREM FindIsCorrect == Spec => []FindsRepresentative
<1>1. IInv => FindsRepresentative
  BY DEF IInv
<1> QED
  BY <1>1, SpecIInv, PTL

\* The three together: the disjoint sets of kruskal() work as find() and union()
\* rely on.
THEOREM DisjointSetsWork == Spec => []ForestSound
<1>1. IInv => ForestSound
  BY DEF IInv, ForestSound
<1> QED
  BY <1>1, SpecIInv, PTL

\* Outside of a union, kept edges connect exactly the vertices of one set.
LEMMA ConnectedIffSameSet ==
    ASSUME IInv, pc \notin {"union_u", "union_v"}, NEW a \in Vertices, NEW b \in Vertices
    PROVE  rep[a] = rep[b] <=> Connected(a, b)
<1>1. rep[a] = rep[b] => Connected(a, b)
  BY DEF IInv, SetsConnected
<1>2. ASSUME Connected(a, b) PROVE rep[a] = rep[b]
  <2>1. \A e \in Forest : e[1] \in Vertices /\ e[2] \in Vertices /\ rep[e[1]] = rep[e[2]]
    BY EdgesAreVertices, ForestInEdges DEF IInv, KeptInside
  <2> QED
    BY <1>2, <2>1, JoinedStaysInside DEF Connected
<1> QED
  BY <1>1, <1>2

\* The sets of the disjoint-set forest are the components of the kept edges.
THEOREM SetsAreExactlyComponents == Spec => []SetsAreComponents
<1>1. IInv => SetsAreComponents
  BY ConnectedIffSameSet DEF SetsAreComponents
<1> QED
  BY <1>1, SpecIInv, PTL

\* A comparison, either way, is one step of the greedy algorithm.
LEMMA ComparisonRefines ==
    ASSUME IInv, KeepEdge \/ SkipEdge PROVE Greedy!Next
<1>1. pc = "compare_v" /\ pc' \notin {"compare_u", "compare_v"} /\ UNCHANGED <<todo, edge>>
  BY AfterEdgeType DEF KeepEdge, SkipEdge, Returns, IInv
<1>2. /\ edge \in Edges /\ edge[1] \in Vertices /\ edge[2] \in Vertices
      /\ found = cursor <=> rep[edge[1]] = rep[edge[2]]
  BY ComparisonIsExact DEF KeepEdge, SkipEdge
<1>3. edge \in Left /\ Left' = Left \ {edge}
  BY <1>1 DEF Left, IInv, EdgeInHand, Finding
<1>4. found = cursor <=> Greedy!Joined(Forest, edge[1], edge[2])
  BY <1>1, <1>2, ConnectedIffSameSet DEF Connected
<1>5. CASE KeepEdge
  <2>1. Forest' = Forest \cup {edge}
    BY <1>2, <1>5, LinkEffect DEF KeepEdge, IInv
  <2>2. ~Greedy!Joined(Forest, edge[1], edge[2])
    BY <1>4, <1>5 DEF KeepEdge
  <2> QED
    BY <1>2, <1>3, <2>1, <2>2 DEF Greedy!Next, Greedy!Consider
<1>6. CASE SkipEdge
  <2>1. Forest' = Forest
    BY <1>6 DEF SkipEdge, Forest
  <2>2. Greedy!Joined(Forest, edge[1], edge[2])
    BY <1>4, <1>6 DEF SkipEdge
  <2> QED
    BY <1>2, <1>3, <2>1, <2>2 DEF Greedy!Next, Greedy!Consider
<1> QED
  BY <1>5, <1>6

\* kruskal() implements the greedy algorithm: its start is the algorithm's
\* start, and each of its steps considers one edge or is invisible.
THEOREM KruskalIsGreedy == Spec => ImplementsGreedy
<1>1. Init => Greedy!Init
  BY EdgesAreVertices DEF Init, Greedy!Init, Left, Forest
<1>2. IInv /\ [Next]_vars => [Greedy!Next]_<<Left, Forest>>
  <2> SUFFICES ASSUME IInv, [Next]_vars
               PROVE  Greedy!Next \/ UNCHANGED <<Left, Forest>>
    BY DEF Greedy!Next
  <2>1. ASSUME NEW e \in Edges, TakeEdge(e) PROVE UNCHANGED <<Left, Forest>>
    BY <2>1 DEF TakeEdge, Left, Forest
  <2>2. CASE KeepEdge \/ SkipEdge
    BY <2>2, ComparisonRefines
  <2>3. CASE Follow \/ CompareU \/ UnionU \/ Exhausted
    BY <2>3 DEF Follow, CompareU, UnionU, Exhausted, Returns,
                Left, Forest
  <2>4. CASE UnionV
    <3>1. pc = "union_v" /\ pc' \in {"next", "orient"}
      BY <2>4, AfterEdgeType DEF UnionV, Returns, IInv
    <3> QED
      BY <2>4, <3>1 DEF UnionV, Left, Forest
  <2>5. ASSUME NEW n \in Vertices, Yield(n) PROVE UNCHANGED <<Left, Forest>>
    BY <2>5 DEF Yield, Left, Forest
  <2>6. CASE UNCHANGED vars
    BY <2>6 DEF vars, Left, Forest
  <2> QED
    BY <2>1, <2>2, <2>3, <2>4, <2>5, <2>6 DEF Next, Done
<1> QED
  BY <1>1, <1>2, SpecIInv, PTL DEF Spec, ImplementsGreedy, Greedy!Spec

-----------------------------------------------------------------------------
(* The tree below the root.  The kept edges have no cycle: each of them is *)
(* the only way out of some set of vertices.  So what lies behind an arc   *)
(* that is still to be yielded has not been seen yet.                      *)

\* S has n in it and not u, and every edge out of S leads from n to u.
Side(S, u, n) ==
    /\ n \in S /\ u \notin S
    /\ \A a \in S, b \in Vertices : b \in neighbors[a] => b \in S \/ (a = n /\ b = u)

Mutual == \A u, v \in Vertices : v \in neighbors[u] => u \in neighbors[v] /\ u # v

\* No cycle.
Bridges ==
    \A u, n \in Vertices : n \in neighbors[u] => \E S \in SUBSET Vertices : Side(S, u, n)

Seen == {Root} \cup {HeadOf(i) : i \in 1 .. Len(arcs)}

\* What a frame still has to yield leads to sets of vertices not seen yet.
FramesInv ==
    \A i \in 1 .. Len(stack) :
        /\ stack[i].node \in Seen /\ stack[i].pending \subseteq neighbors[stack[i].node]
        /\ \A j \in 1 .. Len(stack) : stack[i].node = stack[j].node => i = j
        /\ \A n \in stack[i].pending :
              \E S \in SUBSET Vertices : Side(S, stack[i].node, n) /\ S \cap Seen = {}

\* The vertices seen are connected to the root, and their neighbors are seen or pending.
SeenInv ==
    \A v \in Seen :
        /\ v \in Vertices /\ Connected(Root, v)
        /\ \A w \in neighbors[v] :
              w \in Seen \/ \E i \in 1 .. Len(stack) : stack[i].node = v /\ w \in stack[i].pending

TreeInv ==
    /\ Mutual /\ Bridges /\ ArcsGrowTree
    /\ pc \in {"orient", "done"} => FramesInv /\ SeenInv
    /\ pc \notin {"orient", "done"} => arcs = << >> /\ stack = << >>
    /\ pc = "done" => stack = << >>

\* Without arcs, only the root has been seen.
LEMMA SeenAtFirst == arcs = << >> => Seen = {Root} /\ ArcsGrowTree
BY EmptySeq DEF Seen, ArcsGrowTree

\* The neighbors of a vertex are those that a kept edge leads to.
LEMMA NeighborsAreKept ==
    ASSUME Mutual, NEW u \in Vertices, NEW v \in Vertices, v \in neighbors[u]
    PROVE  \E e \in Forest : (e[1] = u /\ e[2] = v) \/ (e[1] = v /\ e[2] = u)
<1>1. u \in neighbors[v] /\ u # v
  BY DEF Mutual
<1>2. CASE u < v
  <2>1. <<u, v>> \in Forest
    BY <1>2 DEF Forest, Edges
  <2> QED
    BY <2>1
<1>3. CASE v < u
  <2>1. <<v, u>> \in Forest
    BY <1>1, <1>3 DEF Forest, Edges
  <2> QED
    BY <2>1
<1> QED
  BY <1>1, <1>2, <1>3, ColumnsAssumption DEF Vertices

LEMMA NeighborsSameSet ==
    ASSUME IInv, Mutual, pc \notin {"union_u", "union_v"},
           NEW u \in Vertices, NEW v \in Vertices, v \in neighbors[u]
    PROVE  rep[u] = rep[v]
BY NeighborsAreKept DEF IInv, KeptInside

LEMMA NeighborsConnected ==
    ASSUME IInv, Mutual, NEW u \in Vertices, NEW v \in Vertices, v \in neighbors[u]
    PROVE  Connected(u, v)
<1>1. PICK e \in Forest : (e[1] = u /\ e[2] = v) \/ (e[1] = v /\ e[2] = u)
  BY NeighborsAreKept
<1>2. Greedy!Joined(Forest, e[1], e[2])
  BY EdgeJoins
<1>3. Greedy!Joined(Forest, e[2], e[1])
  BY <1>1, <1>2, ForestInEdges, JoinedSymmetric
<1> QED
  BY <1>1, <1>2, <1>3 DEF Connected

LEMMA InitTree == Init => TreeInv
<1> SUFFICES ASSUME Init PROVE TreeInv
  OBVIOUS
<1>1. arcs = << >> /\ stack = << >> /\ \A v \in Vertices : neighbors[v] = {}
  BY DEF Init
<1>2. ArcsGrowTree
  BY <1>1, SeenAtFirst
<1>3. Mutual /\ Bridges
  BY <1>1 DEF Mutual, Bridges
<1> QED
  BY <1>1, <1>2, <1>3 DEF TreeInv, Init

\* An edge between two sets closes no cycle.
LEMMA KeepEdgeTree == ASSUME IInv, TreeInv, KeepEdge PROVE Mutual' /\ Bridges'
<1> PICK p \in Vertices, q \in Vertices : edge[1] = p /\ edge[2] = q /\ rep[p] # rep[q]
  BY ComparisonIsExact DEF KeepEdge
<1>1. /\ pc = "compare_v" /\ neighbors \in [Vertices -> SUBSET Vertices] /\ p # q
      /\ neighbors' = [neighbors EXCEPT ![p] = @ \cup {q}, ![q] = @ \cup {p}]
  BY DEF KeepEdge, Returns, Link, IInv, TypeOK
<1>2. \A a, b \in Vertices :
         b \in neighbors'[a] <=> b \in neighbors[a] \/ (a = p /\ b = q) \/ (a = q /\ b = p)
  BY <1>1
<1>3. Mutual'
  BY <1>1, <1>2 DEF TreeInv, Mutual
<1> DEFINE C == {x \in Vertices : rep[x] = rep[q]}
<1>4. \A a, b \in Vertices : b \in neighbors[a] => (a \in C <=> b \in C)
  BY <1>1, NeighborsSameSet DEF TreeInv
<1>5. C \in SUBSET Vertices /\ q \in C /\ p \notin C
  OBVIOUS
<1> HIDE DEF C
<1>6. ASSUME NEW u \in Vertices, NEW n \in Vertices, n \in neighbors'[u]
      PROVE  \E S \in SUBSET Vertices : Side(S, u, n)'
  <2>1. ASSUME NEW S \in SUBSET Vertices, n \in S, u \notin S,
               \A a \in S, b \in Vertices : b \in neighbors'[a] => b \in S \/ (a = n /\ b = u)
        PROVE  \E T \in SUBSET Vertices : Side(T, u, n)'
    BY <2>1 DEF Side
  <2>2. CASE u = p /\ n = q
    BY <1>2, <1>4, <1>5, <2>1, <2>2
  <2>3. CASE u = q /\ n = p
    <3> DEFINE T == Vertices \ C
    <3>1. \A a \in T, b \in Vertices : b \in neighbors'[a] => b \in T \/ (a = p /\ b = q)
      BY <1>2, <1>4, <1>5
    <3> QED
      BY <1>5, <2>1, <2>3, <3>1
  <2>4. CASE n \in neighbors[u]
    <3>1. PICK S \in SUBSET Vertices : Side(S, u, n)
      BY <2>4 DEF TreeInv, Bridges
    <3>2. /\ n \in S /\ u \notin S
          /\ \A a \in S, b \in Vertices : b \in neighbors[a] => b \in S \/ (a = n /\ b = u)
      BY <3>1 DEF Side
    <3>3. u \in C <=> n \in C
      BY <1>4, <2>4
    <3>4. CASE p \in S <=> q \in S
      BY <1>2, <2>1, <3>2, <3>4
    <3>5. CASE p \in S /\ q \notin S /\ n \notin C
      <4> DEFINE T == S \cup C
      <4>1. \A a \in T, b \in Vertices : b \in neighbors'[a] => b \in T \/ (a = n /\ b = u)
        BY <1>2, <1>4, <1>5, <3>2, <3>5
      <4> QED
        BY <1>5, <2>1, <3>2, <3>3, <3>5, <4>1
    <3>6. CASE p \in S /\ q \notin S /\ n \in C
      <4> DEFINE T == S \cap C
      <4>1. \A a \in T, b \in Vertices : b \in neighbors'[a] => b \in T \/ (a = n /\ b = u)
        BY <1>2, <1>4, <1>5, <3>2, <3>6
      <4> QED
        BY <1>5, <2>1, <3>2, <3>6, <4>1
    <3>7. CASE p \notin S /\ q \in S /\ n \notin C
      <4> DEFINE T == S \ C
      <4>1. \A a \in T, b \in Vertices : b \in neighbors'[a] => b \in T \/ (a = n /\ b = u)
        BY <1>2, <1>4, <1>5, <3>2, <3>7
      <4> QED
        BY <1>5, <2>1, <3>2, <3>7, <4>1
    <3>8. CASE p \notin S /\ q \in S /\ n \in C
      <4> DEFINE T == S \cup (Vertices \ C)
      <4>1. \A a \in T, b \in Vertices : b \in neighbors'[a] => b \in T \/ (a = n /\ b = u)
        BY <1>2, <1>4, <1>5, <3>2, <3>8
      <4> QED
        BY <1>5, <2>1, <3>2, <3>3, <3>8, <4>1
    <3> QED
      BY <3>4, <3>5, <3>6, <3>7, <3>8
  <2> QED
    BY <1>2, <1>6, <2>2, <2>3, <2>4
<1> QED
  BY <1>3, <1>6 DEF Bridges

\* The walk starts at the root.
LEMMA StartTree ==
    ASSUME IInv, TreeInv, pc \in Finding, UNCHANGED <<neighbors, arcs>>, StartOrient
    PROVE  TreeInv'
<1>1. /\ pc' = "orient" /\ arcs = << >>
      /\ Len(stack') = 1 /\ stack'[1].node = Root /\ stack'[1].pending = neighbors[Root]
  BY DEF StartOrient, TreeInv, Finding
<1>2. Seen' = {Root} /\ ArcsGrowTree'
  BY <1>1, SeenAtFirst DEF Seen, ArcsGrowTree, HeadOf
<1>3. Root \in Vertices /\ neighbors[Root] \subseteq Vertices
  BY ColumnsAssumption DEF Vertices, IInv, TypeOK
<1>4. Mutual' /\ Bridges'
  BY DEF TreeInv, Mutual, Bridges, Side
<1>5. FramesInv'
  <2>1. ASSUME NEW n \in neighbors[Root]
        PROVE  \E S \in SUBSET Vertices : Side(S, Root, n)' /\ S \cap {Root} = {}
    BY <1>3, <2>1 DEF TreeInv, Bridges, Side
  <2> QED
    BY <1>1, <1>2, <2>1 DEF FramesInv
<1>6. SeenInv'
  <2>1. Connected(Root, Root)'
    BY JoinedReflexive DEF Connected
  <2> QED
    BY <1>1, <1>2, <1>3, <2>1 DEF SeenInv
<1> QED
  BY <1>1, <1>2, <1>4, <1>5, <1>6 DEF TreeInv

\* One step of the walk, on the sequences.
LEMMA YieldEffect ==
    ASSUME TypeOK, NEW n \in Vertices, Yield(n)
    PROVE  LET k == Len(stack) IN
           /\ k \in Nat \ {0} /\ Len(stack') = k + 1 /\ pc = "orient" /\ n \in stack[k].pending
           /\ \A i \in 1 .. k : stack[i] \in Frame /\ stack'[i].node = stack[i].node
           /\ \A i \in 1 .. k - 1 : stack'[i].pending = stack[i].pending
           /\ stack'[k].pending = stack[k].pending \ {n}
           /\ stack'[k + 1].node = n /\ stack'[k + 1].pending = neighbors[n] \ {stack[k].node}
           /\ Len(arcs) \in Nat /\ Len(arcs') = Len(arcs) + 1
           /\ \A i \in 1 .. Len(arcs) : arcs'[i] = arcs[i]
           /\ arcs'[Len(arcs) + 1] = <<stack[k].node, n>>
<1>1. pc = "orient" /\ stack # << >> /\ stack \in Seq(Frame)
  BY DEF Yield, TypeOK
<1> PICK k \in Nat \ {0} : k = Len(stack)
  BY <1>1, EmptySeq, LenProperties
<1>2. \A i \in 1 .. k : stack[i] \in Frame
  BY <1>1, ElementOfSeq
<1>3. stack[k] \in Frame /\ n \in stack[k].pending /\ Top = stack[k]
  BY <1>2 DEF Yield, Top
<1> DEFINE left == [stack EXCEPT ![k].pending = @ \ {n}]
<1> DEFINE frame == [node |-> n, pending |-> neighbors[n] \ {stack[k].node}]
<1>4. /\ left \in Seq(Frame) /\ Len(left) = k
      /\ \A i \in 1 .. k : left[i].node = stack[i].node
      /\ \A i \in 1 .. k - 1 : left[i] = stack[i]
      /\ left[k].pending = stack[k].pending \ {n}
  <2>1. [stack[k] EXCEPT !.pending = @ \ {n}] \in Frame
    BY <1>3 DEF Frame
  <2>2. left = [stack EXCEPT ![k] = [stack[k] EXCEPT !.pending = @ \ {n}]]
    OBVIOUS
  <2>3. left \in Seq(Frame) /\ Len(left) = k
    BY <1>1, <2>1, <2>2
  <2>4. DOMAIN stack = 1 .. k
    BY <1>1, LenProperties
  <2>5. \A i \in 1 .. k - 1 : i \in 1 .. k /\ i # k
    OBVIOUS
  <2> QED
    BY <1>2, <1>3, <2>2, <2>3, <2>4, <2>5 DEF Frame
<1>5. frame \in Frame
  <2>1. neighbors[n] \ {stack[k].node} \in SUBSET Vertices
    BY DEF TypeOK
  <2> QED
    BY <2>1 DEF Frame
<1>6. stack' = Append(left, frame)
  <2>1. stack' = Append([stack EXCEPT ![k].pending = @ \ {n}],
                        [node |-> n, pending |-> neighbors[n] \ {Top.node}])
    BY DEF Yield
  <2> QED
    BY <1>3, <2>1
<1> HIDE DEF left, frame
<1>7. /\ Len(stack') = k + 1 /\ stack'[k + 1] = frame
      /\ \A i \in 1 .. k : stack'[i] = left[i]
  BY <1>4, <1>5, <1>6, AppendProperties
<1>8. /\ Len(arcs) \in Nat /\ Len(arcs') = Len(arcs) + 1
      /\ \A i \in 1 .. Len(arcs) : arcs'[i] = arcs[i]
      /\ arcs'[Len(arcs) + 1] = <<stack[k].node, n>>
  <2>1. arcs \in Seq(Vertices \X Vertices) /\ <<stack[k].node, n>> \in Vertices \X Vertices
    BY <1>3 DEF TypeOK, Frame
  <2>2. arcs' = Append(arcs, <<stack[k].node, n>>)
    BY <1>3 DEF Yield
  <2> QED
    BY <2>1, <2>2, AppendProperties, LenProperties
<1>9. frame.node = n /\ frame.pending = neighbors[n] \ {stack[k].node}
  BY DEF frame
<1>10. k \in 1 .. k /\ \A i \in 1 .. k - 1 : i \in 1 .. k
  OBVIOUS
<1>11. /\ \A i \in 1 .. k : stack'[i].node = stack[i].node
       /\ \A i \in 1 .. k - 1 : stack'[i].pending = stack[i].pending
       /\ stack'[k].pending = stack[k].pending \ {n}
       /\ stack'[k + 1].node = n /\ stack'[k + 1].pending = neighbors[n] \ {stack[k].node}
  BY <1>4, <1>7, <1>9, <1>10
<1> QED
  BY <1>1, <1>2, <1>3, <1>7, <1>8, <1>11

LEMMA YieldTree == ASSUME IInv, TreeInv, NEW n \in Vertices, Yield(n) PROVE TreeInv'
<1> PICK k \in Nat \ {0} : k = Len(stack)
  BY YieldEffect DEF IInv
<1> DEFINE u == stack[k].node
<1>1. /\ Len(stack') = k + 1 /\ pc = "orient" /\ n \in stack[k].pending
      /\ \A i \in 1 .. k : stack[i] \in Frame /\ stack'[i].node = stack[i].node
      /\ \A i \in 1 .. k - 1 : stack'[i].pending = stack[i].pending
      /\ stack'[k].pending = stack[k].pending \ {n}
      /\ stack'[k + 1].node = n /\ stack'[k + 1].pending = neighbors[n] \ {u}
  BY YieldEffect DEF IInv
<1>2. /\ Len(arcs) \in Nat /\ Len(arcs') = Len(arcs) + 1
      /\ \A i \in 1 .. Len(arcs) : arcs'[i] = arcs[i]
      /\ arcs'[Len(arcs) + 1] = <<u, n>>
  BY YieldEffect DEF IInv
<1>3. /\ FramesInv /\ SeenInv /\ Mutual /\ Bridges /\ ArcsGrowTree
      /\ UNCHANGED <<neighbors, pc>> /\ neighbors \in [Vertices -> SUBSET Vertices]
  BY <1>1 DEF TreeInv, Yield, IInv, TypeOK
<1>4. Seen' = Seen \cup {n}
  <2>1. PICK L \in Nat : L = Len(arcs)
    BY <1>2
  <2>2. /\ 1 .. L + 1 = (1 .. L) \cup {L + 1} /\ arcs'[L + 1][2] = n
        /\ \A i \in 1 .. L : arcs'[i][2] = arcs[i][2]
    BY <1>2, <2>1
  <2>3. Seen = {Root} \cup {arcs[i][2] : i \in 1 .. L}
    BY <2>1 DEF Seen, HeadOf
  <2>4. Seen' = {Root} \cup {arcs'[i][2] : i \in 1 .. L + 1}
    BY <1>2, <2>1 DEF Seen, HeadOf
  <2> QED
    BY <2>2, <2>3, <2>4
<1>5. k \in 1 .. k /\ \A i \in 1 .. k + 1 : (i \in 1 .. k - 1 /\ i \in 1 .. k /\ i # k) \/ i = k \/ i = k + 1
  OBVIOUS
<1>6. u \in Seen /\ u \in Vertices /\ n \in neighbors[u]
  BY <1>1, <1>3, <1>5 DEF FramesInv, SeenInv
<1>7. PICK N0 \in SUBSET Vertices : Side(N0, u, n) /\ N0 \cap Seen = {}
  BY <1>1, <1>3, <1>5 DEF FramesInv
<1>8. n \notin Seen
  BY <1>7 DEF Side
<1>9. \A S, a, b : Side(S, a, b)' <=> Side(S, a, b)
  BY <1>3 DEF Side
<1>10. ASSUME NEW m \in neighbors[n], m # u
       PROVE  \E S \in SUBSET Vertices : Side(S, n, m) /\ S \cap (Seen \cup {n}) = {}
  <2>1. m \in Vertices
    BY <1>3
  <2>2. PICK B \in SUBSET Vertices : Side(B, n, m)
    BY <1>3, <1>10, <2>1 DEF Bridges
  <2> DEFINE S == N0 \cap B
  <2>3. m \in S /\ n \notin S
    BY <1>7, <1>10, <2>1, <2>2 DEF Side
  <2>4. \A a \in S, b \in Vertices : b \in neighbors[a] => b \in S \/ (a = m /\ b = n)
    BY <1>7, <2>2 DEF Side
  <2>5. Side(S, n, m)
    BY <2>3, <2>4 DEF Side
  <2> QED
    BY <1>7, <2>3, <2>5
<1>11. ASSUME NEW i \in 1 .. k, NEW m \in stack'[i].pending
       PROVE  \E S \in SUBSET Vertices :
                 Side(S, stack[i].node, m) /\ S \cap (Seen \cup {n}) = {}
  <2>1. m \in stack[i].pending /\ (i = k => m # n)
    BY <1>1, <1>5, <1>11
  <2>2. PICK S \in SUBSET Vertices : Side(S, stack[i].node, m) /\ S \cap Seen = {}
    BY <1>1, <1>3, <2>1 DEF FramesInv
  <2>3. stack[i].node = u => i = k
    BY <1>3, <1>5 DEF FramesInv
  <2>4. u \in neighbors[n] /\ u \notin S
    BY <1>3, <1>6, <2>2 DEF Mutual
  <2>5. n \notin S
    BY <1>6, <2>1, <2>2, <2>3, <2>4 DEF Side
  <2> QED
    BY <2>2, <2>5
<1>12. FramesInv'
  <2> SUFFICES ASSUME NEW i \in 1 .. k + 1
               PROVE  /\ stack'[i].node \in Seen \cup {n}
                      /\ stack'[i].pending \subseteq neighbors[stack'[i].node]
                      /\ \A j \in 1 .. k + 1 : stack'[i].node = stack'[j].node => i = j
                      /\ \A m \in stack'[i].pending : \E S \in SUBSET Vertices :
                            Side(S, stack'[i].node, m) /\ S \cap (Seen \cup {n}) = {}
    BY <1>1, <1>3, <1>4, <1>9 DEF FramesInv
  <2>1. \A j \in 1 .. k : stack'[j].node \in Seen /\ stack'[j].node # n
    BY <1>1, <1>3, <1>8 DEF FramesInv
  <2>2. CASE i = k + 1
    BY <1>1, <1>5, <1>10, <2>1, <2>2
  <2>3. CASE i \in 1 .. k
    <3>1. stack'[i].pending \subseteq stack[i].pending
      BY <1>1, <1>5, <2>3
    <3>2. \A j \in 1 .. k + 1 : stack'[i].node = stack'[j].node => i = j
      BY <1>1, <1>3, <1>5, <2>1, <2>3 DEF FramesInv
    <3> QED
      BY <1>1, <1>3, <1>11, <2>1, <2>3, <3>1, <3>2 DEF FramesInv
  <2> QED
    BY <2>2, <2>3
<1>13. SeenInv'
  <2> SUFFICES ASSUME NEW v \in Seen \cup {n}
               PROVE  /\ v \in Vertices /\ Connected(Root, v)
                      /\ \A w \in neighbors[v] : w \in Seen \cup {n} \/
                            \E i \in 1 .. k + 1 : stack'[i].node = v /\ w \in stack'[i].pending
    <3>1. \A v : Connected(Root, v)' = Connected(Root, v)
      BY <1>3 DEF Connected, Forest
    <3> QED
      BY <1>1, <1>3, <1>4, <3>1 DEF SeenInv
  <2>1. CASE v = n
    <3>1. Connected(Root, u) /\ Connected(u, n)
      BY <1>3, <1>6, NeighborsConnected DEF SeenInv
    <3>2. Connected(Root, n)
      BY <3>1, JoinedTransitive DEF Connected
    <3>3. \A w \in neighbors[n] : w \in Seen \/ (stack'[k + 1].node = n /\ w \in stack'[k + 1].pending)
      BY <1>1, <1>6
    <3> QED
      BY <2>1, <3>2, <3>3
  <2>2. CASE v \in Seen
    <3> SUFFICES ASSUME NEW w \in neighbors[v], w \notin Seen, w # n
                 PROVE  \E i \in 1 .. k + 1 : stack'[i].node = v /\ w \in stack'[i].pending
      BY <1>3, <2>2 DEF SeenInv
    <3>1. PICK i \in 1 .. k : stack[i].node = v /\ w \in stack[i].pending
      BY <1>3, <2>2 DEF SeenInv
    <3>2. i \in 1 .. k + 1 /\ stack'[i].node = v /\ w \in stack'[i].pending
      BY <1>1, <1>5, <3>1
    <3> QED
      BY <3>2
  <2> QED
    BY <2>1, <2>2
<1>14. ArcsGrowTree'
  <2> SUFFICES ASSUME NEW i \in 1 .. Len(arcs) + 1
               PROVE  /\ arcs'[i][1] = Root \/ \E j \in 1 .. i - 1 : arcs'[i][1] = arcs'[j][2]
                      /\ arcs'[i][2] # Root
                      /\ \A j \in 1 .. i - 1 : arcs'[i][2] # arcs'[j][2]
                      /\ arcs'[i][2] \in neighbors[arcs'[i][1]]
    BY <1>2, <1>3 DEF ArcsGrowTree, HeadOf
  <2>1. CASE i \in 1 .. Len(arcs)
    <3>1. arcs'[i] = arcs[i] /\ \A j \in 1 .. i - 1 : arcs'[j] = arcs[j]
      BY <1>2, <2>1
    <3>2. /\ arcs[i][1] = Root \/ \E j \in 1 .. i - 1 : arcs[i][1] = arcs[j][2]
          /\ arcs[i][2] # Root
          /\ \A j \in 1 .. i - 1 : arcs[i][2] # arcs[j][2]
          /\ arcs[i][2] \in neighbors[arcs[i][1]]
      BY <1>3, <2>1 DEF ArcsGrowTree, HeadOf
    <3> QED
      BY <3>1, <3>2
  <2>2. CASE i = Len(arcs) + 1
    <3>1. i - 1 = Len(arcs) /\ arcs'[i] = <<u, n>>
      BY <1>2, <2>2
    <3>2. u = Root \/ \E j \in 1 .. Len(arcs) : u = arcs[j][2]
      BY <1>6 DEF Seen, HeadOf
    <3>3. n # Root /\ \A j \in 1 .. Len(arcs) : n # arcs[j][2]
      BY <1>8 DEF Seen, HeadOf
    <3> QED
      BY <1>2, <1>6, <3>1, <3>2, <3>3
  <2> QED
    BY <1>2, <2>1, <2>2
<1>15. Mutual' /\ Bridges'
  BY <1>3, <1>9 DEF Mutual, Bridges
<1> QED
  BY <1>1, <1>3, <1>12, <1>13, <1>14, <1>15 DEF TreeInv

LEMMA ExhaustedTree == ASSUME IInv, TreeInv, Exhausted PROVE TreeInv'
<1>1. pc = "orient" /\ stack # << >> /\ stack \in Seq(Frame) /\ UNCHANGED <<neighbors, arcs>>
  BY DEF Exhausted, IInv, TypeOK
<1> PICK n \in Nat : Len(stack) = n + 1
  <2>1. Len(stack) - 1 \in Nat /\ Len(stack) = (Len(stack) - 1) + 1
    BY <1>1, EmptySeq, LenProperties
  <2> QED
    BY <2>1
<1>2. Len(stack') = n /\ \A i \in 1 .. n : stack'[i] = stack[i]
  <2>1. stack' = SubSeq(stack, 1, n)
    BY DEF Exhausted
  <2>2. \A i \in 1 .. n : stack[i] \in Frame
    BY <1>1, ElementOfSeq
  <2> QED
    BY <1>1, <2>1, <2>2, SubSeqProperties
<1>3. stack[n + 1].pending = {} /\ pc' \in {"orient", "done"} /\ (pc' = "done" => stack' = << >>)
  <2>1. stack[n + 1].pending = {} /\ pc' = IF n + 1 = 1 THEN "done" ELSE "orient"
    BY DEF Exhausted, Top
  <2>2. n = 0 => stack' = << >>
    <3>1. stack' \in Seq(Frame)
      BY NextTypeOK DEF IInv, Next, TypeOK
    <3> QED
      BY <1>2, <3>1, EmptySeq
  <2> QED
    BY <2>1, <2>2
<1>4. Seen' = Seen /\ (\A S, a, b : Side(S, a, b)' <=> Side(S, a, b))
  BY <1>1 DEF Seen, HeadOf, Side
<1>5. FramesInv'
  <2>1. \A i \in 1 .. n : i \in 1 .. n + 1
    OBVIOUS
  <2> QED
    BY <1>1, <1>2, <1>4, <2>1 DEF TreeInv, FramesInv
<1>6. SeenInv'
  <2>1. \A v : Connected(Root, v)' = Connected(Root, v)
    BY <1>1 DEF Connected, Forest
  <2>2. \A i \in 1 .. n + 1 : i \in 1 .. n \/ i = n + 1
    OBVIOUS
  <2>3. SeenInv
    BY <1>1 DEF TreeInv
  <2>4. ASSUME NEW v \in Seen, NEW w \in neighbors[v], w \notin Seen
        PROVE  \E i \in 1 .. n : stack'[i].node = v /\ w \in stack'[i].pending
    <3>1. PICK i \in 1 .. n + 1 : stack[i].node = v /\ w \in stack[i].pending
      BY <2>3, <2>4 DEF SeenInv
    <3> QED
      BY <1>2, <1>3, <2>2, <3>1
  <2> QED
    BY <1>1, <1>2, <1>4, <2>1, <2>3, <2>4 DEF SeenInv
<1>7. Mutual' /\ Bridges' /\ ArcsGrowTree'
  BY <1>1, <1>4 DEF TreeInv, Mutual, Bridges, ArcsGrowTree, HeadOf
<1> QED
  BY <1>3, <1>5, <1>6, <1>7 DEF TreeInv

LEMMA NextTree == IInv /\ TreeInv /\ [Next]_vars => TreeInv'
<1> SUFFICES ASSUME IInv, TreeInv, [Next]_vars PROVE TreeInv'
  OBVIOUS
<1>1. ASSUME UNCHANGED <<neighbors, arcs, stack>>,
             pc \notin {"orient", "done"}, pc' \notin {"orient", "done"}
      PROVE  TreeInv'
  BY <1>1 DEF TreeInv, Mutual, Bridges, Side, ArcsGrowTree, HeadOf
<1>2. ASSUME NEW e \in Edges, TakeEdge(e) PROVE TreeInv'
  BY <1>1, <1>2 DEF TakeEdge
<1>3. CASE Follow \/ CompareU \/ UnionU
  BY <1>1, <1>3 DEF Follow, CompareU, UnionU, Returns, Finding
<1>4. CASE KeepEdge
  <2>1. /\ pc = "compare_v" /\ pc' = "union_u" /\ UNCHANGED <<arcs, stack>>
    BY <1>4 DEF KeepEdge, Returns
  <2>2. arcs = << >> /\ stack = << >>
    BY <2>1 DEF TreeInv
  <2>3. ArcsGrowTree'
    BY <2>1, <2>2, EmptySeq DEF ArcsGrowTree
  <2> QED
    BY <1>4, <2>1, <2>2, <2>3, KeepEdgeTree DEF TreeInv
<1>5. CASE SkipEdge \/ UnionV
  <2>1. AfterEdge /\ UNCHANGED <<neighbors, arcs>> /\ pc \in Finding
    BY <1>5 DEF SkipEdge, UnionV, Returns, Finding
  <2>2. CASE StartOrient
    BY <2>1, <2>2, StartTree
  <2>3. CASE pc' = "next" /\ UNCHANGED stack
    BY <1>1, <2>1, <2>3 DEF Finding
  <2> QED
    BY <2>1, <2>2, <2>3 DEF AfterEdge
<1>6. CASE UNCHANGED vars
  <2>1. UNCHANGED <<pc, neighbors, arcs, stack>>
    BY <1>6 DEF vars
  <2>2. Seen' = Seen /\ (\A S, a, b : Side(S, a, b)' <=> Side(S, a, b))
    BY <2>1 DEF Seen, HeadOf, Side
  <2>3. \A v : Connected(Root, v)' = Connected(Root, v)
    BY <2>1 DEF Connected, Forest
  <2>4. Mutual' /\ Bridges' /\ ArcsGrowTree'
    BY <2>1, <2>2 DEF TreeInv, Mutual, Bridges, ArcsGrowTree, HeadOf
  <2>5. FramesInv => FramesInv'
    BY <2>1, <2>2 DEF FramesInv
  <2>6. SeenInv => SeenInv'
    BY <2>1, <2>2, <2>3 DEF SeenInv
  <2> QED
    BY <2>1, <2>4, <2>5, <2>6 DEF TreeInv
<1> QED
  BY <1>2, <1>3, <1>4, <1>5, <1>6, YieldTree, ExhaustedTree DEF Next, Done

\* What the walk has yielded is one tree downwards from the root, and in the end
\* it has every column that kept edges connect to the root, although a frame of
\* orient_tree() remembers only the vertex it came from.
THEOREM WalkYieldsTree == Spec => []TreeBelowRoot
<1>1. Init => IInv /\ TreeInv
  BY InitIInv, InitTree
<1>2. IInv /\ TreeInv /\ [Next]_vars => (IInv /\ TreeInv)'
  BY NextIInv, NextTree
<1>3. IInv /\ TreeInv => TreeBelowRoot
  <2> SUFFICES ASSUME IInv, TreeInv, pc = "done" PROVE Seen = {v \in Vertices : Connected(Root, v)}
    BY DEF TreeBelowRoot, TreeIsComplete, TreeInv, Seen
  <2>1. SeenInv /\ Len(stack) = 0 /\ Mutual
    BY EmptySeq DEF TreeInv
  <2>2. \A v \in Seen : \A w \in neighbors[v] : w \in Seen
    BY <2>1 DEF SeenInv
  <2>3. ASSUME NEW v \in Vertices, Connected(Root, v) PROVE v \in Seen
    <3>1. Seen \in SUBSET Vertices /\ Root \in Seen
      BY <2>1 DEF SeenInv, Seen
    <3>2. \A e \in Forest : ~Greedy!Crosses(e, Seen)
      BY <2>1, <2>2, ForestInEdges, EdgesAreVertices DEF Forest, Mutual, Greedy!Crosses
    <3> QED
      BY <2>3, <3>1, <3>2 DEF Connected, Greedy!Joined
  <2> QED
    BY <2>1, <2>3 DEF SeenInv
<1> QED
  BY <1>1, <1>2, <1>3, PTL DEF Spec
============================================================================
