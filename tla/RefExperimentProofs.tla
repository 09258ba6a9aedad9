------------------------ MODULE RefExperimentProofs ------------------------
(***************************************************************************)
(* Theorems about the source-localisation experiment, for any number of    *)
(* runs of the script, any settings and any length of the loops.           *)
(*                                                                         *)
(* An invariant of a run is stated of its record v of variables and of the *)
(* settings s, which no step changes.                                      *)
(***************************************************************************)
EXTENDS RefExperiment, SequenceTheorems, FiniteSetTheorems, TLAPS

Fields == {"pc", "second", "G", "graph", "realization", "data", "at", "models", "options", "optionsPer",
           "best", "costBest", "costLast", "curves", "mean", "figure"}

Early == {"start", "make", "open", "load"}
Inside == {"build", "train", "last", "evaluate", "evaluate last"}
After == {"statistics", "make figures", "plot", "done"}
Labels == Early \union {"graph", "data"} \union Inside \union After \union {"failed"}

ListOf(s) == SelectionModels(s) \o AggregationModels(s)
ModelsOf(s) == Range(ListOf(s))
NameOf(s, m, g, r) == [model |-> m, G |-> IF s.graphs > 1 THEN g ELSE 0, R |-> IF s.realizations > 1 THEN r ELSE 0]

LEMMA InTermsOfSettings ==
    /\ modelList = ListOf(setting) /\ Models = ModelsOf(setting)
    /\ \A m, g, r : ThisName(m, g, r) = NameOf(setting, m, g, r)
BY DEF modelList, Models, ListOf, ModelsOf, ThisName, NameOf

-----------------------------------------------------------------------------
(* The list of models.                                                      *)

\* No model is listed twice.
Distinct(q) == \A i, j \in DOMAIN q : q[i] = q[j] => i = j

LEMMA ListedOnce ==
    ASSUME NEW s, NEW arch, NEW order, NEW S, <<arch, order>> \in S
    PROVE  /\ Listed(s, arch, order) \in Seq(S)
           /\ \A i \in DOMAIN Listed(s, arch, order) : Listed(s, arch, order)[i] = <<arch, order>>
           /\ Distinct(Listed(s, arch, order))
<1>1. << <<arch, order>> >> \in Seq(S) /\ <<>> \in Seq(S)
  OBVIOUS
<1> QED
  BY <1>1 DEF Listed, Distinct

LEMMA DistinctConcat ==
    ASSUME NEW S, NEW q \in Seq(S), NEW x \in Seq(S), Distinct(q), Distinct(x),
           \A i \in DOMAIN q, j \in DOMAIN x : q[i] # x[j]
    PROVE  Distinct(q \o x) /\ q \o x \in Seq(S)
<1>1. /\ q \o x \in Seq(S) /\ Len(q \o x) = Len(q) + Len(x)
      /\ \A i \in 1 .. Len(q) + Len(x) :
            (q \o x)[i] = IF i <= Len(q) THEN q[i] ELSE x[i - Len(q)]
  BY ConcatProperties
<1>2. DOMAIN (q \o x) = 1 .. Len(q) + Len(x) /\ DOMAIN q = 1 .. Len(q) /\ DOMAIN x = 1 .. Len(x)
      /\ Len(q) \in Nat /\ Len(x) \in Nat
  BY <1>1, LenProperties
<1>3. ASSUME NEW i \in 1 .. Len(q) + Len(x), NEW j \in 1 .. Len(q) + Len(x), (q \o x)[i] = (q \o x)[j]
      PROVE  i = j
  <2>1. CASE i <= Len(q) /\ j <= Len(q)
    BY <1>1, <1>2, <1>3, <2>1 DEF Distinct
  <2>2. CASE i > Len(q) /\ j > Len(q)
    <3>1. i - Len(q) \in DOMAIN x /\ j - Len(q) \in DOMAIN x /\ x[i - Len(q)] = x[j - Len(q)]
      BY <1>1, <1>2, <1>3, <2>2
    <3>2. i - Len(q) = j - Len(q)
      BY <3>1 DEF Distinct
    <3> QED
      BY <1>2, <3>2
  <2>3. CASE i <= Len(q) /\ j > Len(q)
    <3>1. i \in DOMAIN q /\ j - Len(q) \in DOMAIN x /\ q[i] = x[j - Len(q)]
      BY <1>1, <1>2, <1>3, <2>3
    <3> QED
      BY <3>1
  <2>4. CASE i > Len(q) /\ j <= Len(q)
    <3>1. j \in DOMAIN q /\ i - Len(q) \in DOMAIN x /\ q[j] = x[i - Len(q)]
      BY <1>1, <1>2, <1>3, <2>4
    <3> QED
      BY <3>1
  <2> QED
    BY <1>2, <2>1, <2>2, <2>3, <2>4
<1> QED
  BY <1>1, <1>2, <1>3 DEF Distinct

\* A list of different models, all of them in S.
Among(q, S) == q \in Seq(Names) /\ Distinct(q) /\ \A i \in DOMAIN q : q[i] \in S

\* Two lists that have no model in common.
LEMMA ListsJoin ==
    ASSUME NEW q, NEW S, Among(q, S), NEW y, NEW T, Among(y, T), S \intersect T = {}
    PROVE  Among(q \o y, S \union T)
<1>1. \A i \in DOMAIN q, j \in DOMAIN y : q[i] # y[j]
  BY DEF Among
<1>2. q \o y \in Seq(Names) /\ Distinct(q \o y)
  BY <1>1, DistinctConcat DEF Among
<1>3. ASSUME NEW i \in DOMAIN (q \o y)
      PROVE  (q \o y)[i] \in S \union T
  <2>1. i \in 1 .. Len(q) + Len(y) /\ Len(q) \in Nat /\ Len(y) \in Nat
        /\ DOMAIN q = 1 .. Len(q) /\ DOMAIN y = 1 .. Len(y)
    BY <1>2, <1>3, ConcatProperties, LenProperties DEF Among
  <2>2. (q \o y)[i] = IF i <= Len(q) THEN q[i] ELSE y[i - Len(q)]
    BY <2>1, ConcatProperties DEF Among
  <2>3. i <= Len(q) \/ i - Len(q) \in DOMAIN y
    BY <2>1
  <2> QED
    BY <2>1, <2>2, <2>3 DEF Among
<1> QED
  BY <1>2, <1>3 DEF Among

LEMMA ListIsDistinct == ASSUME NEW s PROVE ListOf(s) \in Seq(Names) /\ Distinct(ListOf(s))
<1>1. ASSUME NEW arch, NEW order, <<arch, order>> \in Names
      PROVE  Among(Listed(s, arch, order), {<<arch, order>>})
  BY <1>1, ListedOnce DEF Among
<1>2. Among(SelectionModels(s), {<<"SelGNN", "deg">>, <<"SelGNN", "eds">>,
                                 <<"SelGNN", "spr">>, <<"SelGNN", "crs">>})
  <2> DEFINE L1 == Listed(s, "SelGNN", "deg")
             L2 == Listed(s, "SelGNN", "eds")
             L3 == Listed(s, "SelGNN", "spr")
             L4 == Listed(s, "SelGNN", "crs")
  <2>1. /\ Among(L1, {<<"SelGNN", "deg">>}) /\ Among(L2, {<<"SelGNN", "eds">>})
        /\ Among(L3, {<<"SelGNN", "spr">>}) /\ Among(L4, {<<"SelGNN", "crs">>})
    BY <1>1 DEF Names
  <2> HIDE DEF L1, L2, L3, L4
  <2>2. Among(L1 \o L2, {<<"SelGNN", "deg">>} \union {<<"SelGNN", "eds">>})
    BY <2>1, ListsJoin
  <2>3. Among((L1 \o L2) \o L3,
              ({<<"SelGNN", "deg">>} \union {<<"SelGNN", "eds">>}) \union {<<"SelGNN", "spr">>})
    BY <2>1, <2>2, ListsJoin
  <2>4. Among(((L1 \o L2) \o L3) \o L4,
              (({<<"SelGNN", "deg">>} \union {<<"SelGNN", "eds">>}) \union {<<"SelGNN", "spr">>})
                \union {<<"SelGNN", "crs">>})
    BY <2>1, <2>3, ListsJoin
  <2> QED
    BY <2>4 DEF SelectionModels, Among, L1, L2, L3, L4
<1>3. Among(AggregationModels(s), {<<"AggGNN", "deg">>, <<"AggGNN", "eds">>, <<"AggGNN", "spr">>})
  <2> DEFINE L1 == Listed(s, "AggGNN", "deg")
             L2 == Listed(s, "AggGNN", "eds")
             L3 == Listed(s, "AggGNN", "spr")
  <2>1. /\ Among(L1, {<<"AggGNN", "deg">>}) /\ Among(L2, {<<"AggGNN", "eds">>})
        /\ Among(L3, {<<"AggGNN", "spr">>})
    BY <1>1 DEF Names
  <2> HIDE DEF L1, L2, L3
  <2>2. Among(L1 \o L2, {<<"AggGNN", "deg">>} \union {<<"AggGNN", "eds">>})
    BY <2>1, ListsJoin
  <2>3. Among((L1 \o L2) \o L3,
              ({<<"AggGNN", "deg">>} \union {<<"AggGNN", "eds">>}) \union {<<"AggGNN", "spr">>})
    BY <2>1, <2>2, ListsJoin
  <2> QED
    BY <2>3 DEF AggregationModels, Among, L1, L2, L3
<1> DEFINE A == SelectionModels(s)
           B == AggregationModels(s)
<1> HIDE DEF A, B
<1>4. Among(A \o B, {<<"SelGNN", "deg">>, <<"SelGNN", "eds">>, <<"SelGNN", "spr">>, <<"SelGNN", "crs">>}
                      \union {<<"AggGNN", "deg">>, <<"AggGNN", "eds">>, <<"AggGNN", "spr">>})
  BY <1>2, <1>3, ListsJoin DEF A, B
<1> QED
  BY <1>4 DEF Among, ListOf, A, B

LEMMA ListFacts ==
    ASSUME NEW s
    PROVE  /\ Len(ListOf(s)) \in Nat /\ DOMAIN ListOf(s) = 1 .. Len(ListOf(s))
           /\ \A i \in DOMAIN ListOf(s) : ListOf(s)[i] \in ModelsOf(s)
           /\ \A m \in ModelsOf(s) : \E i \in DOMAIN ListOf(s) : m = ListOf(s)[i]
           /\ \A i, j \in DOMAIN ListOf(s) : ListOf(s)[i] = ListOf(s)[j] => i = j
           /\ ModelsOf(s) # {} <=> Len(ListOf(s)) > 0
<1>1. ListOf(s) \in Seq(Names) /\ Distinct(ListOf(s))
  BY ListIsDistinct
<1>2. Len(ListOf(s)) \in Nat /\ DOMAIN ListOf(s) = 1 .. Len(ListOf(s))
  BY <1>1, LenProperties
<1>3. ModelsOf(s) = {ListOf(s)[i] : i \in DOMAIN ListOf(s)}
  BY DEF ModelsOf, Range
<1>4. ModelsOf(s) # {} <=> Len(ListOf(s)) > 0
  BY <1>2, <1>3
<1> QED
  BY <1>1, <1>2, <1>3, <1>4 DEF Distinct

\* Names tell the model, the graph and the realization apart.
LEMMA NamesDiffer ==
    ASSUME NEW s, s.graphs \in Nat \ {0}, s.realizations \in Nat \ {0},
           NEW m, NEW n,
           NEW g \in 1 .. s.graphs, NEW h \in 1 .. s.graphs,
           NEW r \in 1 .. s.realizations, NEW x \in 1 .. s.realizations,
           NameOf(s, m, g, r) = NameOf(s, n, h, x)
    PROVE  m = n /\ g = h /\ r = x
<1>1. /\ m = n
      /\ (IF s.graphs > 1 THEN g ELSE 0) = (IF s.graphs > 1 THEN h ELSE 0)
      /\ (IF s.realizations > 1 THEN r ELSE 0) = (IF s.realizations > 1 THEN x ELSE 0)
  BY DEF NameOf
<1> QED
  BY <1>1

-----------------------------------------------------------------------------
(* Types, and what an action does to the variables of its run.              *)

TypeOf(s, v) ==
    /\ DOMAIN v = Fields
    /\ v.pc \in Labels
    /\ v.second \in 0 .. MaxSecond
    /\ v.pc # "start" => v.second # 0
    /\ v.graph \in 0 .. s.graphs
    /\ v.realization \in 0 .. s.realizations
    /\ v.at \in 1 .. Len(ListOf(s)) + 1
    /\ v.pc \in {"last", "evaluate last"} => v.at <= Len(ListOf(s))

TypeInv ==
    /\ setting \in Settings
    /\ clock \in Seconds
    /\ DOMAIN report = Seconds /\ DOMAIN saved = Seconds
    /\ DOMAIN run = Runs
    /\ \A p \in Runs : TypeOf(setting, run[p])

\* An action of p leaves the settings and all other runs alone, and of its own
\* variables all but those in F.
Changes(p, F) ==
    /\ setting' = setting
    /\ DOMAIN run' = Runs
    /\ \A q \in Runs \ {p} : run'[q] = run[q]
    /\ DOMAIN run'[p] = Fields
    /\ \A f \in Fields \ F : run'[p][f] = run[p][f]

\* The records have their fields.
LEMMA Shape ==
    ASSUME TypeInv
    PROVE  DOMAIN run = Runs /\ DOMAIN report = Seconds /\ \A p \in Runs : DOMAIN run[p] = Fields
BY DEF TypeInv, TypeOf

LEMMA Goes ==
    ASSUME TypeInv, NEW p \in Runs, NEW l, setting' = setting, run' = Goto(p, l)
    PROVE  Changes(p, {"pc"}) /\ run'[p].pc = l
BY DEF TypeInv, TypeOf, Goto, Changes, Fields

LEMMA StartEffect ==
    ASSUME TypeInv, NEW p \in Runs, Start(p)
    PROVE  /\ Changes(p, {"pc", "second"})
           /\ run[p].pc = "start" /\ run'[p].pc \in {"open", "make"} /\ run'[p].second = clock
           /\ UNCHANGED <<clock, disk>>
BY DEF TypeInv, TypeOf, Start, Changes, Fields

\* The actions that only go on.
Moves(p) == MakeDirectory(p) \/ DirectoryExists(p) \/ NewGraphRaises(p) \/ GraphsDone(p)
              \/ RealizationsDone(p) \/ EvaluationDone(p) \/ MakeFigures(p) \/ FiguresExist(p)

LEMMA MoveEffect ==
    ASSUME TypeInv, NEW p \in Runs, Moves(p)
    PROVE  /\ Changes(p, {"pc"}) /\ UNCHANGED <<clock, report, saved>>
           /\ \/ run[p].pc = "make" /\ run'[p].pc \in {"open", "failed"}
              \/ run[p].pc = "graph" /\ run'[p].pc = "failed" /\ ~setting.doFigs
              \/ run[p].pc = "graph" /\ run'[p].pc = "statistics" /\ run[p].graph = setting.graphs
              \/ run[p].pc = "data" /\ run'[p].pc = "graph" /\ run[p].realization = setting.realizations
              \/ run[p].pc = "evaluate" /\ run'[p].pc = "data" /\ ~MoreModels(p)
              \/ run[p].pc = "make figures" /\ run'[p].pc \in {"plot", "failed"}
BY Goes DEF Moves, MakeDirectory, DirectoryExists, NewGraphRaises, GraphsDone, RealizationsDone,
   EvaluationDone, MakeFigures, FiguresExist, disk

LEMMA OpenReportEffect ==
    ASSUME TypeInv, NEW p \in Runs, OpenReport(p)
    PROVE  /\ Changes(p, {"pc", "costBest", "costLast", "curves"})
           /\ run[p].pc = "open" /\ run'[p].pc = (IF setting.facebook THEN "load" ELSE "graph")
           /\ run'[p].costBest = PerGraph(<<>>) /\ run'[p].costLast = PerGraph(<<>>)
           /\ run'[p].curves = (IF setting.doFigs THEN PerGraph(<<>>) ELSE <<>>)
           /\ report' = [report EXCEPT ![run[p].second] = {}]
           /\ UNCHANGED <<clock, saved>>
BY DEF TypeInv, TypeOf, OpenReport, Changes, Fields

LEMMA LoadGraphEffect ==
    ASSUME TypeInv, NEW p \in Runs, LoadGraph(p)
    PROVE  /\ Changes(p, {"pc", "G"})
           /\ run[p].pc = "load" /\ run'[p].pc = "graph" /\ run'[p].G = 1
           /\ UNCHANGED <<clock, disk>>
BY DEF TypeInv, TypeOf, LoadGraph, Changes, Fields

\* The lists of models of a graph that is new.
Emptied(lists, g) == [m \in Models |-> [lists[m] EXCEPT ![g] = <<>>]]

LEMMA NewGraphEffect ==
    ASSUME TypeInv, NEW p \in Runs, NewGraph(p)
    PROVE  /\ Changes(p, {"pc", "graph", "costBest", "costLast", "curves", "G", "realization"})
           /\ run[p].pc = "graph" /\ run[p].graph < setting.graphs /\ run'[p].pc = "data"
           /\ setting.doFigs \/ Models = {}
           /\ run'[p].graph = run[p].graph + 1 /\ run'[p].realization = 0
           /\ run'[p].G = (IF setting.facebook THEN run[p].G ELSE run[p].graph + 1)
           /\ run'[p].costBest = Emptied(run[p].costBest, run[p].graph + 1)
           /\ run'[p].costLast = Emptied(run[p].costLast, run[p].graph + 1)
           /\ run'[p].curves = Emptied(run[p].curves, run[p].graph + 1)
           /\ UNCHANGED <<clock, disk>>
<1>1. Changes(p, {"pc", "graph", "costBest", "costLast", "curves", "G", "realization"})
  BY Shape, ZenonT(60) DEF NewGraph, Changes, Fields
<1>2. /\ run[p].pc = "graph" /\ run[p].graph < setting.graphs
      /\ setting.doFigs \/ Models = {}
      /\ UNCHANGED <<clock, disk>>
  BY DEF NewGraph
<1> DEFINE g == run[p].graph + 1
<1>3. run' = [run EXCEPT ![p].graph = g,
                         ![p].costBest = Emptied(run[p].costBest, g),
                         ![p].costLast = Emptied(run[p].costLast, g),
                         ![p].curves = Emptied(run[p].curves, g),
                         ![p].G = IF setting.facebook THEN run[p].G ELSE g,
                         ![p].realization = 0,
                         ![p].pc = "data"]
  BY Shape DEF NewGraph, Fields, Emptied
<1>4. /\ run'[p].costBest = Emptied(run[p].costBest, g)
      /\ run'[p].costLast = Emptied(run[p].costLast, g)
      /\ run'[p].curves = Emptied(run[p].curves, g)
      /\ run'[p].pc = "data" /\ run'[p].graph = g /\ run'[p].realization = 0
      /\ run'[p].G = IF setting.facebook THEN run[p].G ELSE g
  <2> HIDE DEF g
  <2> QED
    BY <1>3, Shape DEF Fields
<1> QED
  BY <1>1, <1>2, <1>4

LEMMA NewDataEffect ==
    ASSUME TypeInv, NEW p \in Runs, NewData(p)
    PROVE  /\ Changes(p, {"pc", "realization", "data"})
           /\ run[p].pc = "data" /\ run[p].realization < setting.realizations /\ run'[p].pc = "build"
           /\ run'[p].realization = run[p].realization + 1
           /\ run'[p].data = [run |-> p, G |-> run[p].G, realization |-> run[p].realization + 1]
           /\ UNCHANGED <<clock, disk>>
BY DEF TypeInv, TypeOf, NewData, Changes, Fields

LEMMA BuildModelsEffect ==
    ASSUME TypeInv, NEW p \in Runs, BuildModels(p)
    PROVE  /\ Changes(p, {"pc", "models", "optionsPer", "at"})
           /\ run[p].pc = "build" /\ run'[p].pc = "train" /\ run'[p].at = 1
           /\ run'[p].optionsPer = [m \in Models |-> run[p].options]
           /\ run'[p].models =
                [n \in {ThisName(m, run[p].graph, run[p].realization) : m \in Models} |->
                    [model |-> n.model, G |-> run[p].G, version |-> "new"]]
           /\ UNCHANGED <<clock, disk>>
BY DEF TypeInv, TypeOf, BuildModels, Changes, Fields

LEMMA TrainEffect ==
    ASSUME TypeInv, NEW p \in Runs, Train(p)
    PROVE  /\ Changes(p, {"pc", "options"})
           /\ run[p].pc = "train" /\ run'[p].pc = "last" /\ MoreModels(p)
           /\ run'[p].options = Numbered(run[p].options, run[p])
           /\ saved' = [saved EXCEPT ![run[p].second] = Put(@, <<Current(p), "Best">>, Trained(p, "Best"))]
           /\ UNCHANGED <<clock, report>>
BY DEF TypeInv, TypeOf, Train, Changes, Fields

LEMMA TrainReturnsEffect ==
    ASSUME TypeInv, NEW p \in Runs, TrainReturns(p)
    PROVE  LET m == ModelName(Current(p))
               g == run[p].graph
               last == Trained(p, "Last")
           IN  /\ Changes(p, {"pc", "models", "curves", "at"})
               /\ run[p].pc = "last" /\ run'[p].pc = "train" /\ run'[p].at = run[p].at + 1
               /\ run'[p].models = [run[p].models EXCEPT ![Current(p)] = last]
               /\ setting.doFigs => run'[p].curves = Filed(run[p].curves, m, g, last)
               /\ ~setting.doFigs => run'[p].curves = run[p].curves
               /\ saved' = [saved EXCEPT ![run[p].second] = Put(@, <<Current(p), "Last">>, last)]
               /\ UNCHANGED <<clock, report>>
<1>1. Changes(p, {"pc", "models", "curves", "at"})
  BY Shape DEF TrainReturns, Changes, Fields
<1>2. run[p].pc = "last" /\ run'[p].pc = "train" /\ run'[p].at = run[p].at + 1
  BY Shape DEF TrainReturns, Changes, Fields
<1>3. run'[p].models = [run[p].models EXCEPT ![Current(p)] = Trained(p, "Last")]
  BY Shape DEF TrainReturns, Changes, Fields
<1>4. setting.doFigs => run'[p].curves = Filed(run[p].curves, ModelName(Current(p)), run[p].graph,
                                                Trained(p, "Last"))
  BY Shape DEF TrainReturns, Changes, Fields
<1>5. ~setting.doFigs => run'[p].curves = run[p].curves
  BY Shape DEF TrainReturns, Changes, Fields
<1>6. /\ saved' = [saved EXCEPT ![run[p].second] = Put(@, <<Current(p), "Last">>, Trained(p, "Last"))]
      /\ UNCHANGED <<clock, report>>
  BY Shape DEF TrainReturns, Changes, Fields
<1> QED
  BY <1>1, <1>2, <1>3, <1>4, <1>5, <1>6

LEMMA TrainingDoneEffect ==
    ASSUME TypeInv, NEW p \in Runs, TrainingDone(p)
    PROVE  /\ Changes(p, {"pc", "at"})
           /\ run[p].pc = "train" /\ ~MoreModels(p) /\ run'[p].at = 1
           /\ run'[p].pc = (IF setting.doFigs /\ Models = {} THEN "failed" ELSE "evaluate")
           /\ UNCHANGED <<clock, disk>>
BY DEF TypeInv, TypeOf, TrainingDone, Changes, Fields

LEMMA EvaluateBestEffect ==
    ASSUME TypeInv, NEW p \in Runs, EvaluateBest(p)
    PROVE  /\ Changes(p, {"pc", "best"})
           /\ run[p].pc = "evaluate" /\ MoreModels(p) /\ run'[p].pc = "evaluate last"
           /\ run'[p].best = [weights |-> saved[run[p].second][<<Current(p), "Best">>], data |-> run[p].data]
           /\ UNCHANGED <<clock, disk>>
BY DEF TypeInv, TypeOf, EvaluateBest, Changes, Fields

LEMMA EvaluateLastEffect ==
    ASSUME TypeInv, NEW p \in Runs, EvaluateLast(p)
    PROVE  LET m == ModelName(Current(p))
               g == run[p].graph
               last == [weights |-> saved[run[p].second][<<Current(p), "Last">>], data |-> run[p].data]
           IN  /\ Changes(p, {"pc", "best", "costBest", "costLast", "at"})
               /\ run[p].pc = "evaluate last" /\ run'[p].pc = "evaluate" /\ run'[p].at = run[p].at + 1
               /\ run'[p].costBest = Filed(run[p].costBest, m, g, run[p].best)
               /\ run'[p].costLast = Filed(run[p].costLast, m, g, last)
               /\ report' = [report EXCEPT ![run[p].second] =
                                @ \union {[name |-> Current(p), best |-> run[p].best, last |-> last]}]
               /\ UNCHANGED <<clock, saved>>
<1>1. Changes(p, {"pc", "best", "costBest", "costLast", "at"})
  BY Shape, ZenonT(60) DEF EvaluateLast, Changes, Fields
<1>2. run[p].pc = "evaluate last" /\ run'[p].pc = "evaluate" /\ run'[p].at = run[p].at + 1
  BY Shape, ZenonT(60) DEF EvaluateLast, Fields
<1>3. run'[p].costBest = Filed(run[p].costBest, ModelName(Current(p)), run[p].graph, run[p].best)
  BY Shape DEF EvaluateLast, Changes, Fields
<1>4. run'[p].costLast = Filed(run[p].costLast, ModelName(Current(p)), run[p].graph,
                             [weights |-> saved[run[p].second][<<Current(p), "Last">>], data |-> run[p].data])
  BY Shape DEF EvaluateLast, Changes, Fields
<1>5. UNCHANGED <<clock, saved>>
  BY Shape DEF EvaluateLast, Changes, Fields
<1>6. report' = [report EXCEPT ![run[p].second] =
                  @ \union {[name |-> Current(p), best |-> run[p].best,
                             last |-> [weights |-> saved[run[p].second][<<Current(p), "Last">>],
                                       data |-> run[p].data]]}]
  BY Shape DEF EvaluateLast, Changes, Fields
<1> QED
  BY <1>1, <1>2, <1>3, <1>4, <1>5, <1>6

LEMMA StatisticsEffect ==
    ASSUME TypeInv, NEW p \in Runs, Statistics(p)
    PROVE  /\ Changes(p, {"pc", "mean"})
           /\ run[p].pc = "statistics" /\ run'[p].pc \in {"done", "plot", "make figures"}
           /\ run'[p].pc # "done" => setting.doFigs
           /\ run'[p].mean = [m \in Models |-> [costBest |-> CostGroups(run[p].costBest[m]),
                                                costLast |-> CostGroups(run[p].costLast[m])]]
           /\ UNCHANGED <<clock, disk>>
BY DEF TypeInv, TypeOf, Statistics, Changes, Fields

LEMMA PlotEffect ==
    ASSUME TypeInv, NEW p \in Runs, Plot(p)
    PROVE  /\ Changes(p, {"pc", "figure"})
           /\ run[p].pc = "plot" /\ run'[p].pc = "done"
           /\ run'[p].figure = [groups |-> [m \in Models |-> CurveGroups(run[p].curves[m])],
                                xTrain |-> xTrain, train |-> selectSamplesTrain,
                                xValid |-> xValid, valid |-> selectSamplesValid]
           /\ UNCHANGED <<clock, disk>>
BY DEF TypeInv, TypeOf, Plot, Changes, Fields

-----------------------------------------------------------------------------
LEMMA SettingsFacts ==
    ASSUME TypeInv
    PROVE  /\ setting.graphs \in Nat \ {0} /\ setting.realizations \in Nat \ {0}
           /\ setting.epochs \in Nat \ {0} /\ setting.batches \in Nat \ {0} /\ setting.interval \in Nat \ {0}
           /\ setting.everyTrain \in Nat \ {0} /\ setting.everyValid \in Nat \ {0}
           /\ setting.facebook => setting.graphs = 1
           /\ Seconds \subseteq Nat \ {0} /\ MaxSecond \in Nat \ {0}
           /\ Len(modelList) = Len(ListOf(setting)) /\ Len(modelList) \in Nat
<1>1. /\ {setting.graphs, setting.realizations} \subseteq Nat \ {0}
      /\ {setting.epochs, setting.batches, setting.interval, setting.everyTrain, setting.everyValid}
            \subseteq Nat \ {0}
      /\ setting.facebook => setting.graphs = 1
  BY SettingsAssumption DEF TypeInv
<1>2. Seconds \subseteq Nat \ {0} /\ MaxSecond \in Nat \ {0}
  BY SecondsAssumption DEF Seconds
<1>3. Len(modelList) = Len(ListOf(setting)) /\ Len(modelList) \in Nat
  BY InTermsOfSettings, ListFacts
<1> QED
  BY <1>1, <1>2, <1>3

LEMMA OthersStay ==
    ASSUME TypeInv, NEW p \in Runs, NEW F, Changes(p, F), TypeOf(setting, run'[p]), clock' \in Seconds,
           DOMAIN report' = Seconds, DOMAIN saved' = Seconds
    PROVE  TypeInv'
<1>1. setting' = setting /\ DOMAIN run' = Runs /\ \A q \in Runs \ {p} : run'[q] = run[q]
  BY DEF Changes
<1>2. \A q \in Runs : TypeOf(setting, run'[q])
  BY <1>1 DEF TypeInv
<1>3. setting \in Settings /\ Seconds' = Seconds
  BY DEF TypeInv, Seconds
<1> QED
  BY <1>1, <1>2, <1>3 DEF TypeInv

LEMMA TypeInit == Init => TypeInv
<1> SUFFICES ASSUME Init PROVE TypeInv
  OBVIOUS
<1>1. \A p \in Runs : run[p] = Fresh
  BY DEF Init
<1>2. /\ setting \in Settings /\ clock = 1
      /\ DOMAIN run = Runs /\ DOMAIN report = Seconds /\ DOMAIN saved = Seconds
  BY DEF Init
<1>3. setting.graphs \in Nat /\ setting.realizations \in Nat
  BY <1>2, SettingsAssumption
<1>4. TypeOf(setting, Fresh)
  <2>1. Len(ListOf(setting)) \in Nat
    BY ListFacts
  <2> QED
    BY <1>3, <2>1, SecondsAssumption DEF TypeOf, Fresh, Fields, Labels, Early
<1> QED
  BY <1>1, <1>2, <1>4, SecondsAssumption DEF TypeInv, Seconds

LEMMA StepCases ==
    ASSUME NEW p, Step(p)
    PROVE  \/ Start(p) \/ Moves(p) \/ OpenReport(p) \/ LoadGraph(p) \/ NewGraph(p) \/ NewData(p)
           \/ BuildModels(p) \/ Train(p) \/ TrainReturns(p) \/ TrainingDone(p)
           \/ EvaluateBest(p) \/ EvaluateLast(p) \/ Statistics(p) \/ Plot(p)
BY DEF Step, Moves

LEMMA TypeStep == ASSUME TypeInv, [Next]_vars PROVE TypeInv'
<1>1. CASE UNCHANGED vars
  BY <1>1, InTermsOfSettings DEF TypeInv, vars, disk, Seconds
<1>2. CASE Tick
  BY <1>2, SecondsAssumption DEF TypeInv, Tick, disk, Seconds
<1>3. ASSUME NEW p \in Runs, Step(p)
      PROVE  TypeInv'
  <2> DEFINE s == setting
             v == run[p]
  <2>1. TypeOf(s, v) /\ clock \in Seconds /\ DOMAIN report = Seconds /\ DOMAIN saved = Seconds
    BY DEF TypeInv
  <2>0. s.graphs \in Nat /\ s.realizations \in Nat /\ Len(ListOf(s)) \in Nat
    BY SettingsFacts
  <2>2. CASE Start(p)
    <3>1. TypeOf(s, run'[p])
      <4>1. /\ run'[p].pc \in {"open", "make"} /\ run'[p].second = clock
            /\ run'[p].graph = v.graph /\ run'[p].realization = v.realization /\ run'[p].at = v.at
        BY <2>2, StartEffect DEF Changes, Fields
      <4>2. DOMAIN run'[p] = Fields
        BY <2>2, StartEffect DEF Changes
      <4>3. run'[p].pc \in Labels
        BY <4>1 DEF Labels, Early, Inside, After
      <4>4. run'[p].second \in 0 .. MaxSecond /\ run'[p].second # 0
        BY <2>1, <4>1, SettingsFacts DEF Seconds
      <4>5. /\ run'[p].graph \in 0 .. s.graphs /\ run'[p].realization \in 0 .. s.realizations
            /\ run'[p].at \in 1 .. Len(ListOf(s)) + 1
        BY <2>0, <2>1, <4>1 DEF TypeOf
      <4>6. ~(run'[p].pc \in {"last", "evaluate last"})
        BY <4>1
      <4> QED
        BY <4>2, <4>3, <4>4, <4>5, <4>6 DEF TypeOf
    <3> QED
      BY <2>1, <2>2, <3>1, StartEffect, OthersStay DEF disk
  <2>3. CASE Moves(p)
    <3>1. TypeOf(s, run'[p])
      BY <2>1, <2>3, MoveEffect DEF Changes, TypeOf, Fields, Labels, Early, Inside, After
    <3> QED
      BY <2>1, <2>3, <3>1, MoveEffect, OthersStay
  <2>4. CASE OpenReport(p)
    <3>1. TypeOf(s, run'[p])
      BY <2>1, <2>4, OpenReportEffect DEF Changes, TypeOf, Fields, Labels, Early, Inside, After
    <3> QED
      BY <2>1, <2>4, <3>1, OpenReportEffect, OthersStay
  <2>5. CASE LoadGraph(p)
    <3>1. TypeOf(s, run'[p])
      BY <2>1, <2>5, LoadGraphEffect DEF Changes, TypeOf, Fields, Labels, Early, Inside, After
    <3> QED
      BY <2>1, <2>5, <3>1, LoadGraphEffect, OthersStay DEF disk
  <2>6. CASE NewGraph(p)
    <3>1. TypeOf(s, run'[p])
      <4>1. /\ run'[p].pc = "data" /\ run'[p].second = v.second /\ v.pc = "graph"
            /\ run'[p].graph = v.graph + 1 /\ v.graph < s.graphs /\ run'[p].realization = 0 /\ run'[p].at = v.at
        BY <2>6, NewGraphEffect DEF Changes, Fields
      <4>2. DOMAIN run'[p] = Fields
        BY <2>6, NewGraphEffect DEF Changes
      <4>3. run'[p].pc \in Labels
        BY <4>1 DEF Labels, Early, Inside, After
      <4>4. run'[p].second \in 0 .. MaxSecond /\ run'[p].second # 0
        BY <2>1, <4>1 DEF TypeOf
      <4>5. /\ run'[p].graph \in 0 .. s.graphs /\ run'[p].realization \in 0 .. s.realizations
            /\ run'[p].at \in 1 .. Len(ListOf(s)) + 1
        BY <2>0, <2>1, <4>1 DEF TypeOf
      <4>6. ~(run'[p].pc \in {"last", "evaluate last"})
        BY <4>1
      <4> QED
        BY <4>2, <4>3, <4>4, <4>5, <4>6 DEF TypeOf
    <3> QED
      BY <2>1, <2>6, <3>1, NewGraphEffect, OthersStay DEF disk
  <2>7. CASE NewData(p)
    <3>1. TypeOf(s, run'[p])
      <4>1. /\ run'[p].pc = "build" /\ run'[p].second = v.second /\ v.pc = "data"
            /\ run'[p].graph = v.graph /\ run'[p].at = v.at
            /\ run'[p].realization = v.realization + 1 /\ v.realization < s.realizations
        BY <2>7, NewDataEffect, ZenonT(60) DEF Changes, Fields
      <4>2. DOMAIN run'[p] = Fields
        BY <2>7, NewDataEffect DEF Changes
      <4>3. run'[p].pc \in Labels
        BY <4>1 DEF Labels, Early, Inside, After
      <4>4. run'[p].second \in 0 .. MaxSecond /\ run'[p].second # 0
        BY <2>1, <4>1 DEF TypeOf
      <4>5. /\ run'[p].graph \in 0 .. s.graphs /\ run'[p].realization \in 0 .. s.realizations
            /\ run'[p].at \in 1 .. Len(ListOf(s)) + 1
        BY <2>0, <2>1, <4>1 DEF TypeOf
      <4>6. ~(run'[p].pc \in {"last", "evaluate last"})
        BY <4>1
      <4> QED
        BY <4>2, <4>3, <4>4, <4>5, <4>6 DEF TypeOf
    <3> QED
      BY <2>1, <2>7, <3>1, NewDataEffect, OthersStay DEF disk
  <2>8. CASE BuildModels(p)
    <3>1. TypeOf(s, run'[p])
      <4>0. /\ Changes(p, {"pc", "models", "optionsPer", "at"})
            /\ run[p].pc = "build" /\ run'[p].pc = "train" /\ run'[p].at = 1
        BY <2>8, BuildModelsEffect
      <4>1. /\ run'[p].pc = "train" /\ run'[p].second = v.second /\ v.pc = "build"
            /\ run'[p].graph = v.graph /\ run'[p].realization = v.realization /\ run'[p].at = 1
        BY <4>0 DEF Changes, Fields
      <4>2. DOMAIN run'[p] = Fields
        BY <2>8, BuildModelsEffect DEF Changes
      <4>3. run'[p].pc \in Labels
        BY <4>1 DEF Labels, Early, Inside, After
      <4>4. run'[p].second \in 0 .. MaxSecond /\ run'[p].second # 0
        BY <2>1, <4>1 DEF TypeOf
      <4>5. /\ run'[p].graph \in 0 .. s.graphs /\ run'[p].realization \in 0 .. s.realizations
            /\ run'[p].at \in 1 .. Len(ListOf(s)) + 1
        BY <2>0, <2>1, <4>1 DEF TypeOf
      <4>6. ~(run'[p].pc \in {"last", "evaluate last"})
        BY <4>1
      <4> QED
        BY <4>2, <4>3, <4>4, <4>5, <4>6 DEF TypeOf
    <3> QED
      BY <2>1, <2>8, <3>1, BuildModelsEffect, OthersStay DEF disk
  <2>9. CASE Train(p)
    <3>1. TypeOf(s, run'[p])
      BY <2>1, <2>9, TrainEffect, SettingsFacts
         DEF Changes, TypeOf, Fields, Labels, Early, Inside, After, MoreModels
    <3> QED
      BY <2>1, <2>9, <3>1, TrainEffect, OthersStay
  <2>10. CASE TrainReturns(p)
    <3>1. TypeOf(s, run'[p])
      <4>0. /\ Changes(p, {"pc", "models", "curves", "at"})
            /\ run[p].pc = "last" /\ run'[p].pc = "train" /\ run'[p].at = run[p].at + 1
        BY <2>10, TrainReturnsEffect
      <4>1. /\ run'[p].pc = "train" /\ run'[p].second = v.second /\ v.pc = "last"
            /\ run'[p].graph = v.graph /\ run'[p].realization = v.realization /\ run'[p].at = v.at + 1
        BY <4>0 DEF Changes, Fields
      <4>2. DOMAIN run'[p] = Fields
        BY <2>10, TrainReturnsEffect DEF Changes
      <4>3. run'[p].pc \in Labels
        BY <4>1 DEF Labels, Early, Inside, After
      <4>4. run'[p].second \in 0 .. MaxSecond /\ run'[p].second # 0
        BY <2>1, <4>1 DEF TypeOf
      <4>5. /\ run'[p].graph \in 0 .. s.graphs /\ run'[p].realization \in 0 .. s.realizations
            /\ run'[p].at \in 1 .. Len(ListOf(s)) + 1
        BY <2>0, <2>1, <4>1 DEF TypeOf
      <4>6. ~(run'[p].pc \in {"last", "evaluate last"})
        BY <4>1
      <4> QED
        BY <4>2, <4>3, <4>4, <4>5, <4>6 DEF TypeOf
    <3> QED
      BY <2>1, <2>10, <3>1, TrainReturnsEffect, OthersStay
  <2>11. CASE TrainingDone(p)
    <3>1. TypeOf(s, run'[p])
      <4>1. /\ run'[p].pc \in {"failed", "evaluate"} /\ run'[p].second = v.second
            /\ v.pc = "train" /\ run'[p].graph = v.graph /\ run'[p].realization = v.realization /\ run'[p].at = 1
        BY <2>11, TrainingDoneEffect DEF Changes, Fields
      <4>2. DOMAIN run'[p] = Fields
        BY <2>11, TrainingDoneEffect DEF Changes
      <4>3. run'[p].pc \in Labels
        BY <4>1 DEF Labels, Early, Inside, After
      <4>4. run'[p].second \in 0 .. MaxSecond /\ run'[p].second # 0
        BY <2>1, <4>1 DEF TypeOf
      <4>5. /\ run'[p].graph \in 0 .. s.graphs /\ run'[p].realization \in 0 .. s.realizations
            /\ run'[p].at \in 1 .. Len(ListOf(s)) + 1
        BY <2>0, <2>1, <4>1 DEF TypeOf
      <4>6. ~(run'[p].pc \in {"last", "evaluate last"})
        BY <4>1
      <4> QED
        BY <4>2, <4>3, <4>4, <4>5, <4>6 DEF TypeOf
    <3> QED
      BY <2>1, <2>11, <3>1, TrainingDoneEffect, OthersStay DEF disk
  <2>12. CASE EvaluateBest(p)
    <3>1. TypeOf(s, run'[p])
      BY <2>1, <2>12, EvaluateBestEffect, SettingsFacts, ZenonT(60)
         DEF Changes, TypeOf, Fields, Labels, Early, Inside, After, MoreModels
    <3> QED
      BY <2>1, <2>12, <3>1, EvaluateBestEffect, OthersStay DEF disk
  <2>13. CASE EvaluateLast(p)
    <3>1. TypeOf(s, run'[p])
      <4>0. /\ Changes(p, {"pc", "best", "costBest", "costLast", "at"})
            /\ run[p].pc = "evaluate last" /\ run'[p].pc = "evaluate" /\ run'[p].at = run[p].at + 1
        BY <2>13, EvaluateLastEffect
      <4>1. /\ run'[p].pc = "evaluate" /\ run'[p].second = v.second /\ v.pc = "evaluate last"
            /\ run'[p].graph = v.graph /\ run'[p].realization = v.realization /\ run'[p].at = v.at + 1
        BY <4>0 DEF Changes, Fields
      <4>2. DOMAIN run'[p] = Fields
        BY <2>13, EvaluateLastEffect DEF Changes
      <4>3. run'[p].pc \in Labels
        BY <4>1 DEF Labels, Early, Inside, After
      <4>4. run'[p].second \in 0 .. MaxSecond /\ run'[p].second # 0
        BY <2>1, <4>1 DEF TypeOf
      <4>5. /\ run'[p].graph \in 0 .. s.graphs /\ run'[p].realization \in 0 .. s.realizations
            /\ run'[p].at \in 1 .. Len(ListOf(s)) + 1
        <5>1. v.at \in 1 .. Len(ListOf(s)) + 1 /\ v.at <= Len(ListOf(s))
          BY <2>1, <4>1 DEF TypeOf
        <5>2. v.graph \in 0 .. s.graphs /\ v.realization \in 0 .. s.realizations
          BY <2>1 DEF TypeOf
        <5>3. v.at + 1 \in 1 .. Len(ListOf(s)) + 1
          BY <2>0, <5>1
        <5> QED
          BY <4>1, <5>2, <5>3
      <4>6. ~(run'[p].pc \in {"last", "evaluate last"})
        BY <4>1
      <4> QED
        BY <4>2, <4>3, <4>4, <4>5, <4>6 DEF TypeOf
    <3> QED
      BY <2>1, <2>13, <3>1, EvaluateLastEffect, OthersStay
  <2>14. CASE Statistics(p)
    <3>1. TypeOf(s, run'[p])
      BY <2>1, <2>14, StatisticsEffect DEF Changes, TypeOf, Fields, Labels, Early, Inside, After
    <3> QED
      BY <2>1, <2>14, <3>1, StatisticsEffect, OthersStay DEF disk
  <2>15. CASE Plot(p)
    <3>1. TypeOf(s, run'[p])
      BY <2>1, <2>15, PlotEffect DEF Changes, TypeOf, Fields, Labels, Early, Inside, After
    <3> QED
      BY <2>1, <2>15, <3>1, PlotEffect, OthersStay DEF disk
  <2> QED
    BY <1>3, <2>2, <2>3, <2>4, <2>5, <2>6, <2>7, <2>8, <2>9, <2>10, <2>11, <2>12, <2>13, <2>14, <2>15,
       StepCases
<1> QED
  BY <1>1, <1>2, <1>3 DEF Next

\* Every variable keeps its range, and a run that trains or evaluates has a
\* model to go on with.
THEOREM Ranges == Spec => []TypeInv
<1>1. Init => TypeInv
  BY TypeInit
<1>2. TypeInv /\ [Next]_vars => TypeInv'
  BY TypeStep
<1> QED
  BY <1>1, <1>2, PTL DEF Spec

\* Some variables have one action only that changes them.
LEMMA OnlyBy ==
    ASSUME TypeInv, NEW p \in Runs, Step(p)
    PROVE  /\ setting' = setting /\ \A q \in Runs \ {p} : run'[q] = run[q]
           /\ ~Plot(p) => run'[p].figure = run[p].figure
           /\ ~Statistics(p) => run'[p].mean = run[p].mean
           /\ ~Train(p) => run'[p].options = run[p].options
           /\ ~BuildModels(p) => run'[p].optionsPer = run[p].optionsPer
           /\ ~Start(p) => run'[p].second = run[p].second
<1>1. CASE Start(p)
  <2>1. Changes(p, {"pc", "second"})
    BY <1>1, StartEffect
  <2> QED
    BY <1>1, <2>1 DEF Changes, Fields
<1>2. CASE Moves(p)
  <2>1. Changes(p, {"pc"})
    BY <1>2, MoveEffect
  <2> QED
    BY <1>2, <2>1 DEF Changes, Fields
<1>3. CASE OpenReport(p)
  <2>1. Changes(p, {"pc", "costBest", "costLast", "curves"})
    BY <1>3, OpenReportEffect
  <2> QED
    BY <1>3, <2>1 DEF Changes, Fields
<1>4. CASE LoadGraph(p)
  <2>1. Changes(p, {"pc", "G"})
    BY <1>4, LoadGraphEffect
  <2> QED
    BY <1>4, <2>1 DEF Changes, Fields
<1>5. CASE NewGraph(p)
  <2>1. Changes(p, {"pc", "graph", "costBest", "costLast", "curves", "G", "realization"})
    BY <1>5, NewGraphEffect
  <2> QED
    BY <1>5, <2>1 DEF Changes, Fields
<1>6. CASE NewData(p)
  <2>1. Changes(p, {"pc", "realization", "data"})
    BY <1>6, NewDataEffect
  <2> QED
    BY <1>6, <2>1 DEF Changes, Fields
<1>7. CASE BuildModels(p)
  <2>1. Changes(p, {"pc", "models", "optionsPer", "at"})
    BY <1>7, BuildModelsEffect
  <2> QED
    BY <1>7, <2>1 DEF Changes, Fields
<1>8. CASE Train(p)
  <2>1. Changes(p, {"pc", "options"})
    BY <1>8, TrainEffect
  <2> QED
    BY <1>8, <2>1 DEF Changes, Fields
<1>9. CASE TrainReturns(p)
  <2>1. Changes(p, {"pc", "models", "curves", "at"})
    BY <1>9, TrainReturnsEffect
  <2> QED
    BY <1>9, <2>1 DEF Changes, Fields
<1>10. CASE TrainingDone(p)
  <2>1. Changes(p, {"pc", "at"})
    BY <1>10, TrainingDoneEffect
  <2> QED
    BY <1>10, <2>1 DEF Changes, Fields
<1>11. CASE EvaluateBest(p)
  <2>1. Changes(p, {"pc", "best"})
    BY <1>11, EvaluateBestEffect
  <2> QED
    BY <1>11, <2>1 DEF Changes, Fields
<1>12. CASE EvaluateLast(p)
  <2>1. Changes(p, {"pc", "best", "costBest", "costLast", "at"})
    BY <1>12, EvaluateLastEffect
  <2> QED
    BY <1>12, <2>1 DEF Changes, Fields
<1>13. CASE Statistics(p)
  <2>1. Changes(p, {"pc", "mean"})
    BY <1>13, StatisticsEffect
  <2> QED
    BY <1>13, <2>1 DEF Changes, Fields
<1>14. CASE Plot(p)
  <2>1. Changes(p, {"pc", "figure"})
    BY <1>14, PlotEffect
  <2> QED
    BY <1>14, <2>1 DEF Changes, Fields
<1> QED
  BY <1>1, <1>2, <1>3, <1>4, <1>5, <1>6, <1>7, <1>8, <1>9, <1>10, <1>11, <1>12, <1>13, <1>14, StepCases

-----------------------------------------------------------------------------
(* The axes of the figures.                                                 *)

LEMMA TimesMonotone ==
    ASSUME NEW x \in Int, NEW y \in Int, NEW b \in Nat, x <= y
    PROVE  x * b <= y * b
<1>1. y * b = x * b + (y - x) * b
  OBVIOUS
<1>2. (y - x) * b >= 0
  <2> DEFINE k == y - x
  <2>1. k \in Nat
    OBVIOUS
  <2> HIDE DEF k
  <2>2. k * b \in Nat
    BY <2>1
  <2> QED
    BY <2>2 DEF k
<1> QED
  BY <1>1, <1>2

\* q is a / b, rounded up.
Ceiling(q, a, b) == (q - 1) * b < a /\ a <= q * b

LEMMA CeilDivIsCeiling ==
    ASSUME NEW a \in Nat \ {0}, NEW b \in Nat \ {0}
    PROVE  CeilDiv(a, b) \in Nat \ {0} /\ Ceiling(CeilDiv(a, b), a, b)
<1> DEFINE n == a + b - 1
           q == n \div b
<1>1. n \in Nat /\ n >= b
  OBVIOUS
<1>2. q \in Int /\ n = b * q + (n % b) /\ 0 <= n % b /\ n % b < b
  BY <1>1
<1>3. q > 0
  <2>1. CASE q <= 0
    <3>1. q * b <= 0 * b
      BY <1>2, <2>1, TimesMonotone
    <3> QED
      BY <1>1, <1>2, <3>1
  <2> QED
    BY <1>2, <2>1
<1>4. (q - 1) * b = b * q - b
  BY <1>2
<1>5. Ceiling(q, a, b)
  BY <1>2, <1>4 DEF Ceiling
<1> QED
  BY <1>2, <1>3, <1>5 DEF CeilDiv

LEMMA CeilingUnique ==
    ASSUME NEW a \in Nat, NEW b \in Nat, NEW q \in Int, NEW t \in Int, Ceiling(q, a, b), Ceiling(t, a, b)
    PROVE  q = t
<1>1. ~(q <= t - 1)
  <2>1. q <= t - 1 => q * b <= (t - 1) * b
    BY TimesMonotone
  <2> QED
    BY <2>1 DEF Ceiling
<1>2. ~(t <= q - 1)
  <2>1. t <= q - 1 => t * b <= (q - 1) * b
    BY TimesMonotone
  <2> QED
    BY <2>1 DEF Ceiling
<1> QED
  BY <1>1, <1>2

\* A c-th of the b-ths of a are the bc-ths of a, also when each is rounded up.
LEMMA CeilingTwice ==
    ASSUME NEW a \in Nat \ {0}, NEW b \in Nat \ {0}, NEW c \in Nat \ {0}
    PROVE  CeilDiv(CeilDiv(a, b), c) = CeilDiv(a, b * c)
<1> DEFINE q == CeilDiv(a, b)
           t == CeilDiv(q, c)
<1>1. q \in Nat \ {0} /\ Ceiling(q, a, b)
  BY CeilDivIsCeiling
<1> HIDE DEF q
<1>2. t \in Nat \ {0} /\ Ceiling(t, q, c)
  BY <1>1, CeilDivIsCeiling
<1> HIDE DEF t
<1>3. b * c \in Nat \ {0}
  OBVIOUS
<1>4. (t - 1) * (b * c) < a
  <2>1. (t - 1) * c <= q - 1 /\ (t - 1) * c \in Int
    BY <1>1, <1>2 DEF Ceiling
  <2>2. ((t - 1) * c) * b <= (q - 1) * b
    BY <1>1, <2>1, TimesMonotone
  <2>3. ((t - 1) * c) * b = (t - 1) * (b * c)
    BY <1>2
  <2> QED
    BY <1>1, <1>2, <2>2, <2>3 DEF Ceiling
<1>5. a <= t * (b * c)
  <2>1. q <= t * c /\ t * c \in Int
    BY <1>1, <1>2 DEF Ceiling
  <2>2. q * b <= (t * c) * b
    BY <1>1, <2>1, TimesMonotone
  <2>3. (t * c) * b = t * (b * c)
    BY <1>2
  <2> QED
    BY <1>1, <1>2, <2>2, <2>3 DEF Ceiling
<1>6. Ceiling(t, a, b * c)
  BY <1>4, <1>5 DEF Ceiling
<1>7. CeilDiv(a, b * c) \in Nat /\ Ceiling(CeilDiv(a, b * c), a, b * c)
  BY <1>3, CeilDivIsCeiling
<1>8. t = CeilDiv(a, b * c)
  BY <1>2, <1>3, <1>6, <1>7, CeilingUnique
<1> QED
  BY <1>8 DEF t, q

LEMMA Axes ==
    ASSUME TypeInv
    PROVE  /\ xTrain = selectSamplesTrain
           /\ xValid = [i \in DOMAIN selectSamplesValid |-> selectSamplesValid[i] * setting.interval]
           /\ \A i \in DOMAIN selectSamplesValid : selectSamplesValid[i] * setting.interval < Steps
<1> DEFINE b == setting.interval
           c == setting.everyValid
           V == Validations
           n == CeilDiv(V, c)
<1>1. b \in Nat \ {0} /\ c \in Nat \ {0} /\ setting.everyTrain \in Nat \ {0}
      /\ setting.epochs \in Nat \ {0} /\ setting.batches \in Nat \ {0}
  BY SettingsFacts
<1>2. Steps \in Nat \ {0}
  BY <1>1 DEF Steps
<1>3. V \in Nat \ {0} /\ Ceiling(V, Steps, b)
  BY <1>1, <1>2, CeilDivIsCeiling DEF Validations
<1>4. n \in Nat \ {0} /\ Ceiling(n, V, c)
  BY <1>1, <1>3, CeilDivIsCeiling
<1>5. n = CeilDiv(Steps, b * c)
  BY <1>1, <1>2, CeilingTwice DEF Validations
<1>6. selectSamplesValid = [i \in 1 .. n |-> (i - 1) * c]
  BY <1>1 DEF selectSamplesValid, Arange
<1>7. xValid = [i \in 1 .. n |-> (i - 1) * (b * c)]
  BY <1>5 DEF xValid, Arange
<1> HIDE DEF b, c, V, n
<1>8. xTrain = selectSamplesTrain
  <2>1. setting.everyTrain > 1 \/ setting.everyTrain = 1
    BY <1>1
  <2> QED
    BY <2>1 DEF xTrain, selectSamplesTrain
<1>9. xValid = [i \in DOMAIN selectSamplesValid |-> selectSamplesValid[i] * b]
  <2>1. \A i \in 1 .. n : ((i - 1) * c) * b = (i - 1) * (b * c)
    BY <1>1, <1>4 DEF b, c
  <2> QED
    BY <1>6, <1>7, <2>1
<1>10. ASSUME NEW i \in 1 .. n
       PROVE  ((i - 1) * c) * b < Steps
  <2>1. b \in Nat /\ c \in Nat /\ i \in Int /\ i - 1 <= n - 1 /\ (i - 1) * c \in Int
    BY <1>1, <1>4 DEF b, c
  <2>2. (i - 1) * c <= (n - 1) * c
    BY <1>4, <2>1, TimesMonotone
  <2>3. (i - 1) * c <= V - 1
    BY <1>3, <1>4, <2>1, <2>2 DEF Ceiling
  <2>4. ((i - 1) * c) * b <= (V - 1) * b
    BY <1>3, <2>1, <2>3, TimesMonotone
  <2> QED
    BY <1>2, <1>3, <2>1, <2>4 DEF Ceiling
<1>11. \A i \in DOMAIN selectSamplesValid : selectSamplesValid[i] * b < Steps
  BY <1>6, <1>10
<1> QED
  BY <1>8, <1>9, <1>11 DEF b

AxesOf(v) ==
    v.figure # <<>> =>
        /\ v.figure.xTrain = v.figure.train
        /\ v.figure.xValid = [i \in DOMAIN v.figure.valid |-> v.figure.valid[i] * setting.interval]
        /\ \A i \in DOMAIN v.figure.valid : v.figure.valid[i] * setting.interval < Steps

LEMMA AxesStep ==
    ASSUME TypeInv, AxesMatch, [Next]_vars
    PROVE  AxesMatch'
<1>1. \A q \in Runs : AxesOf(run[q])
  BY DEF AxesMatch, AxesOf
<1>2. SUFFICES ASSUME NEW q \in Runs PROVE AxesOf(run[q])'
  BY DEF AxesMatch, AxesOf
<1>3. ASSUME setting' = setting, run'[q].figure = run[q].figure
      PROVE  AxesOf(run[q])'
  BY <1>1, <1>3 DEF AxesOf, Steps
<1>4. CASE UNCHANGED vars \/ Tick
  BY <1>3, <1>4 DEF vars, Tick
<1>5. ASSUME NEW p \in Runs, Step(p)
      PROVE  AxesOf(run[q])'
  <2>1. CASE Plot(p) /\ p = q
    <3> DEFINE f == run'[p].figure
    <3>1. /\ setting' = setting
          /\ f = [groups |-> [m \in Models |-> CurveGroups(run[p].curves[m])],
                  xTrain |-> xTrain, train |-> selectSamplesTrain,
                  xValid |-> xValid, valid |-> selectSamplesValid]
      BY <2>1, PlotEffect DEF Changes
    <3>2. f.xTrain = xTrain /\ f.train = selectSamplesTrain /\ f.xValid = xValid /\ f.valid = selectSamplesValid
      BY <3>1
    <3> QED
      BY <2>1, <3>1, <3>2, Axes DEF AxesOf, Steps
  <2>2. CASE ~(Plot(p) /\ p = q)
    BY <1>3, <1>5, <2>2, OnlyBy
  <2> QED
    BY <2>1, <2>2
<1> QED
  BY <1>4, <1>5 DEF Next

\* A plot has as many points as places for them, each at the step it was taken
\* in: thinning the validations out by everyValid and the steps by
\* interval * everyValid leaves equally many.
THEOREM PlotsFit == Spec => []AxesMatch
<1>1. Init => AxesMatch
  BY DEF Init, Fresh, AxesMatch
<1>2. TypeInv /\ AxesMatch /\ [Next]_vars => AxesMatch'
  BY AxesStep
<1> QED
  BY <1>1, <1>2, Ranges, PTL DEF Spec

-----------------------------------------------------------------------------
(* Where a run is: which graph, which realization, which data.              *)

Data(p, g, r) == [run |-> p, G |-> g, realization |-> r]

Position(s, p, v) ==
    /\ v.pc = "start" => v.second = 0
    /\ v.pc \in Early => v.graph = 0 /\ v.realization = 0 /\ v.G = 0
    /\ v.pc = "load" => s.facebook
    /\ v.pc = "graph" => v.realization = IF v.graph = 0 THEN 0 ELSE s.realizations
    /\ v.pc = "data" => v.graph > 0
    /\ v.pc \in Inside => v.graph > 0 /\ v.realization > 0 /\ v.data = Data(p, v.graph, v.realization)
    /\ v.pc \in After => v.graph = s.graphs /\ v.realization = s.realizations
    /\ v.pc \in {"graph", "data"} => v.G = IF s.facebook THEN 1 ELSE v.graph
    /\ v.pc \in Inside => v.G = v.graph

PlaceInv == \A p \in Runs : Position(setting, p, run[p])

LEMMA PlaceInit == Init => PlaceInv
<1>1. ASSUME NEW p \in Runs
      PROVE  Position(setting, p, Fresh)
  BY DEF Fresh, Position, Early, Inside, After
<1>2. Init => \A p \in Runs : run[p] = Fresh
  BY DEF Init
<1> QED
  BY <1>1, <1>2 DEF PlaceInv

LEMMA PlaceStep ==
    ASSUME TypeInv, PlaceInv, [Next]_vars
    PROVE  PlaceInv'
<1>1. CASE UNCHANGED vars \/ Tick
  BY <1>1 DEF vars, Tick, PlaceInv
<1>2. ASSUME NEW p \in Runs, Step(p)
      PROVE  PlaceInv'
  <2> DEFINE s == setting
             v == run[p]
             w == run'[p]
  <2>1. /\ Position(s, p, v) /\ s.graphs \in Nat \ {0} /\ s.realizations \in Nat \ {0}
        /\ s.facebook => s.graphs = 1
    BY SettingsFacts DEF PlaceInv
  <2>2. v.graph \in 0 .. s.graphs /\ v.realization \in 0 .. s.realizations
    BY DEF TypeInv, TypeOf
  <2>3. CASE Start(p)
    <3>1. Changes(p, {"pc", "second"})
      BY <2>3, StartEffect
    <3>2. /\ v.pc = "start" /\ w.pc \in {"open", "make"}
          /\ w.graph = v.graph /\ w.realization = v.realization /\ w.G = v.G /\ w.data = v.data
      BY <2>2, <3>1, <2>3, StartEffect DEF Changes, Fields, Data
    <3>3. Position(s, p, w)
      BY <2>1, <2>2, <3>2 DEF Position, Early, Inside, After
    <3> QED
      BY <1>2, <3>3, OnlyBy DEF PlaceInv
  <2>4. CASE Moves(p)
    <3>1. /\ w.graph = v.graph /\ w.realization = v.realization /\ w.G = v.G /\ w.data = v.data
      BY <2>4, MoveEffect DEF Changes, Fields
    <3>2. \/ v.pc = "make" /\ w.pc \in {"open", "failed"}
          \/ v.pc = "graph" /\ w.pc = "failed"
          \/ v.pc = "graph" /\ w.pc = "statistics" /\ v.graph = s.graphs
          \/ v.pc = "data" /\ w.pc = "graph" /\ v.realization = s.realizations
          \/ v.pc = "evaluate" /\ w.pc = "data"
          \/ v.pc = "make figures" /\ w.pc \in {"plot", "failed"}
      BY <2>4, MoveEffect
    <3>3. Position(s, p, w)
      <4>1. CASE v.pc \in {"make", "make figures"} \/ w.pc = "failed"
        BY <2>1, <3>1, <3>2, <4>1 DEF Position, Early, Inside, After
      <4>2. CASE v.pc = "graph" /\ w.pc = "statistics"
        BY <2>1, <2>2, <3>1, <3>2, <4>2 DEF Position, Early, Inside, After
      <4>3. CASE v.pc = "data" /\ w.pc = "graph"
        BY <2>1, <2>2, <3>1, <3>2, <4>3 DEF Position, Early, Inside, After
      <4>4. CASE v.pc = "evaluate" /\ w.pc = "data"
        <5>1. v.G = v.graph /\ v.graph > 0
          BY <2>1, <4>4 DEF Position, Inside
        <5>2. s.facebook => v.graph = 1
          BY <2>1, <2>2, <5>1
        <5> QED
          BY <3>1, <4>4, <5>1, <5>2 DEF Position, Early, Inside, After
      <4> QED
        BY <3>2, <4>1, <4>2, <4>3, <4>4
    <3> QED
      BY <1>2, <3>3, OnlyBy DEF PlaceInv
  <2>5. CASE OpenReport(p)
    <3>1. Changes(p, {"pc", "costBest", "costLast", "curves"})
      BY <2>5, OpenReportEffect
    <3>2. /\ v.pc = "open" /\ w.pc = IF s.facebook THEN "load" ELSE "graph"
          /\ w.graph = v.graph /\ w.realization = v.realization /\ w.G = v.G
      BY <2>2, <3>1, <2>5, OpenReportEffect DEF Changes, Fields, Data
    <3>3. Position(s, p, w)
      BY <2>1, <2>2, <3>2 DEF Position, Early, Inside, After
    <3> QED
      BY <1>2, <3>3, OnlyBy DEF PlaceInv
  <2>6. CASE LoadGraph(p)
    <3>1. Changes(p, {"pc", "G"})
      BY <2>6, LoadGraphEffect
    <3>2. /\ v.pc = "load" /\ w.pc = "graph"
          /\ w.graph = v.graph /\ w.realization = v.realization /\ w.G = 1
      BY <2>2, <3>1, <2>6, LoadGraphEffect DEF Changes, Fields, Data
    <3>3. Position(s, p, w)
      BY <2>1, <2>2, <3>2 DEF Position, Early, Inside, After
    <3> QED
      BY <1>2, <3>3, OnlyBy DEF PlaceInv
  <2>7. CASE NewGraph(p)
    <3>1. Changes(p, {"pc", "graph", "costBest", "costLast", "curves", "G", "realization"})
      BY <2>7, NewGraphEffect
    <3>2. /\ v.pc = "graph" /\ w.pc = "data"
          /\ w.graph = v.graph + 1 /\ w.G = IF s.facebook THEN v.G ELSE v.graph + 1
      BY <2>2, <3>1, <2>7, NewGraphEffect DEF Changes, Fields, Data
    <3>3. Position(s, p, w)
      BY <2>1, <2>2, <3>2 DEF Position, Early, Inside, After
    <3> QED
      BY <1>2, <3>3, OnlyBy DEF PlaceInv
  <2>8. CASE NewData(p)
    <3>1. Changes(p, {"pc", "realization", "data"})
      BY <2>8, NewDataEffect
    <3>2. /\ v.pc = "data" /\ w.pc = "build"
          /\ w.graph = v.graph /\ w.realization = v.realization + 1 /\ w.G = v.G
          /\ w.data = Data(p, v.G, v.realization + 1)
      BY <2>2, <3>1, <2>8, NewDataEffect DEF Changes, Fields, Data
    <3>3. Position(s, p, w)
      BY <2>1, <2>2, <3>2 DEF Position, Early, Inside, After
    <3> QED
      BY <1>2, <3>3, OnlyBy DEF PlaceInv
  <2>9. CASE BuildModels(p)
    <3>1. Changes(p, {"pc", "models", "optionsPer", "at"})
      BY <2>9, BuildModelsEffect
    <3>2. /\ v.pc = "build" /\ w.pc = "train"
          /\ w.graph = v.graph /\ w.realization = v.realization /\ w.G = v.G /\ w.data = v.data
      BY <2>2, <3>1, <2>9, BuildModelsEffect DEF Changes, Fields, Data
    <3>3. Position(s, p, w)
      BY <2>1, <2>2, <3>2 DEF Position, Early, Inside, After
    <3> QED
      BY <1>2, <3>3, OnlyBy DEF PlaceInv
  <2>10. CASE Train(p)
    <3>1. Changes(p, {"pc", "options"})
      BY <2>10, TrainEffect
    <3>2. /\ v.pc = "train" /\ w.pc = "last"
          /\ w.graph = v.graph /\ w.realization = v.realization /\ w.G = v.G /\ w.data = v.data
      BY <2>2, <3>1, <2>10, TrainEffect DEF Changes, Fields, Data
    <3>3. Position(s, p, w)
      BY <2>1, <2>2, <3>2 DEF Position, Early, Inside, After
    <3> QED
      BY <1>2, <3>3, OnlyBy DEF PlaceInv
  <2>11. CASE TrainReturns(p)
    <3>1. Changes(p, {"pc", "models", "curves", "at"})
      BY <2>11, TrainReturnsEffect
    <3>2. /\ v.pc = "last" /\ w.pc = "train"
          /\ w.graph = v.graph /\ w.realization = v.realization /\ w.G = v.G /\ w.data = v.data
      BY <2>2, <3>1, <2>11, TrainReturnsEffect DEF Changes, Fields, Data
    <3>3. Position(s, p, w)
      BY <2>1, <2>2, <3>2 DEF Position, Early, Inside, After
    <3> QED
      BY <1>2, <3>3, OnlyBy DEF PlaceInv
  <2>12. CASE TrainingDone(p)
    <3>1. Changes(p, {"pc", "at"})
      BY <2>12, TrainingDoneEffect
    <3>2. /\ v.pc = "train" /\ w.pc \in {"failed", "evaluate"}
          /\ w.graph = v.graph /\ w.realization = v.realization /\ w.G = v.G /\ w.data = v.data
      BY <2>2, <3>1, <2>12, TrainingDoneEffect DEF Changes, Fields, Data
    <3>3. Position(s, p, w)
      BY <2>1, <2>2, <3>2 DEF Position, Early, Inside, After
    <3> QED
      BY <1>2, <3>3, OnlyBy DEF PlaceInv
  <2>13. CASE EvaluateBest(p)
    <3>1. Changes(p, {"pc", "best"})
      BY <2>13, EvaluateBestEffect
    <3>2. /\ v.pc = "evaluate" /\ w.pc = "evaluate last"
          /\ w.graph = v.graph /\ w.realization = v.realization /\ w.G = v.G /\ w.data = v.data
      BY <2>2, <3>1, <2>13, EvaluateBestEffect DEF Changes, Fields, Data
    <3>3. Position(s, p, w)
      BY <2>1, <2>2, <3>2 DEF Position, Early, Inside, After
    <3> QED
      BY <1>2, <3>3, OnlyBy DEF PlaceInv
  <2>14. CASE EvaluateLast(p)
    <3>1. Changes(p, {"pc", "best", "costBest", "costLast", "at"})
      BY <2>14, EvaluateLastEffect
    <3>2. /\ v.pc = "evaluate last" /\ w.pc = "evaluate"
          /\ w.graph = v.graph /\ w.realization = v.realization /\ w.G = v.G /\ w.data = v.data
      BY <2>2, <3>1, <2>14, EvaluateLastEffect DEF Changes, Fields, Data
    <3>3. Position(s, p, w)
      BY <2>1, <2>2, <3>2 DEF Position, Early, Inside, After
    <3> QED
      BY <1>2, <3>3, OnlyBy DEF PlaceInv
  <2>15. CASE Statistics(p)
    <3>1. Changes(p, {"pc", "mean"})
      BY <2>15, StatisticsEffect
    <3>2. /\ v.pc = "statistics" /\ w.pc \in {"done", "plot", "make figures"}
          /\ w.graph = v.graph /\ w.realization = v.realization /\ w.G = v.G /\ w.data = v.data
      BY <2>2, <3>1, <2>15, StatisticsEffect DEF Changes, Fields, Data
    <3>3. Position(s, p, w)
      BY <2>1, <2>2, <3>2 DEF Position, Early, Inside, After
    <3> QED
      BY <1>2, <3>3, OnlyBy DEF PlaceInv
  <2>16. CASE Plot(p)
    <3>1. Changes(p, {"pc", "figure"})
      BY <2>16, PlotEffect
    <3>2. /\ v.pc = "plot" /\ w.pc = "done"
          /\ w.graph = v.graph /\ w.realization = v.realization /\ w.G = v.G /\ w.data = v.data
      BY <2>2, <3>1, <2>16, PlotEffect DEF Changes, Fields, Data
    <3>3. Position(s, p, w)
      BY <2>1, <2>2, <3>2 DEF Position, Early, Inside, After
    <3> QED
      BY <1>2, <3>3, OnlyBy DEF PlaceInv
  <2> QED
    BY <1>2, <2>3, <2>4, <2>5, <2>6, <2>7, <2>8, <2>9, <2>10, <2>11, <2>12, <2>13, <2>14, <2>15, <2>16, StepCases
<1> QED
  BY <1>1, <1>2 DEF Next

-----------------------------------------------------------------------------
(* What training is told.                                                   *)

\* The numbers that a realization leaves behind in the options, and those that
\* its own training is told.
Unset == [graphNo |-> 0, realizationNo |-> 0]
Number(s, g, r) == [graphNo |-> IF s.graphs > 1 THEN g ELSE 0,
                    realizationNo |-> IF s.realizations > 1 THEN r ELSE 0]
Told(s, g, r) == IF r > 1 THEN Number(s, g, r - 1)
                 ELSE IF g > 1 THEN Number(s, g - 1, s.realizations) ELSE Unset

OptionsAt(s, v) ==
    /\ v.pc \in Early => v.options = Unset
    /\ v.pc = "graph" => v.options = Told(s, v.graph + 1, 1)
    /\ v.pc = "data" => v.options = Told(s, v.graph, v.realization + 1)
    /\ v.pc = "build" => v.options = Told(s, v.graph, v.realization)
    /\ v.pc = "train" => v.options = IF v.at = 1 THEN Told(s, v.graph, v.realization)
                                     ELSE Number(s, v.graph, v.realization)
    /\ v.pc \in {"last", "evaluate", "evaluate last"} => v.options = Number(s, v.graph, v.realization)
    /\ v.pc \in {"train", "last"} => v.optionsPer = [m \in ModelsOf(s) |-> Told(s, v.graph, v.realization)]

\* Without a model no number is ever set.
OptionsInv == ModelsOf(setting) # {} => \A p \in Runs : OptionsAt(setting, run[p])

LEMMA OptionsInit == Init => OptionsInv
<1>1. ASSUME NEW p \in Runs
      PROVE  OptionsAt(setting, Fresh)
  BY DEF Fresh, OptionsAt, Early, Unset
<1>2. Init => \A p \in Runs : run[p] = Fresh
  BY DEF Init
<1> QED
  BY <1>1, <1>2 DEF OptionsInv

LEMMA OptionsStep ==
    ASSUME TypeInv, PlaceInv, OptionsInv, [Next]_vars
    PROVE  OptionsInv'
<1>1. CASE UNCHANGED vars \/ Tick
  BY <1>1 DEF vars, Tick, OptionsInv
<1>2. CASE ModelsOf(setting) = {} /\ setting' = setting
  BY <1>2 DEF OptionsInv
<1>3. ASSUME NEW p \in Runs, Step(p), ModelsOf(setting) # {}
      PROVE  OptionsInv'
  <2> DEFINE s == setting
             v == run[p]
             w == run'[p]
  <2>1. OptionsAt(s, v) /\ Position(s, p, v)
    BY <1>3 DEF PlaceInv, OptionsInv
  <2>2. /\ s.graphs \in Nat \ {0} /\ s.realizations \in Nat \ {0}
        /\ v.graph \in 0 .. s.graphs /\ v.realization \in 0 .. s.realizations
        /\ v.at \in 1 .. Len(ListOf(s)) + 1
    BY SettingsFacts DEF TypeInv, TypeOf
  <2>3. Len(ListOf(s)) \in Nat /\ Len(ListOf(s)) > 0
    BY <1>3, ListFacts
  <2>4. SUFFICES OptionsAt(s, w)
    BY <1>3, OnlyBy DEF OptionsInv
  <2>5. CASE Start(p)
    <3>1. Changes(p, {"pc", "second"})
      BY <2>5, StartEffect
    <3>2. /\ v.pc = "start" /\ w.pc \in {"open", "make"}
          /\ w.options = v.options
      BY <3>1, <2>5, StartEffect DEF Changes, Fields
    <3> QED
      BY <2>1, <2>2, <3>2 DEF OptionsAt, Early
  <2>6. CASE OpenReport(p)
    <3>1. Changes(p, {"pc", "costBest", "costLast", "curves"})
      BY <2>6, OpenReportEffect
    <3>2. /\ v.pc = "open" /\ w.pc \in {"load", "graph"}
          /\ w.options = v.options /\ w.graph = v.graph /\ w.realization = v.realization
      BY <3>1, <2>6, OpenReportEffect DEF Changes, Fields
    <3>3. v.graph = 0 /\ v.options = Unset
      BY <2>1, <3>2 DEF Position, OptionsAt, Early
    <3>4. Told(s, w.graph + 1, 1) = Unset
      BY <3>2, <3>3 DEF Told
    <3> QED
      BY <3>2, <3>3, <3>4 DEF OptionsAt, Early
  <2>7. CASE LoadGraph(p)
    <3>1. Changes(p, {"pc", "G"})
      BY <2>7, LoadGraphEffect
    <3>2. /\ v.pc = "load" /\ w.pc = "graph"
          /\ w.options = v.options /\ w.graph = v.graph /\ w.realization = v.realization
      BY <3>1, <2>7, LoadGraphEffect DEF Changes, Fields
    <3>3. v.graph = 0 /\ v.options = Unset
      BY <2>1, <3>2 DEF Position, OptionsAt, Early
    <3>4. Told(s, w.graph + 1, 1) = Unset
      BY <3>2, <3>3 DEF Told
    <3> QED
      BY <3>2, <3>3, <3>4 DEF OptionsAt, Early
  <2>8. CASE NewGraph(p)
    <3>1. Changes(p, {"pc", "graph", "costBest", "costLast", "curves", "G", "realization"})
      BY <2>8, NewGraphEffect
    <3>2. /\ v.pc = "graph" /\ w.pc = "data"
          /\ w.options = v.options /\ w.graph = v.graph + 1 /\ w.realization = 0
      BY <3>1, <2>8, NewGraphEffect DEF Changes, Fields
    <3> QED
      BY <2>1, <2>2, <3>2 DEF OptionsAt, Early
  <2>9. CASE NewData(p)
    <3>1. Changes(p, {"pc", "realization", "data"})
      BY <2>9, NewDataEffect
    <3>2. /\ v.pc = "data" /\ w.pc = "build"
          /\ w.options = v.options /\ w.graph = v.graph /\ w.realization = v.realization + 1
      BY <3>1, <2>9, NewDataEffect DEF Changes, Fields
    <3> QED
      BY <2>1, <2>2, <3>2 DEF OptionsAt, Early
  <2>10. CASE BuildModels(p)
    <3>1. Changes(p, {"pc", "models", "optionsPer", "at"})
      BY <2>10, BuildModelsEffect
    <3>2. /\ v.pc = "build" /\ w.pc = "train"
          /\ w.options = v.options /\ w.graph = v.graph /\ w.realization = v.realization /\ w.at = 1
          /\ w.optionsPer = [m \in ModelsOf(s) |-> v.options]
      BY <3>1, <2>10, BuildModelsEffect, InTermsOfSettings DEF Changes, Fields
    <3> QED
      BY <2>1, <2>2, <3>2 DEF OptionsAt, Early
  <2>11. CASE Train(p)
    <3>1. Changes(p, {"pc", "options"})
      BY <2>11, TrainEffect
    <3>2. /\ v.pc = "train" /\ w.pc = "last" /\ w.options = Numbered(v.options, v)
          /\ w.optionsPer = v.optionsPer /\ w.graph = v.graph /\ w.realization = v.realization
      BY <3>1, <2>11, TrainEffect DEF Changes, Fields
    <3>3. v.options \in {Told(s, v.graph, v.realization), Number(s, v.graph, v.realization)}
      BY <2>1, <3>2 DEF OptionsAt
    <3>4. /\ ~(s.graphs > 1) => v.options.graphNo = 0
          /\ ~(s.realizations > 1) => v.options.realizationNo = 0
      BY <3>3 DEF Told, Number, Unset
    <3>5. w.options = Number(s, v.graph, v.realization)
      BY <3>2, <3>4 DEF Numbered, Number
    <3> QED
      BY <2>1, <3>2, <3>5 DEF OptionsAt, Early
  <2>12. CASE TrainReturns(p)
    <3>1. Changes(p, {"pc", "models", "curves", "at"})
      BY <2>12, TrainReturnsEffect
    <3>2. /\ v.pc = "last" /\ w.pc = "train"
          /\ w.options = v.options /\ w.optionsPer = v.optionsPer /\ w.graph = v.graph /\ w.realization = v.realization
          /\ w.at = v.at + 1
      BY <3>1, <2>12, TrainReturnsEffect DEF Changes, Fields
    <3> QED
      BY <2>1, <2>2, <3>2 DEF OptionsAt, Early
  <2>13. CASE TrainingDone(p)
    <3>1. Changes(p, {"pc", "at"})
      BY <2>13, TrainingDoneEffect
    <3>2. /\ v.pc = "train" /\ w.pc \in {"failed", "evaluate"} /\ ~MoreModels(p)
          /\ w.options = v.options /\ w.graph = v.graph /\ w.realization = v.realization
      BY <3>1, <2>13, TrainingDoneEffect DEF Changes, Fields
    <3>3. v.at # 1
      BY <2>2, <2>3, <3>2, SettingsFacts DEF MoreModels
    <3> QED
      BY <2>1, <3>2, <3>3 DEF OptionsAt, Early
  <2>14. CASE EvaluateBest(p)
    <3>1. Changes(p, {"pc", "best"})
      BY <2>14, EvaluateBestEffect
    <3>2. /\ v.pc = "evaluate" /\ w.pc = "evaluate last"
          /\ w.options = v.options /\ w.graph = v.graph /\ w.realization = v.realization
      BY <3>1, <2>14, EvaluateBestEffect DEF Changes, Fields
    <3> QED
      BY <2>1, <2>2, <3>2 DEF OptionsAt, Early
  <2>15. CASE EvaluateLast(p)
    <3>1. Changes(p, {"pc", "best", "costBest", "costLast", "at"})
      BY <2>15, EvaluateLastEffect
    <3>2. /\ v.pc = "evaluate last" /\ w.pc = "evaluate"
          /\ w.options = v.options /\ w.graph = v.graph /\ w.realization = v.realization
      BY <3>1, <2>15, EvaluateLastEffect DEF Changes, Fields
    <3> QED
      BY <2>1, <2>2, <3>2 DEF OptionsAt, Early
  <2>16. CASE Statistics(p)
    <3>1. Changes(p, {"pc", "mean"})
      BY <2>16, StatisticsEffect
    <3>2. /\ v.pc = "statistics" /\ w.pc \in {"done", "plot", "make figures"}
      BY <3>1, <2>16, StatisticsEffect DEF Changes, Fields
    <3> QED
      BY <2>1, <2>2, <3>2 DEF OptionsAt, Early
  <2>17. CASE Plot(p)
    <3>1. Changes(p, {"pc", "figure"})
      BY <2>17, PlotEffect
    <3>2. /\ v.pc = "plot" /\ w.pc = "done"
      BY <3>1, <2>17, PlotEffect DEF Changes, Fields
    <3> QED
      BY <2>1, <2>2, <3>2 DEF OptionsAt, Early
  <2>18. CASE Moves(p)
    <3>1. Changes(p, {"pc"})
      BY <2>18, MoveEffect
    <3>2. w.options = v.options /\ w.graph = v.graph /\ w.realization = v.realization
      BY <3>1 DEF Changes, Fields
    <3>3. CASE w.pc \in {"failed", "statistics", "plot"}
      BY <3>3 DEF OptionsAt, Early
    <3>4. CASE v.pc = "make" /\ w.pc = "open"
      BY <2>1, <3>2, <3>4 DEF OptionsAt, Early
    <3>5. CASE v.pc = "data" /\ w.pc = "graph" /\ v.realization = s.realizations
      <4>1. v.graph > 0 /\ v.options = Told(s, v.graph, s.realizations + 1)
        BY <2>1, <3>5 DEF OptionsAt, Position
      <4>2. Told(s, v.graph, s.realizations + 1) = Number(s, v.graph, s.realizations)
        BY <2>2 DEF Told
      <4>3. Told(s, v.graph + 1, 1) = Number(s, v.graph, s.realizations)
        BY <2>2, <4>1 DEF Told
      <4> QED
        BY <3>2, <3>5, <4>1, <4>2, <4>3 DEF OptionsAt, Early
    <3>6. CASE v.pc = "evaluate" /\ w.pc = "data"
      <4>1. v.realization > 0 /\ v.options = Number(s, v.graph, v.realization)
        BY <2>1, <3>6 DEF OptionsAt, Position, Inside
      <4>2. Told(s, v.graph, v.realization + 1) = Number(s, v.graph, v.realization)
        BY <2>2, <4>1 DEF Told
      <4> QED
        BY <3>2, <3>6, <4>1, <4>2 DEF OptionsAt, Early
    <3> QED
      BY <2>18, <3>3, <3>4, <3>5, <3>6, MoveEffect
  <2> QED
    BY <1>3, <2>5, <2>6, <2>7, <2>8, <2>9, <2>10, <2>11, <2>12, <2>13, <2>14, <2>15, <2>16, <2>17, <2>18, StepCases
<1>4. ASSUME NEW p \in Runs, Step(p) PROVE OptionsInv'
  BY <1>2, <1>3, <1>4, OnlyBy
<1> QED
  BY <1>1, <1>4 DEF Next

\* The models of a realization, until it is evaluated.
Built(s, v) ==
    v.pc \in {"train", "last"} =>
        /\ DOMAIN v.models = {NameOf(s, m, v.graph, v.realization) : m \in ModelsOf(s)}
        /\ \A n \in DOMAIN v.models : v.models[n].model = n.model /\ v.models[n].G = v.graph

BuiltInv == \A p \in Runs : Built(setting, run[p])

LEMMA BuiltInit == Init => BuiltInv
BY DEF Init, Fresh, BuiltInv, Built

\* The model at hand, and its weights after training.
Weights(s, p, m, g, r, version) ==
    [run |-> p, model |-> m, G |-> g, data |-> Data(p, g, r), options |-> Told(s, g, r), version |-> version]

AtHand(p) == ListOf(setting)[run[p].at]

LEMMA AtWork ==
    ASSUME TypeInv, NEW p \in Runs, run[p].pc \in {"last", "evaluate last"}
    PROVE  MoreModels(p)
BY InTermsOfSettings DEF TypeInv, TypeOf, MoreModels

LEMMA NameAtHand ==
    ASSUME TypeInv, NEW p \in Runs, MoreModels(p)
    PROVE  /\ run[p].at \in DOMAIN ListOf(setting) /\ AtHand(p) \in ModelsOf(setting)
           /\ Current(p) = NameOf(setting, AtHand(p), run[p].graph, run[p].realization)
           /\ ModelName(Current(p)) = AtHand(p)
<1>1. run[p].at \in 1 .. Len(ListOf(setting)) + 1 /\ run[p].at <= Len(ListOf(setting))
  BY InTermsOfSettings DEF TypeInv, TypeOf, MoreModels
<1>2. run[p].at \in DOMAIN ListOf(setting)
  <2>1. Len(ListOf(setting)) \in Nat /\ DOMAIN ListOf(setting) = 1 .. Len(ListOf(setting))
    BY ListFacts
  <2> QED
    BY <1>1, <2>1
<1>3. AtHand(p) \in ModelsOf(setting)
  BY <1>2, ListFacts DEF AtHand
<1>4. Current(p) = NameOf(setting, AtHand(p), run[p].graph, run[p].realization)
  BY InTermsOfSettings DEF Current, AtHand
<1>5. ModelName(Current(p)) = AtHand(p)
  <2>1. NameOf(setting, AtHand(p), run[p].graph, run[p].realization).model = AtHand(p)
    BY DEF NameOf
  <2> QED
    BY <1>4, <2>1 DEF ModelName
<1> QED
  BY <1>2, <1>3, <1>4, <1>5

LEMMA TrainedWeights ==
    ASSUME TypeInv, PlaceInv, OptionsInv, BuiltInv, NEW p \in Runs, MoreModels(p),
           run[p].pc \in {"train", "last"}, NEW version
    PROVE  /\ run[p].graph \in 1 .. setting.graphs /\ run[p].realization \in 1 .. setting.realizations
           /\ Current(p) \in DOMAIN run[p].models
           /\ Trained(p, version) =
                Weights(setting, p, AtHand(p), run[p].graph, run[p].realization, version)
<1> DEFINE v == run[p]
           m == AtHand(p)
<1>1. /\ m \in ModelsOf(setting) /\ ModelName(Current(p)) = m
      /\ Current(p) = NameOf(setting, m, v.graph, v.realization)
  BY NameAtHand
<1>2. /\ DOMAIN v.models = {NameOf(setting, x, v.graph, v.realization) : x \in ModelsOf(setting)}
      /\ \A n \in DOMAIN v.models : v.models[n].model = n.model /\ v.models[n].G = v.graph
  BY DEF BuiltInv, Built
<1>3. v.graph > 0 /\ v.realization > 0 /\ v.data = Data(p, v.graph, v.realization)
  BY DEF PlaceInv, Position, Inside
<1>4. v.graph \in 1 .. setting.graphs /\ v.realization \in 1 .. setting.realizations
  <2>1. v.graph \in 0 .. setting.graphs /\ v.realization \in 0 .. setting.realizations
    BY DEF TypeInv, TypeOf
  <2>2. setting.graphs \in Nat /\ setting.realizations \in Nat
    BY SettingsFacts
  <2> QED
    BY <1>3, <2>1, <2>2
<1>5. v.optionsPer = [x \in ModelsOf(setting) |-> Told(setting, v.graph, v.realization)]
  BY <1>1 DEF OptionsInv, OptionsAt
<1>6. Current(p) \in DOMAIN v.models
  BY <1>1, <1>2
<1>7. v.models[Current(p)].model = m /\ v.models[Current(p)].G = v.graph
  BY <1>1, <1>2, <1>6 DEF ModelName
<1>8. v.optionsPer[ModelName(Current(p))] = Told(setting, v.graph, v.realization)
  BY <1>1, <1>5
<1> QED
  BY <1>3, <1>4, <1>6, <1>7, <1>8 DEF Trained, Weights

LEMMA BuiltStep ==
    ASSUME TypeInv, PlaceInv, OptionsInv, BuiltInv, [Next]_vars
    PROVE  BuiltInv'
<1>1. CASE UNCHANGED vars \/ Tick
  BY <1>1 DEF vars, Tick, BuiltInv
<1>2. ASSUME NEW p \in Runs, Step(p)
      PROVE  BuiltInv'
  <2> DEFINE s == setting
             v == run[p]
             w == run'[p]
  <2>1. Built(s, v)
    BY DEF BuiltInv
  <2>2. SUFFICES Built(s, w)
    BY <1>2, OnlyBy DEF BuiltInv
  <2>3. CASE BuildModels(p)
    <3>1. Changes(p, {"pc", "models", "optionsPer", "at"}) /\ v.pc = "build"
      BY <2>3, BuildModelsEffect
    <3>2. w.graph = v.graph /\ w.realization = v.realization
      BY <3>1 DEF Changes, Fields
    <3>3. w.models = [n \in {NameOf(s, m, v.graph, v.realization) : m \in ModelsOf(s)} |->
                        [model |-> n.model, G |-> v.G, version |-> "new"]]
      BY <2>3, BuildModelsEffect, InTermsOfSettings
    <3>4. v.G = v.graph
      BY <3>1 DEF PlaceInv, Position, Inside
    <3> QED
      BY <3>2, <3>3, <3>4 DEF Built
  <2>4. CASE Train(p)
    <3>1. Changes(p, {"pc", "options"}) /\ v.pc = "train"
      BY <2>4, TrainEffect
    <3>2. w.graph = v.graph /\ w.realization = v.realization /\ w.models = v.models
      BY <3>1 DEF Changes, Fields
    <3> QED
      BY <2>1, <3>1, <3>2 DEF Built
  <2>5. CASE TrainReturns(p)
    <3>1. /\ Changes(p, {"pc", "models", "curves", "at"}) /\ v.pc = "last"
          /\ w.models = [v.models EXCEPT ![Current(p)] = Trained(p, "Last")]
      BY <2>5, TrainReturnsEffect
    <3>2. w.graph = v.graph /\ w.realization = v.realization
      BY <3>1 DEF Changes, Fields
    <3>3. Trained(p, "Last").model = v.models[Current(p)].model
          /\ Trained(p, "Last").G = v.models[Current(p)].G
      BY DEF Trained
    <3>4. /\ DOMAIN v.models = {NameOf(s, m, v.graph, v.realization) : m \in ModelsOf(s)}
          /\ \A n \in DOMAIN v.models : v.models[n].model = n.model /\ v.models[n].G = v.graph
      BY <2>1, <3>1 DEF Built
    <3>5. DOMAIN w.models = DOMAIN v.models
      BY <3>1
    <3>6. \A n \in DOMAIN v.models : w.models[n].model = n.model /\ w.models[n].G = v.graph
      BY <3>1, <3>3, <3>4
    <3> QED
      BY <3>2, <3>4, <3>5, <3>6 DEF Built
  <2>6. CASE ~(BuildModels(p) \/ Train(p) \/ TrainReturns(p))
    <3>1. w.pc \notin {"train", "last"}
      <4>1. CASE Moves(p)
        BY <4>1, MoveEffect
      <4>2. CASE Start(p) \/ OpenReport(p) \/ LoadGraph(p)
        BY <4>2, StartEffect, OpenReportEffect, LoadGraphEffect
      <4>3. CASE NewGraph(p) \/ NewData(p)
        BY <4>3, NewGraphEffect, NewDataEffect
      <4>4. CASE TrainingDone(p) \/ EvaluateBest(p) \/ EvaluateLast(p)
        BY <4>4, TrainingDoneEffect, EvaluateBestEffect, EvaluateLastEffect
      <4>5. CASE Statistics(p) \/ Plot(p)
        BY <4>5, StatisticsEffect, PlotEffect
      <4> QED
        BY <1>2, <2>6, <4>1, <4>2, <4>3, <4>4, <4>5, StepCases
    <3> QED
      BY <3>1 DEF Built
  <2> QED
    BY <2>3, <2>4, <2>5, <2>6
<1> QED
  BY <1>1, <1>2 DEF Next

\* Every stored model is one of some run, graph and realization, under its name.
StoredIs(s, k, x) ==
    \E p \in Runs, m \in ModelsOf(s), g \in 1 .. s.graphs, r \in 1 .. s.realizations, version \in {"Best", "Last"} :
        k = <<NameOf(s, m, g, r), version>> /\ x = Weights(s, p, m, g, r, version)

StoredInv == \A d \in Seconds : \A k \in DOMAIN saved[d] : StoredIs(setting, k, saved[d][k])

LEMMA StoredInit == Init => StoredInv
BY DEF Init, StoredInv

LEMMA StoredStep ==
    ASSUME TypeInv, PlaceInv, OptionsInv, BuiltInv, StoredInv, [Next]_vars
    PROVE  StoredInv'
<1>1. ASSUME saved' = saved, setting' = setting
      PROVE  StoredInv'
  BY <1>1 DEF StoredInv, Seconds
<1>2. CASE UNCHANGED vars \/ Tick
  BY <1>1, <1>2 DEF vars, Tick, disk
<1>3. ASSUME NEW p \in Runs, NEW version \in {"Best", "Last"}, setting' = setting, MoreModels(p),
             run[p].pc \in {"train", "last"},
             saved' = [saved EXCEPT ![run[p].second] = Put(@, <<Current(p), version>>, Trained(p, version))]
      PROVE  StoredInv'
  <2> DEFINE s == setting
             v == run[p]
             k == <<Current(p), version>>
             x == Trained(p, version)
  <2>1. StoredIs(s, k, x)
    <3>1. AtHand(p) \in ModelsOf(s) /\ Current(p) = NameOf(s, AtHand(p), v.graph, v.realization)
      BY <1>3, NameAtHand
    <3>2. /\ v.graph \in 1 .. s.graphs /\ v.realization \in 1 .. s.realizations
          /\ x = Weights(s, p, AtHand(p), v.graph, v.realization, version)
      BY <1>3, TrainedWeights
    <3> QED
      BY <1>3, <3>1, <3>2 DEF StoredIs
  <2> HIDE DEF k, x
  <2>2. saved' = [saved EXCEPT ![v.second] = Put(saved[v.second], k, x)] /\ DOMAIN saved = Seconds
    BY <1>3 DEF k, x, TypeInv
  <2>3. ASSUME NEW d \in Seconds, NEW j \in DOMAIN saved'[d]
        PROVE  StoredIs(s, j, saved'[d][j])
    <3>1. CASE d # v.second
      BY <2>2, <2>3, <3>1 DEF StoredInv
    <3>2. CASE d = v.second
      <4>1. saved'[d] = Put(saved[d], k, x)
        BY <2>2, <3>2
      <4>2. j = k \/ j \in DOMAIN saved[d]
        BY <2>3, <4>1 DEF Put
      <4>3. j = k => saved'[d][j] = x
        BY <2>3, <4>1 DEF Put
      <4>4. j # k => saved'[d][j] = saved[d][j]
        BY <2>3, <4>1 DEF Put
      <4> QED
        BY <2>1, <4>2, <4>3, <4>4 DEF StoredInv
    <3> QED
      BY <3>1, <3>2
  <2> QED
    BY <1>3, <2>3 DEF StoredInv, Seconds
<1>4. ASSUME NEW p \in Runs, Step(p)
      PROVE  StoredInv'
  <2>1. CASE Train(p)
    BY <1>3, <1>4, <2>1, TrainEffect, OnlyBy
  <2>2. CASE TrainReturns(p)
    BY <1>3, <1>4, <2>2, TrainReturnsEffect, OnlyBy, AtWork
  <2>3. CASE ~(Train(p) \/ TrainReturns(p))
    <3>1. saved' = saved
      BY <1>4, <2>3, StepCases, StartEffect, MoveEffect, OpenReportEffect, LoadGraphEffect, NewGraphEffect,
         NewDataEffect, BuildModelsEffect, TrainingDoneEffect, EvaluateBestEffect, EvaluateLastEffect,
         StatisticsEffect, PlotEffect DEF disk
    <3> QED
      BY <1>1, <1>4, <3>1, OnlyBy
  <2> QED
    BY <2>1, <2>2, <2>3
<1> QED
  BY <1>2, <1>4 DEF Next

\* How far the options are from OptionsIdentify: with several realizations no
\* training is given the number of its own, and with several graphs those on the
\* first realization of each graph are given another number than the graph's.
NoneIdentified ==
    \A d \in Seconds : \A k \in DOMAIN saved[d] :
        LET w == saved[d][k]
        IN  /\ setting.realizations > 1 => w.options.realizationNo # w.data.realization
            /\ setting.graphs > 1 => (w.options.graphNo = w.G <=> w.data.realization > 1)

LEMMA StoredOptions == ASSUME TypeInv, StoredInv PROVE NoneIdentified
<1> DEFINE s == setting
<1>1. s.graphs \in Nat \ {0} /\ s.realizations \in Nat \ {0}
  BY SettingsFacts
<1>2. ASSUME NEW g \in 1 .. s.graphs, NEW r \in 1 .. s.realizations
      PROVE  /\ s.realizations > 1 => Told(s, g, r).realizationNo # r
             /\ s.graphs > 1 => (Told(s, g, r).graphNo = g <=> r > 1)
  BY <1>1 DEF Told, Number, Unset
<1>3. ASSUME NEW d \in Seconds, NEW k \in DOMAIN saved[d]
      PROVE  LET w == saved[d][k]
             IN  /\ s.realizations > 1 => w.options.realizationNo # w.data.realization
                 /\ s.graphs > 1 => (w.options.graphNo = w.G <=> w.data.realization > 1)
  <2>1. PICK p \in Runs, m \in ModelsOf(s), g \in 1 .. s.graphs, r \in 1 .. s.realizations,
             version \in {"Best", "Last"} : saved[d][k] = Weights(s, p, m, g, r, version)
    BY <1>3 DEF StoredInv, StoredIs
  <2>2. /\ saved[d][k].G = g /\ saved[d][k].data.realization = r
        /\ saved[d][k].options = Told(s, g, r)
    BY <2>1 DEF Weights, Data
  <2> QED
    BY <1>2, <2>2
<1> QED
  BY <1>3 DEF NoneIdentified

\* Every stored model's training was told the numbers of the realization before.
TrainingInv == TypeInv /\ PlaceInv /\ OptionsInv /\ BuiltInv /\ StoredInv

THEOREM TrainingKept == Spec => []TrainingInv
<1>1. Init => TrainingInv
  BY TypeInit, PlaceInit, OptionsInit, BuiltInit, StoredInit DEF TrainingInv
<1>2. TrainingInv /\ [Next]_vars => TrainingInv'
  BY TypeStep, PlaceStep, OptionsStep, BuiltStep, StoredStep DEF TrainingInv
<1> QED
  BY <1>1, <1>2, PTL DEF Spec

\* The finding of OptionsIdentify is not one of the settings that TLC runs: the
\* options are copied before they are numbered, whatever the number of runs,
\* graphs, realizations and models.
THEOREM NoTrainingIdentified == Spec => []NoneIdentified
<1>1. TrainingInv => NoneIdentified
  BY StoredOptions DEF TrainingInv
<1> QED
  BY <1>1, TrainingKept, PTL

-----------------------------------------------------------------------------
(* The results: what a run has filed of every model, graph and realization, *)
(* at every point of its loops.                                             *)

\* How many realizations of graph g model number i has been trained on, and
\* evaluated on.
Completed(s, v, g, n) == IF g < v.graph THEN s.realizations ELSE IF g = v.graph THEN n ELSE 0
TrainedTimes(s, v, g, i) ==
    Completed(s, v, g, IF v.pc = "build" \/ (v.pc \in {"train", "last"} /\ i >= v.at)
                       THEN v.realization - 1 ELSE v.realization)
EvaluatedTimes(s, v, g, i) ==
    Completed(s, v, g, IF \/ v.pc \in {"build", "train", "last"}
                          \/ v.pc \in {"evaluate", "evaluate last"} /\ i >= v.at
                       THEN v.realization - 1 ELSE v.realization)

\* Only the return of training and the end of an evaluation count.
SameTrained(s, v, w) ==
    \A i \in DOMAIN ListOf(s), g \in 1 .. s.graphs : TrainedTimes(s, w, g, i) = TrainedTimes(s, v, g, i)
SameEvaluated(s, v, w) ==
    \A i \in DOMAIN ListOf(s), g \in 1 .. s.graphs : EvaluatedTimes(s, w, g, i) = EvaluatedTimes(s, v, g, i)

Numbers(s, v) == /\ s.graphs \in Nat \ {0} /\ s.realizations \in Nat \ {0}
                 /\ v.graph \in 0 .. s.graphs /\ v.realization \in 0 .. s.realizations
                 /\ v.at \in 1 .. Len(ListOf(s)) + 1
                 /\ Len(ListOf(s)) \in Nat /\ DOMAIN ListOf(s) = 1 .. Len(ListOf(s))

LEMMA NumbersOf == ASSUME TypeInv, NEW p \in Runs PROVE Numbers(setting, run[p])
BY SettingsFacts, ListFacts DEF TypeInv, TypeOf, Numbers

LEMMA CountsInRange ==
    ASSUME NEW s, NEW p, NEW v, Numbers(s, v), Position(s, p, v), NEW g \in 1 .. s.graphs, NEW i
    PROVE  TrainedTimes(s, v, g, i) \in 0 .. s.realizations /\ EvaluatedTimes(s, v, g, i) \in 0 .. s.realizations
<1>1. v.pc \in Inside => v.realization - 1 \in 0 .. s.realizations
  BY DEF Numbers, Position
<1>2. v.realization \in 0 .. s.realizations /\ s.realizations \in 0 .. s.realizations /\ 0 \in 0 .. s.realizations
  BY DEF Numbers
<1> QED
  BY <1>1, <1>2 DEF TrainedTimes, EvaluatedTimes, Completed, Inside

LEMMA CountsStep ==
    ASSUME TypeInv, PlaceInv, NEW p \in Runs, Step(p)
    PROVE  /\ ~TrainReturns(p) => SameTrained(setting, run[p], run'[p])
           /\ ~EvaluateLast(p) => SameEvaluated(setting, run[p], run'[p])
<1> DEFINE s == setting
           v == run[p]
           w == run'[p]
<1>1. Numbers(s, v) /\ Position(s, p, v)
  BY NumbersOf DEF PlaceInv
<1>2. ASSUME v.graph = 0, w.graph = 0
      PROVE  SameTrained(s, v, w) /\ SameEvaluated(s, v, w)
  <2>1. \A g \in 1 .. s.graphs : ~(g < 0) /\ g # 0
    BY <1>1 DEF Numbers
  <2>2. \A g \in 1 .. s.graphs : \A n : Completed(s, v, g, n) = 0 /\ Completed(s, w, g, n) = 0
    BY <1>2, <2>1 DEF Completed
  <2> QED
    BY <2>2 DEF SameTrained, SameEvaluated, TrainedTimes, EvaluatedTimes
<1>3. CASE Start(p)
  <2>1. Changes(p, {"pc", "second"}) /\ v.pc = "start"
    BY <1>3, StartEffect
  <2>2. v.graph = 0 /\ w.graph = 0
    BY <1>1, <2>1 DEF Changes, Fields, Position, Early
  <2> QED
    BY <1>2, <2>2
<1>4. CASE OpenReport(p)
  <2>1. Changes(p, {"pc", "costBest", "costLast", "curves"}) /\ v.pc = "open"
    BY <1>4, OpenReportEffect
  <2>2. v.graph = 0 /\ w.graph = 0
    BY <1>1, <2>1 DEF Changes, Fields, Position, Early
  <2> QED
    BY <1>2, <2>2
<1>5. CASE LoadGraph(p)
  <2>1. Changes(p, {"pc", "G"}) /\ v.pc = "load"
    BY <1>5, LoadGraphEffect
  <2>2. v.graph = 0 /\ w.graph = 0
    BY <1>1, <2>1 DEF Changes, Fields, Position, Early
  <2> QED
    BY <1>2, <2>2
<1>6. CASE NewGraph(p)
  <2>1. v.pc = "graph" /\ w.pc = "data" /\ w.graph = v.graph + 1 /\ w.realization = 0
    BY <1>6, NewGraphEffect
  <2>2. v.realization = IF v.graph = 0 THEN 0 ELSE s.realizations
    BY <1>1, <2>1 DEF Position
  <2> QED
    BY <1>1, <2>1, <2>2 DEF Numbers, SameTrained, SameEvaluated, TrainedTimes, EvaluatedTimes, Completed
<1>7. CASE NewData(p)
  <2>1. Changes(p, {"pc", "realization", "data"})
    BY <1>7, NewDataEffect
  <2>2. v.pc = "data" /\ w.pc = "build" /\ w.graph = v.graph /\ w.realization = v.realization + 1
    BY <1>7, <2>1, NewDataEffect DEF Changes, Fields
  <2> QED
    BY <1>1, <2>2 DEF Numbers, SameTrained, SameEvaluated, TrainedTimes, EvaluatedTimes, Completed
<1>8. CASE BuildModels(p)
  <2>1. Changes(p, {"pc", "models", "optionsPer", "at"}) /\ v.pc = "build" /\ w.pc = "train" /\ w.at = 1
    BY <1>8, BuildModelsEffect
  <2>2. w.graph = v.graph /\ w.realization = v.realization
    BY <2>1 DEF Changes, Fields
  <2> QED
    BY <1>1, <2>1, <2>2 DEF Numbers, SameTrained, SameEvaluated, TrainedTimes, EvaluatedTimes, Completed
<1>9. CASE Train(p)
  <2>1. Changes(p, {"pc", "options"}) /\ v.pc = "train" /\ w.pc = "last"
    BY <1>9, TrainEffect
  <2>2. w.graph = v.graph /\ w.realization = v.realization /\ w.at = v.at
    BY <2>1 DEF Changes, Fields
  <2> QED
    BY <1>1, <2>1, <2>2 DEF SameTrained, SameEvaluated, TrainedTimes, EvaluatedTimes, Completed
<1>10. CASE TrainReturns(p)
  <2>1. Changes(p, {"pc", "models", "curves", "at"}) /\ v.pc = "last" /\ w.pc = "train"
    BY <1>10, TrainReturnsEffect
  <2>2. w.graph = v.graph /\ w.realization = v.realization
    BY <2>1 DEF Changes, Fields
  <2> QED
    BY <1>1, <1>10, <2>1, <2>2 DEF SameEvaluated, EvaluatedTimes, Completed
<1>11. CASE TrainingDone(p)
  <2>1. /\ Changes(p, {"pc", "at"}) /\ v.pc = "train" /\ w.at = 1 /\ ~MoreModels(p)
        /\ w.pc = IF setting.doFigs /\ Models = {} THEN "failed" ELSE "evaluate"
    BY <1>11, TrainingDoneEffect
  <2>2. w.graph = v.graph /\ w.realization = v.realization
    BY <2>1 DEF Changes, Fields
  <2>3. \A i \in DOMAIN ListOf(s) : ~(i >= v.at)
    BY <1>1, <2>1, SettingsFacts DEF Numbers, MoreModels
  <2>4. w.pc # "failed" \/ DOMAIN ListOf(s) = {}
    <3>1. Models = {} => DOMAIN ListOf(s) = {}
      BY InTermsOfSettings, ListFacts
    <3> QED
      BY <2>1, <3>1
  <2>5. CASE DOMAIN ListOf(s) = {}
    BY <2>5 DEF SameTrained, SameEvaluated
  <2>6. CASE w.pc = "evaluate"
    BY <1>1, <2>1, <2>2, <2>3, <2>6
       DEF Numbers, SameTrained, SameEvaluated, TrainedTimes, EvaluatedTimes, Completed
  <2> QED
    BY <2>1, <2>4, <2>5, <2>6
<1>12. CASE EvaluateBest(p)
  <2>1. Changes(p, {"pc", "best"}) /\ v.pc = "evaluate" /\ w.pc = "evaluate last"
    BY <1>12, EvaluateBestEffect
  <2>2. w.graph = v.graph /\ w.realization = v.realization /\ w.at = v.at
    BY <2>1 DEF Changes, Fields
  <2> QED
    BY <1>1, <2>1, <2>2 DEF SameTrained, SameEvaluated, TrainedTimes, EvaluatedTimes, Completed
<1>13. CASE EvaluateLast(p)
  <2>1. /\ Changes(p, {"pc", "best", "costBest", "costLast", "at"})
        /\ v.pc = "evaluate last" /\ w.pc = "evaluate"
    BY <1>13, EvaluateLastEffect
  <2>2. w.graph = v.graph /\ w.realization = v.realization
    BY <2>1 DEF Changes, Fields
  <2> QED
    BY <1>1, <1>13, <2>1, <2>2 DEF SameTrained, TrainedTimes, Completed
<1>14. CASE Statistics(p) \/ Plot(p)
  <2>1. /\ v.pc \in {"statistics", "plot"} /\ w.pc \in {"done", "plot", "make figures"}
        /\ Changes(p, {"pc", "mean"}) \/ Changes(p, {"pc", "figure"})
    BY <1>14, StatisticsEffect, PlotEffect
  <2>2. w.graph = v.graph /\ w.realization = v.realization
    BY <2>1 DEF Changes, Fields
  <2> QED
    BY <1>1, <2>1, <2>2 DEF SameTrained, SameEvaluated, TrainedTimes, EvaluatedTimes, Completed
<1>15. CASE Moves(p)
  <2>1. Changes(p, {"pc"})
    BY <1>15, MoveEffect
  <2>2. w.graph = v.graph /\ w.realization = v.realization /\ w.at = v.at
    BY <2>1 DEF Changes, Fields
  <2>3. \/ /\ v.pc \in {"make", "graph", "data", "make figures"}
           /\ w.pc \in {"open", "failed", "statistics", "graph", "plot"}
        \/ v.pc = "evaluate" /\ w.pc = "data" /\ ~MoreModels(p)
    BY <1>15, MoveEffect
  <2>4. CASE v.pc # "evaluate"
    BY <2>2, <2>3, <2>4 DEF SameTrained, SameEvaluated, TrainedTimes, EvaluatedTimes, Completed
  <2>5. CASE v.pc = "evaluate"
    <3>1. w.pc = "data" /\ ~MoreModels(p)
      BY <2>3, <2>5
    <3>2. \A i \in DOMAIN ListOf(s) : ~(i >= v.at)
      BY <1>1, <3>1, SettingsFacts DEF Numbers, MoreModels
    <3> QED
      BY <2>2, <2>5, <3>1, <3>2 DEF SameTrained, SameEvaluated, TrainedTimes, EvaluatedTimes, Completed
  <2> QED
    BY <2>4, <2>5
<1> QED
  BY <1>3, <1>4, <1>5, <1>6, <1>7, <1>8, <1>9, <1>10, <1>11, <1>12, <1>13, <1>14, <1>15, StepCases

-----------------------------------------------------------------------------
(* Lists of results.                                                        *)

\* One training of a model gives its weights, for the curves, and a cost of
\* each version.
Cost(s, p, m, g, r, version) == [weights |-> Weights(s, p, m, g, r, version), data |-> Data(p, g, r)]
Result(s, p, m, g, r, kind) ==
    IF kind = "curve" THEN Weights(s, p, m, g, r, "Last")
    ELSE IF kind = "best" THEN Cost(s, p, m, g, r, "Best") ELSE Cost(s, p, m, g, r, "Last")
Results(s, p, m, g, n, kind) == [r \in 1 .. n |-> Result(s, p, m, g, r, kind)]

\* The lists have the results of the first n[i][g] realizations of every graph
\* g and model number i, in their order.
Filled(s, p, lists, kind, n) ==
    /\ DOMAIN lists = ModelsOf(s)
    /\ \A i \in DOMAIN ListOf(s) :
         lists[ListOf(s)[i]] = [g \in 1 .. s.graphs |-> Results(s, p, ListOf(s)[i], g, n[i][g], kind)]

Counts(s) == [DOMAIN ListOf(s) -> [1 .. s.graphs -> Nat]]
Trainings(s, v) == [i \in DOMAIN ListOf(s) |-> [g \in 1 .. s.graphs |-> TrainedTimes(s, v, g, i)]]
Evaluations(s, v) == [i \in DOMAIN ListOf(s) |-> [g \in 1 .. s.graphs |-> EvaluatedTimes(s, v, g, i)]]

LEMMA SameCounts ==
    ASSUME NEW s, NEW v, NEW w
    PROVE  /\ SameTrained(s, v, w) => Trainings(s, w) = Trainings(s, v)
           /\ SameEvaluated(s, v, w) => Evaluations(s, w) = Evaluations(s, v)
BY DEF SameTrained, SameEvaluated, Trainings, Evaluations

LEMMA CountsAreCounts ==
    ASSUME TypeInv, PlaceInv, NEW p \in Runs
    PROVE  Trainings(setting, run[p]) \in Counts(setting) /\ Evaluations(setting, run[p]) \in Counts(setting)
<1> DEFINE s == setting
           v == run[p]
<1>1. Numbers(s, v) /\ Position(s, p, v)
  BY NumbersOf DEF PlaceInv
<1>2. \A g \in 1 .. s.graphs : \A i : TrainedTimes(s, v, g, i) \in 0 .. s.realizations
                                       /\ EvaluatedTimes(s, v, g, i) \in 0 .. s.realizations
  BY <1>1, CountsInRange
<1>3. 0 .. s.realizations \subseteq Nat
  BY <1>1 DEF Numbers
<1> QED
  BY <1>2, <1>3 DEF Trainings, Evaluations, Counts

LEMMA ResultsGrow ==
    ASSUME NEW s, NEW p, NEW m, NEW g, NEW n \in Nat, NEW kind
    PROVE  Append(Results(s, p, m, g, n, kind), Result(s, p, m, g, n + 1, kind))
             = Results(s, p, m, g, n + 1, kind)
<1> DEFINE S == {Result(s, p, m, g, r, kind) : r \in 1 .. n + 1}
           q == Results(s, p, m, g, n, kind)
           t == Results(s, p, m, g, n + 1, kind)
           x == Result(s, p, m, g, n + 1, kind)
<1>1. DOMAIN q = 1 .. n /\ DOMAIN t = 1 .. n + 1
  BY DEF Results
<1>2. \A r \in 1 .. n : q[r] = t[r] /\ q[r] \in S
  BY DEF Results
<1>3. t[n + 1] = x /\ x \in S
  BY DEF Results
<1>4. \A r \in 1 .. n + 1 : t[r] \in S
  BY DEF Results
<1>5. q \in [1 .. n -> S] /\ t \in [1 .. n + 1 -> S]
  BY <1>1, <1>2, <1>4 DEF Results
<1> HIDE DEF S, q, t, x
<1>6. q \in Seq(S) /\ Len(q) = n /\ t \in Seq(S) /\ Len(t) = n + 1
  BY <1>5
<1>7. Append(q, x) \in Seq(S) /\ Len(Append(q, x)) = n + 1
  BY <1>3, <1>6
<1>8. \A r \in 1 .. n + 1 : Append(q, x)[r] = t[r]
  BY <1>2, <1>3, <1>6
<1>9. Append(q, x) = t
  BY <1>6, <1>7, <1>8, SeqEqual
<1> QED
  BY <1>9 DEF q, t, x

LEMMA NoResults == ASSUME NEW s, NEW p, NEW m, NEW g, NEW kind PROVE Results(s, p, m, g, 0, kind) = <<>>
BY DEF Results

LEMMA FilledAtFirst ==
    ASSUME NEW s, NEW p, NEW kind, NEW n, \A i \in DOMAIN ListOf(s), g \in 1 .. s.graphs : n[i][g] = 0
    PROVE  Filled(s, p, [m \in ModelsOf(s) |-> [g \in 1 .. s.graphs |-> <<>>]], kind, n)
<1>1. \A i \in DOMAIN ListOf(s), g \in 1 .. s.graphs : Results(s, p, ListOf(s)[i], g, n[i][g], kind) = <<>>
  BY NoResults
<1>2. \A i \in DOMAIN ListOf(s) :
         [g \in 1 .. s.graphs |-> <<>>] = [g \in 1 .. s.graphs |-> Results(s, p, ListOf(s)[i], g, n[i][g], kind)]
  BY <1>1
<1>3. \A i \in DOMAIN ListOf(s) : ListOf(s)[i] \in ModelsOf(s)
  BY ListFacts
<1> QED
  BY <1>2, <1>3 DEF Filled

\* Emptying the lists of a graph that has no results.
LEMMA FilledEmptied ==
    ASSUME TypeInv, NEW p, NEW lists, NEW kind, NEW n, Filled(setting, p, lists, kind, n),
           NEW h \in 1 .. setting.graphs, \A i \in DOMAIN ListOf(setting) : n[i][h] = 0
    PROVE  Filled(setting, p, Emptied(lists, h), kind, n)
<1> DEFINE s == setting
<1>1. DOMAIN Emptied(lists, h) = ModelsOf(s)
  BY InTermsOfSettings DEF Emptied
<1>2. ASSUME NEW i \in DOMAIN ListOf(s)
      PROVE  Emptied(lists, h)[ListOf(s)[i]] = lists[ListOf(s)[i]]
  <2> DEFINE m == ListOf(s)[i]
             row == lists[m]
  <2>1. m \in ModelsOf(s)
    BY ListFacts
  <2>2. Emptied(lists, h)[m] = [row EXCEPT ![h] = <<>>]
    BY <2>1, InTermsOfSettings DEF Emptied
  <2>3. row = [g \in 1 .. s.graphs |-> Results(s, p, m, g, n[i][g], kind)]
    BY DEF Filled
  <2>4. row[h] = <<>>
    BY <1>2, <2>3, NoResults
  <2>5. [row EXCEPT ![h] = <<>>] = row
    BY <2>3, <2>4
  <2> QED
    BY <2>2, <2>5
<1> QED
  BY <1>1, <1>2 DEF Filled

\* Filing the next result of a model and graph.
LEMMA FilledOneMore ==
    ASSUME NEW s, NEW p, NEW lists, NEW kind, NEW n \in Counts(s), NEW t, Filled(s, p, lists, kind, n),
           NEW i \in DOMAIN ListOf(s), NEW h \in 1 .. s.graphs, NEW x,
           x = Result(s, p, ListOf(s)[i], h, n[i][h] + 1, kind),
           t = [n EXCEPT ![i] = [n[i] EXCEPT ![h] = n[i][h] + 1]]
    PROVE  Filled(s, p, Filed(lists, ListOf(s)[i], h, x), kind, t)
<1> DEFINE m == ListOf(s)[i]
           L == Filed(lists, m, h, x)
           row == lists[m]
<1>1. m \in ModelsOf(s) /\ \A j \in DOMAIN ListOf(s) : ListOf(s)[j] \in ModelsOf(s) /\ (j # i => ListOf(s)[j] # m)
  BY ListFacts
<1>2. /\ DOMAIN L = ModelsOf(s)
      /\ L[m] = [row EXCEPT ![h] = Append(row[h], x)]
      /\ \A o \in ModelsOf(s) : o # m => L[o] = lists[o]
  BY <1>1 DEF Filled, Filed
<1>3. n[i][h] \in Nat /\ n[i] \in [1 .. s.graphs -> Nat]
  BY DEF Counts
<1>4. row = [g \in 1 .. s.graphs |-> Results(s, p, m, g, n[i][g], kind)]
  BY DEF Filled
<1>5. Append(row[h], x) = Results(s, p, m, h, n[i][h] + 1, kind)
  <2> DEFINE k == n[i][h]
  <2>1. row[h] = Results(s, p, m, h, k, kind) /\ x = Result(s, p, m, h, k + 1, kind) /\ k \in Nat
    BY <1>3, <1>4
  <2> HIDE DEF row, m, k
  <2>2. Append(row[h], x) = Results(s, p, m, h, k + 1, kind)
    BY <2>1, ResultsGrow
  <2> QED
    BY <2>2 DEF k
<1>6. t[i] = [n[i] EXCEPT ![h] = n[i][h] + 1] /\ \A j \in DOMAIN ListOf(s) : j # i => t[j] = n[j]
  BY DEF Counts
<1>7. L[m] = [g \in 1 .. s.graphs |-> Results(s, p, m, g, t[i][g], kind)]
  <2>1. \A g \in 1 .. s.graphs : t[i][g] = IF g = h THEN n[i][h] + 1 ELSE n[i][g]
    BY <1>3, <1>6
  <2> HIDE DEF L, row, m
  <2>2. DOMAIN L[m] = 1 .. s.graphs /\ L[m] = [g \in 1 .. s.graphs |-> L[m][g]]
    BY <1>2, <1>4
  <2>3. \A g \in 1 .. s.graphs : L[m][g] = Results(s, p, m, g, t[i][g], kind)
    <3>1. \A g \in 1 .. s.graphs : L[m][g] = IF g = h THEN Append(row[h], x) ELSE row[g]
      BY <1>2, <1>4
    <3>2. \A g \in 1 .. s.graphs : row[g] = Results(s, p, m, g, n[i][g], kind)
      BY <1>4
    <3> QED
      BY <1>5, <2>1, <3>1, <3>2
  <2> QED
    BY <2>2, <2>3
<1>8. ASSUME NEW j \in DOMAIN ListOf(s), j # i
      PROVE  L[ListOf(s)[j]] = [g \in 1 .. s.graphs |-> Results(s, p, ListOf(s)[j], g, t[j][g], kind)]
  <2>1. L[ListOf(s)[j]] = lists[ListOf(s)[j]]
    BY <1>1, <1>2, <1>8
  <2>2. lists[ListOf(s)[j]] = [g \in 1 .. s.graphs |-> Results(s, p, ListOf(s)[j], g, n[j][g], kind)]
    BY DEF Filled
  <2> QED
    BY <1>6, <1>8, <2>1, <2>2
<1> HIDE DEF L
<1>9. \A j \in DOMAIN ListOf(s) :
         L[ListOf(s)[j]] = [g \in 1 .. s.graphs |-> Results(s, p, ListOf(s)[j], g, t[j][g], kind)]
  <2>1. ASSUME NEW j \in DOMAIN ListOf(s), j = i
        PROVE  L[ListOf(s)[j]] = [g \in 1 .. s.graphs |-> Results(s, p, ListOf(s)[j], g, t[j][g], kind)]
    BY <1>7, <2>1
  <2> QED
    BY <1>8, <2>1
<1>10. Filled(s, p, L, kind, t)
  BY <1>2, <1>9 DEF Filled
<1> QED
  BY <1>10 DEF L

-----------------------------------------------------------------------------
(* What changes the results of a run.                                       *)

LEMMA OnlyFiledBy ==
    ASSUME TypeInv, NEW p \in Runs, Step(p)
    PROVE  /\ ~NewGraph(p) => run'[p].graph = run[p].graph
           /\ ~(OpenReport(p) \/ NewGraph(p) \/ TrainReturns(p)) => run'[p].curves = run[p].curves
           /\ ~(OpenReport(p) \/ NewGraph(p) \/ EvaluateLast(p)) =>
                run'[p].costBest = run[p].costBest /\ run'[p].costLast = run[p].costLast
<1>1. CASE Start(p)
  <2>1. Changes(p, {"pc", "second"})
    BY <1>1, StartEffect
  <2> QED
    BY <1>1, <2>1 DEF Changes, Fields
<1>2. CASE Moves(p)
  <2>1. Changes(p, {"pc"})
    BY <1>2, MoveEffect
  <2> QED
    BY <1>2, <2>1 DEF Changes, Fields
<1>3. CASE OpenReport(p)
  <2>1. Changes(p, {"pc", "costBest", "costLast", "curves"})
    BY <1>3, OpenReportEffect
  <2> QED
    BY <1>3, <2>1 DEF Changes, Fields
<1>4. CASE LoadGraph(p)
  <2>1. Changes(p, {"pc", "G"})
    BY <1>4, LoadGraphEffect
  <2> QED
    BY <1>4, <2>1 DEF Changes, Fields
<1>5. CASE NewGraph(p)
  <2>1. Changes(p, {"pc", "graph", "costBest", "costLast", "curves", "G", "realization"})
    BY <1>5, NewGraphEffect
  <2> QED
    BY <1>5, <2>1 DEF Changes, Fields
<1>6. CASE NewData(p)
  <2>1. Changes(p, {"pc", "realization", "data"})
    BY <1>6, NewDataEffect
  <2> QED
    BY <1>6, <2>1 DEF Changes, Fields
<1>7. CASE BuildModels(p)
  <2>1. Changes(p, {"pc", "models", "optionsPer", "at"})
    BY <1>7, BuildModelsEffect
  <2> QED
    BY <1>7, <2>1 DEF Changes, Fields
<1>8. CASE Train(p)
  <2>1. Changes(p, {"pc", "options"})
    BY <1>8, TrainEffect
  <2> QED
    BY <1>8, <2>1 DEF Changes, Fields
<1>9. CASE TrainReturns(p)
  <2>1. Changes(p, {"pc", "models", "curves", "at"})
    BY <1>9, TrainReturnsEffect
  <2> QED
    BY <1>9, <2>1 DEF Changes, Fields
<1>10. CASE TrainingDone(p)
  <2>1. Changes(p, {"pc", "at"})
    BY <1>10, TrainingDoneEffect
  <2> QED
    BY <1>10, <2>1 DEF Changes, Fields
<1>11. CASE EvaluateBest(p)
  <2>1. Changes(p, {"pc", "best"})
    BY <1>11, EvaluateBestEffect
  <2> QED
    BY <1>11, <2>1 DEF Changes, Fields
<1>12. CASE EvaluateLast(p)
  <2>1. Changes(p, {"pc", "best", "costBest", "costLast", "at"})
    BY <1>12, EvaluateLastEffect
  <2> QED
    BY <1>12, <2>1 DEF Changes, Fields
<1>13. CASE Statistics(p)
  <2>1. Changes(p, {"pc", "mean"})
    BY <1>13, StatisticsEffect
  <2> QED
    BY <1>13, <2>1 DEF Changes, Fields
<1>14. CASE Plot(p)
  <2>1. Changes(p, {"pc", "figure"})
    BY <1>14, PlotEffect
  <2> QED
    BY <1>14, <2>1 DEF Changes, Fields
<1> QED
  BY <1>1, <1>2, <1>3, <1>4, <1>5, <1>6, <1>7, <1>8, <1>9, <1>10, <1>11, <1>12, <1>13, <1>14, StepCases

\* The lists of a run are there once it has opened its report.
Opened(v) == v.graph > 0 \/ v.pc \in {"load", "graph"}

LEMMA OpenedBefore ==
    ASSUME TypeInv, PlaceInv, NEW p \in Runs, Step(p), ~OpenReport(p), Opened(run'[p])
    PROVE  Opened(run[p])
<1> DEFINE v == run[p]
           w == run'[p]
<1>1. Numbers(setting, v) /\ Position(setting, p, v)
  BY NumbersOf DEF PlaceInv
<1>2. CASE NewGraph(p)
  BY <1>2, NewGraphEffect DEF Opened
<1>3. CASE w.graph > 0 /\ ~NewGraph(p)
  BY <1>3, OnlyFiledBy DEF Opened
<1>4. CASE w.pc \in {"load", "graph"}
  <2>1. CASE LoadGraph(p)
    BY <2>1, LoadGraphEffect DEF Opened
  <2>2. CASE Moves(p)
    <3>1. v.pc \in {"data", "graph"}
      BY <1>4, <2>2, MoveEffect
    <3> QED
      BY <1>1, <3>1 DEF Opened, Position
  <2>3. CASE ~(LoadGraph(p) \/ Moves(p))
    <3>1. CASE Start(p)
      BY <1>4, <3>1, StartEffect
    <3>2. CASE NewGraph(p) \/ NewData(p) \/ BuildModels(p)
      BY <1>4, <3>2, NewGraphEffect, NewDataEffect, BuildModelsEffect
    <3>3. CASE Train(p) \/ TrainReturns(p) \/ TrainingDone(p)
      BY <1>4, <3>3, TrainEffect, TrainReturnsEffect, TrainingDoneEffect
    <3>4. CASE EvaluateBest(p) \/ EvaluateLast(p)
      BY <1>4, <3>4, EvaluateBestEffect, EvaluateLastEffect
    <3>5. CASE Statistics(p) \/ Plot(p)
      BY <1>4, <3>5, StatisticsEffect, PlotEffect
    <3> QED
      BY <2>3, <3>1, <3>2, <3>3, <3>4, <3>5, StepCases
  <2> QED
    BY <2>1, <2>2, <2>3
<1> QED
  BY <1>2, <1>3, <1>4 DEF Opened

\* Of two tables t has one more than n at i, g.
OneMore(D, G, n, t, i, g) ==
    /\ i \in D /\ g \in G
    /\ n = [j \in D |-> [h \in G |-> n[j][h]]] /\ t = [j \in D |-> [h \in G |-> t[j][h]]]
    /\ \A j \in D, h \in G : t[j][h] = IF j = i /\ h = g THEN n[i][g] + 1 ELSE n[j][h]

LEMMA CountedUp ==
    ASSUME NEW D, NEW G, NEW n, NEW t, NEW i, NEW g, OneMore(D, G, n, t, i, g)
    PROVE  t = [n EXCEPT ![i] = [n[i] EXCEPT ![g] = n[i][g] + 1]]
<1> USE DEF OneMore
<1>1. \A j \in D : j # i => t[j] = n[j]
  <2>1. ASSUME NEW j \in D, j # i
        PROVE  [h \in G |-> t[j][h]] = [h \in G |-> n[j][h]]
    BY <2>1
  <2>2. \A j \in D : t[j] = [h \in G |-> t[j][h]] /\ n[j] = [h \in G |-> n[j][h]]
    OBVIOUS
  <2> QED
    BY <2>1, <2>2
<1>2. t[i] = [n[i] EXCEPT ![g] = n[i][g] + 1]
  <2>1. t[i] = [h \in G |-> t[i][h]] /\ n[i] = [h \in G |-> n[i][h]]
    OBVIOUS
  <2>2. \A h \in G : t[i][h] = IF h = g THEN n[i][g] + 1 ELSE n[i][h]
    OBVIOUS
  <2> QED
    BY <2>1, <2>2
<1>3. DOMAIN n = D /\ DOMAIN t = D /\ t = [j \in D |-> t[j]]
  OBVIOUS
<1> QED
  BY <1>1, <1>2, <1>3

\* Training and evaluation count a realization for the model at hand.
LEMMA TrainingCounted ==
    ASSUME TypeInv, PlaceInv, NEW p \in Runs, TrainReturns(p)
    PROVE  LET n == Trainings(setting, run[p])
               i == run[p].at
               g == run[p].graph
           IN  /\ g \in 1 .. setting.graphs /\ n[i][g] + 1 = run[p].realization
               /\ Trainings(setting, run'[p]) = [n EXCEPT ![i] = [n[i] EXCEPT ![g] = n[i][g] + 1]]
<1> DEFINE s == setting
           v == run[p]
           w == run'[p]
           i == v.at
           g == v.graph
           n == Trainings(s, v)
<1>1. Numbers(s, v) /\ Position(s, p, v)
  BY NumbersOf DEF PlaceInv
<1>2. Changes(p, {"pc", "models", "curves", "at"}) /\ v.pc = "last" /\ w.pc = "train" /\ w.at = v.at + 1
  BY TrainReturnsEffect
<1>3. w.graph = v.graph /\ w.realization = v.realization
  BY <1>2 DEF Changes, Fields
<1>4. i \in DOMAIN ListOf(s) /\ g \in 1 .. s.graphs
  <2>1. i \in DOMAIN ListOf(s)
    BY <1>2, AtWork, NameAtHand
  <2>2. v.graph > 0
    BY <1>1, <1>2 DEF Position, Inside
  <2> QED
    BY <1>1, <2>1, <2>2 DEF Numbers
<1>5. TrainedTimes(s, v, g, i) + 1 = v.realization
  BY <1>1, <1>2, <1>4 DEF Numbers, TrainedTimes, Completed
<1>6. \A j \in DOMAIN ListOf(s), h \in 1 .. s.graphs :
         TrainedTimes(s, w, h, j) = IF j = i /\ h = g THEN v.realization ELSE TrainedTimes(s, v, h, j)
  BY <1>1, <1>2, <1>3, <1>4, SMTT(30) DEF Numbers, TrainedTimes, Completed
<1>7. n[i][g] + 1 = v.realization
  BY <1>4, <1>5 DEF Trainings
<1>8. Trainings(s, w) = [n EXCEPT ![i] = [n[i] EXCEPT ![g] = n[i][g] + 1]]
  <2> DEFINE t == Trainings(s, w)
             D == DOMAIN ListOf(s)
             G == 1 .. s.graphs
  <2>1. /\ n = [j \in D |-> [h \in G |-> TrainedTimes(s, v, h, j)]]
        /\ t = [j \in D |-> [h \in G |-> TrainedTimes(s, w, h, j)]]
    BY DEF Trainings
  <2>2. /\ n = [j \in D |-> [h \in G |-> n[j][h]]]
        /\ t = [j \in D |-> [h \in G |-> t[j][h]]]
    BY <2>1
  <2>3. \A j \in D, h \in G : t[j][h] = IF j = i /\ h = g THEN n[i][g] + 1 ELSE n[j][h]
    BY <1>4, <1>6, <1>7, <2>1
  <2> HIDE DEF n, t, D, G
  <2>4. i \in D /\ g \in G
    BY <1>4 DEF D, G
  <2> HIDE DEF i, g
  <2>5. OneMore(D, G, n, t, i, g)
    BY <2>2, <2>3, <2>4 DEF OneMore
  <2>6. t = [n EXCEPT ![i] = [n[i] EXCEPT ![g] = n[i][g] + 1]]
    BY <2>5, CountedUp
  <2> QED
    BY <2>6 DEF t, n, i, g
<1> QED
  BY <1>4, <1>7, <1>8

LEMMA EvaluationCounted ==
    ASSUME TypeInv, PlaceInv, NEW p \in Runs, EvaluateLast(p)
    PROVE  LET n == Evaluations(setting, run[p])
               i == run[p].at
               g == run[p].graph
           IN  /\ g \in 1 .. setting.graphs /\ n[i][g] + 1 = run[p].realization
               /\ Evaluations(setting, run'[p]) = [n EXCEPT ![i] = [n[i] EXCEPT ![g] = n[i][g] + 1]]
<1> DEFINE s == setting
           v == run[p]
           w == run'[p]
           i == v.at
           g == v.graph
           n == Evaluations(s, v)
<1>1. Numbers(s, v) /\ Position(s, p, v)
  BY NumbersOf DEF PlaceInv
<1>2. /\ Changes(p, {"pc", "best", "costBest", "costLast", "at"})
      /\ v.pc = "evaluate last" /\ w.pc = "evaluate" /\ w.at = v.at + 1
  BY EvaluateLastEffect
<1>3. w.graph = v.graph /\ w.realization = v.realization
  BY <1>2 DEF Changes, Fields
<1>4. i \in DOMAIN ListOf(s) /\ g \in 1 .. s.graphs
  <2>1. i \in DOMAIN ListOf(s)
    BY <1>2, AtWork, NameAtHand
  <2>2. v.graph > 0
    BY <1>1, <1>2 DEF Position, Inside
  <2> QED
    BY <1>1, <2>1, <2>2 DEF Numbers
<1> DEFINE r == v.realization
<1>9. \A j, h : EvaluatedTimes(s, v, h, j) = Completed(s, v, h, IF j >= i THEN r - 1 ELSE r)
  BY <1>2 DEF EvaluatedTimes
<1>10. \A j, h : EvaluatedTimes(s, w, h, j) = Completed(s, v, h, IF j >= i + 1 THEN r - 1 ELSE r)
  BY <1>2, <1>3 DEF EvaluatedTimes, Completed
<1>5. EvaluatedTimes(s, v, g, i) + 1 = v.realization
  BY <1>1, <1>4, <1>9 DEF Numbers, Completed
<1>6. \A j \in DOMAIN ListOf(s), h \in 1 .. s.graphs :
         EvaluatedTimes(s, w, h, j) = IF j = i /\ h = g THEN v.realization ELSE EvaluatedTimes(s, v, h, j)
  BY <1>1, <1>4, <1>9, <1>10 DEF Numbers, Completed
<1>7. n[i][g] + 1 = v.realization
  BY <1>4, <1>5 DEF Evaluations
<1>8. Evaluations(s, w) = [n EXCEPT ![i] = [n[i] EXCEPT ![g] = n[i][g] + 1]]
  <2> DEFINE t == Evaluations(s, w)
             D == DOMAIN ListOf(s)
             G == 1 .. s.graphs
  <2>1. /\ n = [j \in D |-> [h \in G |-> EvaluatedTimes(s, v, h, j)]]
        /\ t = [j \in D |-> [h \in G |-> EvaluatedTimes(s, w, h, j)]]
    BY DEF Evaluations
  <2>2. /\ n = [j \in D |-> [h \in G |-> n[j][h]]]
        /\ t = [j \in D |-> [h \in G |-> t[j][h]]]
    BY <2>1
  <2>3. \A j \in D, h \in G : t[j][h] = IF j = i /\ h = g THEN n[i][g] + 1 ELSE n[j][h]
    BY <1>4, <1>6, <1>7, <2>1
  <2> HIDE DEF n, t, D, G
  <2>4. i \in D /\ g \in G
    BY <1>4 DEF D, G
  <2> HIDE DEF i, g
  <2>5. OneMore(D, G, n, t, i, g)
    BY <2>2, <2>3, <2>4 DEF OneMore
  <2>6. t = [n EXCEPT ![i] = [n[i] EXCEPT ![g] = n[i][g] + 1]]
    BY <2>5, CountedUp
  <2> QED
    BY <2>6 DEF t, n, i, g
<1> QED
  BY <1>4, <1>7, <1>8

LEMMA NothingCounted ==
    ASSUME NEW s, NEW v, s.graphs \in Nat, v.graph \in Nat, NEW g \in 1 .. s.graphs, g > v.graph,
           NEW i \in DOMAIN ListOf(s)
    PROVE  Trainings(s, v)[i][g] = 0 /\ Evaluations(s, v)[i][g] = 0
<1>1. ~(g < v.graph) /\ g # v.graph
  OBVIOUS
<1>2. \A n : Completed(s, v, g, n) = 0
  BY <1>1 DEF Completed
<1> QED
  BY <1>2 DEF Trainings, Evaluations, TrainedTimes, EvaluatedTimes

LEMMA NoneInGraphZero ==
    ASSUME NEW s, NEW v, v.graph = 0
    PROVE  \A i \in DOMAIN ListOf(s), g \in 1 .. s.graphs :
              Trainings(s, v)[i][g] = 0 /\ Evaluations(s, v)[i][g] = 0
<1>1. \A g \in 1 .. s.graphs : ~(g < v.graph) /\ g # v.graph
  OBVIOUS
<1>2. \A g \in 1 .. s.graphs : \A n : Completed(s, v, g, n) = 0
  BY <1>1 DEF Completed
<1> QED
  BY <1>1, <1>2 DEF Trainings, Evaluations, TrainedTimes, EvaluatedTimes

-----------------------------------------------------------------------------
(* The curves.                                                              *)

CurvesOf(s, p, v) ==
    Opened(v) => /\ v.graph > 0 => s.doFigs \/ ModelsOf(s) = {}
                 /\ s.doFigs => Filled(s, p, v.curves, "curve", Trainings(s, v))

CurvesInv == \A p \in Runs : CurvesOf(setting, p, run[p])

LEMMA CurvesInit == Init => CurvesInv
BY DEF Init, Fresh, CurvesInv, CurvesOf, Opened

LEMMA CurvesStep ==
    ASSUME TrainingInv, CurvesInv, [Next]_vars
    PROVE  CurvesInv'
<1> USE DEF TrainingInv
<1>1. CASE UNCHANGED vars \/ Tick
  BY <1>1 DEF vars, Tick, CurvesInv
<1>2. ASSUME NEW p \in Runs, Step(p)
      PROVE  CurvesInv'
  <2> DEFINE s == setting
             v == run[p]
             w == run'[p]
  <2>1. CurvesOf(s, p, v) /\ Numbers(s, v) /\ Position(s, p, v)
    BY NumbersOf DEF CurvesInv, PlaceInv
  <2>2. SUFFICES CurvesOf(s, p, w)
    BY <1>2, OnlyBy DEF CurvesInv
  <2>3. CASE OpenReport(p)
    <3>1. v.pc = "open" /\ w.graph = v.graph
      BY <1>2, <2>3, OpenReportEffect, OnlyFiledBy DEF NewGraph, OpenReport
    <3>2. w.graph = 0
      BY <2>1, <3>1 DEF Position, Early
    <3>3. s.doFigs => w.curves = [m \in ModelsOf(s) |-> [g \in 1 .. s.graphs |-> <<>>]]
      BY <2>3, OpenReportEffect, InTermsOfSettings DEF PerGraph
    <3>4. \A i \in DOMAIN ListOf(s), g \in 1 .. s.graphs : Trainings(s, w)[i][g] = 0
      BY <3>2, NoneInGraphZero
    <3> QED
      BY <3>2, <3>3, <3>4, FilledAtFirst DEF CurvesOf
  <2>4. CASE NewGraph(p)
    <3> DEFINE h == v.graph + 1
    <3>1. v.pc = "graph" /\ v.graph < s.graphs /\ w.curves = Emptied(v.curves, h)
      BY <2>4, NewGraphEffect
    <3>2. Trainings(s, w) = Trainings(s, v)
      <4>1. ~TrainReturns(p)
        BY <3>1 DEF TrainReturns
      <4> QED
        BY <1>2, <4>1, CountsStep, SameCounts
    <3>3. h \in 1 .. s.graphs /\ \A i \in DOMAIN ListOf(s) : Trainings(s, v)[i][h] = 0
      <4>1. h \in 1 .. s.graphs /\ h > v.graph /\ s.graphs \in Nat /\ v.graph \in Nat
        BY <2>1, <3>1 DEF Numbers
      <4> HIDE DEF h
      <4> QED
        BY <4>1, NothingCounted
    <3>4. s.doFigs => Filled(s, p, v.curves, "curve", Trainings(s, v))
      <4>1. Opened(v)
        BY <3>1 DEF Opened
      <4> QED
        BY <2>1, <4>1 DEF CurvesOf
    <3>5. s.doFigs => Filled(s, p, w.curves, "curve", Trainings(s, v))
      BY <3>1, <3>3, <3>4, FilledEmptied
    <3>6. s.doFigs \/ ModelsOf(s) = {}
      BY <2>4, NewGraphEffect, InTermsOfSettings
    <3> QED
      BY <3>2, <3>5, <3>6 DEF CurvesOf
  <2>5. CASE TrainReturns(p)
    <3> DEFINE n == Trainings(s, v)
               i == v.at
               g == v.graph
               x == Trained(p, "Last")
    <3>1. /\ v.pc = "last"
          /\ s.doFigs => w.curves = Filed(v.curves, ModelName(Current(p)), g, x)
      BY <2>5, TrainReturnsEffect
    <3>2. MoreModels(p)
      BY <3>1, AtWork
    <3>3. i \in DOMAIN ListOf(s) /\ ModelName(Current(p)) = ListOf(s)[i]
      BY <3>2, NameAtHand DEF AtHand
    <3>4. /\ g \in 1 .. s.graphs /\ n[i][g] + 1 = v.realization
          /\ Trainings(s, w) = [n EXCEPT ![i] = [n[i] EXCEPT ![g] = n[i][g] + 1]]
      BY <2>5, TrainingCounted
    <3>5. x = Result(s, p, ListOf(s)[i], g, v.realization, "curve")
      BY <3>1, <3>2, TrainedWeights DEF Result, AtHand
    <3>6. g > 0 /\ w.graph = g
      BY <1>2, <2>1, <2>5, <3>1, OnlyFiledBy DEF Position, Inside, NewGraph
    <3>7. n \in Counts(s)
      BY CountsAreCounts
    <3>8. s.doFigs => Filled(s, p, v.curves, "curve", n)
      BY <2>1, <3>6 DEF CurvesOf, Opened
    <3>9. x = Result(s, p, ListOf(s)[i], g, n[i][g] + 1, "curve")
      BY <3>4, <3>5
    <3>10. s.doFigs => Filled(s, p, Filed(v.curves, ListOf(s)[i], g, x), "curve", Trainings(s, w))
      <4> DEFINE t == Trainings(s, w)
                 L == v.curves
      <4>1. t = [n EXCEPT ![i] = [n[i] EXCEPT ![g] = n[i][g] + 1]]
        BY <3>4
      <4> HIDE DEF n, i, g, x, t, L
      <4>2. g \in 1 .. s.graphs /\ i \in DOMAIN ListOf(s)
        BY <3>3, <3>4
      <4>3. x = Result(s, p, ListOf(s)[i], g, n[i][g] + 1, "curve")
        BY <3>9
      <4>4. s.doFigs => Filled(s, p, L, "curve", n)
        BY <3>8 DEF L
      <4>5. s.doFigs => Filled(s, p, Filed(L, ListOf(s)[i], g, x), "curve", t)
        BY <3>7, <4>1, <4>2, <4>3, <4>4, FilledOneMore
      <4> QED
        BY <4>5 DEF t, L
    <3>11. s.doFigs \/ ModelsOf(s) = {}
      BY <2>1, <3>6 DEF CurvesOf, Opened
    <3>12. s.doFigs => w.curves = Filed(v.curves, ListOf(s)[i], g, x)
      BY <3>1, <3>3
    <3> QED
      BY <3>10, <3>11, <3>12 DEF CurvesOf
  <2>6. CASE ~(OpenReport(p) \/ NewGraph(p) \/ TrainReturns(p))
    <3>1. w.curves = v.curves /\ w.graph = v.graph
      BY <1>2, <2>6, OnlyFiledBy
    <3>2. Trainings(s, w) = Trainings(s, v)
      BY <1>2, <2>6, CountsStep, SameCounts
    <3>3. Opened(w) => Opened(v)
      BY <1>2, <2>6, OpenedBefore
    <3> QED
      BY <2>1, <3>1, <3>2, <3>3 DEF CurvesOf
  <2> QED
    BY <2>3, <2>4, <2>5, <2>6
<1> QED
  BY <1>1, <1>2 DEF Next

-----------------------------------------------------------------------------
(* The disk of a run that has its directory to itself.                      *)

Holds(s, p, S, m, g, r, version) ==
    /\ <<NameOf(s, m, g, r), version>> \in DOMAIN S
    /\ S[<<NameOf(s, m, g, r), version>>] = Weights(s, p, m, g, r, version)

LEMMA HoldsNew ==
    ASSUME NEW s, NEW p, NEW S, NEW m, NEW g, NEW r, NEW version
    PROVE  Holds(s, p, Put(S, <<NameOf(s, m, g, r), version>>, Weights(s, p, m, g, r, version)), m, g, r, version)
<1> DEFINE k == <<NameOf(s, m, g, r), version>>
           x == Weights(s, p, m, g, r, version)
<1>1. k \in DOMAIN Put(S, k, x) /\ Put(S, k, x)[k] = x
  <2> HIDE DEF k, x
  <2> QED
    BY DEF Put
<1> QED
  BY <1>1 DEF Holds

\* A model is only overwritten by the same.
LEMMA HoldsOn ==
    ASSUME NEW s, NEW v, Numbers(s, v), NEW p, NEW S, NEW m, NEW o,
           NEW g \in 1 .. s.graphs, NEW h \in 1 .. s.graphs,
           NEW r \in 1 .. s.realizations, NEW t \in 1 .. s.realizations, NEW version, NEW u,
           Holds(s, p, S, m, g, r, version)
    PROVE  Holds(s, p, Put(S, <<NameOf(s, o, h, t), u>>, Weights(s, p, o, h, t, u)), m, g, r, version)
<1> DEFINE k == <<NameOf(s, m, g, r), version>>
           j == <<NameOf(s, o, h, t), u>>
           x == Weights(s, p, o, h, t, u)
<1>1. k = j => x = Weights(s, p, m, g, r, version)
  <2>1. ASSUME k = j
        PROVE  m = o /\ g = h /\ r = t /\ version = u
    <3>1. NameOf(s, m, g, r) = NameOf(s, o, h, t) /\ version = u
      BY <2>1
    <3>2. s.graphs \in Nat \ {0} /\ s.realizations \in Nat \ {0}
      BY DEF Numbers
    <3> QED
      BY <3>1, <3>2, NamesDiffer
  <2> QED
    BY <2>1
<1>2. k \in DOMAIN S /\ S[k] = Weights(s, p, m, g, r, version)
  BY DEF Holds
<1>3. k \in DOMAIN Put(S, j, x) /\ Put(S, j, x)[k] = IF k = j THEN x ELSE S[k]
  <2> HIDE DEF k, j, x
  <2> QED
    BY <1>2 DEF Put
<1>4. Put(S, j, x)[k] = Weights(s, p, m, g, r, version)
  BY <1>1, <1>2, <1>3
<1> QED
  BY <1>3, <1>4 DEF Holds

StoredAll(s, p, S, n) ==
    \A i \in DOMAIN ListOf(s), g \in 1 .. s.graphs : \A r \in 1 .. n[i][g], version \in {"Best", "Last"} :
        Holds(s, p, S, ListOf(s)[i], g, r, version)

Line(s, p, m, g, r) ==
    [name |-> NameOf(s, m, g, r), best |-> Cost(s, p, m, g, r, "Best"), last |-> Cost(s, p, m, g, r, "Last")]
ReportedAll(s, p, R, n) ==
    \A i \in DOMAIN ListOf(s), g \in 1 .. s.graphs : \A r \in 1 .. n[i][g] : Line(s, p, ListOf(s)[i], g, r) \in R

StoredOf(s, p, v, S) ==
    /\ StoredAll(s, p, S, Trainings(s, v))
    /\ v.pc = "last" => Holds(s, p, S, ListOf(s)[v.at], v.graph, v.realization, "Best")

CostsOf(s, p, v) ==
    /\ Opened(v) => /\ Filled(s, p, v.costBest, "best", Evaluations(s, v))
                    /\ Filled(s, p, v.costLast, "last", Evaluations(s, v))
    /\ v.pc = "evaluate last" => v.best = Cost(s, p, ListOf(s)[v.at], v.graph, v.realization, "Best")

AloneOf(s, p, v, S, R) ==
    CostsOf(s, p, v) /\ StoredOf(s, p, v, S) /\ ReportedAll(s, p, R, Evaluations(s, v))

AloneInv ==
    \A p \in Runs : Alone(p) => AloneOf(setting, p, run[p], saved[run[p].second], report[run[p].second])

\* Before its first graph a run has nothing to keep.
Beginning(v) == v.graph = 0 /\ v.pc \in {"start", "make", "open"}

LEMMA NothingYet ==
    ASSUME NEW s, NEW p, NEW v, NEW S, NEW R, s.graphs \in Nat, Beginning(v)
    PROVE  AloneOf(s, p, v, S, R)
<1>1. \A i \in DOMAIN ListOf(s), g \in 1 .. s.graphs : Trainings(s, v)[i][g] = 0 /\ Evaluations(s, v)[i][g] = 0
  BY NoneInGraphZero DEF Beginning
<1>2. ~Opened(v) /\ v.pc # "last" /\ v.pc # "evaluate last"
  <2>1. v.pc # "load" /\ v.pc # "graph" /\ v.pc # "last" /\ v.pc # "evaluate last"
    BY DEF Beginning
  <2>2. ~(v.graph > 0)
    <3>1. v.graph = 0
      BY DEF Beginning
    <3> QED
      BY <3>1
  <2> QED
    BY <2>1, <2>2 DEF Opened
<1>3. 1 .. 0 = {}
  OBVIOUS
<1>4. StoredAll(s, p, S, Trainings(s, v)) /\ ReportedAll(s, p, R, Evaluations(s, v))
  BY <1>1, <1>3 DEF StoredAll, ReportedAll
<1> QED
  BY <1>2, <1>4 DEF AloneOf, CostsOf, StoredOf

LEMMA AloneInit == Init => AloneInv
BY DEF Init, Fresh, AloneInv, Alone, Started

\* What a step writes is in its run's directory.
LEMMA OnlyWrites ==
    ASSUME TypeInv, NEW q \in Runs, Step(q)
    PROVE  /\ \A d \in Seconds \ {run[q].second} : saved'[d] = saved[d] /\ report'[d] = report[d]
           /\ ~(Train(q) \/ TrainReturns(q)) => saved' = saved
           /\ ~(OpenReport(q) \/ EvaluateLast(q)) => report' = report
<1>1. CASE Train(q)
  BY <1>1, TrainEffect DEF TypeInv
<1>2. CASE TrainReturns(q)
  BY <1>2, TrainReturnsEffect DEF TypeInv
<1>3. CASE OpenReport(q)
  BY <1>3, OpenReportEffect DEF TypeInv
<1>4. CASE EvaluateLast(q)
  BY <1>4, EvaluateLastEffect DEF TypeInv
<1>5. CASE ~(Train(q) \/ TrainReturns(q) \/ OpenReport(q) \/ EvaluateLast(q))
  <2>1. saved' = saved /\ report' = report
    <3>1. CASE Start(q) \/ Moves(q) \/ LoadGraph(q)
      BY <3>1, StartEffect, MoveEffect, LoadGraphEffect DEF disk
    <3>2. CASE NewGraph(q) \/ NewData(q) \/ BuildModels(q)
      BY <3>2, NewGraphEffect, NewDataEffect, BuildModelsEffect DEF disk
    <3>3. CASE TrainingDone(q) \/ EvaluateBest(q)
      BY <3>3, TrainingDoneEffect, EvaluateBestEffect DEF disk
    <3>4. CASE Statistics(q) \/ Plot(q)
      BY <3>4, StatisticsEffect, PlotEffect DEF disk
    <3> QED
      BY <1>5, <3>1, <3>2, <3>3, <3>4, StepCases
  <2> QED
    BY <2>1
<1> QED
  BY <1>1, <1>2, <1>3, <1>4, <1>5

\* Who has a directory to himself had it so before.
LEMMA AloneBefore ==
    ASSUME TypeInv, PlaceInv, NEW q \in Runs, Step(q), NEW p \in Runs, Alone(p)', ~(p = q /\ Start(q))
    PROVE  /\ Alone(p) /\ run'[p].second = run[p].second /\ run[p].second \in Seconds
           /\ p # q => run[p].second # run[q].second
<1>1. \A o \in Runs \ {q} : run'[o] = run[o]
  BY OnlyBy
<1>2. ~Start(q) => run'[q].second = run[q].second
  BY OnlyBy
<1>3. Start(q) => run[q].second = 0
  <2>1. Position(setting, q, run[q])
    BY DEF PlaceInv
  <2>2. Start(q) => run[q].pc = "start"
    BY DEF Start
  <2> QED
    BY <2>1, <2>2 DEF Position
<1>4. run'[p].second = run[p].second
  BY <1>1, <1>2
<1>5. run[p].second # 0 /\ \A o \in Runs \ {p} : run'[o].second # run[p].second
  BY <1>4 DEF Alone, Started
<1>6. \A o \in Runs \ {p} : run[o].second # run[p].second
  BY <1>1, <1>2, <1>3, <1>5
<1>7. run[p].second \in Seconds
  <2>1. run[p].second \in 0 .. MaxSecond
    BY DEF TypeInv, TypeOf
  <2> QED
    BY <1>5, <2>1, SettingsFacts DEF Seconds
<1> QED
  BY <1>4, <1>5, <1>6, <1>7 DEF Alone, Started

Evaluating(v) == v.pc \in {"evaluate", "evaluate last"}

\* The version of the model at hand that evaluate() reads back.
LEMMA ReadBack ==
    ASSUME TrainingInv, NEW p \in Runs, MoreModels(p), Evaluating(run[p]),
           StoredOf(setting, p, run[p], saved[run[p].second]), NEW version \in {"Best", "Last"}
    PROVE  [weights |-> saved[run[p].second][<<Current(p), version>>], data |-> run[p].data]
             = Cost(setting, p, AtHand(p), run[p].graph, run[p].realization, version)
<1> USE DEF TrainingInv
<1> DEFINE s == setting
           v == run[p]
           S == saved[v.second]
           i == v.at
           g == v.graph
           r == v.realization
<1>1. Numbers(s, v) /\ Position(s, p, v)
  BY NumbersOf DEF PlaceInv
<1>2. i \in DOMAIN ListOf(s) /\ Current(p) = NameOf(s, AtHand(p), g, r)
  BY NameAtHand
<1>3. g > 0 /\ r > 0 /\ v.data = Data(p, g, r)
  BY <1>1 DEF Position, Inside, Evaluating
<1>4. g \in 1 .. s.graphs /\ r \in 1 .. s.realizations
  BY <1>1, <1>3 DEF Numbers
<1>5. TrainedTimes(s, v, g, i) = r
  <2>1. v.pc # "build" /\ v.pc # "train" /\ v.pc # "last"
    BY DEF Evaluating
  <2>2. ~(g < g)
    BY <1>4
  <2> QED
    BY <2>1, <2>2 DEF TrainedTimes, Completed
<1>6. Trainings(s, v)[i][g] = r
  BY <1>2, <1>4, <1>5 DEF Trainings
<1>7. r \in 1 .. Trainings(s, v)[i][g]
  BY <1>4, <1>6
<1>8. Holds(s, p, S, ListOf(s)[i], g, r, version)
  BY <1>2, <1>4, <1>7 DEF StoredOf, StoredAll
<1>9. S[<<Current(p), version>>] = Weights(s, p, AtHand(p), g, r, version)
  BY <1>2, <1>8 DEF Holds, AtHand
<1> QED
  BY <1>3, <1>9 DEF Cost

LEMMA CostsStep ==
    ASSUME TrainingInv, NEW p \in Runs, Step(p), CostsOf(setting, p, run[p]),
           StoredOf(setting, p, run[p], saved[run[p].second])
    PROVE  CostsOf(setting, p, run'[p])
<1> USE DEF TrainingInv
<1> DEFINE s == setting
           v == run[p]
           w == run'[p]
           n == Evaluations(s, v)
           t == Evaluations(s, w)
<1>1. Numbers(s, v) /\ Position(s, p, v)
  BY NumbersOf DEF PlaceInv
<1>2. CASE OpenReport(p)
  <2>1. v.pc = "open" /\ w.pc \in {"load", "graph"} /\ w.graph = v.graph
    BY <1>2, OpenReportEffect, OnlyFiledBy DEF NewGraph, OpenReport
  <2>2. w.graph = 0
    BY <1>1, <2>1 DEF Position, Early
  <2>3. /\ w.costBest = [m \in ModelsOf(s) |-> [g \in 1 .. s.graphs |-> <<>>]]
        /\ w.costLast = [m \in ModelsOf(s) |-> [g \in 1 .. s.graphs |-> <<>>]]
    BY <1>2, OpenReportEffect, InTermsOfSettings DEF PerGraph
  <2>4. \A i \in DOMAIN ListOf(s), g \in 1 .. s.graphs : t[i][g] = 0
    BY <2>2, NoneInGraphZero
  <2>5. Filled(s, p, w.costBest, "best", t) /\ Filled(s, p, w.costLast, "last", t)
    <3> HIDE DEF t
    <3> QED
      BY <2>3, <2>4, FilledAtFirst
  <2>6. w.pc # "evaluate last"
    BY <2>1
  <2> QED
    BY <2>5, <2>6 DEF CostsOf
<1>3. CASE NewGraph(p)
  <2> DEFINE h == v.graph + 1
  <2>1. /\ v.pc = "graph" /\ v.graph < s.graphs /\ w.pc = "data"
        /\ w.costBest = Emptied(v.costBest, h) /\ w.costLast = Emptied(v.costLast, h)
    BY <1>3, NewGraphEffect
  <2>2. t = n
    <3>1. ~EvaluateLast(p)
      BY <2>1 DEF EvaluateLast
    <3> QED
      BY <3>1, CountsStep, SameCounts
  <2>3. h \in 1 .. s.graphs /\ \A i \in DOMAIN ListOf(s) : n[i][h] = 0
    <3>1. h \in 1 .. s.graphs /\ h > v.graph /\ s.graphs \in Nat /\ v.graph \in Nat
      BY <1>1, <2>1 DEF Numbers
    <3> HIDE DEF h
    <3> QED
      BY <3>1, NothingCounted
  <2>4. Filled(s, p, v.costBest, "best", n) /\ Filled(s, p, v.costLast, "last", n)
    <3>1. Opened(v)
      BY <2>1 DEF Opened
    <3> QED
      BY <3>1 DEF CostsOf
  <2>5. Filled(s, p, w.costBest, "best", n) /\ Filled(s, p, w.costLast, "last", n)
    <3> HIDE DEF n
    <3> QED
      BY <2>1, <2>3, <2>4, FilledEmptied
  <2>6. w.pc # "evaluate last"
    BY <2>1
  <2> QED
    BY <2>2, <2>5, <2>6 DEF CostsOf
<1>4. CASE EvaluateBest(p)
  <2>1. /\ v.pc = "evaluate" /\ MoreModels(p)
        /\ w.best = [weights |-> saved[v.second][<<Current(p), "Best">>], data |-> v.data]
    BY <1>4, EvaluateBestEffect
  <2>2. w.best = Cost(s, p, AtHand(p), v.graph, v.realization, "Best")
    BY <2>1, ReadBack DEF Evaluating
  <2>3. Changes(p, {"pc", "best"})
    BY <1>4, EvaluateBestEffect
  <2>4. /\ w.graph = v.graph /\ w.realization = v.realization /\ w.at = v.at
        /\ w.costBest = v.costBest /\ w.costLast = v.costLast
    BY <2>3 DEF Changes, Fields
  <2>5. t = n /\ (Opened(w) => Opened(v))
    <3>1. ~EvaluateLast(p) /\ ~OpenReport(p)
      BY <2>1 DEF EvaluateLast, OpenReport
    <3> QED
      BY <3>1, CountsStep, SameCounts, OpenedBefore
  <2> QED
    BY <2>2, <2>4, <2>5 DEF CostsOf, AtHand
<1>5. CASE EvaluateLast(p)
  <2> DEFINE i == v.at
             g == v.graph
             r == v.realization
             m == ListOf(s)[i]
             x == [weights |-> saved[v.second][<<Current(p), "Last">>], data |-> v.data]
  <2>1. /\ v.pc = "evaluate last" /\ w.pc = "evaluate"
        /\ w.costBest = Filed(v.costBest, ModelName(Current(p)), g, v.best)
        /\ w.costLast = Filed(v.costLast, ModelName(Current(p)), g, x)
    BY <1>5, EvaluateLastEffect
  <2>2. MoreModels(p)
    BY <2>1, AtWork
  <2>3. i \in DOMAIN ListOf(s) /\ ModelName(Current(p)) = m
    BY <2>2, NameAtHand DEF AtHand
  <2>4. /\ g \in 1 .. s.graphs /\ n[i][g] + 1 = r
        /\ t = [n EXCEPT ![i] = [n[i] EXCEPT ![g] = n[i][g] + 1]]
    BY <1>5, EvaluationCounted
  <2>5. v.best = Result(s, p, m, g, r, "best")
    BY <2>1 DEF CostsOf, Result
  <2>6. x = Result(s, p, m, g, r, "last")
    BY <2>1, <2>2, ReadBack DEF Result, AtHand, Evaluating
  <2>7. Filled(s, p, v.costBest, "best", n) /\ Filled(s, p, v.costLast, "last", n) /\ n \in Counts(s)
    <3>1. v.graph > 0
      BY <1>1, <2>1 DEF Position, Inside
    <3> QED
      BY <3>1, CountsAreCounts DEF CostsOf, Opened
  <2>8. Filled(s, p, w.costBest, "best", t) /\ Filled(s, p, w.costLast, "last", t)
    <3> DEFINE L == v.costBest
               M == v.costLast
               y == v.best
    <3>1. y = Result(s, p, m, g, n[i][g] + 1, "best") /\ x = Result(s, p, m, g, n[i][g] + 1, "last")
      BY <2>4, <2>5, <2>6
    <3>2. w.costBest = Filed(L, m, g, y) /\ w.costLast = Filed(M, m, g, x)
      BY <2>1, <2>3
    <3> HIDE DEF n, t, i, g, x, y, L, M
    <3>3. Filled(s, p, Filed(L, m, g, y), "best", t)
      BY <2>3, <2>4, <2>7, <3>1, FilledOneMore DEF L
    <3>4. Filled(s, p, Filed(M, m, g, x), "last", t)
      BY <2>3, <2>4, <2>7, <3>1, FilledOneMore DEF M
    <3> QED
      BY <3>2, <3>3, <3>4
  <2>9. w.pc # "evaluate last"
    BY <2>1
  <2> QED
    BY <2>8, <2>9 DEF CostsOf
<1>6. CASE ~(OpenReport(p) \/ NewGraph(p) \/ EvaluateBest(p) \/ EvaluateLast(p))
  <2>1. w.costBest = v.costBest /\ w.costLast = v.costLast
    BY <1>6, OnlyFiledBy
  <2>2. t = n
    BY <1>6, CountsStep, SameCounts
  <2>3. Opened(w) => Opened(v)
    BY <1>6, OpenedBefore
  <2>4. w.pc # "evaluate last"
    <3>1. CASE Start(p) \/ Moves(p) \/ LoadGraph(p)
      BY <3>1, StartEffect, MoveEffect, LoadGraphEffect
    <3>2. CASE NewData(p) \/ BuildModels(p)
      BY <3>2, NewDataEffect, BuildModelsEffect
    <3>3. CASE Train(p) \/ TrainReturns(p) \/ TrainingDone(p)
      BY <3>3, TrainEffect, TrainReturnsEffect, TrainingDoneEffect
    <3>4. CASE Statistics(p) \/ Plot(p)
      BY <3>4, StatisticsEffect, PlotEffect
    <3> QED
      BY <1>6, <3>1, <3>2, <3>3, <3>4, StepCases
  <2> QED
    BY <2>1, <2>2, <2>3, <2>4 DEF CostsOf
<1> QED
  BY <1>2, <1>3, <1>4, <1>5, <1>6

LEMMA StoredMore ==
    ASSUME NEW s, NEW v, Numbers(s, v), NEW p, NEW S, NEW n \in Counts(s), StoredAll(s, p, S, n),
           \A i \in DOMAIN ListOf(s), g \in 1 .. s.graphs : n[i][g] \in 0 .. s.realizations,
           NEW o, NEW h \in 1 .. s.graphs, NEW t \in 1 .. s.realizations, NEW u
    PROVE  StoredAll(s, p, Put(S, <<NameOf(s, o, h, t), u>>, Weights(s, p, o, h, t, u)), n)
<1> DEFINE P == Put(S, <<NameOf(s, o, h, t), u>>, Weights(s, p, o, h, t, u))
<1>1. ASSUME NEW i \in DOMAIN ListOf(s), NEW g \in 1 .. s.graphs, NEW r \in 1 .. n[i][g],
             NEW version \in {"Best", "Last"}
      PROVE  Holds(s, p, P, ListOf(s)[i], g, r, version)
  <2>1. r \in 1 .. s.realizations
    <3>1. n[i][g] \in 0 .. s.realizations /\ s.realizations \in Nat
      BY DEF Numbers
    <3> QED
      BY <3>1
  <2>2. Holds(s, p, S, ListOf(s)[i], g, r, version)
    BY DEF StoredAll
  <2> QED
    BY <2>1, <2>2, HoldsOn
<1> QED
  BY <1>1 DEF StoredAll

LEMMA StoredOneMore ==
    ASSUME NEW s, NEW p, NEW S, NEW n \in Counts(s), NEW i \in DOMAIN ListOf(s), NEW g \in 1 .. s.graphs,
           StoredAll(s, p, S, n), NEW t, t = [n EXCEPT ![i] = [n[i] EXCEPT ![g] = n[i][g] + 1]],
           \A version \in {"Best", "Last"} : Holds(s, p, S, ListOf(s)[i], g, n[i][g] + 1, version)
    PROVE  StoredAll(s, p, S, t)
<1>1. n[i][g] \in Nat /\ \A j \in DOMAIN ListOf(s), h \in 1 .. s.graphs :
         t[j][h] = IF j = i /\ h = g THEN n[i][g] + 1 ELSE n[j][h]
  BY DEF Counts
<1>2. ASSUME NEW j \in DOMAIN ListOf(s), NEW h \in 1 .. s.graphs, NEW r \in 1 .. t[j][h],
             NEW version \in {"Best", "Last"}
      PROVE  Holds(s, p, S, ListOf(s)[j], h, r, version)
  <2>1. r \in 1 .. n[j][h] \/ (j = i /\ h = g /\ r = n[i][g] + 1)
    BY <1>1
  <2> QED
    BY <2>1 DEF StoredAll
<1> QED
  BY <1>2 DEF StoredAll

LEMMA StoredKept ==
    ASSUME TrainingInv, NEW p \in Runs, Step(p), run[p].second \in Seconds,
           StoredOf(setting, p, run[p], saved[run[p].second])
    PROVE  StoredOf(setting, p, run'[p], saved'[run[p].second])
<1> USE DEF TrainingInv
<1> DEFINE s == setting
           v == run[p]
           w == run'[p]
           d == v.second
           S == saved[d]
           n == Trainings(s, v)
           i == v.at
           g == v.graph
           r == v.realization
           m == AtHand(p)
<1>1. Numbers(s, v) /\ Position(s, p, v) /\ n \in Counts(s)
  BY NumbersOf, CountsAreCounts DEF PlaceInv
<1>2. \A j \in DOMAIN ListOf(s), h \in 1 .. s.graphs : n[j][h] \in 0 .. s.realizations
  BY <1>1, CountsInRange DEF Trainings
<1>3. StoredAll(s, p, S, n) /\ DOMAIN saved = Seconds
  BY DEF StoredOf, TypeInv
<1>4. CASE Train(p)
  <2>1. /\ Changes(p, {"pc", "options"}) /\ v.pc = "train" /\ w.pc = "last" /\ MoreModels(p)
        /\ saved'[d] = Put(S, <<Current(p), "Best">>, Trained(p, "Best"))
    BY <1>3, <1>4, TrainEffect
  <2>2. w.at = i /\ w.graph = g /\ w.realization = r
    BY <2>1 DEF Changes, Fields
  <2>3. /\ g \in 1 .. s.graphs /\ r \in 1 .. s.realizations
        /\ Trained(p, "Best") = Weights(s, p, m, g, r, "Best") /\ Current(p) = NameOf(s, m, g, r)
    BY <2>1, TrainedWeights, NameAtHand
  <2>4. saved'[d] = Put(S, <<NameOf(s, m, g, r), "Best">>, Weights(s, p, m, g, r, "Best"))
    BY <2>1, <2>3
  <2>5. Trainings(s, w) = n
    <3>1. ~TrainReturns(p)
      BY <2>1 DEF TrainReturns
    <3> QED
      BY <3>1, CountsStep, SameCounts
  <2> HIDE DEF S, n, g, r, m
  <2>6. StoredAll(s, p, saved'[d], n)
    BY <1>1, <1>2, <1>3, <2>3, <2>4, StoredMore
  <2>7. Holds(s, p, saved'[d], m, g, r, "Best")
    BY <2>4, HoldsNew
  <2> QED
    BY <2>2, <2>5, <2>6, <2>7 DEF StoredOf, AtHand, m
<1>5. CASE TrainReturns(p)
  <2>1. /\ v.pc = "last" /\ w.pc = "train"
        /\ saved'[d] = Put(S, <<Current(p), "Last">>, Trained(p, "Last"))
    BY <1>3, <1>5, TrainReturnsEffect
  <2>2. MoreModels(p)
    BY <2>1, AtWork
  <2>3. /\ g \in 1 .. s.graphs /\ r \in 1 .. s.realizations
        /\ Trained(p, "Last") = Weights(s, p, m, g, r, "Last")
    BY <2>1, <2>2, TrainedWeights
  <2>4. Current(p) = NameOf(s, m, g, r) /\ i \in DOMAIN ListOf(s)
    BY <2>2, NameAtHand
  <2>5. saved'[d] = Put(S, <<NameOf(s, m, g, r), "Last">>, Weights(s, p, m, g, r, "Last"))
    BY <2>1, <2>3, <2>4
  <2>6. n[i][g] + 1 = r /\ Trainings(s, w) = [n EXCEPT ![i] = [n[i] EXCEPT ![g] = n[i][g] + 1]]
    BY <1>5, TrainingCounted
  <2>7. Holds(s, p, S, m, g, r, "Best") /\ m = ListOf(s)[i]
    BY <2>1 DEF StoredOf, AtHand
  <2> DEFINE t == Trainings(s, w)
  <2> HIDE DEF S, n, i, g, r, m, t
  <2>8. StoredAll(s, p, saved'[d], n)
    BY <1>1, <1>2, <1>3, <2>3, <2>5, StoredMore
  <2>9. Holds(s, p, saved'[d], m, g, r, "Last")
    BY <2>5, HoldsNew
  <2>10. Holds(s, p, saved'[d], m, g, r, "Best")
    BY <1>1, <2>3, <2>5, <2>7, HoldsOn
  <2>11. \A version \in {"Best", "Last"} : Holds(s, p, saved'[d], ListOf(s)[i], g, n[i][g] + 1, version)
    BY <2>6, <2>7, <2>9, <2>10
  <2>12. StoredAll(s, p, saved'[d], t)
    <3> DEFINE P == saved'[d]
    <3>1. t = [n EXCEPT ![i] = [n[i] EXCEPT ![g] = n[i][g] + 1]]
      BY <2>6 DEF t
    <3> HIDE DEF P
    <3> QED
      BY <1>1, <2>3, <2>4, <2>8, <2>11, <3>1, StoredOneMore DEF P
  <2>13. w.pc # "last"
    BY <2>1
  <2> QED
    BY <2>12, <2>13 DEF StoredOf, t
<1>6. CASE ~(Train(p) \/ TrainReturns(p))
  <2>1. saved' = saved
    BY <1>6, OnlyWrites
  <2>2. Trainings(s, w) = n
    BY <1>6, CountsStep, SameCounts
  <2>3. w.pc # "last"
    <3>1. CASE Start(p) \/ Moves(p) \/ OpenReport(p) \/ LoadGraph(p)
      BY <3>1, StartEffect, MoveEffect, OpenReportEffect, LoadGraphEffect
    <3>2. CASE NewGraph(p) \/ NewData(p) \/ BuildModels(p)
      BY <3>2, NewGraphEffect, NewDataEffect, BuildModelsEffect
    <3>3. CASE TrainingDone(p) \/ EvaluateBest(p) \/ EvaluateLast(p)
      BY <3>3, TrainingDoneEffect, EvaluateBestEffect, EvaluateLastEffect
    <3>4. CASE Statistics(p) \/ Plot(p)
      BY <3>4, StatisticsEffect, PlotEffect
    <3> QED
      BY <1>6, <3>1, <3>2, <3>3, <3>4, StepCases
  <2> QED
    BY <1>3, <2>1, <2>2, <2>3 DEF StoredOf
<1> QED
  BY <1>4, <1>5, <1>6

LEMMA ReportedKept ==
    ASSUME TrainingInv, NEW p \in Runs, Step(p), run[p].second \in Seconds,
           AloneOf(setting, p, run[p], saved[run[p].second], report[run[p].second])
    PROVE  ReportedAll(setting, p, report'[run[p].second], Evaluations(setting, run'[p]))
<1> USE DEF TrainingInv
<1> DEFINE s == setting
           v == run[p]
           w == run'[p]
           d == v.second
           R == report[d]
           n == Evaluations(s, v)
           t == Evaluations(s, w)
           i == v.at
           g == v.graph
           r == v.realization
           m == AtHand(p)
<1>1. Numbers(s, v) /\ Position(s, p, v) /\ n \in Counts(s)
  BY NumbersOf, CountsAreCounts DEF PlaceInv
<1>2. /\ CostsOf(s, p, v) /\ StoredOf(s, p, v, saved[d]) /\ ReportedAll(s, p, R, n)
      /\ DOMAIN report = Seconds
  BY DEF AloneOf, TypeInv
<1>3. CASE OpenReport(p)
  <2>1. v.pc = "open" /\ w.graph = v.graph
    BY <1>3, OpenReportEffect, OnlyFiledBy DEF NewGraph, OpenReport
  <2>2. w.graph = 0
    BY <1>1, <2>1 DEF Position, Early
  <2>3. \A j \in DOMAIN ListOf(s), h \in 1 .. s.graphs : t[j][h] = 0
    BY <2>2, NoneInGraphZero
  <2>4. 1 .. 0 = {}
    OBVIOUS
  <2> QED
    BY <2>3, <2>4 DEF ReportedAll
<1>4. CASE EvaluateLast(p)
  <2> DEFINE x == [weights |-> saved[d][<<Current(p), "Last">>], data |-> v.data]
  <2>1. /\ v.pc = "evaluate last"
        /\ report'[d] = R \union {[name |-> Current(p), best |-> v.best, last |-> x]}
    BY <1>2, <1>4, EvaluateLastEffect
  <2>2. MoreModels(p)
    BY <2>1, AtWork
  <2>3. i \in DOMAIN ListOf(s) /\ Current(p) = NameOf(s, m, g, r) /\ m = ListOf(s)[i]
    BY <2>2, NameAtHand DEF AtHand
  <2>4. v.best = Cost(s, p, m, g, r, "Best")
    BY <1>2, <2>1 DEF CostsOf, AtHand
  <2>5. x = Cost(s, p, m, g, r, "Last")
    BY <1>2, <2>1, <2>2, ReadBack DEF Evaluating
  <2>6. report'[d] = R \union {Line(s, p, m, g, r)}
    BY <2>1, <2>3, <2>4, <2>5 DEF Line
  <2>7. /\ g \in 1 .. s.graphs /\ n[i][g] + 1 = r
        /\ t = [n EXCEPT ![i] = [n[i] EXCEPT ![g] = n[i][g] + 1]]
    BY <1>4, EvaluationCounted
  <2> DEFINE Q == report'[d]
  <2> HIDE DEF R, n, t, i, g, r, m, Q
  <2>8. n[i][g] \in Nat /\ \A j \in DOMAIN ListOf(s), h \in 1 .. s.graphs :
           t[j][h] = IF j = i /\ h = g THEN n[i][g] + 1 ELSE n[j][h]
    BY <1>1, <2>3, <2>7 DEF Counts
  <2>9. ASSUME NEW j \in DOMAIN ListOf(s), NEW h \in 1 .. s.graphs, NEW k \in 1 .. t[j][h]
        PROVE  Line(s, p, ListOf(s)[j], h, k) \in Q
    <3>1. k \in 1 .. n[j][h] \/ (j = i /\ h = g /\ k = r)
      BY <2>7, <2>8
    <3>2. Q = R \union {Line(s, p, ListOf(s)[i], g, r)}
      BY <2>3, <2>6 DEF Q
    <3> QED
      BY <1>2, <3>1, <3>2 DEF ReportedAll
  <2> QED
    BY <2>9 DEF ReportedAll, Q, t
<1>5. CASE ~(OpenReport(p) \/ EvaluateLast(p))
  <2>1. report' = report
    BY <1>5, OnlyWrites
  <2>2. t = n
    BY <1>5, CountsStep, SameCounts
  <2> QED
    BY <1>2, <2>1, <2>2
<1> QED
  BY <1>3, <1>4, <1>5

LEMMA AloneStep ==
    ASSUME TrainingInv, AloneInv, [Next]_vars
    PROVE  AloneInv'
<1> USE DEF TrainingInv
<1>1. CASE UNCHANGED vars \/ Tick
  BY <1>1 DEF vars, disk, Tick, AloneInv, Alone, Started
<1>2. ASSUME NEW q \in Runs, Step(q)
      PROVE  AloneInv'
  <2>1. ASSUME NEW p \in Runs, Alone(p)'
        PROVE  AloneOf(setting, p, run'[p], saved'[run'[p].second], report'[run'[p].second])
    <3>1. CASE p = q /\ Start(q)
      <4>1. Changes(p, {"pc", "second"}) /\ run[p].pc = "start" /\ run'[p].pc \in {"open", "make"}
        BY <3>1, StartEffect
      <4>2. run'[p].graph = run[p].graph
        BY <4>1 DEF Changes, Fields
      <4>3. run[p].graph = 0
        BY <4>1 DEF PlaceInv, Position, Early
      <4>4. Beginning(run'[p])
        BY <4>1, <4>2, <4>3 DEF Beginning
      <4>5. setting.graphs \in Nat
        BY SettingsFacts
      <4> QED
        BY <4>4, <4>5, NothingYet
    <3>2. CASE ~(p = q /\ Start(q))
      <4>1. /\ Alone(p) /\ run'[p].second = run[p].second /\ run[p].second \in Seconds
            /\ p # q => run[p].second # run[q].second
        BY <1>2, <2>1, <3>2, AloneBefore
      <4>2. AloneOf(setting, p, run[p], saved[run[p].second], report[run[p].second])
        BY <4>1 DEF AloneInv
      <4>3. CASE p # q
        <5>1. run'[p] = run[p]
          BY <1>2, <4>3, OnlyBy
        <5>2. saved'[run[p].second] = saved[run[p].second] /\ report'[run[p].second] = report[run[p].second]
          BY <1>2, <4>1, <4>3, OnlyWrites
        <5> QED
          BY <4>2, <5>1, <5>2
      <4>4. CASE p = q
        <5>1. Step(p)
          BY <1>2, <4>4
        <5>2. CostsOf(setting, p, run'[p])
          BY <4>2, <5>1, CostsStep DEF AloneOf
        <5>3. StoredOf(setting, p, run'[p], saved'[run[p].second])
          BY <4>1, <4>2, <5>1, StoredKept DEF AloneOf
        <5>4. ReportedAll(setting, p, report'[run[p].second], Evaluations(setting, run'[p]))
          BY <4>1, <4>2, <5>1, ReportedKept
        <5> QED
          BY <4>1, <5>2, <5>3, <5>4 DEF AloneOf
      <4> QED
        BY <4>3, <4>4
    <3> QED
      BY <3>1, <3>2
  <2>2. setting' = setting
    BY <1>2, OnlyBy
  <2> QED
    BY <2>1, <2>2 DEF AloneInv
<1> QED
  BY <1>1, <1>2 DEF Next

\* What a run keeps of a directory that it has to itself, at every point of its
\* loops: every result in its list, every model on the disk, every line of costs.
THEOREM AloneKept == Spec => []AloneInv
<1>1. Init => AloneInv
  BY AloneInit
<1>2. TrainingInv /\ AloneInv /\ [Next]_vars => AloneInv'
  BY AloneStep
<1> QED
  BY <1>1, <1>2, TrainingKept, PTL DEF Spec

\* At its end every model has been trained and evaluated on every realization.
LEMMA AllCounted ==
    ASSUME TypeInv, PlaceInv, NEW p \in Runs, run[p].pc = "done",
           NEW i \in DOMAIN ListOf(setting), NEW g \in 1 .. setting.graphs
    PROVE  /\ Trainings(setting, run[p])[i][g] = setting.realizations
           /\ Evaluations(setting, run[p])[i][g] = setting.realizations
<1> DEFINE s == setting
           v == run[p]
<1>1. v.graph = s.graphs /\ v.realization = s.realizations
  BY DEF PlaceInv, Position, After
<1>2. Numbers(s, v)
  BY NumbersOf
<1>3. \A x : Completed(s, v, g, v.realization) = s.realizations
  BY <1>1, <1>2 DEF Completed, Numbers
<1>4. v.pc # "build" /\ v.pc # "train" /\ v.pc # "last" /\ v.pc # "evaluate" /\ v.pc # "evaluate last"
  OBVIOUS
<1> QED
  BY <1>3, <1>4 DEF Trainings, Evaluations, TrainedTimes, EvaluatedTimes

LEMMA KeptAtEnd == ASSUME TypeInv, PlaceInv, AloneInv PROVE EveryModelKept
<1>1. ASSUME NEW p \in Runs, Alone(p), run[p].pc = "done",
             NEW m \in Models, NEW g \in 1 .. setting.graphs, NEW r \in 1 .. setting.realizations
      PROVE  LET n == ThisName(m, g, r)
                 d == run[p].second
             IN  /\ \A version \in {"Best", "Last"} :
                      LET w == saved[d][<<n, version>>] IN Own(w, p, m, g, r) /\ w.version = version
                 /\ \E c \in report[d] : /\ c.name = n
                                         /\ OwnCost(c.best, p, m, g, r, "Best")
                                         /\ OwnCost(c.last, p, m, g, r, "Last")
  <2> DEFINE s == setting
             v == run[p]
             n == ThisName(m, g, r)
             d == v.second
  <2>1. AloneOf(s, p, v, saved[d], report[d])
    BY <1>1 DEF AloneInv
  <2>2. PICK i \in DOMAIN ListOf(s) : m = ListOf(s)[i]
    BY InTermsOfSettings, ListFacts
  <2>3. r \in 1 .. Trainings(s, v)[i][g] /\ r \in 1 .. Evaluations(s, v)[i][g]
    BY <1>1, AllCounted
  <2>4. \A version \in {"Best", "Last"} : Holds(s, p, saved[d], m, g, r, version)
    BY <2>1, <2>2, <2>3 DEF AloneOf, StoredOf, StoredAll
  <2>5. Line(s, p, m, g, r) \in report[d]
    BY <2>1, <2>2, <2>3 DEF AloneOf, ReportedAll
  <2>6. n = NameOf(s, m, g, r)
    BY InTermsOfSettings
  <2>7. \A version \in {"Best", "Last"} :
           Own(saved[d][<<n, version>>], p, m, g, r) /\ saved[d][<<n, version>>].version = version
    <3>1. ASSUME NEW version
          PROVE  LET w == Weights(s, p, m, g, r, version) IN Own(w, p, m, g, r) /\ w.version = version
      BY DEF Weights, Own, Data
    <3> HIDE DEF n
    <3> QED
      BY <2>4, <2>6, <3>1 DEF Holds
  <2>8. \E c \in report[d] : /\ c.name = n
                             /\ OwnCost(c.best, p, m, g, r, "Best")
                             /\ OwnCost(c.last, p, m, g, r, "Last")
    <3>1. Line(s, p, m, g, r).name = n
      BY <2>6 DEF Line
    <3>2. /\ OwnCost(Line(s, p, m, g, r).best, p, m, g, r, "Best")
          /\ OwnCost(Line(s, p, m, g, r).last, p, m, g, r, "Last")
      BY DEF Line, Cost, Weights, Own, OwnCost, Data
    <3> QED
      BY <2>5, <3>1, <3>2
  <2> QED
    BY <2>7, <2>8
<1> QED
  BY <1>1 DEF EveryModelKept

\* When a run that has its directory to itself ends, every model of every graph
\* and realization is on the disk in both versions, with the weights that this
\* run gave it on that realization, and the report has its costs.
THEOREM ModelsKept == Spec => []EveryModelKept
<1>1. TrainingInv /\ AloneInv => EveryModelKept
  BY KeptAtEnd DEF TrainingInv
<1> QED
  BY <1>1, TrainingKept, AloneKept, PTL

-----------------------------------------------------------------------------
(* Statistics and figures.                                                  *)

CostSets(s, lists) ==
    IF s.graphs = 1 THEN Singles(lists[1])
    ELSE IF s.realizations = 1 THEN [g \in DOMAIN lists |-> {lists[g][1]}]
    ELSE [g \in DOMAIN lists |-> Range(lists[g])]
CurveSets(s, lists) ==
    IF s.graphs > 1 THEN [g \in DOMAIN lists |-> Range(lists[g])] ELSE Singles(lists[1])

LEMMA GroupsAreSets ==
    \A lists : CostGroups(lists) = CostSets(setting, lists) /\ CurveGroups(lists) = CurveSets(setting, lists)
BY DEF CostGroups, CurveGroups, CostSets, CurveSets

Means(s, v) == [m \in ModelsOf(s) |-> [costBest |-> CostSets(s, v.costBest[m]),
                                       costLast |-> CostSets(s, v.costLast[m])]]
Shown(s, v) == [m \in ModelsOf(s) |-> CurveSets(s, v.curves[m])]

FigureOf(s, v) ==
    /\ v.pc \in {"make figures", "plot"} => s.doFigs
    /\ v.pc \in {"make figures", "plot", "done"} => v.mean = Means(s, v)
    /\ v.figure # <<>> => v.pc = "done" /\ s.doFigs /\ v.figure.groups = Shown(s, v)

FigureInv == \A p \in Runs : FigureOf(setting, run[p])

LEMMA FigureInit == Init => FigureInv
<1>1. ASSUME NEW s
      PROVE  FigureOf(s, Fresh)
  <2>1. Fresh.pc = "start" /\ Fresh.figure = <<>>
    BY DEF Fresh
  <2> QED
    BY <2>1 DEF FigureOf
<1>2. Init => \A p \in Runs : run[p] = Fresh
  BY DEF Init
<1> QED
  BY <1>1, <1>2 DEF FigureInv

LEMMA FigureStep ==
    ASSUME TypeInv, FigureInv, [Next]_vars
    PROVE  FigureInv'
<1>1. CASE UNCHANGED vars \/ Tick
  BY <1>1 DEF vars, Tick, FigureInv
<1>2. ASSUME NEW p \in Runs, Step(p)
      PROVE  FigureInv'
  <2> DEFINE s == setting
             v == run[p]
             w == run'[p]
  <2>1. FigureOf(s, v)
    BY DEF FigureInv
  <2>2. SUFFICES FigureOf(s, w)
    BY <1>2, OnlyBy DEF FigureInv
  <2>3. CASE Statistics(p)
    <3>1. /\ Changes(p, {"pc", "mean"}) /\ v.pc = "statistics" /\ w.pc \in {"done", "plot", "make figures"}
          /\ w.pc # "done" => s.doFigs
      BY <2>3, StatisticsEffect
    <3>2. w.costBest = v.costBest /\ w.costLast = v.costLast /\ w.figure = v.figure
      BY <3>1 DEF Changes, Fields
    <3>3. w.mean = [m \in Models |-> [costBest |-> CostGroups(v.costBest[m]),
                                      costLast |-> CostGroups(v.costLast[m])]]
      BY <2>3, StatisticsEffect
    <3>4. w.mean = Means(s, w)
      BY <3>2, <3>3, GroupsAreSets, InTermsOfSettings DEF Means
    <3>5. ~(v.figure # <<>>)
      BY <2>1, <3>1 DEF FigureOf
    <3> QED
      BY <3>1, <3>2, <3>4, <3>5 DEF FigureOf
  <2>4. CASE Plot(p)
    <3>1. Changes(p, {"pc", "figure"}) /\ v.pc = "plot" /\ w.pc = "done"
      BY <2>4, PlotEffect
    <3>2. /\ w.costBest = v.costBest /\ w.costLast = v.costLast /\ w.curves = v.curves
          /\ w.mean = v.mean
      BY <3>1 DEF Changes, Fields
    <3>3. w.figure.groups = [m \in Models |-> CurveGroups(v.curves[m])]
      <4>1. w.figure = [groups |-> [m \in Models |-> CurveGroups(v.curves[m])],
                        xTrain |-> xTrain, train |-> selectSamplesTrain,
                        xValid |-> xValid, valid |-> selectSamplesValid]
        BY <2>4, PlotEffect
      <4> QED
        BY <4>1
    <3>4. w.figure.groups = Shown(s, w)
      BY <3>2, <3>3, GroupsAreSets, InTermsOfSettings DEF Shown
    <3>5. v.mean = Means(s, v) /\ s.doFigs
      BY <2>1, <3>1 DEF FigureOf
    <3>6. w.mean = Means(s, w)
      BY <3>2, <3>5 DEF Means
    <3> QED
      BY <3>1, <3>4, <3>5, <3>6 DEF FigureOf
  <2>5. CASE Moves(p)
    <3>1. /\ Changes(p, {"pc"}) /\ v.pc # "done" /\ w.pc # "make figures" /\ w.pc # "done"
          /\ w.pc = "plot" => v.pc = "make figures"
      BY <2>5, MoveEffect
    <3>2. w.costBest = v.costBest /\ w.costLast = v.costLast /\ w.figure = v.figure /\ w.mean = v.mean
      BY <3>1 DEF Changes, Fields
    <3>3. w.pc = "plot" => v.mean = Means(s, v) /\ s.doFigs
      BY <2>1, <3>1 DEF FigureOf
    <3>4. w.pc = "plot" => w.mean = Means(s, w)
      BY <3>2, <3>3 DEF Means
    <3>5. ~(w.figure # <<>>)
      BY <2>1, <3>1, <3>2 DEF FigureOf
    <3> QED
      BY <3>1, <3>3, <3>4, <3>5 DEF FigureOf
  <2>6. CASE ~(Statistics(p) \/ Plot(p) \/ Moves(p))
    <3>1. w.pc \notin {"make figures", "plot", "done"} /\ v.pc # "done"
      <4>1. CASE Start(p) \/ OpenReport(p) \/ LoadGraph(p)
        BY <4>1, StartEffect, OpenReportEffect, LoadGraphEffect
      <4>2. CASE NewGraph(p) \/ NewData(p) \/ BuildModels(p)
        BY <4>2, NewGraphEffect, NewDataEffect, BuildModelsEffect
      <4>3. CASE Train(p) \/ TrainReturns(p) \/ TrainingDone(p)
        BY <4>3, TrainEffect, TrainReturnsEffect, TrainingDoneEffect
      <4>4. CASE EvaluateBest(p) \/ EvaluateLast(p)
        BY <4>4, EvaluateBestEffect, EvaluateLastEffect
      <4> QED
        BY <1>2, <2>6, <4>1, <4>2, <4>3, <4>4, StepCases
    <3>2. w.figure = v.figure
      BY <1>2, <2>6, OnlyBy
    <3>3. ~(w.figure # <<>>)
      BY <2>1, <3>1, <3>2 DEF FigureOf
    <3> QED
      BY <3>1, <3>3 DEF FigureOf
  <2> QED
    BY <2>3, <2>4, <2>5, <2>6
<1> QED
  BY <1>1, <1>2 DEF Next

\* Of a table f of one value for every graph and realization, the groups that
\* means are taken over.
Table(s) == (1 .. s.graphs) \X (1 .. s.realizations)
Grouped(s, f) ==
    IF s.graphs = 1 THEN [r \in 1 .. s.realizations |-> {f[<<1, r>>]}]
    ELSE [g \in 1 .. s.graphs |-> {f[<<g, r>>] : r \in 1 .. s.realizations}]

\* The means of costs and those of curves are over the same groups.
LEMMA SameGroups ==
    ASSUME NEW s, s.graphs \in Nat \ {0}, s.realizations \in Nat \ {0}, NEW f,
           NEW lists, lists = [g \in 1 .. s.graphs |-> [r \in 1 .. s.realizations |-> f[<<g, r>>]]]
    PROVE  CostSets(s, lists) = Grouped(s, f) /\ CurveSets(s, lists) = Grouped(s, f)
<1>1. ASSUME NEW g \in 1 .. s.graphs
      PROVE  /\ DOMAIN lists[g] = 1 .. s.realizations
             /\ \A r \in 1 .. s.realizations : lists[g][r] = f[<<g, r>>]
             /\ Range(lists[g]) = {f[<<g, r>>] : r \in 1 .. s.realizations}
  BY DEF Range
<1>2. DOMAIN lists = 1 .. s.graphs
  OBVIOUS
<1>3. CASE s.graphs = 1
  <2>1. 1 \in 1 .. s.graphs /\ ~(s.graphs > 1)
    BY <1>3
  <2>2. Singles(lists[1]) = [r \in 1 .. s.realizations |-> {f[<<1, r>>]}]
    BY <1>1, <2>1 DEF Singles
  <2> QED
    BY <1>3, <2>1, <2>2 DEF CostSets, CurveSets, Grouped
<1>4. CASE s.graphs # 1
  <2>1. s.graphs > 1
    BY <1>4
  <2>2. [g \in DOMAIN lists |-> Range(lists[g])]
           = [g \in 1 .. s.graphs |-> {f[<<g, r>>] : r \in 1 .. s.realizations}]
    BY <1>1, <1>2
  <2>3. s.realizations = 1 => [g \in DOMAIN lists |-> {lists[g][1]}]
                                = [g \in 1 .. s.graphs |-> {f[<<g, r>>] : r \in 1 .. s.realizations}]
    <3>1. s.realizations = 1 => 1 .. s.realizations = {1}
      OBVIOUS
    <3> QED
      BY <1>1, <1>2, <3>1
  <2> QED
    BY <1>4, <2>1, <2>2, <2>3 DEF CostSets, CurveSets, Grouped
<1> QED
  BY <1>3, <1>4

\* If the values differ, the groups hold each once and are equally large.
AllDiffer(s, f) ==
    /\ s.graphs \in Nat \ {0} /\ s.realizations \in Nat \ {0}
    /\ DOMAIN f = Table(s)
    /\ \A g, h \in 1 .. s.graphs, r, t \in 1 .. s.realizations :
          f[<<g, r>>] = f[<<h, t>>] => g = h /\ r = t

LEMMA GroupsCount ==
    ASSUME NEW s, NEW f, AllDiffer(s, f)
    PROVE  /\ Cardinality(UNION Range(Grouped(s, f))) = s.graphs * s.realizations
           /\ \A i, j \in DOMAIN Grouped(s, f) : Cardinality(Grouped(s, f)[i]) = Cardinality(Grouped(s, f)[j])
<1> DEFINE G == 1 .. s.graphs
           R == 1 .. s.realizations
           V == {f[x] : x \in Table(s)}
<1>1. /\ IsFiniteSet(G) /\ Cardinality(G) = s.graphs
      /\ IsFiniteSet(R) /\ Cardinality(R) = s.realizations
  <2>1. ASSUME NEW n \in Nat \ {0}
        PROVE  IsFiniteSet(1 .. n) /\ Cardinality(1 .. n) = n
    <3>1. 1 \in Int /\ n \in Int /\ ~(1 > n) /\ n - 1 + 1 = n
      OBVIOUS
    <3>2. IsFiniteSet(1 .. n) /\ Cardinality(1 .. n) = IF 1 > n THEN 0 ELSE n - 1 + 1
      BY <3>1, FS_Interval
    <3> QED
      BY <3>1, <3>2
  <2> QED
    BY <2>1 DEF AllDiffer
<1>2. IsFiniteSet(Table(s)) /\ Cardinality(Table(s)) = s.graphs * s.realizations
  <2> HIDE DEF G, R
  <2>1. IsFiniteSet(G \X R) /\ Cardinality(G \X R) = s.graphs * s.realizations
    BY <1>1, FS_Product
  <2> QED
    BY <2>1 DEF Table, G, R
<1>3. Cardinality(V) = s.graphs * s.realizations
  <2> DEFINE F == [x \in Table(s) |-> f[x]]
  <2>1. \A x, y \in Table(s) : f[x] = f[y] => x = y
    BY DEF Table, AllDiffer
  <2>2. F \in [Table(s) -> V] /\ \A x, y \in Table(s) : F[x] = F[y] => x = y
    BY <2>1
  <2>3. \A z \in V : \E x \in Table(s) : F[x] = z
    OBVIOUS
  <2>4. F \in Injection(Table(s), V) /\ F \in Surjection(Table(s), V)
    BY <2>2, <2>3 DEF Injection, Surjection, IsInjective
  <2>5. ExistsBijection(Table(s), V)
    BY <2>4 DEF ExistsBijection, Bijection
  <2> HIDE DEF V
  <2> QED
    BY <1>2, <2>5, FS_Bijection
<1>4. UNION Range(Grouped(s, f)) = V
  <2>1. CASE s.graphs = 1
    <3>1. Range(Grouped(s, f)) = {{f[<<1, r>>]} : r \in R}
      BY <2>1 DEF Grouped, Range
    <3>2. G = {1}
      BY <2>1
    <3>3. V = {f[<<1, r>>] : r \in R}
      <4>1. Table(s) = {1} \X R
        BY <3>2 DEF Table
      <4> HIDE DEF R
      <4>2. \A x \in Table(s) : \E r \in R : x = <<1, r>>
        BY <4>1
      <4>3. \A r \in R : <<1, r>> \in Table(s)
        BY <4>1
      <4>4. V \subseteq {f[<<1, r>>] : r \in R}
        BY <4>2
      <4>5. {f[<<1, r>>] : r \in R} \subseteq V
        BY <4>3
      <4> QED
        BY <4>4, <4>5
    <3> HIDE DEF R, V
    <3> QED
      BY <3>1, <3>3
  <2>2. CASE s.graphs # 1
    <3> DEFINE Row(g) == {f[<<g, r>>] : r \in R}
    <3>1. Grouped(s, f) = [g \in G |-> Row(g)]
      BY <2>2 DEF Grouped
    <3>2. Range(Grouped(s, f)) = {Row(g) : g \in G}
      <4> HIDE DEF Row, G
      <4> QED
        BY <3>1 DEF Range
    <3>3. Table(s) = G \X R
      BY DEF Table
    <3> HIDE DEF G, R
    <3>4. ASSUME NEW z
          PROVE  z \in UNION {Row(g) : g \in G} <=> \E g \in G, r \in R : z = f[<<g, r>>]
      <4>1. \A g \in G : z \in Row(g) <=> \E r \in R : z = f[<<g, r>>]
        OBVIOUS
      <4> HIDE DEF Row
      <4>2. z \in UNION {Row(g) : g \in G} <=> \E g \in G : z \in Row(g)
        OBVIOUS
      <4> QED
        BY <4>1, <4>2
    <3>5. ASSUME NEW z
          PROVE  z \in V <=> \E g \in G, r \in R : z = f[<<g, r>>]
      <4>1. z \in V <=> \E x \in G \X R : z = f[x]
        BY <3>3
      <4>2. (\E x \in G \X R : z = f[x]) => \E g \in G, r \in R : z = f[<<g, r>>]
        <5>1. \A x \in G \X R : x = <<x[1], x[2]>> /\ x[1] \in G /\ x[2] \in R
          OBVIOUS
        <5> QED
          BY <5>1
      <4>3. (\E g \in G, r \in R : z = f[<<g, r>>]) => \E x \in G \X R : z = f[x]
        OBVIOUS
      <4> QED
        BY <4>1, <4>2, <4>3
    <3> HIDE DEF V, Row
    <3>6. UNION {Row(g) : g \in G} = V
      BY <3>4, <3>5
    <3> QED
      BY <3>2, <3>6
  <2> QED
    BY <2>1, <2>2
<1>5. ASSUME s.graphs = 1, NEW i \in DOMAIN Grouped(s, f)
      PROVE  Cardinality(Grouped(s, f)[i]) = 1
  <2>1. Grouped(s, f)[i] = {f[<<1, i>>]}
    BY <1>5 DEF Grouped
  <2> QED
    BY <2>1, FS_Singleton
<1>6. ASSUME s.graphs # 1, NEW i \in DOMAIN Grouped(s, f)
      PROVE  Cardinality(Grouped(s, f)[i]) = s.realizations
  <2> DEFINE W == {f[<<i, r>>] : r \in R}
             F == [r \in R |-> f[<<i, r>>]]
  <2>1. Grouped(s, f)[i] = W /\ i \in G
    BY <1>6 DEF Grouped
  <2>2. F \in [R -> W] /\ \A r, t \in R : F[r] = F[t] => r = t
    BY <2>1 DEF AllDiffer
  <2>3. \A z \in W : \E r \in R : F[r] = z
    OBVIOUS
  <2>4. F \in Injection(R, W) /\ F \in Surjection(R, W)
    BY <2>2, <2>3 DEF Injection, Surjection, IsInjective
  <2>5. ExistsBijection(R, W)
    BY <2>4 DEF ExistsBijection, Bijection
  <2> HIDE DEF R, W
  <2>6. Cardinality(W) = s.realizations
    BY <1>1, <2>5, FS_Bijection
  <2> QED
    BY <2>1, <2>6
<1> QED
  BY <1>3, <1>4, <1>5, <1>6

LEMMA ResultsOwn ==
    ASSUME NEW s, NEW p, NEW m, NEW g, NEW n \in Nat, NEW kind
    PROVE  /\ DOMAIN Results(s, p, m, g, n, kind) = 1 .. n /\ Len(Results(s, p, m, g, n, kind)) = n
           /\ \A r \in 1 .. n :
                 LET x == Results(s, p, m, g, n, kind)[r]
                 IN  /\ kind = "best" => OwnCost(x, p, m, g, r, "Best")
                     /\ kind = "last" => OwnCost(x, p, m, g, r, "Last")
                     /\ kind = "curve" => Own(x, p, m, g, r)
<1> DEFINE q == Results(s, p, m, g, n, kind)
<1>1. DOMAIN q = 1 .. n
  BY DEF Results
<1>2. Len(q) = n
  <2> DEFINE S == {q[r] : r \in 1 .. n}
  <2>1. q \in [1 .. n -> S]
    BY <1>1 DEF Results
  <2> HIDE DEF q, S
  <2> QED
    BY <2>1
<1>3. \A r : /\ OwnCost(Cost(s, p, m, g, r, "Best"), p, m, g, r, "Best")
             /\ OwnCost(Cost(s, p, m, g, r, "Last"), p, m, g, r, "Last")
             /\ Own(Weights(s, p, m, g, r, "Last"), p, m, g, r)
  BY DEF Cost, Weights, Own, OwnCost, Data
<1>4. \A r \in 1 .. n : q[r] = Result(s, p, m, g, r, kind)
  BY DEF Results
<1>5. \A r : /\ kind = "best" => Result(s, p, m, g, r, kind) = Cost(s, p, m, g, r, "Best")
             /\ kind = "last" => Result(s, p, m, g, r, kind) = Cost(s, p, m, g, r, "Last")
             /\ kind = "curve" => Result(s, p, m, g, r, kind) = Weights(s, p, m, g, r, "Last")
  BY DEF Result
<1> QED
  BY <1>1, <1>2, <1>3, <1>4, <1>5

\* A figure and the means are over the same groups of trainings.
LEMMA FigureInPlace ==
    ASSUME TypeInv, PlaceInv, NEW p \in Runs, NEW i \in DOMAIN ListOf(setting),
           FigureOf(setting, run[p]), run[p].figure # <<>>,
           Filled(setting, p, run[p].costLast, "last", Evaluations(setting, run[p])),
           Filled(setting, p, run[p].curves, "curve", Trainings(setting, run[p]))
    PROVE  LET v == run[p]
               m == ListOf(setting)[i]
               tested == v.mean[m].costLast
           IN  /\ v.figure.groups[m] = [k \in DOMAIN tested |-> {c.weights : c \in tested[k]}]
               /\ Cardinality(UNION Range(tested)) = setting.graphs * setting.realizations
               /\ \A k, l \in DOMAIN tested : Cardinality(tested[k]) = Cardinality(tested[l])
<1> DEFINE s == setting
           v == run[p]
           m == ListOf(s)[i]
           tested == v.mean[m].costLast
           costs == [x \in Table(s) |-> Cost(s, p, m, x[1], x[2], "Last")]
           weights == [x \in Table(s) |-> Weights(s, p, m, x[1], x[2], "Last")]
<1>1. v.pc = "done" /\ s.doFigs /\ v.figure.groups = Shown(s, v) /\ v.mean = Means(s, v)
  BY DEF FigureOf
<1>2. m \in ModelsOf(s) /\ s.graphs \in Nat \ {0} /\ s.realizations \in Nat \ {0}
  BY ListFacts, SettingsFacts
<1>3. tested = CostSets(s, v.costLast[m]) /\ v.figure.groups[m] = CurveSets(s, v.curves[m])
  BY <1>1, <1>2 DEF Means, Shown
<1>4. \A g \in 1 .. s.graphs, r \in 1 .. s.realizations :
         /\ costs[<<g, r>>] = Cost(s, p, m, g, r, "Last")
         /\ weights[<<g, r>>] = Weights(s, p, m, g, r, "Last")
  BY DEF Table
<1>5. v.costLast[m] = [g \in 1 .. s.graphs |-> [r \in 1 .. s.realizations |-> costs[<<g, r>>]]]
  <2> HIDE DEF costs
  <2>1. v.costLast[m] = [g \in 1 .. s.graphs |-> Results(s, p, m, g, Evaluations(s, v)[i][g], "last")]
    BY DEF Filled
  <2>2. \A g \in 1 .. s.graphs : Results(s, p, m, g, s.realizations, "last")
                                   = [r \in 1 .. s.realizations |-> costs[<<g, r>>]]
    BY <1>4 DEF Results, Result
  <2>3. \A g \in 1 .. s.graphs : Evaluations(s, v)[i][g] = s.realizations
    BY <1>1, AllCounted
  <2> QED
    BY <2>1, <2>2, <2>3
<1>6. v.curves[m] = [g \in 1 .. s.graphs |-> [r \in 1 .. s.realizations |-> weights[<<g, r>>]]]
  <2> HIDE DEF weights
  <2>1. v.curves[m] = [g \in 1 .. s.graphs |-> Results(s, p, m, g, Trainings(s, v)[i][g], "curve")]
    BY DEF Filled
  <2>2. \A g \in 1 .. s.graphs : Results(s, p, m, g, s.realizations, "curve")
                                   = [r \in 1 .. s.realizations |-> weights[<<g, r>>]]
    BY <1>4 DEF Results, Result
  <2>3. \A g \in 1 .. s.graphs : Trainings(s, v)[i][g] = s.realizations
    BY <1>1, AllCounted
  <2> QED
    BY <2>1, <2>2, <2>3
<1>7. tested = Grouped(s, costs) /\ v.figure.groups[m] = Grouped(s, weights)
  <2> DEFINE L == v.costLast[m]
             C == v.curves[m]
  <2> HIDE DEF costs, weights, L, C
  <2>1. CostSets(s, L) = Grouped(s, costs)
    BY <1>2, <1>5, SameGroups DEF L
  <2>2. CurveSets(s, C) = Grouped(s, weights)
    BY <1>2, <1>6, SameGroups DEF C
  <2> QED
    BY <1>3, <2>1, <2>2 DEF L, C
<1>8. \A x \in Table(s) : costs[x].weights = weights[x]
  BY DEF Cost
<1>9. \A g, h \in 1 .. s.graphs, r, t \in 1 .. s.realizations :
         costs[<<g, r>>] = costs[<<h, t>>] => g = h /\ r = t
  <2>1. \A g, r : Cost(s, p, m, g, r, "Last").data.G = g /\ Cost(s, p, m, g, r, "Last").data.realization = r
    BY DEF Cost, Data
  <2>2. ASSUME NEW g \in 1 .. s.graphs, NEW h \in 1 .. s.graphs,
               NEW r \in 1 .. s.realizations, NEW t \in 1 .. s.realizations, costs[<<g, r>>] = costs[<<h, t>>]
        PROVE  g = h /\ r = t
    <3> HIDE DEF costs
    <3>1. Cost(s, p, m, g, r, "Last") = Cost(s, p, m, h, t, "Last")
      BY <1>4, <2>2, ZenonT(60)
    <3>2. /\ Cost(s, p, m, g, r, "Last").data.G = g /\ Cost(s, p, m, g, r, "Last").data.realization = r
          /\ Cost(s, p, m, h, t, "Last").data.G = h /\ Cost(s, p, m, h, t, "Last").data.realization = t
      BY <2>1
    <3> HIDE DEF m
    <3> QED
      BY <3>1, <3>2
  <2> HIDE DEF costs
  <2> QED
    BY <2>2
<1>10. DOMAIN costs = Table(s)
  OBVIOUS
<1> HIDE DEF costs, weights
<1>11. /\ Cardinality(UNION Range(tested)) = s.graphs * s.realizations
       /\ \A k, l \in DOMAIN tested : Cardinality(tested[k]) = Cardinality(tested[l])
  <2>1. /\ Cardinality(UNION Range(Grouped(s, costs))) = s.graphs * s.realizations
        /\ \A k, l \in DOMAIN Grouped(s, costs) :
              Cardinality(Grouped(s, costs)[k]) = Cardinality(Grouped(s, costs)[l])
    <3>1. s.graphs \in Nat \ {0} /\ s.realizations \in Nat \ {0}
      BY <1>2
    <3> HIDE DEF s, v, m, tested
    <3>2. AllDiffer(s, costs)
      BY <1>9, <1>10, <3>1 DEF AllDiffer
    <3> QED
      BY <3>2, GroupsCount
  <2> HIDE DEF tested
  <2>2. tested = Grouped(s, costs)
    BY <1>7
  <2> QED
    BY <2>1, <2>2
<1>12. Grouped(s, weights)
          = [k \in DOMAIN Grouped(s, costs) |-> {c.weights : c \in Grouped(s, costs)[k]}]
  <2>1. \A g \in 1 .. s.graphs, r \in 1 .. s.realizations : costs[<<g, r>>].weights = weights[<<g, r>>]
    BY <1>8 DEF Table
  <2>2. CASE s.graphs = 1
    <3>1. \A r \in 1 .. s.realizations : costs[<<1, r>>].weights = weights[<<1, r>>]
      <4>1. 1 \in 1 .. s.graphs
        BY <2>2
      <4> QED
        BY <2>1, <4>1
    <3>2. ASSUME NEW r \in 1 .. s.realizations
          PROVE  {weights[<<1, r>>]} = {c.weights : c \in {costs[<<1, r>>]}}
      BY <3>1
    <3>3. /\ Grouped(s, weights) = [r \in 1 .. s.realizations |-> {weights[<<1, r>>]}]
          /\ Grouped(s, costs) = [r \in 1 .. s.realizations |-> {costs[<<1, r>>]}]
      BY <2>2 DEF Grouped
    <3> QED
      BY <3>2, <3>3
  <2>3. CASE s.graphs # 1
    <3>1. ASSUME NEW g \in 1 .. s.graphs
          PROVE  {weights[<<g, r>>] : r \in 1 .. s.realizations}
                   = {c.weights : c \in {costs[<<g, r>>] : r \in 1 .. s.realizations}}
      <4> HIDE DEF costs, weights
      <4>1. \A r \in 1 .. s.realizations : costs[<<g, r>>].weights = weights[<<g, r>>]
        BY <2>1
      <4> QED
        BY <4>1
    <3> QED
      BY <2>3, <3>1 DEF Grouped
  <2> QED
    BY <2>2, <2>3
<1>13. v.figure.groups[m] = [k \in DOMAIN tested |-> {c.weights : c \in tested[k]}]
  BY <1>7, <1>12
<1> QED
  BY <1>11, <1>13

\* The lists of a model, by the number of realizations that they hold.
LEMMA ListsInPlace ==
    ASSUME TypeInv, PlaceInv, NEW p \in Runs, run[p].graph > 0, CostsOf(setting, p, run[p]),
           CurvesOf(setting, p, run[p]), NEW i \in DOMAIN ListOf(setting), NEW g \in 1 .. setting.graphs
    PROVE  LET v == run[p]
               m == ListOf(setting)[i]
               n == Evaluations(setting, v)[i][g]
               t == Trainings(setting, v)[i][g]
           IN  /\ n \in Nat /\ t \in Nat
               /\ v.costBest[m][g] = Results(setting, p, m, g, n, "best")
               /\ v.costLast[m][g] = Results(setting, p, m, g, n, "last")
               /\ v.curves[m][g] = Results(setting, p, m, g, t, "curve")
               /\ v.pc \in {"data", "graph"} /\ g <= v.graph =>
                     /\ n = IF g = v.graph THEN v.realization ELSE setting.realizations
                     /\ t = n
<1> DEFINE s == setting
           v == run[p]
           m == ListOf(s)[i]
           n == Evaluations(s, v)[i][g]
           t == Trainings(s, v)[i][g]
<1>1. Opened(v)
  BY DEF Opened
<1>2. Filled(s, p, v.costBest, "best", Evaluations(s, v)) /\ Filled(s, p, v.costLast, "last", Evaluations(s, v))
  BY <1>1 DEF CostsOf
<1>3. Filled(s, p, v.curves, "curve", Trainings(s, v))
  <2>1. ModelsOf(s) # {}
    BY ListFacts
  <2> QED
    BY <1>1, <2>1 DEF CurvesOf
<1>4. n \in Nat /\ t \in Nat
  BY CountsAreCounts DEF Counts
<1>5. v.pc \in {"data", "graph"} => n = Completed(s, v, g, v.realization) /\ t = Completed(s, v, g, v.realization)
  BY DEF Trainings, Evaluations, TrainedTimes, EvaluatedTimes
<1>6. g <= v.graph => Completed(s, v, g, v.realization) = IF g = v.graph THEN v.realization ELSE s.realizations
  <2>1. Numbers(s, v)
    BY NumbersOf
  <2>2. g <= v.graph => g < v.graph \/ (g = v.graph /\ ~(g < v.graph))
    BY <2>1 DEF Numbers
  <2> QED
    BY <2>2 DEF Completed
<1>7. /\ v.costBest[m][g] = Results(s, p, m, g, n, "best")
      /\ v.costLast[m][g] = Results(s, p, m, g, n, "last")
      /\ v.curves[m][g] = Results(s, p, m, g, t, "curve")
  <2>1. /\ v.costBest[m] = [h \in 1 .. s.graphs |-> Results(s, p, m, h, Evaluations(s, v)[i][h], "best")]
        /\ v.costLast[m] = [h \in 1 .. s.graphs |-> Results(s, p, m, h, Evaluations(s, v)[i][h], "last")]
        /\ v.curves[m] = [h \in 1 .. s.graphs |-> Results(s, p, m, h, Trainings(s, v)[i][h], "curve")]
    BY <1>2, <1>3 DEF Filled
  <2> HIDE DEF v, m, s
  <2> QED
    BY <2>1 DEF s
<1> HIDE DEF n, t
<1>8. v.pc \in {"data", "graph"} /\ g <= v.graph =>
         n = (IF g = v.graph THEN v.realization ELSE s.realizations) /\ t = n
  BY <1>5, <1>6
<1> QED
  BY <1>4, <1>7, <1>8 DEF n, t

PlacedAt(p, v, m) ==
    /\ \A g \in 1 .. setting.graphs :
        /\ \A r \in DOMAIN v.costBest[m][g] : OwnCost(v.costBest[m][g][r], p, m, g, r, "Best")
        /\ \A r \in DOMAIN v.costLast[m][g] : OwnCost(v.costLast[m][g][r], p, m, g, r, "Last")
        /\ \A r \in DOMAIN v.curves[m][g] : Own(v.curves[m][g][r], p, m, g, r)
        /\ v.pc \in {"data", "graph"} /\ g <= v.graph =>
             LET n == IF g = v.graph THEN v.realization ELSE setting.realizations
             IN  Len(v.costBest[m][g]) = n /\ Len(v.costLast[m][g]) = n /\ Len(v.curves[m][g]) = n
    /\ v.figure # <<>> =>
         LET tested == v.mean[m].costLast
         IN  /\ v.figure.groups[m] = [i \in DOMAIN tested |-> {c.weights : c \in tested[i]}]
             /\ Cardinality(UNION Range(tested)) = setting.graphs * setting.realizations
             /\ \A i, j \in DOMAIN tested : Cardinality(tested[i]) = Cardinality(tested[j])

LEMMA ModelInPlace ==
    ASSUME TypeInv, PlaceInv, NEW p \in Runs, run[p].graph > 0, CostsOf(setting, p, run[p]),
           CurvesOf(setting, p, run[p]), FigureOf(setting, run[p]), NEW i \in DOMAIN ListOf(setting)
    PROVE  PlacedAt(p, run[p], ListOf(setting)[i])
<1> DEFINE s == setting
           v == run[p]
           m == ListOf(s)[i]
<1>1. ASSUME NEW g \in 1 .. s.graphs
      PROVE  /\ \A r \in DOMAIN v.costBest[m][g] : OwnCost(v.costBest[m][g][r], p, m, g, r, "Best")
             /\ \A r \in DOMAIN v.costLast[m][g] : OwnCost(v.costLast[m][g][r], p, m, g, r, "Last")
             /\ \A r \in DOMAIN v.curves[m][g] : Own(v.curves[m][g][r], p, m, g, r)
             /\ v.pc \in {"data", "graph"} /\ g <= v.graph =>
                  LET n == IF g = v.graph THEN v.realization ELSE s.realizations
                  IN  Len(v.costBest[m][g]) = n /\ Len(v.costLast[m][g]) = n /\ Len(v.curves[m][g]) = n
  <2> DEFINE n == Evaluations(s, v)[i][g]
             t == Trainings(s, v)[i][g]
  <2>1. /\ n \in Nat /\ t \in Nat
        /\ v.costBest[m][g] = Results(s, p, m, g, n, "best")
        /\ v.costLast[m][g] = Results(s, p, m, g, n, "last")
        /\ v.curves[m][g] = Results(s, p, m, g, t, "curve")
        /\ v.pc \in {"data", "graph"} /\ g <= v.graph =>
              n = (IF g = v.graph THEN v.realization ELSE s.realizations) /\ t = n
    BY ListsInPlace
  <2> HIDE DEF n, t, m, s, v
  <2>2. /\ DOMAIN v.costBest[m][g] = 1 .. n /\ Len(v.costBest[m][g]) = n
        /\ \A r \in 1 .. n : OwnCost(v.costBest[m][g][r], p, m, g, r, "Best")
    BY <2>1, ResultsOwn
  <2>3. /\ DOMAIN v.costLast[m][g] = 1 .. n /\ Len(v.costLast[m][g]) = n
        /\ \A r \in 1 .. n : OwnCost(v.costLast[m][g][r], p, m, g, r, "Last")
    BY <2>1, ResultsOwn
  <2>4. /\ DOMAIN v.curves[m][g] = 1 .. t /\ Len(v.curves[m][g]) = t
        /\ \A r \in 1 .. t : Own(v.curves[m][g][r], p, m, g, r)
    BY <2>1, ResultsOwn
  <2> QED
    BY <2>1, <2>2, <2>3, <2>4
<1>2. ASSUME v.figure # <<>>
      PROVE  LET tested == v.mean[m].costLast
             IN  /\ v.figure.groups[m] = [k \in DOMAIN tested |-> {c.weights : c \in tested[k]}]
                 /\ Cardinality(UNION Range(tested)) = s.graphs * s.realizations
                 /\ \A k, l \in DOMAIN tested : Cardinality(tested[k]) = Cardinality(tested[l])
  <2>1. Opened(v)
    BY DEF Opened
  <2>2. Filled(s, p, v.costLast, "last", Evaluations(s, v))
    BY <2>1 DEF CostsOf
  <2>3. Filled(s, p, v.curves, "curve", Trainings(s, v))
    BY <1>2, <2>1 DEF CurvesOf, FigureOf
  <2> QED
    BY <1>2, <2>2, <2>3, FigureInPlace
<1> QED
  BY <1>1, <1>2 DEF PlacedAt

LEMMA InPlace == ASSUME TypeInv, PlaceInv, AloneInv, CurvesInv, FigureInv PROVE ResultsInPlace
<1>1. ASSUME NEW p \in Runs, Alone(p), run[p].graph > 0, NEW m \in DOMAIN run[p].costBest
      PROVE  PlacedAt(p, run[p], m)
  <2>1. CostsOf(setting, p, run[p]) /\ CurvesOf(setting, p, run[p]) /\ FigureOf(setting, run[p])
    BY <1>1 DEF AloneInv, AloneOf, CurvesInv, FigureInv
  <2>2. DOMAIN run[p].costBest = ModelsOf(setting)
    BY <1>1, <2>1 DEF CostsOf, Filled, Opened
  <2>3. PICK i \in DOMAIN ListOf(setting) : m = ListOf(setting)[i]
    BY <2>2, ListFacts
  <2>4. PlacedAt(p, run[p], ListOf(setting)[i])
    BY <1>1, <2>1, ModelInPlace
  <2> QED
    BY <2>3, <2>4
<1> QED
  BY <1>1 DEF ResultsInPlace, PlacedAt

\* In a run that has its directory to itself every result is filed under its own
\* model, graph and realization and comes of the weights trained there; costs and
\* curves stay aligned; and the means of costs and of curves are over the same
\* groups, equally large, which hold every training once.
THEOREM ResultsStayInPlace == Spec => []ResultsInPlace
<1>1. Init => CurvesInv /\ FigureInv
  BY CurvesInit, FigureInit
<1>2. TrainingInv /\ CurvesInv /\ FigureInv /\ [Next]_vars => CurvesInv' /\ FigureInv'
  BY CurvesStep, FigureStep DEF TrainingInv
<1>3. TrainingInv /\ AloneInv /\ CurvesInv /\ FigureInv => ResultsInPlace
  BY InPlace DEF TrainingInv
<1> QED
  BY <1>1, <1>2, <1>3, TrainingKept, AloneKept, PTL DEF Spec
=============================================================================
