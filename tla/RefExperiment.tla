--------------------------- MODULE RefExperiment ----------------------------
(***************************************************************************)
(* The experiment script gnn/ref.py: for every graph and every realization *)
(* of the data it builds, trains and evaluates a list of models, and at    *)
(* the end averages and plots what it has collected.  The script may be    *)
(* started several times; the runs share a disk and a clock.               *)
(*                                                                         *)
(* Training, evaluation and the disk format belong to the alegnn library,  *)
(* which is not in the repository.  From it the model takes what the       *)
(* script relies on: a model is stored under its name in the directory it  *)
(* is given, in a best and a last version, and evaluate() reads both.      *)
(* A weight, a cost and a curve are tokens that tell where they come from. *)
(* Graphs and realizations count from 1.                                   *)
(***************************************************************************)
EXTENDS Integers, Sequences, FiniteSets, Functions

CONSTANTS
    Runs,       \* executions of the script
    Settings,   \* the parameters it may hold
    MaxSecond   \* seconds that pass

Names == {"SelGNN", "AggGNN"} \X {"deg", "eds", "spr", "crs"}

ASSUME SettingsAssumption ==
    \A s \in Settings :
        /\ s.archs \subseteq {"SelGNN", "AggGNN"}
        /\ s.orders \subseteq {"deg", "eds", "spr", "crs"}
        /\ {s.doFigs, s.doSaveVars, s.facebook} \subseteq BOOLEAN
        /\ {s.graphs, s.realizations} \subseteq Nat \ {0}
        /\ {s.epochs, s.batches, s.interval, s.everyTrain, s.everyValid} \subseteq Nat \ {0}
        /\ s.facebook => s.graphs = 1
        /\ s.mayShare \in BOOLEAN      \* bound: may two runs start in one second?
ASSUME SecondsAssumption == MaxSecond \in Nat \ {0}

VARIABLES
    setting,    \* the parameters in the script
    clock,      \* the second
    dirs,       \* directories under experiments/, by the second in their name
    figDirs,    \* those that have a directory figs
    report,     \* second -> costs written to hyperparameters.txt
    saved,      \* second -> stored models: <<name, version>> -> weights
    run         \* run -> the variables of its script

disk == <<dirs, figDirs, report, saved>>
vars == <<setting, clock, disk, run>>

Seconds == 1 .. MaxSecond

\* modelList, in the order in which the script may add to it.
Listed(s, arch, order) ==
    IF arch \in s.archs /\ order \in s.orders THEN << <<arch, order>> >> ELSE <<>>
SelectionModels(s) == Listed(s, "SelGNN", "deg") \o Listed(s, "SelGNN", "eds")
                        \o Listed(s, "SelGNN", "spr") \o Listed(s, "SelGNN", "crs")
AggregationModels(s) ==
    Listed(s, "AggGNN", "deg") \o Listed(s, "AggGNN", "eds") \o Listed(s, "AggGNN", "spr")
modelList == SelectionModels(setting) \o AggregationModels(setting)
Models == Range(modelList)

\* Mutant of ThisName: one graph's models are named as another's.
ThisNameWithoutGraph(m, g, r) ==
    [model |-> m, G |-> 0, R |-> IF setting.realizations > 1 THEN r ELSE 0]

\* thisName: the model, and the graph and the realization if there are several.
ThisName(m, g, r) ==
    [model |-> m,
     G |-> IF setting.graphs > 1 THEN g ELSE 0,
     R |-> IF setting.realizations > 1 THEN r ELSE 0]

\* No model's name is part of another's: m in thisModel finds one.
ModelName(name) == name.model

-----------------------------------------------------------------------------
(* What the script keeps in its variables.                                 *)

PerGraph(x) == [m \in Models |-> [g \in 1 .. setting.graphs |-> x]]

Fresh == [pc |-> "start", second |-> 0,
          G |-> 0, graph |-> 0, realization |-> 0, data |-> <<>>,
          at |-> 1,                 \* position in a loop over models
          models |-> <<>>,          \* modelsGNN: name -> weights
          options |-> [graphNo |-> 0, realizationNo |-> 0],
          optionsPer |-> <<>>,      \* trainingOptsPerModel
          best |-> <<>>,            \* the best version, while the last is evaluated
          costBest |-> <<>>, costLast |-> <<>>,
          curves |-> <<>>,          \* lossTrain, costTrain, lossValid, costValid
          mean |-> <<>>,            \* what the means and deviations are taken over
          figure |-> <<>>]

Init == /\ setting \in Settings
        /\ clock = 1
        /\ dirs = {} /\ figDirs = {}
        /\ report = [d \in Seconds |-> {}]
        /\ saved = [d \in Seconds |-> <<>>]
        /\ run = [p \in Runs |-> Fresh]

Goto(p, label) == [run EXCEPT ![p].pc = label]

\* lists[m][g].append(x)
Filed(lists, m, g, x) == [lists EXCEPT ![m][g] = Append(@, x)]
Put(f, k, v) == [x \in DOMAIN f \union {k} |-> IF x = k THEN v ELSE f[x]]

\* Model number at of the loops over modelsGNN.keys(), which keeps modelList's order.
Current(p) == ThisName(modelList[run[p].at], run[p].graph, run[p].realization)
MoreModels(p) == run[p].at <= Len(modelList)

-----------------------------------------------------------------------------
(* The directory of the run.                                               *)

Tick == /\ clock < MaxSecond
        /\ clock' = clock + 1
        /\ UNCHANGED <<setting, disk, run>>

\* today, and the look whether the directory exists.
Start(p) ==
    /\ run[p].pc = "start"
    /\ setting.mayShare \/ \A q \in Runs : run[q].second # clock
    /\ run' = [run EXCEPT ![p].second = clock, ![p].pc = IF clock \in dirs THEN "open" ELSE "make"]
    /\ UNCHANGED <<setting, clock, disk>>

MakeDirectory(p) ==
    /\ run[p].pc = "make"
    /\ run[p].second \notin dirs
    /\ dirs' = dirs \union {run[p].second}
    /\ run' = Goto(p, "open")
    /\ UNCHANGED <<setting, clock, figDirs, report, saved>>

\* Another run has made the directory since: FileExistsError.
DirectoryExists(p) ==
    /\ run[p].pc = "make"
    /\ run[p].second \in dirs
    /\ run' = Goto(p, "failed")
    /\ UNCHANGED <<setting, clock, disk>>

\* open(varsFile, 'w+') empties the file; the lists get their first dimension.
OpenReport(p) ==
    /\ run[p].pc = "open"
    /\ report' = [report EXCEPT ![run[p].second] = {}]
    /\ run' = [run EXCEPT ![p].costBest = PerGraph(<<>>),
                          ![p].costLast = PerGraph(<<>>),
                          ![p].curves = IF setting.doFigs THEN PerGraph(<<>>) ELSE <<>>,
                          ![p].pc = IF setting.facebook THEN "load" ELSE "graph"]
    /\ UNCHANGED <<setting, clock, dirs, figDirs, saved>>

\* The Facebook graph is loaded once.
LoadGraph(p) ==
    /\ run[p].pc = "load"
    /\ run' = [run EXCEPT ![p].G = 1, ![p].pc = "graph"]
    /\ UNCHANGED <<setting, clock, disk>>

-----------------------------------------------------------------------------
(* The loops over graphs, realizations and models.                         *)

\* Mutant of NewGraph: the lists are there only if they are to be saved.
NewGraphIfSaved(p) ==
    /\ run[p].pc = "graph"
    /\ run[p].graph < setting.graphs
    /\ (setting.doFigs /\ setting.doSaveVars) \/ Models = {}
    /\ LET g == run[p].graph + 1
           emptied(lists) == [m \in Models |-> [lists[m] EXCEPT ![g] = <<>>]]
       IN  run' = [run EXCEPT ![p].graph = g,
                              ![p].costBest = emptied(@),
                              ![p].costLast = emptied(@),
                              ![p].curves = emptied(@),
                              ![p].G = IF setting.facebook THEN @ ELSE g,
                              ![p].realization = 0,
                              ![p].pc = "data"]
    /\ UNCHANGED <<setting, clock, disk>>

\* One more graph: empty lists for its results, and the graph.  Without
\* figures there are no lossTrain and its kin.
NewGraph(p) ==
    /\ run[p].pc = "graph"
    /\ run[p].graph < setting.graphs
    /\ setting.doFigs \/ Models = {}
    /\ LET g == run[p].graph + 1
           emptied(lists) == [m \in Models |-> [lists[m] EXCEPT ![g] = <<>>]]
       IN  run' = [run EXCEPT ![p].graph = g,
                              ![p].costBest = emptied(@),
                              ![p].costLast = emptied(@),
                              ![p].curves = emptied(@),
                              ![p].G = IF setting.facebook THEN @ ELSE g,
                              ![p].realization = 0,
                              ![p].pc = "data"]
    /\ UNCHANGED <<setting, clock, disk>>

\* NameError: lossTrain.
NewGraphRaises(p) ==
    /\ run[p].pc = "graph"
    /\ run[p].graph < setting.graphs
    /\ ~setting.doFigs /\ Models # {}
    /\ run' = Goto(p, "failed")
    /\ UNCHANGED <<setting, clock, disk>>

GraphsDone(p) ==
    /\ run[p].pc = "graph"
    /\ run[p].graph = setting.graphs
    /\ run' = Goto(p, "statistics")
    /\ UNCHANGED <<setting, clock, disk>>

\* SourceLocalization(G, ...)
NewData(p) ==
    /\ run[p].pc = "data"
    /\ run[p].realization < setting.realizations
    /\ run' = [run EXCEPT ![p].realization = @ + 1,
                          ![p].data = [run |-> p, G |-> run[p].G, realization |-> run[p].realization + 1],
                          ![p].pc = "build"]
    /\ UNCHANGED <<setting, clock, disk>>

RealizationsDone(p) ==
    /\ run[p].pc = "data"
    /\ run[p].realization = setting.realizations
    /\ run' = Goto(p, "graph")
    /\ UNCHANGED <<setting, clock, disk>>

\* Every model is built on the graph, and copies the training options.
BuildModels(p) ==
    /\ run[p].pc = "build"
    /\ LET r == run[p]
           names == {ThisName(m, r.graph, r.realization) : m \in Models}
       IN  run' = [run EXCEPT
                     ![p].models = [n \in names |-> [model |-> n.model, G |-> r.G, version |-> "new"]],
                     ![p].optionsPer = [m \in Models |-> r.options],
                     ![p].at = 1,
                     ![p].pc = "train"]
    /\ UNCHANGED <<setting, clock, disk>>

\* The weights that training gives the current model.
Trained(p, version) ==
    LET w == run[p].models[Current(p)]
    IN  [run |-> p, model |-> w.model, G |-> w.G, data |-> run[p].data,
         options |-> run[p].optionsPer[ModelName(Current(p))], version |-> version]

\* The numbers that training is to know of, if there are several.
Numbered(options, r) ==
    [graphNo |-> IF setting.graphs > 1 THEN r.graph ELSE options.graphNo,
     realizationNo |-> IF setting.realizations > 1 THEN r.realization ELSE options.realizationNo]

\* train() is under way: a validation has stored the best version.
Train(p) ==
    /\ run[p].pc = "train"
    /\ MoreModels(p)
    /\ saved' = [saved EXCEPT ![run[p].second] = Put(@, <<Current(p), "Best">>, Trained(p, "Best"))]
    /\ run' = [run EXCEPT ![p].options = Numbered(@, run[p]),
                          ![p].pc = "last"]
    /\ UNCHANGED <<setting, clock, dirs, figDirs, report>>

\* train() stores the last version and returns; its losses are kept for the figures.
TrainReturns(p) ==
    /\ run[p].pc = "last"
    /\ LET last == Trained(p, "Last")
           m == ModelName(Current(p))
       IN  /\ saved' = [saved EXCEPT ![run[p].second] = Put(@, <<Current(p), "Last">>, last)]
           /\ run' = [run EXCEPT ![p].models[Current(p)] = last,
                                 ![p].curves = IF setting.doFigs THEN Filed(@, m, run[p].graph, last) ELSE @,
                                 ![p].at = @ + 1,
                                 ![p].pc = "train"]
    /\ UNCHANGED <<setting, clock, dirs, figDirs, report>>

\* nBatches = thisTrainVars['nBatches'] needs a model that was trained.
TrainingDone(p) ==
    /\ run[p].pc = "train"
    /\ ~MoreModels(p)
    /\ run' = [run EXCEPT ![p].at = 1,
                          ![p].pc = IF setting.doFigs /\ Models = {} THEN "failed" ELSE "evaluate"]
    /\ UNCHANGED <<setting, clock, disk>>

\* evaluate() reads the best version back and applies it to the test samples.
EvaluateBest(p) ==
    /\ run[p].pc = "evaluate"
    /\ MoreModels(p)
    /\ run' = [run EXCEPT ![p].best = [weights |-> saved[run[p].second][<<Current(p), "Best">>],
                                       data |-> run[p].data],
                          ![p].pc = "evaluate last"]
    /\ UNCHANGED <<setting, clock, disk>>

\* Mutant of EvaluateLast: results are filed under the realization.
EvaluateLastMisfiled(p) ==
    /\ run[p].pc = "evaluate last"
    /\ LET last == [weights |-> saved[run[p].second][<<Current(p), "Last">>], data |-> run[p].data]
           m == ModelName(Current(p))
           g == IF run[p].realization <= setting.graphs THEN run[p].realization ELSE run[p].graph
       IN  /\ run' = [run EXCEPT ![p].costBest = Filed(@, m, g, run[p].best),
                                 ![p].costLast = Filed(@, m, g, last),
                                 ![p].best = <<>>,
                                 ![p].at = @ + 1,
                                 ![p].pc = "evaluate"]
           /\ report' = [report EXCEPT ![run[p].second] =
                            @ \union {[name |-> Current(p), best |-> run[p].best, last |-> last]}]
    /\ UNCHANGED <<setting, clock, dirs, figDirs, saved>>

\* Then the last version; both costs are written and filed.
EvaluateLast(p) ==
    /\ run[p].pc = "evaluate last"
    /\ LET last == [weights |-> saved[run[p].second][<<Current(p), "Last">>], data |-> run[p].data]
           m == ModelName(Current(p))
           g == run[p].graph
       IN  /\ run' = [run EXCEPT ![p].costBest = Filed(@, m, g, run[p].best),
                                 ![p].costLast = Filed(@, m, g, last),
                                 ![p].best = <<>>,
                                 ![p].at = @ + 1,
                                 ![p].pc = "evaluate"]
           /\ report' = [report EXCEPT ![run[p].second] =
                            @ \union {[name |-> Current(p), best |-> run[p].best, last |-> last]}]
    /\ UNCHANGED <<setting, clock, dirs, figDirs, saved>>

EvaluationDone(p) ==
    /\ run[p].pc = "evaluate"
    /\ ~MoreModels(p)
    /\ run' = Goto(p, "data")
    /\ UNCHANGED <<setting, clock, disk>>

-----------------------------------------------------------------------------
(* Statistics and figures.  The values that a mean is taken over are given  *)
(* as groups: the mean is that of the groups' means.                        *)

Singles(list) == [i \in DOMAIN list |-> {list[i]}]

\* squeeze() of a matrix with one row or one column, else means of the rows.
CostGroups(lists) ==
    IF setting.graphs = 1 THEN Singles(lists[1])
    ELSE IF setting.realizations = 1 THEN [g \in DOMAIN lists |-> {lists[g][1]}]
    ELSE [g \in DOMAIN lists |-> Range(lists[g])]

\* Means over the realizations of each graph, or the realizations of the only graph.
CurveGroups(lists) ==
    IF setting.graphs > 1 THEN [g \in DOMAIN lists |-> Range(lists[g])] ELSE Singles(lists[1])

Statistics(p) ==
    /\ run[p].pc = "statistics"
    /\ run' = [run EXCEPT ![p].mean = [m \in Models |-> [costBest |-> CostGroups(run[p].costBest[m]),
                                                         costLast |-> CostGroups(run[p].costLast[m])]],
                          ![p].pc = IF ~(setting.doFigs /\ setting.doSaveVars) THEN "done"
                                    ELSE IF run[p].second \in figDirs THEN "plot"
                                    ELSE "make figures"]
    /\ UNCHANGED <<setting, clock, disk>>

MakeFigures(p) ==
    /\ run[p].pc = "make figures"
    /\ run[p].second \notin figDirs
    /\ figDirs' = figDirs \union {run[p].second}
    /\ run' = Goto(p, "plot")
    /\ UNCHANGED <<setting, clock, dirs, report, saved>>

\* As for the run's directory: FileExistsError.
FiguresExist(p) ==
    /\ run[p].pc = "make figures"
    /\ run[p].second \in figDirs
    /\ run' = Goto(p, "failed")
    /\ UNCHANGED <<setting, clock, disk>>

\* The axes, and which entries of the curves are shown.
Steps == setting.epochs * setting.batches
CeilDiv(a, b) == (a + b - 1) \div b
Arange(stop, step) == [i \in 1 .. CeilDiv(stop, step) |-> (i - 1) * step]

\* External: train() validates at every step whose number interval divides.
Validations == CeilDiv(Steps, setting.interval)

xTrain == Arange(Steps, setting.everyTrain)
xValid == Arange(Steps, setting.interval * setting.everyValid)

\* Mutant of selectSamplesValid: validations are counted as steps.
SamplesOfSteps ==
    Arange(Validations, IF setting.everyValid > 1 THEN setting.interval * setting.everyValid ELSE 1)

\* The entries of the curves that are shown: every everyValid-th, or all.
selectSamplesTrain == IF setting.everyTrain > 1 THEN xTrain ELSE Arange(Steps, 1)
selectSamplesValid == Arange(Validations, IF setting.everyValid > 1 THEN setting.everyValid ELSE 1)

Plot(p) ==
    /\ run[p].pc = "plot"
    /\ run' = [run EXCEPT ![p].figure = [groups |-> [m \in Models |-> CurveGroups(run[p].curves[m])],
                                         xTrain |-> xTrain, train |-> selectSamplesTrain,
                                         xValid |-> xValid, valid |-> selectSamplesValid],
                          ![p].pc = "done"]
    /\ UNCHANGED <<setting, clock, disk>>

-----------------------------------------------------------------------------
Step(p) ==
    \/ Start(p) \/ MakeDirectory(p) \/ DirectoryExists(p) \/ OpenReport(p) \/ LoadGraph(p)
    \/ NewGraph(p) \/ NewGraphRaises(p) \/ GraphsDone(p) \/ NewData(p) \/ RealizationsDone(p)
    \/ BuildModels(p) \/ Train(p) \/ TrainReturns(p) \/ TrainingDone(p)
    \/ EvaluateBest(p) \/ EvaluateLast(p) \/ EvaluationDone(p)
    \/ Statistics(p) \/ MakeFigures(p) \/ FiguresExist(p) \/ Plot(p)

Next == Tick \/ \E p \in Runs : Step(p)

\* A started script is scheduled until it ends.
Spec == Init /\ [][Next]_vars /\ \A p \in Runs : WF_vars(Step(p))

-----------------------------------------------------------------------------
Started(p) == run[p].second # 0
Alone(p) == Started(p) /\ \A q \in Runs \ {p} : run[q].second # run[p].second

Own(w, p, m, g, r) == /\ w.run = p /\ w.model = m /\ w.G = g
                      /\ w.data = [run |-> p, G |-> g, realization |-> r]
OwnCost(c, p, m, g, r, version) ==
    /\ Own(c.weights, p, m, g, r) /\ c.weights.version = version
    /\ c.data = [run |-> p, G |-> g, realization |-> r]

\* A run that has its directory to itself files every result under its own
\* model, graph and realization, of weights trained and tested on the data of
\* that realization; costs and losses stay aligned between realizations; and
\* the statistics of costs and those of the figures are over the same groups,
\* which hold every training once.
ResultsInPlace ==
    \A p \in Runs : Alone(p) /\ run[p].graph > 0 =>
        LET v == run[p] IN
        \A m \in DOMAIN v.costBest :
        /\ \A g \in 1 .. setting.graphs :
            /\ \A r \in DOMAIN v.costBest[m][g] : OwnCost(v.costBest[m][g][r], p, m, g, r, "Best")
            /\ \A r \in DOMAIN v.costLast[m][g] : OwnCost(v.costLast[m][g][r], p, m, g, r, "Last")
            /\ \A r \in DOMAIN v.curves[m][g] : Own(v.curves[m][g][r], p, m, g, r)
            /\ v.pc \in {"data", "graph"} /\ g <= v.graph =>
                 LET n == IF g = v.graph THEN v.realization ELSE setting.realizations
                 IN  Len(v.costBest[m][g]) = n /\ Len(v.costLast[m][g]) = n /\ Len(v.curves[m][g]) = n
        /\ v.figure # <<>> =>
             LET tested == v.mean[m].costLast
             IN  /\ v.figure.groups[m] = [i \in DOMAIN tested |-> {c.weights : c \in tested[i]}]
                 /\ Cardinality(UNION Range(tested)) = setting.graphs * setting.realizations
                 /\ \A i, j \in DOMAIN tested : Cardinality(tested[i]) = Cardinality(tested[j])

\* When a run that has its directory to itself ends, any model of any graph and
\* realization can be brought back in both versions, and the report has the
\* costs of each.
EveryModelKept ==
    \A p \in Runs : Alone(p) /\ run[p].pc = "done" =>
        \A m \in Models, g \in 1 .. setting.graphs, r \in 1 .. setting.realizations :
            LET n == ThisName(m, g, r)
                d == run[p].second
            IN  /\ \A version \in {"Best", "Last"} :
                     LET w == saved[d][<<n, version>>] IN Own(w, p, m, g, r) /\ w.version = version
                /\ \E c \in report[d] : /\ c.name = n
                                        /\ OwnCost(c.best, p, m, g, r, "Best")
                                        /\ OwnCost(c.last, p, m, g, r, "Last")

\* "Identify the specific graph and data realizations at training time": stored
\* weights were trained with the numbers of their own graph and realization,
\* where there are several.
OptionsIdentify ==
    \A d \in Seconds : \A k \in DOMAIN saved[d] :
        LET w == saved[d][k]
        IN  /\ setting.graphs > 1 => w.options.graphNo = w.G
            /\ setting.realizations > 1 => w.options.realizationNo = w.data.realization

\* A plot has as many points as places for them, each at the training step it
\* was taken in: the k-th validation at step k * interval.
AxesMatch ==
    \A p \in Runs : run[p].figure # <<>> =>
        LET f == run[p].figure
        IN  /\ f.xTrain = f.train
            /\ f.xValid = [i \in DOMAIN f.valid |-> f.valid[i] * setting.interval]
            /\ \A i \in DOMAIN f.valid : f.valid[i] * setting.interval < Steps

\* A run that has started ends, and it ends well, unless another run of the same
\* second has made its directory, or that for its figures, or the settings ask
\* for results without figures, or for figures of no model.
Completes ==
    \A p \in Runs : Started(p) ~> (\/ run[p].pc = "done"
                                  \/ /\ run[p].pc = "failed"
                                     /\ ~Alone(p) \/ (setting.doFigs <=> Models = {}))
=============================================================================
