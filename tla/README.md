# Formal models of ml_src

The repository is a collection of small programs: two graph-learning scripts, a
Bayesian-network library, a clustering script, and *diablogy*, a logging system
made of a preloaded C library and a daemon that stores events in Cassandra.
This directory models the parts that have control worth checking, in TLA+,
model-checks them with TLC, and proves what matters most with TLAPS.

## The system

| Component | Source | State | Operations | What makes it hard |
|---|---|---|---|---|
| Distributed GraphSAGE training | `gnn/test.py` | per rank: epoch, step, replica; rank 0: best accuracy, `model.pt` | parent starts and joins four ranks; rendezvous, DDP broadcast, barriers, an all-reduce per step, validation and save on rank 0 | collectives are paired by order only; loops that must run equally often on every rank; a rank that dies |
| Chow-Liu structure learning | `CTBN/structure.py` | disjoint-set forest, adjacency, generator frames | `chow_liu`, `kruskal`, `find`, `union`, `orient_tree` | edges arrive in any order; early exit of the loop; `find` writes while it walks |
| Bayesian network | `CTBN/bayes_net.py` | CPTs, their incremental counts, topological order | `partial_fit`, `fit`, `prepare`, sampling, four query algorithms, `impute` | incremental counting; factor order; rejected and impossible samples |
| Interposer | `diablogy/src/bluecoat.c`, `libc.c` | log descriptor, log mutex, function pointers, on/off flag, shared timestamps | constructor, `close` wrapper, debug log client, signal threads | runs inside any program: its threads, its descriptors, its `close` of all of them; the log server comes and goes |
| Debug log client | `diablogy/src/utils.c`, `utils.h` | log descriptor, mutex, media | `reinit_debug_log`, `__debug_print`, `__debug_panic` | the same client for three kinds of medium |
| Log daemon | `diablogy/src/vlog.c` | log file and its descriptor, message buffer, event counter, Cassandra session | main receive loop, rotation thread, preload thread, SIGINT handler | two threads on one descriptor; restart; buffer boundary; signal at any time |
| k-means | `k-mean/main.py` | centroids, memberships | `canopy`, assignment, update, silhouette, the choice of k, anomaly report | stop condition, empty clusters, ordering of cluster names |
| Source-localisation experiment | `gnn/ref.py` | models, results per graph and realization, training options; on disk: a directory named by the second, stored models, a report, figures | nested loops over graphs, realizations and models; training and evaluation through stored models; statistics and plots | options copied before they are completed; indices into result arrays; axes of the plots; two runs in one directory |
| Data download | `diablogy/util/get_data.py` | none | one query, one file | pure I/O |
| Test programs | `diablogy/testSet/*.c` | none | drive the interposer by hand | not part of the system |

How they interact: `chow_liu` returns the arcs that the constructor of
`BayesNet` takes; the interposer is loaded into every process by
`/etc/ld.so.preload`, writes messages to a Unix socket, and the daemon reads
them, writes the log and inserts events into Cassandra, which `get_data.py`
reads back. The training scripts stand alone, except that runs of `ref.py` share
a disk.

## Modules

| Module | Models | Kind |
|---|---|---|
| `DistTrain` | `gnn/test.py` | detailed state machine |
| `SeqTraining` | what `DistTrain` promises: one sequential training loop | abstract specification |
| `DistTrainProofs` | theorems about `DistTrain`, and its refinement of `SeqTraining` | proofs |
| `ChowLiu` | `CTBN/structure.py` | detailed state machine |
| `GreedyForest` | what `ChowLiu` promises: Kruskal's algorithm on sets | abstract specification |
| `ChowLiuProofs` | theorems about `ChowLiu` | proofs |
| `DebugLog` | the log client in `diablogy/src/utils.c` and its copy in `bluecoat.c` | detailed state machine |
| `MCDebugLog` | the processes that TLC runs `DebugLog` on | instance for TLC |
| `DebugLogProofs` | theorems about `DebugLog` | proofs |
| `Vlog` | `diablogy/src/vlog.c` | detailed state machine |
| `MCVlog` | the loads that TLC runs `Vlog` on | instance for TLC |
| `VlogProofs` | theorems about `Vlog` | proofs |
| `BayesNet` | `CTBN/bayes_net.py`: learning and exact queries | state machine and algorithms |
| `Sampling` | `CTBN/bayes_net.py`: sampling, `predict_proba`, `impute`; extends `BayesNet`, whose steps are steps of it | detailed state machine |
| `BayesNetProofs` | theorems about `BayesNet` and `Sampling` | proofs |
| `KMeans` | `k-mean/main.py` | detailed state machine |
| `MCKMeans` | the data sets that TLC runs `KMeans` on | instance for TLC |
| `KMeansProofs` | theorems about `KMeans` | proofs |
| `SumLemmas` | lemmas about the library's sums over finite sets, which `KMeansProofs` and `BayesNetProofs` rest on | proofs |
| `RefExperiment` | `gnn/ref.py`, several runs of it | detailed state machine |
| `MCRefExperiment` | the settings that TLC runs `RefExperiment` on | instance for TLC |
| `RefExperimentProofs` | theorems about `RefExperiment` | proofs |

Operators whose comment begins with "Mutant of" are plausible slips of the
definition that follows them. They are part of no specification; each is there
to show that some property fails when the code has that slip.

### DistTrain

One action is the code between two collective operations of a rank, or one
call of the parent. `pc[r]` names the collective that rank r waits in
(`rendezvous` = `init_process_group`, `init_model` = the broadcast of the DDP
constructor, `ready`, `trained`, `validated` = the three barriers, `allreduce`
= the gradients of one step) or where it is between them. The communication
library is modelled as what the ranks rely on: the k-th collective of a rank
returns when every rank has issued k. That the k-th collectives are the *same*
operation is not assumed; it is `CollectivesMatch`. `version[r]` counts the
updates of r's replica, which stands for its weights. `torch.save` is two steps,
because the file is torn between them.

| Property | Says |
|---|---|
| `CollectivesMatch` | ranks that wait in their k-th collective wait in the same operation, epoch and step |
| `ValidatedWeights` | while rank 0 validates and saves, every replica has exactly the updates of whole epochs and none trains |
| `ReplicasWithinOneStep` | replicas differ by at most one optimizer step |
| `FinishTogether` | a rank that is done leaves nobody short of the last barrier |
| `CheckpointIsBest` | `model.pt` is the earliest epoch with the best accuracy, with the validated weights; torn only inside `torch.save` |
| `CrashStopsAll` | a dead rank stops the others one collective later at most |
| `RanksStayTogether` | `FinishTogether` and `CrashStopsAll`, which the run checks together |
| `Termination` | the parent joins everybody, unless somebody dies |
| `ImplementsSequential` | the whole refines `SeqTraining` |

The instance has 3 ranks, 11 nodes in batches of 2 (a partition of 3 nodes, so
two steps with a short last batch, and 2 nodes that no partition has), 2
epochs, accuracies 0, 1, 2 (none, a tie, an improvement and a decline all
happen) and one death. Three ranks are the least with two that do *not*
validate, and with two epochs every action happens after a wrap-around.
Deadlock is not checked: when a rank dies the others do wait for ever.
Fairness: the operating system schedules the parent and each living rank.

### ChowLiu

One action is one turn of a loop or one call of `find()`. `TakeEdge` takes any
edge that is left, because mutual information can rank the pairs in any way.
`Follow` is the tuple assignment in `find()`, whose left side is evaluated from
left to right *after* x has been assigned: the intended path halving writes
`parents[parent]` and changes nothing (`FollowKeepsParents` in the proofs).
`Balanced` shows why this costs nothing: union by size alone bounds the depth.
`rep` is a history variable, the partition that the unions have made;
`Represents`, `FindsRepresentative` and `SetsAreComponents` relate the pointers,
the walks of `find()` and the kept edges to it; the first two and `Balanced`
make up `ForestSound`. `TreeBelowRoot` is about `orient_tree()`, whose frames
remember only the vertex they came from: the arcs grow one tree from the root at
every step, and at the end it is all that hangs together with the root.
`ImplementsGreedy` is the refinement of `GreedyForest`.
Five columns (all 10! rankings) include trees of depth two and early exits; one
sequential program, hence WF of its next step. `Done` stutters at the end.

*Finding* (`chow_liu_spanning`): `kruskal()` stops as soon as every column has
an edge, which can be before the forest is connected; the tree then misses
columns. Four columns are enough.

### DebugLog

One action is one system call or one access to `__debug_log_fd`, the variable
that calls read without the mutex. The descriptor table is 2..`Top`; `Top`
stands for the number from 524 on that `findUnusedFD()` finds, and a descriptor
refers to nothing, to a file of the application or to one of the log's open
files. Three media are modelled: a file per process (and `ONE_FILE`, which
differs in its name only), the merged socket, and stderr. `App` opens files and
closes everything, when some thread is out of the log client; `MediumFlips`
stops and starts the server. `Reinit` is `reinit_debug_log()`, which nothing in
the repository calls.

Which process the client lives in is a record of `Processes`: the threads that
print, the media, whether `findUnusedFD()` may have found a number (`placed`;
only the constructor in `bluecoat.c` looks for one, so in `utils.c` there is
never one, and `toUse` is -1), and whether the application opens and closes
descriptors and the server comes and goes.

| Property | Says |
|---|---|
| `OnlyToLog` | one thread, and a number of its own for the log: no message goes into a file of the application |
| `KeepsOff` | one thread: `__debug_print()` closes no file of the application, with or without such a number; `reinit_debug_log()` may, without one, and then only the file that has the log's number |
| `RetryDelivers` | one thread: a call that finds the server up throughout, the log not given up, and a descriptor free (one besides stderr's, if the log has no number of its own) writes its message exactly once; it goes to the log if the log has a number of its own or the application leaves descriptors alone, and otherwise to the log or into the file of the application that has the log's number now |
| `LockHeld` | the mutex is held by the one thread in the init functions, and released on every path |
| `OneLogFile` | any threads: while the application leaves descriptors alone, they open one log file between them |
| `SomeThreadReturns` | again and again some thread is out of the client |

| Run | Processes | Shows |
|---|---|---|
| `debug_log` | one thread and two, with and without the rest of the process and the server acting, four descriptors | all of the above |
| `debug_log_race` | two threads | *finding*: the descriptor is published before it is connected, and the log can be given up although nobody closed it |
| `debug_log_astray` | one thread, no number of its own | *finding*: after "close all files" a message goes into the application's next file, because the write does not fail |

The three properties about one thread are false of two, and `OnlyToLog` is false
without a number of its own: that is what the two findings show, and the client
in `utils.c`, which never has such a number, is left with what `KeepsOff` and
`RetryDelivers` say of that case. A server that refuses the reopening is outside
`RetryDelivers`, since the log is given up then, for good.

Four descriptors (`Top` = 5) leave room for the log, the number it moves to,
stderr, and one file of the application. Two threads are enough for a race
between one that initialises and one that writes. Fairness is per thread inside
a call. The mutex is not fair, so one thread may starve; `SomeThreadReturns` is
what the code guarantees.

### Vlog

The main thread (`pc`), the truncation and the preload thread (`lpc`), the
socket's queue, the descriptor table, the log file and the table in Cassandra.
One action is one system call, or one access to `logfd` between the threads;
the driver's wait for the result of an INSERT is one action with two outcomes.
`Stop` is any end of the process (Ctrl+C, a failing read or write), after which
`Start` may follow. A message is its number and is written in `Parts` parts, so
that `write()` can take less than all. Rotation happens only when descriptor 2
is redirected to the log file: as shipped, the echo goes to `write (2, ...)`
although the comment at `vlog.c:454` speaks of the log file, and the log stays
empty. What a run of the daemon has to do is a *load*: how many messages come,
how often it is started, how many connections an operator makes to each
listener, and whether descriptor 2 is redirected.

| Property | Says |
|---|---|
| `EchoOK` | what is written is what was received, in order, nothing twice or missing, however writes are split |
| `RowsMatch` | under each id of this run the table holds the message of that id if it was to be kept and its INSERT succeeded, and otherwise not that message (a row that an earlier run left there may stay) |
| `TypeOK` | among the types: the file exceeds its maximum by no more than the messages between two checks, unless an operator truncates a log that descriptor 2 is redirected to |
| `ThreadsKeepApart` | unless descriptor 2 is redirected: no operator's connection is closed by another thread before the reply, and between requests `logfd` is the log file and no other descriptor is |
| `MessagesEchoed` | a message in the socket is written, unless the daemon ends |

`vlog` checks the size every second message, under four loads: four messages in
two lives, redirected or not, and one life with requests to each listener while
messages arrive, two of each or, with redirection, one. With redirection a
rotation, which closes and reopens `logfd` without a lock, can overlap a
truncation, which does the same; hence the condition in `ThreadsKeepApart`. The
one in `TypeOK` came out of the proof, and the fourth load shows that it is
needed: a check of the size that falls between the truncation's `close()` and
its `open()` gets -1 from `lseek()` (`vlog.c:436`), which is below the maximum;
the count starts again, and the file grows on for 1024 messages.
*Finding* (`vlog_rows`): ids start at 0 in every life, and the table's key is
the id, so a second run replaces the events of the first. Runs stop when
messages, lives and requests are used up, so deadlock is not checked. Fairness:
the threads are scheduled, and the driver ends every query.

### BayesNet

`PartialFit` and `Fit` keep, per node, a probability (numerator and
denominator) and `_P_sizes`; the counts are recovered from them as the code
does. `Ask`, `Eliminate` and `Answer` are `_variable_elimination()`, one round
of its loop over the *set* of hidden nodes at a time. Factors are tables of
multiples of `1/Scale`, a constant that every total of counts divides. They are
kept as a family in which a sum over h takes the place of the table of h; the
code has a list, whose order decides nothing but the order of multiplication.
`LearnedFromAllRows`: however the rows are cut into batches, the estimates are those of all rows, with the prior of the *first*
batch's values only. `EliminationExact`: in every order no sum is over the only
column of a product (which raises), and the result is the joint distribution
summed over what was not asked. The instance has every structure on three
binary nodes (chains, forks, colliders), up to two rows, with and without prior,
and every query and event. Values are interchangeable, hence the symmetry.
Floating point is not modelled. The run `bayes_net` checks this module through
`Sampling`, whose exact steps are those of `BayesNet`.

### Sampling

One action is one sample, that is one turn of an `n_iterations` loop; a random
draw is a choice among the values of positive probability. `Draw` serves
rejection, which gives the sampler no event, and likelihood weighting, which
gives it one; the samples that agree with an event or an answer are sets of
positions among the draws, so that equal samples count as often as they came.
`DrawRaises` is the `KeyError` of a combination of parents that no
row had: parents are drawn separately, so they can form one. `GibbsStart` takes
one forward sample and `GibbsStep` draws the next node of the cycle from the
product of the tables around it. `Impute` is a query and its `idxmax()`.

| Property | Says |
|---|---|
| `SamplersAgree` | no sampler gives weight to an answer that the exact posterior excludes, and the means of likelihood weighting are proportional to that posterior when the query and the event leave no node out |
| `GibbsConditional` | what the boundary's tables give is the node's distribution given all the others, so there is always a value to draw |
| `SamplingTotal` | trees never raise, whatever they have learned, and so do networks with a prior that covers all values; in general sampling can raise exactly if the product of the tables does not sum to one; `predict_proba` gives every learned row a positive probability |
| `ImputesLikeliest` | the given values stay, and the missing ones are a most likely completion |

`_llh_weighting()` multiplies the probabilities of *all* nodes and takes a mean
per answer; the textbook's weight is the product over the event, summed. The
two differ once nodes are hidden, so that is not claimed. Nor is anything of a
Gibbs chain whose first state has likelihood zero: `_forward_sample()` sets the
nodes of the event without a look at their probability, and from such a state
the chain may raise (`GibbsRaises`) or stay among impossible states. Two samples
are the least of which a mean and a count can be wrong; `MaxDraws` bounds them.

### KMeans

`Seed` and `Pick` are `canopy()`, `Assign` and `Update` the loop of
`k_means()`, `Score` the end of one round, `Report` the end of the script.
Points have one feature; centroids are exact. `Updated` keeps the string order
of cluster names: a mean is stored only if its name stands at its own index,
which stops being so at the first name with two digits. That happens at eleven
clusters in the code (`Base` 10) and at four in the instance (`Base` 3).
`ClustersOK` joins the types with `CanopyOK`: seeds are distinct points, and only
the first call can run out of them. `CostNeverGrows`: no assignment or update
makes the clustering worse.
`Terminates`: the centroids stop for every number of clusters. The instance is
every multiset of six numbers up to 6, every random first seed, and every
ranking of the scores. The script ends, so deadlock is not checked. Observed on
the way: a cluster of one point makes the report raise `TypeError`
(`unprintable`), and `new_k` stays 0 when the score rises all the way.

### RefExperiment

The whole of `gnn/ref.py`, for several runs (`Runs`) that share a disk and a
clock. `run[p]` is the script's variables; the disk is the directories, the
reports, the stored models and the directories for figures, each by the second
in its name. Models, costs and curves are tokens that carry where they come
from: run, model, graph, the data they were trained and tested on, the options
the training was told, the version. `alegnn` is not in the repository: of it the
model takes that a model is stored under its name in its directory, best and
last, and that `evaluate()` reads both back. One action is one turn of a loop,
except that training and evaluation are two, so that another run can write
between them.

| Property | Says |
|---|---|
| `ResultsInPlace` | every cost and curve stands under its own model, graph and realization, trained and tested on that realization's data; the lists stay aligned; statistics and figures are over the same groups, which hold every training once |
| `EveryModelKept` | after a run, every model of every realization can be brought back in both versions, and the report has its costs |
| `AxesMatch` | plots have as many points as places, each at the step it was taken in, whether or not the intervals divide the length of the training |
| `Completes` | a started run ends, and ends well but for the causes below |

The first two are claimed for a run that has its directory to itself. Two that
start in the same second share one, although the comment at `ref.py:53` says
that the time in the name avoids it, and overwrite each other's models; or one
dies of `FileExistsError` between the look and `makedirs`. `Completes` names
this cause and the two others: without figures the lists `lossTrain` do not exist
but are used (`ref.py:602`), and with figures but no model there is no `nBatches`.

*Finding* (`ref_options`): the comment at `ref.py:815` says that the graph and
the realization are identified at training time, which is `OptionsIdentify`; but
`train()` is given a copy of the options made when the models were built, before
the numbers are set (`ref.py:679`, `ref.py:825`). The first training is told
none, and a later one those of the realization before its own.

The instance has two runs and settings with several graphs, several
realizations, both, the Facebook graph, no figures, no models, no saving, and
two epochs of three or four batches with intervals of one to three. Runs hold the
same settings, as two starts of one file do. `mayShare` is a bound: only two of
the settings let two runs start in one second, since the other settings multiply
those interleavings without a new case. Fairness: a started script is scheduled;
time need not pass. Scripts end, so deadlock is not checked.

## What is proved

TLAPS checks these for every value of the constants that satisfies the named
assumptions of the module: `ConstantsAssumption` (`DistTrain`),
`ColumnsAssumption` (`ChowLiu`), `TopAssumption`, `ProcessesAssumption`
(`DebugLog`), `BoundsAssumption` (`Vlog`),
`NAssumption`, `BoundsAssumption`, `ScaleAssumption`, `DrawsAssumption`
(`BayesNet` and `Sampling`), `BaseAssumption`, `ExponentsAssumption`,
`DataAssumption`, `ScaleAssumption`, `ScoresAssumption` (`KMeans`),
`SettingsAssumption`, `SecondsAssumption` (`RefExperiment`). They say that
counts are positive, that data are not empty, and, of the two constants named
`Scale`, that the quotients the model takes are exact. Every invariant and every
action property that a passing run checks is a theorem, and so are both
refinements; what remains is liveness.

* `DistTrainProofs`. `IInv` is `TypeOK`, `Born`, `Positions` and `LockStep`.
  None of the properties is inductive, because two ranks know nothing of each
  other but what a collective tells them. `Positions` makes the number of
  collectives issued a function of a rank's place in the program; `LockStep`
  says that those numbers are one apart at most, and only for a rank that waits.
  The two together place every rank relative to every other. Arithmetic on the
  partition (`PartitionsEqual`, `StepsEqual`) shows that all loaders yield
  equally often, which is what `CollectivesMatch` stands on. From `IInv`:
  `TypeCorrect`, `DeadRankStopsAll`, `PairedCollectivesMatch`,
  `ValidationSeesFinalWeights`, `RanksFinishTogether`, `RanksAreBound`,
  `ReplicasStayClose`.
  `CheckpointHoldsBest` needs of rank 0 the accuracies of
  the epochs so far as the maximum it has seen, and that `model.pt` has the
  weights of the epoch which set it (`CInv`). `RanksImplementOneLoop` maps the
  ranks to one loop whose updates are those of the replica that is *behind*: an
  all-reduce step maps to an update when the last rank takes it and to a stutter
  before, and the minimum is found without induction, as the number that some
  rank has and none is below.
* `ChowLiuProofs`. `IInv` adds to the properties `EdgeInHand`, `KeptInside` and
  `SetsConnected`: between the comparison and the end of the union an edge is
  kept while its ends are in two sets, and nowhere else. Connection is defined
  by cuts, so no induction over paths is needed. From it: `TypeCorrect`,
  `ForestIsBalanced`, `ForestRepresentsPartition`, `FindIsCorrect`, the three
  together as `DisjointSetsWork`, `SetsAreExactlyComponents`, and the refinement
  `KruskalIsGreedy`. `WalkYieldsTree`: the frames on the generator's stack are a
  path, whoever has been yielded is below the root, and what a closed frame has
  seen has been walked through; at the end no kept edge leaves the tree.
* `DebugLogProofs`. `MutualExclusion`: only `Lock` and `Unlock` enter and leave
  the section, all other steps keep each thread on its side. `TypeCorrect`: by
  counting, the log always has a name for its next file; a call reaches its
  reset only with no error so far. `OneOpens` follows the one file from `open()`
  through its move to a number of its own: at each label of the section the
  descriptors of the log are exactly those the label accounts for.
  `LogStaysOut`, `AppFilesKept` and `RetryReopens` rest on `LoneInv`, which says
  of a process with one printing thread where the log can be at each label
  (`PlaceInv`), where the message of the call has gone (`MessageInv`), and what a
  call that has found the server up can count on at its next step (`DeliveryInv`).
  Their properties carry the restrictions themselves: `OneThread` in all three,
  `toUse >= 0` in `OnlyToLog`, and in the other two a second, weaker claim where
  `toUse` is -1. The restrictions are not a convenience: with two threads TLC
  finds each of the three violated, because the application may close everything
  and open a file of its own while another thread is between its test of
  `__debug_log_fd` and its `write()`, and with one thread and no number of its
  own `debug_log_astray` shows the message in the application's file.
* `VlogProofs`. `EchoIsInput` (`MessageInv`): at each label of the loop, the
  echo is what was received before, and the parts of the message in the buffer
  up to `pos`. `TableIsInput` (`TableInv`) adds the statement in the making.
  `DescriptorsOwned` (`FileInv`): without redirection a descriptor of the log is
  held by exactly one of the main thread and the truncation, by label, and
  nobody's connection is among them. `TypesAndBound` takes the size from the
  same invariant and the number of messages since the last check.
* `RefExperimentProofs`. `PlaceInv` relates the loop counters to the label,
  `OptionsInv` says which numbers the options and their copies hold at each
  label, `BuiltInv` that models are of the graph at hand, and `StoredInv`, about
  the disk, that whatever is stored was told the numbers of the realization before
  its own. From them `NoTrainingIdentified`, which is the finding of
  `OptionsIdentify` for all settings and any number of runs in any directories:
  with several realizations no training is told its own number, and with several
  graphs those on the first realization are not told their graph's. `PlotsFit`: dividing the steps by `interval * everyValid`, and
  the validations by `everyValid`, round to the same number (`CeilingTwice`).
  `Trainings` and `Evaluations` give, for a place in the
  loops, how often every model has been trained and evaluated on every graph.
  `AloneInv` and `CurvesInv` say that the lists, the disk and the report hold
  exactly these results, in order: a step that files a result counts it, no
  other step counts, and a run of another second writes elsewhere. A run that
  starts in its own second finds nothing to keep, so that it holds from there
  on. From them `ModelsKept`. `ResultsStayInPlace` adds `FigureInv`, that means
  and figures are those of lists which no longer change, and counts the groups by
  a bijection with the graphs times the realizations. No model is listed twice
  and no two trainings have one name (`ListIsDistinct`, `NamesDiffer`).
* `SumLemmas`. A sum of the library (`SumFunctionOnSet`) is a fold: the value of
  a recursive function that is a CHOOSE. `FoldExists` shows that there is such a
  function, `SumTakes` that the order in which it takes the elements is
  immaterial; the rest is about sums that are equal, added, scaled, bounded or
  taken group by group (`SumOfGroups`). The induction theorems of the library
  have an operator as a parameter, which the provers cannot instantiate, so
  induction is stated of sets here: `NatSet` and `SubsetInduction`, both from
  the fact that a well-founded relation has minimal elements.
* `KMeansProofs`. `IInv` is `TypeOK`, `CanopyOK`, `ListsInv` and `TurnInv`: where
  a list of numbers of clusters comes from decides whether `canopy()` can run out
  of points, since whatever went through a whole turn is no more than the
  distinct points. `ClustersAreOK` needs a mean to lie between the least and the
  greatest point, and `TheCostNeverGrows` that the mean of a cluster minimises its
  sum of squares, whatever was stored in place of the other means.
* `BayesNetProofs`. `SamplersLeaveTheNet`: steps of `Sampling` are steps of
  `BayesNet` or leave it alone, so the invariants of the network hold for both.
  * `LearnedFromEveryRow` (`LearnInv`): each probability times its size is the
    count of the rows so far, exactly, so nothing is lost in the division.
  * `EliminationIsExact` (`NetInv`): what is left of the factors, multiplied and
    summed over the hidden nodes still to come, is the constrained joint
    distribution summed over those already gone (`SumsKept`). A round keeps it
    because factors that do not mention h may be taken out of the sum over h
    (`EliminationSums`). `Linked` keeps a second column next to every hidden one,
    which is what `sum_out` needs. `ImputesAMode` is about the largest entry of
    that same answer.
  * `GibbsDrawsRight` (`GibbsInv`): the factors of the joint distribution that a
    node's boundary leaves out do not depend on its value, and the state of the
    chain stays possible, so they are not 0.
  * `SamplersDoAgree` (`DrawsInv`): each draw extends the event and has a row
    counted for each node, and its weight is its joint probability.
  * `SamplingIsTotal` (`RowsInv`, `LearnInv`): the table of a node sums to one
    where its parents have a total and to nothing elsewhere (`NodeSum`). Hence,
    node by node, the product of the first tables sums to one as long as the
    sampler cannot be stuck, and to less from then on (`WholeUpTo`). In a tree a
    value that was drawn was in some row, or came from the prior, and either gives
    its children a total; with a prior for all values every combination has one
    (`NeverStuck`).

Only model-checked: liveness under fairness (`Termination`, of `DistTrain` and
of `ChowLiu`, `SomeThreadReturns`, `MessagesEchoed`, `Terminates`, `Completes`),
which is outside the prover's reach. The runs that find a violation need no
proof, since a counterexample is one; only of `ref_options` is it also proved how
far the finding goes (`NoTrainingIdentified`).

## Not modelled

* `libc.c`, the `Makefile`, `get_data.py` and the test programs have no control
  of their own. The threads in `bluecoat.c` that turn logging on and off are
  never started.
* Formatting: message text, addresses and flags, the time difference in `dbg`
  (`bluecoat.c:81` subtracts a negative number from a second), the path that
  `getPathByFd` terminates at index -1 when `readlink()` fails.
* Arithmetic: gradients, mutual information, silhouettes (`main.py:105` never
  resets its minimum), floating point.
* In `bayes_net.py` `impute` with one missing value, which zips names with a
  scalar; the flood fill sampler and `iter_dfs()`, which nothing calls; drawing.
* In `bluecoat.c`, at this commit, no wrapper sends what it has built: `close()`
  composes its message and returns. `DebugLog` is therefore driven by any
  thread's calls of the client, not by wrappers; the timestamps `debug_ts1` and
  `debug_ts2`, shared by all threads, have no reader but the message.
* The constructor: `constructor_called` is set before the pointers are loaded
  (`bluecoat.c:672`), so a wrapper called meanwhile by another thread, or by
  `dlsym()`, uses a null pointer. It is listed as a hazard, without a property.
* In `ref.py` hyperparameters that only reach `alegnn`, printing, and random
  seeds: line 69 stores the state of a *new* `RandomState`, not of the one the
  experiment draws from.

## Plan

1. `Interposer`: the constructor against first calls from other threads and from
   `dlsym()`; then the client of `DebugLog` composed with the daemon of `Vlog`,
   the socket between them, and a restart of the daemon.
2. What a Gibbs chain does from an impossible state, and when likelihood
   weighting differs from the posterior: both are modelled, and neither has a
   property, since the code claims nothing about them.
