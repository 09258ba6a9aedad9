----------------------------- MODULE DistTrain -----------------------------
(***************************************************************************)
(* The data-parallel training program gnn/test.py.                         *)
(*                                                                         *)
(* A parent process starts WorldSize children, one per GPU, and joins      *)
(* them.  Every child runs train(rank, ...): it meets the others in        *)
(* init_process_group, wraps its model in DistributedDataParallel, and     *)
(* then runs Epochs epochs.  An epoch is a loop of training steps, each    *)
(* with one gradient all-reduce, a barrier, the validation done by rank 0  *)
(* alone, and a second barrier.                                            *)
(*                                                                         *)
(* The ranks share nothing but collective operations.  The communication   *)
(* library pairs the k-th collective of one rank with the k-th of every    *)
(* other, without looking at what they are: a collective returns on a rank *)
(* when every rank has issued as many.  So a rank that issues one more or  *)
(* one fewer than the others is paired with the wrong operation or waits   *)
(* for ever.                                                               *)
(***************************************************************************)
EXTENDS Naturals, Sequences, FiniteSets

CONSTANTS
    WorldSize,   \* number of children: 4 in the program
    NumTrain,    \* len(train_nids)
    BatchSize,   \* batch_size of the data loader: 1024 in the program
    Epochs,      \* 10 in the program
    Accuracies,  \* the values accuracy_score may return, scaled to naturals
    MaxCrashes   \* how many children may die with an exception

ASSUME ConstantsAssumption ==
    /\ WorldSize \in Nat \ {0}
    /\ NumTrain \in Nat /\ NumTrain >= WorldSize
    /\ BatchSize \in Nat \ {0}
    /\ Epochs \in Nat \ {0}
    /\ Accuracies \subseteq Nat
    /\ MaxCrashes \in Nat

Rank == 0 .. WorldSize - 1

VARIABLES
    spawned,     \* children started by the parent so far
    joined,      \* children the parent has joined so far
    pc,          \* where each rank is in train()
    epoch,       \* its loop variable epoch
    step,        \* training steps done in this epoch
    entered,     \* collectives the rank has issued
    version,     \* optimizer steps applied to the rank's replica
    best,        \* best_accuracy of rank 0
    file,        \* what model.pt holds
    crashed,     \* ranks that died
    validations  \* history: the accuracies rank 0 computed, in order

vars == <<spawned, joined, pc, epoch, step, entered, version, best, file,
          crashed, validations>>

-----------------------------------------------------------------------------
(* The split of the training nodes.                                        *)

PartitionSize == NumTrain \div WorldSize

\* Mutant of PartitionLen: the last rank also takes the remainder.
PartitionLenRemainder(r) ==
    IF r = WorldSize - 1 THEN NumTrain - PartitionSize * r ELSE PartitionSize

\* Length of nids[offset : offset + size]; a slice never exceeds the list.
PartitionLen(r) ==
    LET offset == PartitionSize * r
        stop   == IF offset + PartitionSize <= NumTrain
                  THEN offset + PartitionSize ELSE NumTrain
    IN  stop - offset

\* Number of batches the loader yields; drop_last = False keeps a short one.
StepsOf(r) == (PartitionLen(r) + BatchSize - 1) \div BatchSize

-----------------------------------------------------------------------------
(* Program counters.  A rank at one of Collectives has issued that         *)
(* operation and has not returned from it.                                 *)

Collectives == {"rendezvous", "init_model", "ready", "allreduce", "trained",
                "validated"}
Locals == {"unborn", "train", "validate", "save", "done"}

Waiting(r) == pc[r] \in Collectives

\* The collective that r waits in can return: every rank has issued it.
AllArrived(r) == \A q \in Rank : entered[q] >= entered[r]

Alive(r, at) == r \notin crashed /\ pc[r] = at

Goto(r, to) == pc' = [pc EXCEPT ![r] = to]

\* r issues its next collective and blocks in it.
Issue(r, to) ==
    /\ Goto(r, to)
    /\ entered' = [entered EXCEPT ![r] = @ + 1]

\* model.pt when it holds no checkpoint: it is absent, or torn by torch.save.
Unusable(kind) == [kind |-> kind, epoch |-> 0, accuracy |-> 0, version |-> 0]

-----------------------------------------------------------------------------
Init ==
    /\ spawned = 0
    /\ joined = 0
    /\ pc = [r \in Rank |-> "unborn"]
    /\ epoch = [r \in Rank |-> 0]
    /\ step = [r \in Rank |-> 0]
    /\ entered = [r \in Rank |-> 0]
    /\ version = [r \in Rank |-> 0]
    /\ best = 0
    /\ file = Unusable("absent")
    /\ crashed = {}
    /\ validations = << >>

\* The parent: p.start() in rank order; the child begins in init_process_group.
Start ==
    /\ spawned < WorldSize
    /\ spawned' = spawned + 1
    /\ Issue(spawned, "rendezvous")
    /\ UNCHANGED <<joined, epoch, step, version, best, file, crashed, validations>>

\* The parent: p.join() in rank order, once all children are started.
Join ==
    /\ spawned = WorldSize /\ joined < WorldSize
    /\ pc[joined] = "done" \/ joined \in crashed
    /\ joined' = joined + 1
    /\ UNCHANGED <<spawned, pc, epoch, step, entered, version, best, file, crashed,
                   validations>>

\* init_process_group returns; the DistributedDataParallel constructor
\* broadcasts the parameters of rank 0.
LeaveRendezvous(r) ==
    /\ Alive(r, "rendezvous") /\ AllArrived(r)
    /\ Issue(r, "init_model")
    /\ UNCHANGED <<spawned, joined, epoch, step, version, best, file, crashed, validations>>

\* The model is wrapped; the optimizer is created and the first barrier entered.
LeaveInitModel(r) ==
    /\ Alive(r, "init_model") /\ AllArrived(r)
    /\ Issue(r, "ready")
    /\ UNCHANGED <<spawned, joined, epoch, step, version, best, file, crashed, validations>>

LeaveReady(r) ==
    /\ Alive(r, "ready") /\ AllArrived(r)
    /\ Goto(r, "train")
    /\ UNCHANGED <<spawned, joined, epoch, step, entered, version, best, file, crashed,
                   validations>>

\* Forward pass, loss, and loss.backward(), which issues the all-reduce.
ComputeGradients(r) ==
    /\ Alive(r, "train")
    /\ Issue(r, "allreduce")
    /\ UNCHANGED <<spawned, joined, epoch, step, version, best, file, crashed, validations>>

\* The reduced gradients are applied by opt.step(); the loop goes on with the
\* next batch or ends in the barrier after training.
ApplyGradients(r) ==
    /\ version' = [version EXCEPT ![r] = @ + 1]
    /\ step' = [step EXCEPT ![r] = @ + 1]
    /\ IF step[r] + 1 < StepsOf(r)
       THEN Goto(r, "train") /\ UNCHANGED entered
       ELSE Issue(r, "trained")
    /\ UNCHANGED <<spawned, joined, epoch, best, file, crashed, validations>>

\* Mutant of LeaveAllreduce: apply the local gradients without waiting.
LeaveAllreduceEarly(r) == Alive(r, "allreduce") /\ ApplyGradients(r)

LeaveAllreduce(r) == Alive(r, "allreduce") /\ AllArrived(r) /\ ApplyGradients(r)

\* After the barrier rank 0 validates and the others enter the next barrier.
PassTrained(r) ==
    /\ IF r = 0 THEN Goto(r, "validate") /\ UNCHANGED entered
                ELSE Issue(r, "validated")
    /\ UNCHANGED <<spawned, joined, epoch, step, version, best, file, crashed, validations>>

\* Mutant of LeaveTrained: the barrier before the validation is missing.
LeaveTrainedEarly(r) == Alive(r, "trained") /\ PassTrained(r)

LeaveTrained(r) == Alive(r, "trained") /\ AllArrived(r) /\ PassTrained(r)

\* Mutant of Validate: an equal accuracy counts as an improvement.
ValidateNotWorse(a) ==
    /\ Alive(0, "validate")
    /\ validations' = Append(validations, a)
    /\ IF best <= a
       THEN best' = a /\ file' = Unusable("partial") /\ Goto(0, "save") /\ UNCHANGED entered
       ELSE Issue(0, "validated") /\ UNCHANGED <<best, file>>
    /\ UNCHANGED <<spawned, joined, epoch, step, version, crashed>>

\* Mutant of Validate: the best accuracy is not remembered.
ValidateForgets(a) ==
    /\ Alive(0, "validate")
    /\ validations' = Append(validations, a)
    /\ IF best < a
       THEN file' = Unusable("partial") /\ Goto(0, "save") /\ UNCHANGED entered
       ELSE Issue(0, "validated") /\ UNCHANGED file
    /\ UNCHANGED <<spawned, joined, epoch, step, version, best, crashed>>

\* Mutant of Validate: without an improvement rank 0 skips the barrier.
ValidateSkips(a) ==
    /\ Alive(0, "validate")
    /\ validations' = Append(validations, a)
    /\ IF best < a
       THEN /\ best' = a /\ file' = Unusable("partial") /\ Goto(0, "save")
            /\ UNCHANGED <<entered, epoch, step>>
       ELSE /\ epoch[0] + 1 < Epochs
            /\ epoch' = [epoch EXCEPT ![0] = @ + 1]
            /\ step' = [step EXCEPT ![0] = 0]
            /\ Goto(0, "train") /\ UNCHANGED <<entered, best, file>>
    /\ UNCHANGED <<spawned, joined, version, crashed>>

\* Rank 0 computes the validation accuracy.  An improvement is remembered and
\* torch.save begins to overwrite model.pt; otherwise rank 0 enters the barrier.
Validate(a) ==
    /\ Alive(0, "validate")
    /\ validations' = Append(validations, a)
    /\ IF best < a
       THEN /\ best' = a
            /\ file' = Unusable("partial")
            /\ Goto(0, "save")
            /\ UNCHANGED entered
       ELSE /\ Issue(0, "validated")
            /\ UNCHANGED <<best, file>>
    /\ UNCHANGED <<spawned, joined, epoch, step, version, crashed>>

\* torch.save returns: model.pt holds the parameters of this epoch.
Save ==
    /\ Alive(0, "save")
    /\ file' = [kind |-> "saved", epoch |-> epoch[0], accuracy |-> best,
                version |-> version[0]]
    /\ Issue(0, "validated")
    /\ UNCHANGED <<spawned, joined, epoch, step, version, best, crashed, validations>>

\* Mutant of NextEpoch: one epoch too many.
NextEpochExtra(r) ==
    /\ IF epoch[r] < Epochs
       THEN /\ epoch' = [epoch EXCEPT ![r] = @ + 1]
            /\ step' = [step EXCEPT ![r] = 0]
            /\ Goto(r, "train")
       ELSE Goto(r, "done") /\ UNCHANGED <<epoch, step>>
    /\ UNCHANGED <<spawned, joined, entered, version, best, file, crashed, validations>>

\* The end of an epoch: the next one begins, or train() returns.
NextEpoch(r) ==
    /\ IF epoch[r] + 1 < Epochs
       THEN /\ epoch' = [epoch EXCEPT ![r] = @ + 1]
            /\ step' = [step EXCEPT ![r] = 0]
            /\ Goto(r, "train")
       ELSE Goto(r, "done") /\ UNCHANGED <<epoch, step>>
    /\ UNCHANGED <<spawned, joined, entered, version, best, file, crashed, validations>>

\* Mutant of LeaveValidated: the barrier that ends the epoch is missing.
LeaveValidatedEarly(r) == Alive(r, "validated") /\ NextEpoch(r)

LeaveValidated(r) == Alive(r, "validated") /\ AllArrived(r) /\ NextEpoch(r)

\* A child dies with an exception (out of memory, a lost GPU).  Nothing tells
\* the others: their collectives never return.
Crash(r) ==
    /\ r \notin crashed /\ pc[r] \notin {"unborn", "done"}
    /\ Cardinality(crashed) < MaxCrashes
    /\ crashed' = crashed \cup {r}
    /\ UNCHANGED <<spawned, joined, pc, epoch, step, entered, version, best, file,
                   validations>>

\* The parent has joined every child and ends.
Ended == joined = WorldSize /\ UNCHANGED vars

-----------------------------------------------------------------------------
RankStep(r) ==
    \/ LeaveRendezvous(r)
    \/ LeaveInitModel(r)
    \/ LeaveReady(r)
    \/ ComputeGradients(r)
    \/ LeaveAllreduce(r)
    \/ LeaveTrained(r)
    \/ LeaveValidated(r)
    \/ r = 0 /\ (Save \/ \E a \in Accuracies : Validate(a))

Next ==
    \/ Start
    \/ Join
    \/ \E r \in Rank : RankStep(r) \/ Crash(r)
    \/ Ended

Spec == Init /\ [][Next]_vars

\* The operating system schedules the parent and every child that is alive.
Fairness == WF_vars(Start \/ Join) /\ \A r \in Rank : WF_vars(RankStep(r))

FairSpec == Spec /\ Fairness

-----------------------------------------------------------------------------
(* Properties.                                                             *)

\* Training steps of one epoch; StepsOf is the same on every rank.
Steps == StepsOf(0)

ModelFile == [kind : {"absent", "partial", "saved"}, epoch : 0 .. Epochs - 1,
              accuracy : Nat, version : Nat]

\* Every variable has its type; in particular no rank starts an epoch, or takes
\* a training step, beyond the last one.
TypeOK ==
    /\ spawned \in 0 .. WorldSize
    /\ joined \in 0 .. WorldSize
    /\ pc \in [Rank -> Collectives \cup Locals]
    /\ epoch \in [Rank -> 0 .. Epochs - 1]
    /\ step \in [Rank -> 0 .. Steps]
    /\ entered \in [Rank -> Nat]
    /\ version \in [Rank -> Nat]
    /\ best \in Nat
    /\ file \in ModelFile
    /\ crashed \subseteq Rank
    /\ validations \in Seq(Accuracies)

\* Collectives that are paired are the same: two ranks that wait in their k-th
\* collective wait in the same operation of the same step of the same epoch.
\* (train() issues them from two nested loops; the second runs as often as the
\* rank's own partition says.)
CollectivesMatch ==
    \A q, r \in Rank :
        Waiting(q) /\ Waiting(r) /\ entered[q] = entered[r]
            => pc[q] = pc[r] /\ epoch[q] = epoch[r] /\ step[q] = step[r]

\* While rank 0 validates and saves outside of any collective, every replica
\* has exactly the updates of the epochs so far, and no rank trains.
ValidatedWeights ==
    pc[0] \in {"validate", "save"} =>
        \A q \in Rank : /\ pc[q] \in {"trained", "validate", "save", "validated"}
                        /\ version[q] = (epoch[0] + 1) * Steps

\* No replica is ever more than one optimizer step ahead of another, whoever
\* has died and whoever is late.
ReplicasWithinOneStep ==
    \A q, r \in Rank : version[q] <= version[r] + 1

\* A rank that has returned from train() leaves nobody behind in the middle:
\* all the others have issued their last collective too.
FinishTogether ==
    \A r \in Rank : pc[r] = "done" =>
        \A q \in Rank : /\ pc[q] \in {"validated", "done"}
                        /\ epoch[q] = Epochs - 1

\* model.pt is the checkpoint of the earliest epoch with the best accuracy so
\* far, with the weights that were validated.  It is missing when every
\* accuracy was 0, and torn only inside torch.save (for ever, if rank 0 dies
\* there: the earlier checkpoint is gone).
CheckpointIsBest ==
    LET n == Len(validations) IN
    /\ file.kind = "partial" <=> pc[0] = "save"
    /\ file.kind = "absent" <=> \A i \in 1 .. n : validations[i] = 0
    /\ file.kind = "saved" =>
         /\ file.version = (file.epoch + 1) * Steps
         /\ file.epoch + 1 \in 1 .. n
         /\ \A i \in 1 .. n :
              /\ validations[i] <= validations[file.epoch + 1]
              /\ i <= file.epoch => validations[i] < validations[file.epoch + 1]

\* A child that dies stops all the others at the next collective at the latest.
CrashStopsAll ==
    \A r \in crashed, q \in Rank : entered[q] <= entered[r] + 1

\* The ranks stay together at the end and in a failure: who has returned leaves
\* nobody short of the last barrier, and who has died holds up all the others.
RanksStayTogether == FinishTogether /\ CrashStopsAll

\* The parent joins all its children, unless one of them has died.
Termination == <>(joined = WorldSize \/ crashed # {})

-----------------------------------------------------------------------------
(* Refinement: the ranks together implement one sequential training loop.  *)

\* The updates that every replica has.
CommonUpdates == CHOOSE v \in {version[r] : r \in Rank} : \A r \in Rank : v <= version[r]

Sequential == INSTANCE SeqTraining WITH
            updates <- CommonUpdates, scores <- validations

\* Every step of the program is a step of the sequential loop or invisible in
\* it: in particular a validation sees the updates of complete epochs only, in
\* all replicas, and no update happens before the validation and the save of
\* the epoch before are over.
ImplementsSequential == Sequential!Spec

-----------------------------------------------------------------------------
(* The inductive invariant behind the safety properties: the number of     *)
(* collectives and of updates of a rank is determined by where it is, and  *)
(* ranks are at most one collective apart.                                 *)

\* Collectives issued before epoch e: three at the start, then one per step
\* and two barriers per epoch.
Base(e) == 3 + e * (Steps + 2)

InSetup(r) == pc[r] \in {"unborn", "rendezvous", "init_model", "ready"}

InTraining(r) == pc[r] \in {"train", "allreduce"}

\* Where rank r is determines how many collectives and updates it has made.
PositionOf(r) ==
    /\ version[r] = epoch[r] * Steps + step[r]
    /\ InSetup(r) => epoch[r] = 0 /\ step[r] = 0
    /\ InTraining(r) => step[r] < Steps
    /\ ~InSetup(r) /\ ~InTraining(r) => step[r] = Steps
    /\ pc[r] = "unborn" => entered[r] = 0
    /\ pc[r] = "rendezvous" => entered[r] = 1
    /\ pc[r] = "init_model" => entered[r] = 2
    /\ pc[r] = "ready" => entered[r] = 3
    /\ pc[r] = "train" => entered[r] = Base(epoch[r]) + step[r]
    /\ pc[r] = "allreduce" => entered[r] = Base(epoch[r]) + step[r] + 1
    /\ pc[r] \in {"trained", "validate", "save"} =>
            entered[r] = Base(epoch[r]) + Steps + 1
    /\ pc[r] \in {"validated", "done"} => entered[r] = Base(epoch[r]) + Steps + 2
    /\ pc[r] = "done" => epoch[r] = Epochs - 1
    /\ pc[r] \in {"validate", "save"} => r = 0

Positions == \A r \in Rank : PositionOf(r)

\* A rank is past its k-th collective only if all others have issued k.
LockStep ==
    \A q, r \in Rank : entered[r] <= entered[q] + (IF Waiting(r) THEN 1 ELSE 0)

Born == \A r \in Rank : pc[r] = "unborn" <=> r >= spawned

IInv == TypeOK /\ Born /\ Positions /\ LockStep
============================================================================
