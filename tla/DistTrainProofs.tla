-------------------------- MODULE DistTrainProofs --------------------------
(***************************************************************************)
(* Proofs about DistTrain, for any number of ranks, nodes and epochs.      *)
(*                                                                         *)
(* The argument counts collectives.  The operations a rank issues form one *)
(* fixed sequence, so how many it has issued is a function of where it is  *)
(* (Positions); and nobody leaves its k-th collective before all have      *)
(* issued k of them (LockStep).  Together they bound how far apart two     *)
(* ranks can be, and every safety property is an instance of that.         *)
(***************************************************************************)
EXTENDS DistTrain, SequenceTheorems, TLAPS

\* n \div d is the quotient: the only fact about division that is used.
LEMMA Quotient ==
    ASSUME NEW n \in Nat, NEW d \in Nat \ {0}
    PROVE  /\ n \div d \in Nat
           /\ d * (n \div d) <= n
           /\ n < d * (n \div d) + d
OBVIOUS

\* Every rank's slice of the training nodes has the full partition size.
LEMMA PartitionsEqual ==
    ASSUME NEW r \in Rank
    PROVE  PartitionLen(r) = PartitionSize
<1> DEFINE P == PartitionSize
<1>1. P \in Nat /\ WorldSize * P <= NumTrain
  BY ConstantsAssumption, Quotient DEF PartitionSize
<1>2. r \in Nat /\ r + 1 <= WorldSize
  BY ConstantsAssumption DEF Rank
<1>3. P * (r + 1) <= P * WorldSize
  BY <1>1, <1>2, ConstantsAssumption
<1>4. P * (r + 1) = P * r + P
  BY <1>1, <1>2
<1>5. P * r + P <= NumTrain /\ P * r \in Nat
  BY <1>1, <1>2, <1>3, <1>4, ConstantsAssumption
<1> QED
  BY <1>1, <1>5 DEF PartitionLen

\* Every rank makes the same number of training steps, at least one.
LEMMA StepsEqual ==
    /\ Steps \in Nat \ {0}
    /\ \A r \in Rank : StepsOf(r) = Steps
<1>1. PartitionSize \in Nat \ {0}
  BY ConstantsAssumption, Quotient DEF PartitionSize
<1>2. 0 \in Rank
  BY ConstantsAssumption DEF Rank
<1>3. (PartitionSize + BatchSize - 1) \div BatchSize \in Nat \ {0}
  <2> DEFINE n == PartitionSize + BatchSize - 1
  <2>1. n \in Nat /\ n >= BatchSize
    BY <1>1, ConstantsAssumption
  <2> HIDE DEF n
  <2>2. n \div BatchSize \in Nat /\ n < BatchSize * (n \div BatchSize) + BatchSize
    BY <2>1, Quotient, ConstantsAssumption
  <2>3. n \div BatchSize # 0
    BY <2>1, <2>2, ConstantsAssumption
  <2> QED
    BY <2>2, <2>3 DEF n
<1> QED
  BY <1>1, <1>2, <1>3, PartitionsEqual DEF Steps, StepsOf

\* The numbering of collectives, without multiplication.
LEMMA BaseFacts ==
    /\ Base(0) = 3
    /\ \A e \in Nat : Base(e) \in Nat /\ Base(e + 1) = Base(e) + Steps + 2
    /\ \A d, e \in Nat : d < e => Base(d) + Steps + 2 <= Base(e)
<1> DEFINE M == Steps + 2
<1>1. M \in Nat
  BY StepsEqual
<1>2. \A e \in Nat : Base(e) = 3 + e * M
  BY DEF Base
<1> HIDE DEF M
<1>3. ASSUME NEW d \in Nat, NEW e \in Nat, d < e
      PROVE  d * M + M <= e * M
  <2>1. PICK k \in Nat : e = (d + 1) + k
    <3>1. e - (d + 1) \in Nat /\ e = (d + 1) + (e - (d + 1))
      BY <1>3
    <3> QED BY <3>1
  <2>2. e * M = d * M + M + k * M
    BY <2>1, <1>1
  <2>3. k * M \in Nat /\ d * M \in Nat
    BY <1>1
  <2> QED
    BY <2>2, <2>3, <1>1
<1>4. \A e \in Nat : e * M \in Nat /\ (e + 1) * M = e * M + M /\ 0 * M = 0
  BY <1>1
<1>5. \A e \in Nat : Base(e) \in Nat /\ Base(e + 1) = Base(e) + M
  BY <1>1, <1>2, <1>4
<1>6. \A d, e \in Nat : d < e => Base(d) + M <= Base(e)
  <2> SUFFICES ASSUME NEW d \in Nat, NEW e \in Nat, d < e
               PROVE  Base(d) + M <= Base(e)
    OBVIOUS
  <2>1. d * M + M <= e * M
    BY <1>3
  <2> QED
    BY <2>1, <1>1, <1>2, <1>4
<1>7. Base(0) = 3
  BY <1>2, <1>4
<1>8. M = Steps + 2 /\ Steps \in Nat
  BY StepsEqual DEF M
<1>9. \A e \in Nat : Base(e) + M = Base(e) + Steps + 2
  BY <1>5, <1>8
<1>10. \A e \in Nat : Base(e) \in Nat /\ Base(e + 1) = Base(e) + Steps + 2
  BY <1>5, <1>9
<1>11. \A d, e \in Nat : d < e => Base(d) + Steps + 2 <= Base(e)
  BY <1>6, <1>9
<1> QED
  BY <1>7, <1>10, <1>11

\* Updates made in complete epochs, without multiplication.
LEMMA UpdateFacts ==
    ASSUME NEW e \in Nat
    PROVE  e * Steps \in Nat /\ (e + 1) * Steps = e * Steps + Steps /\ 0 * Steps = 0
BY StepsEqual

\* LockStep survives a step in which one rank, that has issued no more
\* collectives than any other, issues one.
LEMMA LockStepIssue ==
    ASSUME TypeOK, LockStep, NEW r \in Rank, NEW to \in Collectives,
           Issue(r, to), \A q \in Rank : entered[r] <= entered[q]
    PROVE  LockStep'
<1> SUFFICES ASSUME NEW p \in Rank, NEW q \in Rank
             PROVE  entered'[p] <= entered'[q] + (IF Waiting(p)' THEN 1 ELSE 0)
  BY DEF LockStep
<1>1. entered \in [Rank -> Nat] /\ pc \in [Rank -> Collectives \cup Locals]
  BY DEF TypeOK
<1>2. entered[p] <= entered[q] + (IF Waiting(p) THEN 1 ELSE 0)
  BY DEF LockStep
<1>3. entered'[q] \in Nat /\ entered'[q] >= entered[q]
  BY <1>1 DEF Issue
<1>4. CASE p = r
  <2>1. entered'[p] = entered[p] + 1 /\ Waiting(p)'
    BY <1>1, <1>4 DEF Issue, Goto, Waiting
  <2> QED
    BY <2>1, <1>1, <1>3, <1>4
<1>5. CASE p # r
  <2>1. entered'[p] = entered[p] /\ (Waiting(p)' <=> Waiting(p))
    BY <1>1, <1>5 DEF Issue, Goto, Waiting
  <2> QED
    BY <2>1, <1>1, <1>2, <1>3
<1> QED
  BY <1>4, <1>5

\* LockStep survives a step in which such a rank proceeds to local work.
LEMMA LockStepGoto ==
    ASSUME TypeOK, LockStep, NEW r \in Rank, NEW to,
           Goto(r, to), entered' = entered, \A q \in Rank : entered[r] <= entered[q]
    PROVE  LockStep'
<1> SUFFICES ASSUME NEW p \in Rank, NEW q \in Rank
             PROVE  entered[p] <= entered[q] + (IF Waiting(p)' THEN 1 ELSE 0)
  BY DEF LockStep
<1>1. entered \in [Rank -> Nat] /\ pc \in [Rank -> Collectives \cup Locals]
  BY DEF TypeOK
<1>2. entered[p] <= entered[q] + (IF Waiting(p) THEN 1 ELSE 0)
  BY DEF LockStep
<1>3. CASE p = r
  BY <1>1, <1>3
<1>4. CASE p # r
  <2>1. Waiting(p)' <=> Waiting(p)
    BY <1>1, <1>4 DEF Goto, Waiting
  <2> QED
    BY <2>1, <1>2
<1> QED
  BY <1>3, <1>4

\* At the start nothing has been issued.
LEMMA InitIInv == Init => IInv
<1> SUFFICES ASSUME Init PROVE IInv
  OBVIOUS
<1>1. Steps \in Nat \ {0} /\ 0 \in 0 .. Epochs - 1 /\ << >> \in Seq(Accuracies)
  BY StepsEqual, ConstantsAssumption
<1>2. TypeOK
  <2>1. file \in ModelFile
    BY <1>1 DEF Init, Unusable, ModelFile
  <2>2. spawned \in 0 .. WorldSize /\ joined \in 0 .. WorldSize
    BY ConstantsAssumption DEF Init
  <2> QED
    BY <1>1, <2>1, <2>2 DEF Init, TypeOK, Locals
<1>3. Born
  BY ConstantsAssumption DEF Init, Born, Rank
<1>4. Positions
  BY UpdateFacts DEF Init, Positions, PositionOf, InSetup, InTraining
<1>5. LockStep
  BY DEF Init, LockStep, Waiting, Collectives
<1> QED
  BY <1>2, <1>3, <1>4, <1>5 DEF IInv

\* The position of one rank, with the types of its terms.
LEMMA RankFacts ==
    ASSUME TypeOK, Positions, NEW r \in Rank
    PROVE  /\ PositionOf(r)
           /\ epoch[r] \in 0 .. Epochs - 1 /\ epoch[r] \in Nat
           /\ step[r] \in Nat /\ entered[r] \in Nat /\ version[r] \in Nat
           /\ Base(epoch[r]) \in Nat /\ Steps \in Nat \ {0}
<1>1. PositionOf(r)
  BY DEF Positions
<1>2. Steps \in Nat \ {0}
  BY StepsEqual
<1>3. /\ epoch[r] \in 0 .. Epochs - 1 /\ epoch[r] \in Nat
      /\ step[r] \in Nat /\ entered[r] \in Nat /\ version[r] \in Nat
  BY <1>2 DEF TypeOK
<1>4. Base(epoch[r]) \in Nat
  BY <1>3, BaseFacts
<1> QED
  BY <1>1, <1>2, <1>3, <1>4

\* A step that touches only rank r's own state keeps the positions of others.
LEMMA OthersKeepPosition ==
    ASSUME TypeOK, Positions, NEW r \in Rank, PositionOf(r)',
           \A q \in Rank \ {r} : /\ pc'[q] = pc[q] /\ epoch'[q] = epoch[q]
                                 /\ step'[q] = step[q] /\ entered'[q] = entered[q]
                                 /\ version'[q] = version[q]
    PROVE  Positions'
<1> SUFFICES ASSUME NEW q \in Rank PROVE PositionOf(q)'
  BY DEF Positions
<1>1. CASE q = r
  BY <1>1
<1>2. CASE q # r
  BY <1>2, PositionOf(q) DEF Positions, PositionOf, InSetup, InTraining
<1> QED
  BY <1>1, <1>2

\* From collective 1 to collective 2.
LEMMA LeaveRendezvousKeepsIInv == ASSUME IInv, NEW r \in Rank, LeaveRendezvous(r) PROVE IInv'
<1> USE DEF IInv
<1>1. pc[r] = "rendezvous" /\ \A q \in Rank : entered[r] <= entered[q]
  BY DEF LeaveRendezvous, Alive, AllArrived, TypeOK
<1>2. TypeOK'
  BY DEF LeaveRendezvous, Issue, Goto, TypeOK, Collectives, Locals
<1>3. Born'
  BY <1>1 DEF LeaveRendezvous, Issue, Goto, TypeOK, Born
<1>4. Positions'
  <2>1. PositionOf(r)'
    BY <1>1, PositionOf(r), BaseFacts, StepsEqual
       DEF LeaveRendezvous, Issue, Goto, TypeOK, Positions, PositionOf, InSetup, InTraining
  <2> QED
    BY <2>1, OthersKeepPosition DEF LeaveRendezvous, Issue, Goto, TypeOK
<1>5. LockStep'
  BY <1>1, LockStepIssue DEF LeaveRendezvous, Collectives
<1> QED
  BY <1>2, <1>3, <1>4, <1>5

\* From collective 2 to collective 3.
LEMMA LeaveInitModelKeepsIInv == ASSUME IInv, NEW r \in Rank, LeaveInitModel(r) PROVE IInv'
<1> USE DEF IInv
<1>1. pc[r] = "init_model" /\ \A q \in Rank : entered[r] <= entered[q]
  BY DEF LeaveInitModel, Alive, AllArrived, TypeOK
<1>2. TypeOK'
  BY DEF LeaveInitModel, Issue, Goto, TypeOK, Collectives, Locals
<1>3. Born'
  BY <1>1 DEF LeaveInitModel, Issue, Goto, TypeOK, Born
<1>4. Positions'
  <2>1. PositionOf(r)'
    BY <1>1, PositionOf(r), BaseFacts, StepsEqual
       DEF LeaveInitModel, Issue, Goto, TypeOK, Positions, PositionOf, InSetup, InTraining
  <2> QED
    BY <2>1, OthersKeepPosition DEF LeaveInitModel, Issue, Goto, TypeOK
<1>5. LockStep'
  BY <1>1, LockStepIssue DEF LeaveInitModel, Collectives
<1> QED
  BY <1>2, <1>3, <1>4, <1>5

\* Position 0 of epoch 0 is collective 3.
LEMMA LeaveReadyKeepsIInv == ASSUME IInv, NEW r \in Rank, LeaveReady(r) PROVE IInv'
<1> USE DEF IInv
<1>1. pc[r] = "ready" /\ \A q \in Rank : entered[r] <= entered[q]
  BY DEF LeaveReady, Alive, AllArrived, TypeOK
<1>2. TypeOK'
  BY DEF LeaveReady, Issue, Goto, TypeOK, Collectives, Locals
<1>3. Born'
  BY <1>1 DEF LeaveReady, Issue, Goto, TypeOK, Born
<1>4. Positions'
  <2>1. PositionOf(r)'
    BY <1>1, PositionOf(r), BaseFacts, StepsEqual
       DEF LeaveReady, Issue, Goto, TypeOK, Positions, PositionOf, InSetup, InTraining
  <2> QED
    BY <2>1, OthersKeepPosition DEF LeaveReady, Issue, Goto, TypeOK
<1>5. LockStep'
  BY <1>1, LockStepGoto DEF LeaveReady, Collectives
<1> QED
  BY <1>2, <1>3, <1>4, <1>5

\* A rank in local work has issued no more collectives than any other.
LEMMA LocalIsLast ==
    ASSUME TypeOK, LockStep, NEW r \in Rank, ~Waiting(r)
    PROVE  \A q \in Rank : entered[r] <= entered[q]
<1> TAKE q \in Rank
<1>1. entered[r] <= entered[q] + (IF Waiting(r) THEN 1 ELSE 0)
  BY DEF LockStep
<1> QED
  BY <1>1 DEF TypeOK

\* backward() issues the collective of this step.
LEMMA ComputeGradientsKeepsIInv ==
    ASSUME IInv, NEW r \in Rank, ComputeGradients(r) PROVE IInv'
<1> USE DEF IInv
<1>1. pc[r] = "train" /\ \A q \in Rank : entered[r] <= entered[q]
  <2>1. pc[r] = "train" /\ ~Waiting(r)
    BY DEF ComputeGradients, Alive, Waiting, Collectives
  <2> QED
    BY <2>1, LocalIsLast
<1>2. TypeOK'
  BY DEF ComputeGradients, Issue, Goto, TypeOK, Collectives, Locals
<1>3. Born'
  BY <1>1 DEF ComputeGradients, Issue, Goto, TypeOK, Born
<1>4. Positions'
  <2>1. PositionOf(r)'
    BY <1>1, PositionOf(r), BaseFacts, StepsEqual
       DEF ComputeGradients, Issue, Goto, TypeOK, Positions, PositionOf, InSetup, InTraining
  <2> QED
    BY <2>1, OthersKeepPosition DEF ComputeGradients, Issue, Goto, TypeOK
<1>5. LockStep'
  BY <1>1, LockStepIssue DEF ComputeGradients, Collectives
<1> QED
  BY <1>2, <1>3, <1>4, <1>5

\* The branch on the last batch uses that the rank makes Steps steps.
LEMMA LeaveAllreduceKeepsIInv ==
    ASSUME IInv, NEW r \in Rank, LeaveAllreduce(r) PROVE IInv'
<1> USE DEF IInv
<1>1. pc[r] = "allreduce" /\ \A q \in Rank : entered[r] <= entered[q]
  BY DEF LeaveAllreduce, Alive, AllArrived, TypeOK
<1>2. /\ version' = [version EXCEPT ![r] = @ + 1]
      /\ step' = [step EXCEPT ![r] = @ + 1]
      /\ step[r] < Steps /\ StepsOf(r) = Steps /\ Steps \in Nat
      /\ UNCHANGED <<spawned, joined, epoch, best, file, crashed, validations>>
  BY <1>1, StepsEqual DEF LeaveAllreduce, ApplyGradients, Positions, PositionOf, InTraining
<1>3. version'[r] = epoch[r] * Steps + (step[r] + 1)
  BY <1>2, UpdateFacts DEF TypeOK, Positions, PositionOf
<1>4. step' \in [Rank -> 0 .. Steps] /\ version' \in [Rank -> Nat]
  <2>1. step[r] + 1 \in 0 .. Steps /\ version[r] + 1 \in Nat
    BY <1>2 DEF TypeOK
  <2> QED
    BY <1>2, <2>1 DEF TypeOK
<1>5. CASE step[r] + 1 < Steps
  <2>1. Goto(r, "train") /\ UNCHANGED entered
    BY <1>2, <1>5 DEF LeaveAllreduce, ApplyGradients
  <2>2. TypeOK'
    BY <1>2, <1>4, <2>1 DEF Goto, TypeOK, Collectives, Locals
  <2>3. Born'
    BY <1>1, <1>2, <2>1 DEF Goto, TypeOK, Born
  <2>4. PositionOf(r)'
    <3>1. /\ pc'[r] = "train" /\ step'[r] = step[r] + 1 /\ epoch'[r] = epoch[r]
          /\ entered'[r] = entered[r] /\ step[r] \in Nat
      BY <1>2, <2>1 DEF Goto, TypeOK
    <3>2. entered[r] = Base(epoch[r]) + step[r] + 1 /\ Base(epoch[r]) \in Nat
      BY <1>1, RankFacts DEF PositionOf
    <3> QED
      BY <1>3, <1>5, <3>1, <3>2 DEF PositionOf, InSetup, InTraining
  <2>5. Positions'
    BY <1>2, <2>1, <2>4, OthersKeepPosition DEF Goto, TypeOK
  <2>6. LockStep'
    BY <1>1, <2>1, LockStepGoto
  <2> QED
    BY <2>2, <2>3, <2>5, <2>6
<1>6. CASE ~(step[r] + 1 < Steps)
  <2>1. Issue(r, "trained")
    BY <1>2, <1>6 DEF LeaveAllreduce, ApplyGradients
  <2>2. TypeOK'
    <3>1. pc' \in [Rank -> Collectives \union Locals] /\ entered' \in [Rank -> Nat]
      BY <2>1 DEF Issue, Goto, TypeOK, Collectives, Locals
    <3> QED
      BY <1>2, <1>4, <3>1 DEF TypeOK
  <2>3. Born'
    BY <1>1, <1>2, <2>1 DEF Issue, Goto, TypeOK, Born
  <2>4. PositionOf(r)'
    <3>1. /\ pc'[r] = "trained" /\ step'[r] = step[r] + 1 /\ epoch'[r] = epoch[r]
          /\ entered'[r] = entered[r] + 1 /\ step[r] \in Nat
      BY <1>2, <2>1 DEF Issue, Goto, TypeOK
    <3>2. entered[r] = Base(epoch[r]) + step[r] + 1 /\ Base(epoch[r]) \in Nat
      BY <1>1, RankFacts DEF PositionOf
    <3>3. step'[r] = Steps
      BY <1>2, <1>6, <3>1
    <3> QED
      BY <1>2, <1>3, <3>1, <3>2, <3>3 DEF PositionOf, InSetup, InTraining
  <2>5. Positions'
    BY <1>2, <2>1, <2>4, OthersKeepPosition DEF Issue, Goto, TypeOK
  <2>6. LockStep'
    BY <1>1, <2>1, LockStepIssue DEF Collectives
  <2> QED
    BY <2>2, <2>3, <2>5, <2>6
<1> QED
  BY <1>5, <1>6

\* Rank 0 goes on to validate, the others issue the second barrier.
LEMMA LeaveTrainedKeepsIInv ==
    ASSUME IInv, NEW r \in Rank, LeaveTrained(r) PROVE IInv'
<1> USE DEF IInv
<1>1. /\ pc[r] = "trained" /\ \A q \in Rank : entered[r] <= entered[q]
      /\ UNCHANGED <<spawned, joined, epoch, step, version, best, file, crashed, validations>>
  BY DEF LeaveTrained, PassTrained, Alive, AllArrived, TypeOK
<1>2. CASE r = 0
  <2>1. Goto(r, "validate") /\ UNCHANGED entered
    BY <1>2 DEF LeaveTrained, PassTrained
  <2>2. TypeOK'
    BY <1>1, <2>1 DEF Goto, TypeOK, Collectives, Locals
  <2>3. Born'
    BY <1>1, <2>1 DEF Goto, TypeOK, Born
  <2>4. PositionOf(r)'
    BY <1>1, <1>2, <2>1, PositionOf(r), BaseFacts
       DEF Goto, TypeOK, Positions, PositionOf, InSetup, InTraining
  <2>5. Positions'
    BY <1>1, <2>1, <2>4, OthersKeepPosition DEF Goto, TypeOK
  <2>6. LockStep'
    BY <1>1, <2>1, LockStepGoto
  <2> QED
    BY <2>2, <2>3, <2>5, <2>6
<1>3. CASE r # 0
  <2>1. Issue(r, "validated")
    BY <1>3 DEF LeaveTrained, PassTrained
  <2>2. TypeOK'
    BY <1>1, <2>1 DEF Issue, Goto, TypeOK, Collectives, Locals
  <2>3. Born'
    BY <1>1, <2>1 DEF Issue, Goto, TypeOK, Born
  <2>4. PositionOf(r)'
    <3>1. /\ pc'[r] = "validated" /\ step'[r] = step[r] /\ epoch'[r] = epoch[r]
          /\ entered'[r] = entered[r] + 1 /\ version'[r] = version[r]
      BY <1>1, <2>1 DEF Issue, Goto, TypeOK
    <3>2. /\ entered[r] = Base(epoch[r]) + Steps + 1 /\ Base(epoch[r]) \in Nat
          /\ step[r] = Steps /\ version[r] = epoch[r] * Steps + step[r]
          /\ Steps \in Nat
      BY <1>1, RankFacts DEF PositionOf, InSetup, InTraining
    <3> QED
      BY <3>1, <3>2 DEF PositionOf, InSetup, InTraining
  <2>5. Positions'
    BY <1>1, <2>1, <2>4, OthersKeepPosition DEF Issue, Goto, TypeOK
  <2>6. LockStep'
    BY <1>1, <2>1, LockStepIssue DEF Collectives
  <2> QED
    BY <2>2, <2>3, <2>5, <2>6
<1> QED
  BY <1>2, <1>3

\* Rank 0, in no collective, either saves or issues the second barrier.
LEMMA ValidateKeepsIInv ==
    ASSUME IInv, NEW a \in Accuracies, Validate(a) PROVE IInv'
<1> USE DEF IInv
<1>1. /\ pc[0] = "validate" /\ 0 \in Rank /\ a \in Nat
      /\ validations' = Append(validations, a)
      /\ UNCHANGED <<spawned, joined, epoch, step, version, crashed>>
  BY ConstantsAssumption DEF Validate, Alive, Rank
<1>2. \A q \in Rank : entered[0] <= entered[q]
  BY <1>1, LocalIsLast DEF Waiting, Collectives
<1>3. validations' \in Seq(Accuracies)
  BY <1>1 DEF TypeOK
<1>4. CASE best < a
  <2>1. best' = a /\ file' = Unusable("partial") /\ Goto(0, "save") /\ UNCHANGED entered
    BY <1>4 DEF Validate
  <2>2. file' \in ModelFile
    BY <2>1, ConstantsAssumption DEF Unusable, ModelFile
  <2>3. TypeOK'
    BY <1>1, <1>3, <2>1, <2>2 DEF Goto, TypeOK, Collectives, Locals
  <2>4. Born'
    BY <1>1, <2>1 DEF Goto, TypeOK, Born
  <2>5. PositionOf(0)'
    BY <1>1, <2>1, RankFacts DEF Goto, TypeOK, PositionOf, InSetup, InTraining
  <2>6. Positions'
    BY <1>1, <2>1, <2>5, OthersKeepPosition DEF Goto, TypeOK
  <2>7. LockStep'
    BY <1>1, <1>2, <2>1, LockStepGoto
  <2> QED
    BY <2>3, <2>4, <2>6, <2>7
<1>5. CASE ~(best < a)
  <2>1. Issue(0, "validated") /\ UNCHANGED <<best, file>>
    BY <1>5 DEF Validate
  <2>2. TypeOK'
    BY <1>1, <1>3, <2>1 DEF Issue, Goto, TypeOK, Collectives, Locals
  <2>3. Born'
    BY <1>1, <2>1 DEF Issue, Goto, TypeOK, Born
  <2>4. PositionOf(0)'
    <3>1. /\ pc'[0] = "validated" /\ step'[0] = step[0] /\ epoch'[0] = epoch[0]
          /\ entered'[0] = entered[0] + 1 /\ version'[0] = version[0]
      BY <1>1, <2>1 DEF Issue, Goto, TypeOK
    <3>2. /\ entered[0] = Base(epoch[0]) + Steps + 1 /\ Base(epoch[0]) \in Nat
          /\ step[0] = Steps /\ version[0] = epoch[0] * Steps + step[0]
          /\ Steps \in Nat
      BY <1>1, RankFacts DEF PositionOf, InSetup, InTraining
    <3> QED
      BY <3>1, <3>2 DEF PositionOf, InSetup, InTraining
  <2>5. Positions'
    BY <1>1, <2>1, <2>4, OthersKeepPosition DEF Issue, Goto, TypeOK
  <2>6. LockStep'
    BY <1>1, <1>2, <2>1, LockStepIssue DEF Collectives
  <2> QED
    BY <2>2, <2>3, <2>5, <2>6
<1> QED
  BY <1>4, <1>5

\* After torch.save rank 0 issues the second barrier.
LEMMA SaveKeepsIInv == ASSUME IInv, Save PROVE IInv'
<1> USE DEF IInv
<1>1. /\ pc[0] = "save" /\ 0 \in Rank /\ Issue(0, "validated")
      /\ file' = [kind |-> "saved", epoch |-> epoch[0], accuracy |-> best,
                  version |-> version[0]]
      /\ UNCHANGED <<spawned, joined, epoch, step, version, best, crashed, validations>>
  BY ConstantsAssumption DEF Save, Alive, Rank
<1>2. \A q \in Rank : entered[0] <= entered[q]
  BY <1>1, LocalIsLast DEF Waiting, Collectives
<1>3. file' \in ModelFile
  BY <1>1, RankFacts DEF ModelFile, TypeOK
<1>4. TypeOK'
  BY <1>1, <1>3 DEF Issue, Goto, TypeOK, Collectives, Locals
<1>5. Born'
  BY <1>1 DEF Issue, Goto, TypeOK, Born
<1>6. PositionOf(0)'
  <2>1. /\ pc'[0] = "validated" /\ step'[0] = step[0] /\ epoch'[0] = epoch[0]
        /\ entered'[0] = entered[0] + 1 /\ version'[0] = version[0]
    BY <1>1 DEF Issue, Goto, TypeOK
  <2>2. /\ entered[0] = Base(epoch[0]) + Steps + 1 /\ Base(epoch[0]) \in Nat
        /\ step[0] = Steps /\ version[0] = epoch[0] * Steps + step[0]
        /\ Steps \in Nat
    BY <1>1, RankFacts DEF PositionOf, InSetup, InTraining
  <2> QED
    BY <2>1, <2>2 DEF PositionOf, InSetup, InTraining
<1>7. Positions'
  BY <1>1, <1>6, OthersKeepPosition DEF Issue, Goto, TypeOK
<1>8. LockStep'
  BY <1>1, <1>2, LockStepIssue DEF Collectives
<1> QED
  BY <1>4, <1>5, <1>7, <1>8

\* The barrier that ends an epoch: position Steps + 2 of one epoch is position 0
\* of the next.
LEMMA LeaveValidatedKeepsIInv ==
    ASSUME IInv, NEW r \in Rank, LeaveValidated(r) PROVE IInv'
<1> USE DEF IInv
<1>1. /\ pc[r] = "validated" /\ \A q \in Rank : entered[r] <= entered[q]
      /\ UNCHANGED <<spawned, joined, entered, version, best, file, crashed, validations>>
  BY DEF LeaveValidated, NextEpoch, Alive, AllArrived, TypeOK
<1>2. /\ entered[r] = Base(epoch[r]) + Steps + 2 /\ step[r] = Steps
      /\ version[r] = epoch[r] * Steps + Steps
      /\ epoch[r] \in 0 .. Epochs - 1 /\ epoch[r] \in Nat /\ Steps \in Nat \ {0}
  BY <1>1, RankFacts DEF PositionOf, InSetup, InTraining
<1>3. Epochs \in Nat
  BY ConstantsAssumption
<1>4. CASE epoch[r] + 1 < Epochs
  <2>1. /\ epoch' = [epoch EXCEPT ![r] = @ + 1] /\ step' = [step EXCEPT ![r] = 0]
        /\ Goto(r, "train")
    BY <1>4 DEF LeaveValidated, NextEpoch
  <2>2. TypeOK'
    <3>1. epoch[r] + 1 \in 0 .. Epochs - 1 /\ 0 \in 0 .. Steps
      BY <1>2, <1>3, <1>4
    <3>2. epoch' \in [Rank -> 0 .. Epochs - 1] /\ step' \in [Rank -> 0 .. Steps]
      BY <2>1, <3>1 DEF TypeOK
    <3>3. pc' \in [Rank -> Collectives \cup Locals]
      BY <2>1 DEF Goto, TypeOK, Locals
    <3> QED
      BY <1>1, <3>2, <3>3 DEF TypeOK
  <2>3. Born'
    BY <1>1, <2>1 DEF Goto, TypeOK, Born
  <2>4. PositionOf(r)'
    <3>1. /\ pc'[r] = "train" /\ epoch'[r] = epoch[r] + 1 /\ step'[r] = 0
          /\ entered'[r] = entered[r] /\ version'[r] = version[r]
      BY <1>1, <2>1 DEF Goto, TypeOK
    <3>2. Base(epoch[r] + 1) = Base(epoch[r]) + Steps + 2 /\ Base(epoch[r] + 1) \in Nat
      <4>1. epoch[r] + 1 \in Nat
        BY <1>2
      <4>2. Base(epoch[r] + 1) \in Nat
        BY <4>1, BaseFacts
      <4>3. Base(epoch[r] + 1) = Base(epoch[r]) + Steps + 2
        BY <1>2, BaseFacts
      <4> QED
        BY <4>2, <4>3
    <3>3. (epoch[r] + 1) * Steps = epoch[r] * Steps + Steps /\ (epoch[r] + 1) * Steps \in Nat
      BY <1>2, UpdateFacts
    <3> QED
      BY <1>2, <3>1, <3>2, <3>3 DEF PositionOf, InSetup, InTraining
  <2>5. Positions'
    BY <1>1, <2>1, <2>4, OthersKeepPosition DEF Goto, TypeOK
  <2>6. LockStep'
    BY <1>1, <2>1, LockStepGoto
  <2> QED
    BY <2>2, <2>3, <2>5, <2>6
<1>5. CASE ~(epoch[r] + 1 < Epochs)
  <2>1. Goto(r, "done") /\ UNCHANGED <<epoch, step>>
    BY <1>5 DEF LeaveValidated, NextEpoch
  <2>2. TypeOK'
    BY <1>1, <2>1 DEF Goto, TypeOK, Collectives, Locals
  <2>3. Born'
    BY <1>1, <2>1 DEF Goto, TypeOK, Born
  <2>4. PositionOf(r)'
    <3>1. epoch[r] = Epochs - 1
      BY <1>2, <1>3, <1>5
    <3> QED
      BY <1>1, <2>1, <3>1, RankFacts DEF Goto, TypeOK, PositionOf, InSetup, InTraining
  <2>5. Positions'
    BY <1>1, <2>1, <2>4, OthersKeepPosition DEF Goto, TypeOK
  <2>6. LockStep'
    BY <1>1, <2>1, LockStepGoto
  <2> QED
    BY <2>2, <2>3, <2>5, <2>6
<1> QED
  BY <1>4, <1>5

\* A child that starts issues its first collective, the rendezvous.
LEMMA StartKeepsIInv == ASSUME IInv, Start PROVE IInv'
<1> USE DEF IInv
<1>1. PICK r \in Rank : r = spawned
  BY ConstantsAssumption DEF Start, TypeOK, Rank
<1>2. /\ r \in Nat /\ spawned = r /\ spawned' = r + 1 /\ r < WorldSize
      /\ Issue(r, "rendezvous")
      /\ UNCHANGED <<joined, epoch, step, version, best, file, crashed, validations>>
  BY <1>1, ConstantsAssumption DEF Start, Rank
<1>3. pc[r] = "unborn"
  BY <1>2 DEF Born
<1>4. \A q \in Rank : entered[r] <= entered[q]
  BY <1>3, LocalIsLast DEF Waiting, Collectives
<1>5. TypeOK'
  BY <1>2, ConstantsAssumption DEF Issue, Goto, TypeOK, Collectives, Locals
<1>6. Born'
  <2>1. pc'[r] = "rendezvous"
    BY <1>2 DEF Issue, Goto, TypeOK
  <2>2. \A q \in Rank \ {r} : pc'[q] = pc[q] /\ (q >= r + 1 <=> q >= r)
    BY <1>2 DEF Issue, Goto, TypeOK, Rank
  <2>3. ~(r >= r + 1)
    BY <1>2
  <2>4. \A q \in Rank : pc'[q] = "unborn" <=> q >= r + 1
    BY <1>2, <2>1, <2>2, <2>3 DEF Born
  <2> QED
    BY <1>2, <2>4 DEF Born
<1>7. PositionOf(r)'
  <2>1. /\ pc'[r] = "rendezvous" /\ entered'[r] = entered[r] + 1
        /\ step'[r] = step[r] /\ epoch'[r] = epoch[r] /\ version'[r] = version[r]
    BY <1>2 DEF Issue, Goto, TypeOK
  <2>2. /\ entered[r] = 0 /\ epoch[r] = 0 /\ step[r] = 0
        /\ version[r] = epoch[r] * Steps + step[r]
    BY <1>3, RankFacts DEF PositionOf, InSetup
  <2> QED
    BY <2>1, <2>2 DEF PositionOf, InSetup, InTraining
<1>8. Positions'
  BY <1>2, <1>7, OthersKeepPosition DEF Issue, Goto, TypeOK
<1>9. LockStep'
  BY <1>2, <1>4, LockStepIssue DEF Collectives
<1> QED
  BY <1>5, <1>6, <1>8, <1>9

\* Steps of the parent, a crash, and stuttering move no rank.
LEMMA UnmovedKeepsIInv ==
    ASSUME IInv, UNCHANGED <<pc, epoch, step, entered, version, spawned>>, TypeOK'
    PROVE  IInv'
<1>1. Born'
  BY DEF IInv, Born
<1>2. Positions'
  BY DEF IInv, Positions, PositionOf, InSetup, InTraining
<1>3. LockStep'
  BY DEF IInv, LockStep, Waiting
<1> QED
  BY <1>1, <1>2, <1>3 DEF IInv

\* IInv is inductive: one step per action of Next.
LEMMA NextIInv == IInv /\ [Next]_vars => IInv'
<1> SUFFICES ASSUME IInv, [Next]_vars PROVE IInv'
  OBVIOUS
<1>1. CASE Start
  BY <1>1, StartKeepsIInv
<1>2. CASE Join
  <2>1. TypeOK'
    BY <1>2, ConstantsAssumption DEF Join, IInv, TypeOK
  <2> QED
    BY <1>2, <2>1, UnmovedKeepsIInv DEF Join
<1>3. ASSUME NEW r \in Rank, RankStep(r) PROVE IInv'
  <2>1. CASE LeaveRendezvous(r)
    BY <2>1, LeaveRendezvousKeepsIInv
  <2>2. CASE LeaveInitModel(r)
    BY <2>2, LeaveInitModelKeepsIInv
  <2>3. CASE LeaveReady(r)
    BY <2>3, LeaveReadyKeepsIInv
  <2>4. CASE ComputeGradients(r)
    BY <2>4, ComputeGradientsKeepsIInv
  <2>5. CASE LeaveAllreduce(r)
    BY <2>5, LeaveAllreduceKeepsIInv
  <2>6. CASE LeaveTrained(r)
    BY <2>6, LeaveTrainedKeepsIInv
  <2>7. CASE LeaveValidated(r)
    BY <2>7, LeaveValidatedKeepsIInv
  <2>8. CASE Save
    BY <2>8, SaveKeepsIInv
  <2>9. ASSUME NEW a \in Accuracies, Validate(a) PROVE IInv'
    BY <2>9, ValidateKeepsIInv
  <2> QED
    BY <1>3, <2>1, <2>2, <2>3, <2>4, <2>5, <2>6, <2>7, <2>8, <2>9 DEF RankStep
<1>4. ASSUME NEW r \in Rank, Crash(r) PROVE IInv'
  <2>1. TypeOK'
    BY <1>4 DEF Crash, IInv, TypeOK
  <2> QED
    BY <1>4, <2>1, UnmovedKeepsIInv DEF Crash
<1>5. CASE UNCHANGED vars
  <2>1. TypeOK'
    BY <1>5 DEF vars, IInv, TypeOK
  <2> QED
    BY <1>5, <2>1, UnmovedKeepsIInv DEF vars
<1> QED
  BY <1>1, <1>2, <1>3, <1>4, <1>5 DEF Next, Ended

\* The invariant holds in every behaviour.
LEMMA SpecIInv == Spec => []IInv
<1>1. Init => IInv
  BY InitIInv
<1>2. IInv /\ [Next]_vars => IInv'
  BY NextIInv
<1> QED
  BY <1>1, <1>2, PTL DEF Spec

-----------------------------------------------------------------------------
(* The safety properties follow from IInv.                                 *)

\* Every variable keeps its type: no rank runs past its last epoch or step.
THEOREM TypeCorrect == Spec => []TypeOK
<1>1. IInv => TypeOK
  BY DEF IInv
<1> QED
  BY <1>1, SpecIInv, PTL

\* A rank is at most one collective ahead of any other, dead or alive.
LEMMA OneApart ==
    ASSUME IInv, NEW q \in Rank, NEW r \in Rank
    PROVE  entered[q] <= entered[r] + 1
<1>1. entered[q] <= entered[r] + (IF Waiting(q) THEN 1 ELSE 0)
  BY DEF IInv, LockStep
<1> QED
  BY <1>1 DEF IInv, TypeOK

\* A dead rank stops all others at the next collective (gnn/test.py: nothing
\* but the collectives connects the ranks).
THEOREM DeadRankStopsAll == Spec => []CrashStopsAll
<1>1. IInv => CrashStopsAll
  BY OneApart DEF CrashStopsAll, IInv, TypeOK
<1> QED
  BY <1>1, SpecIInv, PTL

\* Collective number Base(e) + o determines e and o, for o in 1 .. Steps + 2.
LEMMA PlaceInEpoch ==
    ASSUME NEW d \in Nat, NEW e \in Nat, NEW m \in 1 .. Steps + 2, NEW n \in 1 .. Steps + 2,
           Base(d) + m = Base(e) + n
    PROVE  d = e /\ m = n
<1>1. Base(d) \in Nat /\ Base(e) \in Nat /\ Steps \in Nat
  BY BaseFacts, StepsEqual
<1>2. CASE d < e
  <2>1. Base(d) + Steps + 2 <= Base(e)
    BY <1>2, BaseFacts
  <2> QED
    BY <1>1, <2>1
<1>3. CASE e < d
  <2>1. Base(e) + Steps + 2 <= Base(d)
    BY <1>3, BaseFacts
  <2> QED
    BY <1>1, <2>1
<1>4. CASE d = e
  BY <1>1, <1>4
<1> QED
  BY <1>2, <1>3, <1>4

\* What a rank in a collective after the setup has issued, by its offset in
\* the epoch.
Offset(r) == IF pc[r] = "allreduce" THEN step[r] + 1
             ELSE IF pc[r] = "trained" THEN Steps + 1 ELSE Steps + 2

LEMMA WaitingPlace ==
    ASSUME IInv, NEW r \in Rank, pc[r] \in {"allreduce", "trained", "validated"}
    PROVE  /\ Offset(r) \in 1 .. Steps + 2
           /\ epoch[r] \in Nat /\ Base(epoch[r]) \in Nat /\ Steps \in Nat
           /\ entered[r] = Base(epoch[r]) + Offset(r)
           /\ entered[r] > 3
           /\ step[r] \in Nat
           /\ pc[r] = "allreduce" => step[r] < Steps
           /\ pc[r] # "allreduce" => step[r] = Steps
<1>1. /\ PositionOf(r) /\ epoch[r] \in Nat /\ step[r] \in Nat /\ Steps \in Nat
      /\ Base(epoch[r]) \in Nat
  BY RankFacts DEF IInv
<1>2. Base(epoch[r]) >= 3
  <2>1. Base(0) = 3 /\ (0 < epoch[r] => Base(0) + Steps + 2 <= Base(epoch[r]))
    BY <1>1, BaseFacts
  <2> QED
    BY <1>1, <2>1
<1>3. CASE pc[r] = "allreduce"
  BY <1>1, <1>2, <1>3 DEF PositionOf, InTraining, Offset
<1>4. CASE pc[r] = "trained"
  BY <1>1, <1>2, <1>4 DEF PositionOf, InSetup, InTraining, Offset
<1>5. CASE pc[r] = "validated"
  BY <1>1, <1>2, <1>5 DEF PositionOf, InSetup, InTraining, Offset
<1> QED
  BY <1>3, <1>4, <1>5

\* Two ranks waiting in their k-th collective wait in the same operation: the
\* loops of train() issue the same sequence on every rank.
THEOREM PairedCollectivesMatch == Spec => []CollectivesMatch
<1>1. ASSUME IInv, NEW q \in Rank, NEW r \in Rank, Waiting(q), Waiting(r),
             entered[q] = entered[r]
      PROVE  pc[q] = pc[r] /\ epoch[q] = epoch[r] /\ step[q] = step[r]
  <2> DEFINE Early(p) == pc[p] \in {"rendezvous", "init_model", "ready"}
             Late(p) == pc[p] \in {"allreduce", "trained", "validated"}
  <2>1. \A p \in Rank : Early(p) => /\ entered[p] <= 3 /\ epoch[p] = 0 /\ step[p] = 0
                                    /\ pc[p] = "rendezvous" => entered[p] = 1
                                    /\ pc[p] = "init_model" => entered[p] = 2
                                    /\ pc[p] = "ready" => entered[p] = 3
    BY <1>1 DEF IInv, Positions, PositionOf, InSetup
  <2>2. (Early(q) \/ Late(q)) /\ (Early(r) \/ Late(r))
    BY <1>1 DEF Waiting, Collectives
  <2>3. CASE Early(q) /\ Early(r)
    BY <1>1, <2>1, <2>3
  <2>4. CASE Late(q) /\ Late(r)
    <3>1. Offset(q) = Offset(r) /\ epoch[q] = epoch[r]
      BY <1>1, <2>4, WaitingPlace, PlaceInEpoch
    <3>2. pc[q] = pc[r]
      BY <1>1, <2>4, <3>1, WaitingPlace DEF Offset
    <3> QED
      BY <1>1, <2>4, <3>1, <3>2, WaitingPlace DEF Offset
  <2>5. CASE Early(q) /\ Late(r)
    <3>1. entered[q] <= 3 /\ entered[r] > 3
      BY <1>1, <2>1, <2>5, WaitingPlace
    <3> QED
      BY <1>1, <3>1 DEF IInv, TypeOK
  <2>6. CASE Late(q) /\ Early(r)
    <3>1. entered[r] <= 3 /\ entered[q] > 3
      BY <1>1, <2>1, <2>6, WaitingPlace
    <3> QED
      BY <1>1, <3>1 DEF IInv, TypeOK
  <2> QED
    BY <2>2, <2>3, <2>4, <2>5, <2>6
<1>2. IInv => CollectivesMatch
  BY <1>1 DEF CollectivesMatch
<1> QED
  BY <1>2, SpecIInv, PTL

\* While rank 0 validates, the others wait around it with the same weights: the
\* barrier before the validation lets rank 0 pass only after the last update,
\* and the barrier after it holds the others back.
LEMMA WeightsValidated == IInv => ValidatedWeights
<1>1. ASSUME IInv, pc[0] \in {"validate", "save"}, NEW q \in Rank
      PROVE  /\ pc[q] \in {"trained", "validate", "save", "validated"}
             /\ version[q] = (epoch[0] + 1) * Steps
  <2>1. 0 \in Rank
    BY ConstantsAssumption DEF Rank
  <2>2. /\ entered[0] = Base(epoch[0]) + Steps + 1 /\ epoch[0] \in Nat
        /\ Base(epoch[0]) \in Nat /\ Steps \in Nat \ {0}
    BY <1>1, <2>1, RankFacts DEF IInv, PositionOf
  <2>3. /\ PositionOf(q) /\ epoch[q] \in Nat /\ step[q] \in Nat
        /\ Base(epoch[q]) \in Nat /\ entered[q] \in Nat
    BY <1>1, RankFacts DEF IInv
  <2>4. entered[0] <= entered[q]
    BY <1>1, <2>1, LocalIsLast DEF IInv, Waiting, Collectives
  <2>5. entered[q] <= entered[0] + 1 /\ (~Waiting(q) => entered[q] <= entered[0])
    BY <1>1, <2>1, OneApart, LocalIsLast DEF IInv
  <2>6. Base(epoch[0]) >= 3
    <3>1. Base(0) = 3 /\ (0 < epoch[0] => Base(0) + Steps + 2 <= Base(epoch[0]))
      BY <2>2, BaseFacts
    <3> QED
      BY <2>2, <3>1
  <2>7. ~InSetup(q)
    <3>1. InSetup(q) => entered[q] <= 3
      BY <2>3 DEF PositionOf, InSetup
    <3> QED
      BY <2>2, <2>3, <2>4, <2>6, <3>1
  <2>8. pc[q] # "train"
    <3> SUFFICES ASSUME pc[q] = "train" PROVE FALSE
      OBVIOUS
    <3>1. Base(epoch[q]) + step[q] = Base(epoch[0]) + Steps + 1 /\ step[q] < Steps
      BY <2>2, <2>3, <2>4, <2>5 DEF PositionOf, InTraining, Waiting, Collectives
    <3>2. CASE epoch[q] <= epoch[0]
      <4>1. epoch[q] < epoch[0] => Base(epoch[q]) + Steps + 2 <= Base(epoch[0])
        BY <2>2, <2>3, BaseFacts
      <4>2. epoch[q] = epoch[0] \/ epoch[q] < epoch[0]
        BY <2>2, <2>3, <3>2
      <4> QED
        BY <2>2, <2>3, <3>1, <4>1, <4>2
    <3>3. CASE epoch[0] < epoch[q]
      <4>1. Base(epoch[0]) + Steps + 2 <= Base(epoch[q])
        BY <2>2, <2>3, <3>3, BaseFacts
      <4> QED
        BY <2>2, <2>3, <3>1, <4>1
    <3> QED
      BY <2>2, <2>3, <3>2, <3>3
  <2>9. pc[q] # "allreduce"
    <3> SUFFICES ASSUME pc[q] = "allreduce" PROVE FALSE
      OBVIOUS
    <3>1. entered[q] = Base(epoch[q]) + (step[q] + 1) /\ step[q] + 1 \in 1 .. Steps
      BY <2>2, <2>3 DEF PositionOf, InTraining
    <3>2. PICK n \in {Steps + 1, Steps + 2} : entered[q] = Base(epoch[0]) + n
      BY <2>2, <2>3, <2>4, <2>5
    <3>3. step[q] + 1 = n
      BY <2>2, <2>3, <3>1, <3>2, PlaceInEpoch
    <3> QED
      BY <2>2, <3>1, <3>2, <3>3
  <2>10. pc[q] # "done"
    <3> SUFFICES ASSUME pc[q] = "done" PROVE FALSE
      OBVIOUS
    <3>1. Base(epoch[q]) + (Steps + 2) = Base(epoch[0]) + (Steps + 1)
      <4>1. entered[q] = Base(epoch[q]) + Steps + 2
        BY <2>3 DEF PositionOf
      <4>2. entered[q] = entered[0]
        BY <2>2, <2>3, <2>4, <2>5 DEF Waiting, Collectives
      <4> QED
        BY <2>2, <2>3, <4>1, <4>2
    <3>2. Steps + 2 = Steps + 1
      BY <2>2, <2>3, <3>1, PlaceInEpoch
    <3> QED
      BY <2>2, <3>2
  <2>11. pc[q] \in {"trained", "validate", "save", "validated"}
    BY <1>1, <2>7, <2>8, <2>9, <2>10 DEF IInv, TypeOK, Collectives, Locals, InSetup
  <2>12. epoch[q] = epoch[0]
    <3>1. PICK n \in {Steps + 1, Steps + 2} : entered[q] = Base(epoch[0]) + n
      BY <2>2, <2>3, <2>4, <2>5
    <3>2. PICK m \in {Steps + 1, Steps + 2} : entered[q] = Base(epoch[q]) + m
      BY <2>2, <2>3, <2>11 DEF PositionOf
    <3> QED
      BY <2>2, <2>3, <3>1, <3>2, PlaceInEpoch
  <2>13. version[q] = epoch[q] * Steps + Steps
    BY <2>3, <2>11 DEF PositionOf, InSetup, InTraining
  <2> QED
    BY <2>2, <2>11, <2>12, <2>13, UpdateFacts
<1> QED
  BY <1>1 DEF ValidatedWeights

\* Rank 0 validates, alone, the weights that all ranks have.
THEOREM ValidationSeesFinalWeights == Spec => []ValidatedWeights
<1> QED
  BY WeightsValidated, SpecIInv, PTL

\* When one rank has returned from train(), all have entered its last barrier.
THEOREM RanksFinishTogether == Spec => []FinishTogether
<1>1. ASSUME IInv, NEW r \in Rank, pc[r] = "done", NEW q \in Rank
      PROVE  pc[q] \in {"validated", "done"} /\ epoch[q] = Epochs - 1
  <2> DEFINE last == Epochs - 1
  <2>1. /\ last \in Nat /\ epoch[q] \in 0 .. last /\ epoch[q] \in Nat /\ step[q] \in Nat
        /\ Base(last) \in Nat /\ Base(epoch[q]) \in Nat /\ entered[q] \in Nat
        /\ Steps \in Nat \ {0} /\ PositionOf(q)
    BY <1>1, RankFacts, BaseFacts, ConstantsAssumption DEF IInv
  <2>2. Base(last) + Steps + 2 <= entered[q]
    <3>1. entered[r] = Base(last) + Steps + 2
      BY <1>1, RankFacts DEF IInv, PositionOf
    <3>2. entered[r] <= entered[q]
      BY <1>1, LocalIsLast DEF IInv, Waiting, Collectives
    <3> QED
      BY <3>1, <3>2
  <2>3. Base(epoch[q]) <= Base(last) /\ (epoch[q] # last => Base(epoch[q]) + Steps + 2 <= Base(last))
    <3>1. epoch[q] = last \/ epoch[q] < last
      BY <2>1
    <3>2. epoch[q] < last => Base(epoch[q]) + Steps + 2 <= Base(last)
      BY <2>1, BaseFacts
    <3> QED
      BY <2>1, <3>1, <3>2
  <2>4. 3 <= Base(last)
    <3>1. Base(0) = 3 /\ (0 < last => Base(0) + Steps + 2 <= Base(last))
      BY <2>1, BaseFacts
    <3> QED
      BY <2>1, <3>1
  <2>5. pc[q] \in {"validated", "done"}
    <3>1. pc[q] \in Collectives \cup Locals
      BY <1>1 DEF IInv, TypeOK
    <3>2. ~InSetup(q)
      BY <2>1, <2>2, <2>4 DEF PositionOf, InSetup
    <3>3. pc[q] # "train"
      BY <2>1, <2>2, <2>3 DEF PositionOf, InTraining
    <3>4. pc[q] # "allreduce"
      BY <2>1, <2>2, <2>3 DEF PositionOf, InTraining
    <3>5. pc[q] \notin {"trained", "validate", "save"}
      <4>1. pc[q] \in {"trained", "validate", "save"} =>
                entered[q] = Base(epoch[q]) + Steps + 1
        BY <2>1 DEF PositionOf
      <4>2. entered[q] # Base(epoch[q]) + Steps + 1
        BY <2>1, <2>2, <2>3
      <4> QED
        BY <4>1, <4>2
    <3> QED
      BY <3>1, <3>2, <3>3, <3>4, <3>5 DEF Collectives, Locals, InSetup
  <2>6. entered[q] = Base(epoch[q]) + Steps + 2
    BY <2>1, <2>5 DEF PositionOf
  <2>7. epoch[q] = last
    BY <2>1, <2>2, <2>3, <2>6
  <2> QED
    BY <2>5, <2>7
<1>2. IInv => FinishTogether
  BY <1>1 DEF FinishTogether
<1> QED
  BY <1>2, SpecIInv, PTL

\* Both together: barriers and all-reduces bind the ranks, at the end and when
\* one of them dies.
THEOREM RanksAreBound == Spec => []RanksStayTogether
<1> QED
  BY DeadRankStopsAll, RanksFinishTogether, PTL DEF RanksStayTogether

\* The collectives a rank has returned from, and those it has issued, bracket
\* the training steps it has made.
LEMMA Bracket ==
    ASSUME IInv, NEW r \in Rank
    PROVE  /\ step[r] \in 0 .. Steps
           /\ ~InSetup(r) => Base(epoch[r]) + step[r] + (IF Waiting(r) THEN 1 ELSE 0) <= entered[r]
           /\ step[r] < Steps => entered[r] <= Base(epoch[r]) + step[r] + 1
           /\ entered[r] <= Base(epoch[r]) + Steps + 2
<1>1. /\ PositionOf(r) /\ epoch[r] \in Nat /\ step[r] \in Nat /\ Steps \in Nat \ {0}
      /\ Base(epoch[r]) \in Nat /\ entered[r] \in Nat
  BY RankFacts DEF IInv
<1>2. pc[r] \in Collectives \cup Locals /\ step[r] \in 0 .. Steps
  BY DEF IInv, TypeOK
<1>3. CASE InSetup(r)
  <2>1. epoch[r] = 0 /\ step[r] = 0 /\ entered[r] <= 3
    BY <1>1, <1>3 DEF PositionOf, InSetup
  <2>2. entered[r] <= Base(epoch[r])
    BY <2>1, BaseFacts
  <2> QED
    BY <1>1, <1>2, <1>3, <2>1, <2>2
<1>4. CASE InTraining(r)
  <2>1. \/ pc[r] = "train" /\ entered[r] = Base(epoch[r]) + step[r]
        \/ pc[r] = "allreduce" /\ entered[r] = Base(epoch[r]) + step[r] + 1
    BY <1>1, <1>4 DEF PositionOf, InTraining
  <2>2. step[r] < Steps
    BY <1>1, <1>4 DEF PositionOf
  <2>3. Waiting(r) <=> pc[r] = "allreduce"
    BY <1>4 DEF InTraining, Waiting, Collectives
  <2> QED
    BY <1>1, <1>2, <2>1, <2>2, <2>3
<1>5. CASE ~InSetup(r) /\ ~InTraining(r)
  <2>1. step[r] = Steps
    BY <1>1, <1>5 DEF PositionOf
  <2>2. pc[r] \in {"trained", "validate", "save", "validated", "done"}
    BY <1>2, <1>5 DEF InSetup, InTraining, Collectives, Locals
  <2>3. \/ entered[r] = Base(epoch[r]) + Steps + 1
        \/ entered[r] = Base(epoch[r]) + Steps + 2
    BY <1>1, <2>2 DEF PositionOf
  <2> QED
    BY <1>1, <1>2, <2>1, <2>3
<1> QED
  BY <1>3, <1>4, <1>5

\* Replicas drift apart by at most one optimizer step: a rank applies update
\* v + 1 only when all have contributed to it, and have then made update v.
LEMMA VersionsClose == IInv => ReplicasWithinOneStep
<1>1. ASSUME IInv, NEW q \in Rank, NEW r \in Rank
      PROVE  version[q] <= version[r] + 1
  <2> DEFINE uq == epoch[q] * Steps
             ur == epoch[r] * Steps
  <2>1. /\ version[q] = uq + step[q] /\ version[r] = ur + step[r]
        /\ uq \in Nat /\ ur \in Nat
    BY <1>1, RankFacts, UpdateFacts DEF IInv, PositionOf
  <2>2. /\ step[q] \in 0 .. Steps /\ step[r] \in 0 .. Steps /\ Steps \in Nat \ {0}
        /\ epoch[q] \in Nat /\ epoch[r] \in Nat
        /\ entered[q] \in Nat /\ entered[r] \in Nat
        /\ Base(epoch[q]) \in Nat /\ Base(epoch[r]) \in Nat
    BY <1>1, Bracket, RankFacts DEF IInv
  <2>3. /\ step[r] < Steps => entered[r] <= Base(epoch[r]) + step[r] + 1
        /\ entered[r] <= Base(epoch[r]) + Steps + 2
    BY <1>1, Bracket
  <2>4. CASE InSetup(q)
    <3>1. uq = 0 /\ step[q] = 0
      BY <1>1, <2>4, RankFacts, UpdateFacts DEF IInv, PositionOf
    <3>2. version[q] = 0
      BY <2>1, <3>1
    <3>3. version[r] \in Nat
      BY <1>1, RankFacts DEF IInv
    <3> QED
      BY <3>2, <3>3
  <2>5. CASE ~InSetup(q)
    <3>1. Base(epoch[q]) + step[q] <= entered[r]
      <4>1. entered[q] <= entered[r] + (IF Waiting(q) THEN 1 ELSE 0)
        BY <1>1 DEF IInv, LockStep
      <4>2. Base(epoch[q]) + step[q] + (IF Waiting(q) THEN 1 ELSE 0) <= entered[q]
        BY <1>1, <2>5, Bracket
      <4> QED
        BY <2>2, <4>1, <4>2
    <3>2. CASE epoch[q] = epoch[r]
      BY <2>1, <2>2, <2>3, <3>1, <3>2
    <3>3. CASE epoch[q] < epoch[r]
      <4>1. PICK k \in Nat : epoch[r] = (epoch[q] + 1) + k
        <5>1. epoch[r] - (epoch[q] + 1) \in Nat
          BY <2>2, <3>3
        <5>2. epoch[r] = (epoch[q] + 1) + (epoch[r] - (epoch[q] + 1))
          BY <2>2
        <5> QED
          BY <5>1, <5>2
      <4>2. ur = uq + Steps + k * Steps /\ k * Steps \in Nat
        BY <2>2, <4>1, UpdateFacts
      <4> QED
        BY <2>1, <2>2, <4>2
    <3>4. CASE epoch[r] < epoch[q]
      <4>1. Base(epoch[r]) + Steps + 2 <= Base(epoch[q])
        BY <2>2, <3>4, BaseFacts
      <4>2. step[r] = Steps /\ step[q] = 0
        BY <2>2, <2>3, <3>1, <4>1
      <4>3. epoch[q] = epoch[r] + 1
        <5> SUFFICES ASSUME epoch[r] + 1 < epoch[q] PROVE FALSE
          BY <2>2, <3>4
        <5>1. Base(epoch[r] + 1) = Base(epoch[r]) + Steps + 2
          BY <2>2, BaseFacts
        <5>2. epoch[r] + 1 \in Nat
          BY <2>2
        <5>3. Base(epoch[r] + 1) + Steps + 2 <= Base(epoch[q])
          BY <2>2, <5>2, BaseFacts
        <5> QED
          BY <2>2, <2>3, <3>1, <4>2, <5>1, <5>3
      <4>4. uq = ur + Steps
        BY <2>2, <4>3, UpdateFacts
      <4> QED
        BY <2>1, <2>2, <4>2, <4>4
    <3> QED
      BY <2>2, <3>2, <3>3, <3>4
  <2> QED
    BY <2>4, <2>5
<1> QED
  BY <1>1 DEF ReplicasWithinOneStep

\* No replica runs ahead of another, whoever is late or dead.
THEOREM ReplicasStayClose == Spec => []ReplicasWithinOneStep
<1> QED
  BY VersionsClose, SpecIInv, PTL

-----------------------------------------------------------------------------
(* What the checkpoint file holds, and that the ranks together behave as    *)
(* the sequential training loop SeqTraining.  Only rank 0 validates and     *)
(* saves, so the file is a matter of its own place in the program (CInv).   *)
(* That its updates are everybody's, which SeqTraining takes for granted,   *)
(* is what the barriers provide: it comes from IInv and its consequences.   *)

\* Epochs that rank 0 has validated: this one too, once it is past validate.
Validated == IF pc[0] \in {"save", "validated", "done"} THEN epoch[0] + 1 ELSE epoch[0]

\* Every accuracy so far is at most best, and i is the first that reaches it.
FirstBest(i) ==
    /\ i \in 1 .. Len(validations)
    /\ validations[i] = best
    /\ \A j \in 1 .. i - 1 : validations[j] < best

\* The file against the history of validations.
CInv ==
    /\ Len(validations) = Validated
    /\ \A i \in 1 .. Len(validations) : validations[i] <= best
    /\ file.kind = "partial" <=> pc[0] = "save"
    /\ file.kind = "absent" <=> best = 0
    /\ file.kind = "partial" => FirstBest(Len(validations))
    /\ file.kind = "saved" => /\ FirstBest(file.epoch + 1)
                              /\ file.version = (file.epoch + 1) * Steps

-----------------------------------------------------------------------------
(* The checkpoint.                                                         *)

LEMMA ZeroIsRank == 0 \in Rank
BY ConstantsAssumption DEF Rank

\* The history is one of natural numbers.
LEMMA HistoryType ==
    ASSUME TypeOK
    PROVE  /\ validations \in Seq(Nat) /\ Len(validations) \in Nat /\ best \in Nat
           /\ \A i \in 1 .. Len(validations) : validations[i] \in Nat
<1>1. validations \in Seq(Accuracies) /\ Accuracies \subseteq Nat
  BY ConstantsAssumption DEF TypeOK
<1>2. validations \in Seq(Nat)
  BY <1>1, SeqMonotonic
<1>3. Len(validations) \in Nat /\ \A i \in 1 .. Len(validations) : validations[i] \in Nat
  BY <1>2, ElementOfSeq, LenProperties
<1> QED
  BY <1>2, <1>3 DEF TypeOK

LEMMA InitCInv == Init => CInv
<1> SUFFICES ASSUME Init PROVE CInv
  OBVIOUS
<1>1. Len(validations) = 0 /\ pc[0] = "unborn" /\ epoch[0] = 0
  BY ZeroIsRank DEF Init
<1> QED
  BY <1>1 DEF Init, CInv, Validated, Unusable

\* Steps that leave the file, its history and rank 0's share in them alone.
LEMMA KeepsCInv ==
    ASSUME CInv, UNCHANGED <<best, file, validations>>,
           Validated' = Validated, pc'[0] = "save" <=> pc[0] = "save"
    PROVE  CInv'
BY DEF CInv, FirstBest

\* All the steps between two validations.
LEMMA OtherStepsKeepCInv ==
    ASSUME IInv, CInv, NEW r \in Rank,
           \/ LeaveRendezvous(r) \/ LeaveInitModel(r) \/ LeaveReady(r)
           \/ ComputeGradients(r) \/ LeaveAllreduce(r) \/ LeaveTrained(r) \/ LeaveValidated(r)
    PROVE  CInv'
<1>1. UNCHANGED <<best, file, validations>>
  BY DEF LeaveRendezvous, LeaveInitModel, LeaveReady, ComputeGradients, LeaveAllreduce,
         ApplyGradients, LeaveTrained, PassTrained, LeaveValidated, NextEpoch
<1>2. Validated' = Validated /\ (pc'[0] = "save" <=> pc[0] = "save")
  <2>1. pc \in [Rank -> Collectives \cup Locals] /\ epoch \in [Rank -> 0 .. Epochs - 1] /\ 0 \in Rank
    BY ZeroIsRank DEF IInv, TypeOK
  <2>2. CASE r # 0
    <3>1. pc'[0] = pc[0] /\ epoch'[0] = epoch[0]
      BY <2>1, <2>2 DEF LeaveRendezvous, LeaveInitModel, LeaveReady, ComputeGradients,
           LeaveAllreduce, ApplyGradients, LeaveTrained, PassTrained, LeaveValidated,
           NextEpoch, Issue, Goto
    <3> QED
      BY <3>1 DEF Validated
  <2>3. CASE r = 0 /\ ~LeaveValidated(r)
    <3>1. /\ pc[0] \in {"rendezvous", "init_model", "ready", "train", "allreduce", "trained"}
          /\ pc'[0] \in {"init_model", "ready", "train", "allreduce", "trained", "validate"}
          /\ epoch'[0] = epoch[0]
      BY <2>1, <2>3 DEF LeaveRendezvous, LeaveInitModel, LeaveReady, ComputeGradients,
           LeaveAllreduce, ApplyGradients, LeaveTrained, PassTrained, Alive, Issue, Goto
    <3> QED
      BY <3>1 DEF Validated
  <2>4. CASE r = 0 /\ LeaveValidated(r)
    <3>1. /\ pc[0] = "validated"
          /\ \/ pc'[0] = "train" /\ epoch'[0] = epoch[0] + 1
             \/ pc'[0] = "done" /\ epoch'[0] = epoch[0]
      BY <2>1, <2>4 DEF LeaveValidated, NextEpoch, Alive, Goto
    <3> QED
      BY <3>1 DEF Validated
  <2> QED
    BY <2>2, <2>3, <2>4
<1> QED
  BY <1>1, <1>2, KeepsCInv

\* An accuracy is appended; if it is better, it is the first of its kind, and
\* the file is torn.
LEMMA ValidateKeepsCInv ==
    ASSUME IInv, CInv, NEW a \in Accuracies, Validate(a)
    PROVE  CInv'
<1> DEFINE n == Len(validations)
<1>1. /\ validations \in Seq(Nat) /\ n \in Nat /\ best \in Nat /\ a \in Nat
      /\ \A i \in 1 .. n : validations[i] \in Nat
      /\ pc \in [Rank -> Collectives \cup Locals] /\ epoch[0] \in Nat /\ 0 \in Rank
  <2>1. pc \in [Rank -> Collectives \cup Locals] /\ epoch[0] \in Nat /\ 0 \in Rank
    BY ZeroIsRank, ConstantsAssumption DEF IInv, TypeOK
  <2> QED
    BY <2>1, HistoryType, ConstantsAssumption DEF IInv
<1>2. /\ validations' = Append(validations, a)
      /\ Len(validations') = n + 1 /\ validations'[n + 1] = a
      /\ \A i \in 1 .. n : validations'[i] = validations[i]
  BY <1>1 DEF Validate
<1>3. pc[0] = "validate" /\ epoch' = epoch /\ n = epoch[0]
  BY DEF Validate, Alive, CInv, Validated
<1>4. CASE best < a
  <2>1. best' = a /\ file' = Unusable("partial") /\ pc'[0] = "save"
    BY <1>1, <1>4 DEF Validate, Goto
  <2>2. Len(validations') = Validated'
    BY <1>2, <1>3, <2>1 DEF Validated
  <2>3. \A i \in 1 .. n : validations'[i] < best'
    BY <1>1, <1>2, <1>4, <2>1 DEF CInv
  <2>4. FirstBest(Len(validations))'
    BY <1>1, <1>2, <2>1, <2>3 DEF FirstBest
  <2>5. \A i \in 1 .. n + 1 : validations'[i] <= best'
    BY <1>1, <1>2, <2>1, <2>3
  <2> QED
    BY <1>1, <1>2, <1>4, <2>1, <2>2, <2>4, <2>5 DEF CInv, Unusable
<1>5. CASE ~(best < a)
  <2>1. best' = best /\ file' = file /\ pc'[0] = "validated"
    BY <1>1, <1>5 DEF Validate, Issue, Goto
  <2>2. Len(validations') = Validated'
    BY <1>2, <1>3, <2>1 DEF Validated
  <2>3. \A i \in 1 .. n + 1 : validations'[i] <= best'
    BY <1>1, <1>2, <1>5, <2>1 DEF CInv
  <2>4. \A i : FirstBest(i) => FirstBest(i)'
    BY <1>1, <1>2, <2>1 DEF FirstBest
  <2>5. file.kind # "partial"
    BY <1>3 DEF CInv
  <2> QED
    BY <1>2, <2>1, <2>2, <2>3, <2>4, <2>5 DEF CInv
<1> QED
  BY <1>4, <1>5

\* torch.save ends: rank 0 has the weights of whole epochs.
LEMMA SaveKeepsCInv ==
    ASSUME IInv, CInv, Save
    PROVE  CInv'
<1>1. /\ pc \in [Rank -> Collectives \cup Locals] /\ 0 \in Rank
      /\ pc[0] = "save" /\ pc'[0] = "validated"
      /\ epoch' = epoch /\ best' = best /\ validations' = validations
      /\ file' = [kind |-> "saved", epoch |-> epoch[0], accuracy |-> best, version |-> version[0]]
  BY ZeroIsRank DEF Save, Alive, Issue, Goto, IInv, TypeOK
<1>2. version[0] = (epoch[0] + 1) * Steps
  <2>1. PositionOf(0) /\ epoch[0] \in Nat
    BY <1>1, RankFacts DEF IInv
  <2>2. version[0] = epoch[0] * Steps + Steps
    BY <1>1, <2>1 DEF PositionOf, InSetup, InTraining
  <2> QED
    BY <2>1, <2>2, UpdateFacts
<1>3. Validated' = Validated /\ Validated = epoch[0] + 1
  BY <1>1 DEF Validated
<1>4. FirstBest(epoch[0] + 1) /\ best # 0
  BY <1>1, <1>3 DEF CInv
<1> QED
  BY <1>1, <1>2, <1>3, <1>4 DEF CInv, FirstBest

\* CInv is inductive, given IInv.
LEMMA NextCInv == IInv /\ CInv /\ [Next]_vars => CInv'
<1> SUFFICES ASSUME IInv, CInv, [Next]_vars PROVE CInv'
  OBVIOUS
<1>1. CASE Start
  <2>1. spawned \in Rank /\ pc[spawned] = "unborn" /\ pc \in [Rank -> Collectives \cup Locals]
    BY <1>1, ConstantsAssumption DEF Start, Rank, IInv, TypeOK, Born
  <2>2. epoch' = epoch /\ (pc'[0] = pc[0] \/ (pc[0] = "unborn" /\ pc'[0] = "rendezvous"))
    BY <1>1, <2>1, ZeroIsRank DEF Start, Issue, Goto
  <2> QED
    BY <1>1, <2>2, KeepsCInv DEF Start, Validated
<1>2. ASSUME NEW r \in Rank, RankStep(r) PROVE CInv'
  BY <1>2, OtherStepsKeepCInv, ValidateKeepsCInv, SaveKeepsCInv DEF RankStep
<1>3. CASE Join \/ (\E r \in Rank : Crash(r)) \/ UNCHANGED vars
  BY <1>3, KeepsCInv DEF Join, Crash, vars, Validated
<1> QED
  BY <1>1, <1>2, <1>3 DEF Next, Ended

LEMMA SpecCInv == Spec => [](IInv /\ CInv)
<1> QED
  BY InitIInv, InitCInv, NextIInv, NextCInv, PTL DEF Spec

\* model.pt is the earliest best epoch with the weights that were validated,
\* and torn only inside torch.save (validation and save in gnn/test.py).
THEOREM CheckpointHoldsBest == Spec => []CheckpointIsBest
<1>1. ASSUME IInv, CInv PROVE CheckpointIsBest
  <2> DEFINE n == Len(validations)
  <2>1. n \in Nat /\ best \in Nat /\ \A i \in 1 .. n : validations[i] \in Nat
    BY <1>1, HistoryType DEF IInv
  <2>2. file.kind = "absent" <=> \A i \in 1 .. n : validations[i] = 0
    <3>1. CASE best = 0
      BY <1>1, <2>1, <3>1 DEF CInv
    <3>2. CASE best # 0
      <4>1. file.kind \in {"partial", "saved"}
        BY <1>1, <3>2 DEF CInv, IInv, TypeOK, ModelFile
      <4>2. \E i \in 1 .. n : validations[i] = best
        BY <1>1, <4>1 DEF CInv, FirstBest
      <4> QED
        BY <1>1, <3>2, <4>2 DEF CInv
    <3> QED
      BY <3>1, <3>2
  <2>3. ASSUME file.kind = "saved"
        PROVE  /\ file.version = (file.epoch + 1) * Steps
               /\ file.epoch + 1 \in 1 .. n
               /\ \A i \in 1 .. n :
                    /\ validations[i] <= validations[file.epoch + 1]
                    /\ i <= file.epoch => validations[i] < validations[file.epoch + 1]
    <3>1. file.epoch \in Nat
      BY <1>1, ConstantsAssumption DEF IInv, TypeOK, ModelFile
    <3> QED
      BY <1>1, <2>1, <2>3, <3>1 DEF CInv, FirstBest
  <2> QED
    BY <1>1, <2>2, <2>3 DEF CheckpointIsBest, CInv
<1> QED
  BY <1>1, SpecCInv, PTL

-----------------------------------------------------------------------------
(* The refinement of SeqTraining.                                          *)

\* Replicas are one update apart at most, so there is a smallest version, and
\* it is the number of updates that all of them have.
UpdatesOfAll ==
    /\ CommonUpdates \in Nat
    /\ \E r \in Rank : CommonUpdates = version[r]
    /\ \A r \in Rank : CommonUpdates <= version[r]

LEMMA LeastVersion == IInv => UpdatesOfAll
<1> SUFFICES ASSUME IInv PROVE UpdatesOfAll
  OBVIOUS
<1> DEFINE versions == {version[r] : r \in Rank}
<1>1. 0 \in Rank /\ \A r \in Rank : version[r] \in Nat
  BY ZeroIsRank DEF IInv, TypeOK
<1>2. \A q, r \in Rank : version[q] <= version[r] + 1
  BY VersionsClose DEF ReplicasWithinOneStep
<1>3. \E v \in versions : \A r \in Rank : v <= version[r]
  <2>1. CASE \E q \in Rank : version[q] < version[0]
    <3>1. PICK q \in Rank : version[q] < version[0]
      BY <2>1
    <3>2. \A r \in Rank : version[q] <= version[r]
      <4> SUFFICES ASSUME NEW r \in Rank PROVE version[q] <= version[r]
        OBVIOUS
      <4>1. version[0] <= version[r] + 1
        BY <1>1, <1>2
      <4> QED
        BY <1>1, <3>1, <4>1
    <3> QED
      BY <3>2
  <2>2. CASE ~ \E q \in Rank : version[q] < version[0]
    <3>1. \A r \in Rank : version[0] <= version[r]
      BY <1>1, <2>2
    <3> QED
      BY <1>1, <3>1
  <2> QED
    BY <2>1, <2>2
<1>4. CommonUpdates \in versions /\ \A r \in Rank : CommonUpdates <= version[r]
  BY <1>3 DEF CommonUpdates
<1> QED
  BY <1>1, <1>4 DEF UpdatesOfAll

\* A rank that trains in an epoch finds all earlier epochs validated: rank 0
\* has issued the barrier after each of them.
LEMMA TrainingIsAfterValidation ==
    ASSUME IInv, CInv, NEW r \in Rank, pc[r] = "allreduce", AllArrived(r)
    PROVE  epoch[r] <= Len(validations)
<1>1. /\ PositionOf(0) /\ epoch[0] \in Nat /\ Base(epoch[0]) \in Nat
      /\ entered[0] \in Nat /\ Steps \in Nat \ {0} /\ step[0] \in Nat
  BY ZeroIsRank, RankFacts DEF IInv
<1>2. /\ epoch[r] \in Nat /\ Base(epoch[r]) \in Nat /\ step[r] \in Nat
      /\ entered[r] = Base(epoch[r]) + step[r] + 1
  BY RankFacts DEF IInv, PositionOf
<1>3. entered[r] <= entered[0]
  BY <1>1, <1>2, ZeroIsRank DEF AllArrived
<1>4. entered[0] <= Base(epoch[0]) + Steps + 2
  BY ZeroIsRank, Bracket
<1>5. ~(epoch[0] < epoch[r])
  <2>1. epoch[0] < epoch[r] => Base(epoch[0]) + Steps + 2 <= Base(epoch[r])
    BY <1>1, <1>2, BaseFacts
  <2> QED
    BY <1>1, <1>2, <1>3, <1>4, <2>1
<1> QED
  BY <1>1, <1>2, <1>5 DEF CInv, Validated

\* An update of one rank is an update of the loop if it was the last one missing.
LEMMA UpdateRefines ==
    ASSUME IInv, IInv', CInv, NEW r \in Rank, LeaveAllreduce(r)
    PROVE  Sequential!Update \/ UNCHANGED <<CommonUpdates, validations, best, file>>
<1> DEFINE v == CommonUpdates
<1>1. pc[r] = "allreduce" /\ AllArrived(r) /\ UNCHANGED <<validations, best, file>>
  BY DEF LeaveAllreduce, ApplyGradients, Alive
<1>2. /\ version \in [Rank -> Nat]
      /\ version' = [version EXCEPT ![r] = @ + 1]
  BY DEF LeaveAllreduce, ApplyGradients, IInv, TypeOK
<1>3. /\ v \in Nat /\ \A q \in Rank : v <= version[q]
      /\ \E q \in Rank : v = version[q]
  BY LeastVersion DEF UpdatesOfAll
<1>4. /\ v' \in Nat /\ \A q \in Rank : v' <= version'[q]
      /\ \E q \in Rank : v' = version'[q]
  <2>1. UpdatesOfAll'
    BY LeastVersion, PTL
  <2> QED
    BY <2>1 DEF UpdatesOfAll
<1>5. v' = v \/ (v' = v + 1 /\ v = version[r])
  <2>1. \A q \in Rank : version[q] <= version'[q] /\ version'[q] <= version[q] + 1
    BY <1>2
  <2>2. v <= v' /\ v' <= v + 1
    BY <1>2, <1>3, <1>4, <2>1
  <2>3. v # version[r] => v' <= v
    BY <1>2, <1>3, <1>4
  <2> QED
    BY <1>3, <1>4, <2>2, <2>3
<1>6. ASSUME v' = v + 1, v = version[r] PROVE Sequential!Update
  <2>1. /\ epoch[r] \in 0 .. Epochs - 1 /\ step[r] \in Nat /\ step[r] < Steps
        /\ v = epoch[r] * Steps + step[r] /\ Steps \in Nat \ {0}
    BY <1>1, <1>6, RankFacts DEF IInv, PositionOf, InTraining
  <2>2. epoch[r] <= Len(validations) /\ Len(validations) \in Nat
    BY <1>1, TrainingIsAfterValidation, HistoryType DEF IInv
  <2>3. v < Epochs * Steps /\ v < (Len(validations) + 1) * Steps
    <3>1. v < (epoch[r] + 1) * Steps /\ epoch[r] \in Nat
      BY <2>1, UpdateFacts
    <3>2. \A n \in Nat : epoch[r] + 1 <= n => (epoch[r] + 1) * Steps <= n * Steps
      BY <2>1, <3>1
    <3>3. epoch[r] + 1 <= Epochs /\ epoch[r] + 1 <= Len(validations) + 1
      BY <2>1, <2>2, ConstantsAssumption
    <3>4. \A n \in Nat : n * Steps \in Nat
      BY <2>1
    <3>5. \A n \in Nat : epoch[r] + 1 <= n => v < n * Steps
      <4> SUFFICES ASSUME NEW n \in Nat, epoch[r] + 1 <= n PROVE v < n * Steps
        OBVIOUS
      <4>1. (epoch[r] + 1) * Steps <= n * Steps /\ n * Steps \in Nat
        BY <3>2, <3>4
      <4>2. (epoch[r] + 1) * Steps \in Nat
        BY <3>1, <3>4
      <4> QED
        BY <1>3, <3>1, <4>1, <4>2
    <3> QED
      BY <2>2, <3>3, <3>5, ConstantsAssumption
  <2>4. file.kind # "partial"
    BY <1>1, WeightsValidated DEF CInv, ValidatedWeights
  <2> QED
    BY <1>1, <1>6, <2>3, <2>4 DEF Sequential!Update
<1> QED
  BY <1>1, <1>5, <1>6

\* During the validation all replicas have the updates of the epochs so far.
LEMMA ValidatedUpdates ==
    ASSUME IInv, CInv, pc[0] \in {"validate", "save"}
    PROVE  /\ CommonUpdates = (epoch[0] + 1) * Steps /\ CommonUpdates = version[0]
           /\ Len(validations) = IF pc[0] = "save" THEN epoch[0] + 1 ELSE epoch[0]
           /\ epoch[0] \in Nat
<1>1. \A q \in Rank : version[q] = (epoch[0] + 1) * Steps
  BY WeightsValidated DEF ValidatedWeights
<1>2. \E q \in Rank : CommonUpdates = version[q]
  BY LeastVersion DEF UpdatesOfAll
<1> QED
  BY <1>1, <1>2, ZeroIsRank, RankFacts DEF CInv, Validated, IInv

\* Only training changes versions.
LEMMA SameVersions == ASSUME version' = version PROVE CommonUpdates' = CommonUpdates
BY DEF CommonUpdates

\* The distributed program implements one sequential loop that trains,
\* validates and keeps the best model, epoch by epoch.
THEOREM RanksImplementOneLoop == Spec => ImplementsSequential
<1>1. Init => Sequential!Init
  <2> SUFFICES ASSUME Init PROVE Sequential!Init
    OBVIOUS
  <2>1. CommonUpdates = 0
    <3>1. {version[r] : r \in Rank} = {0}
      BY ZeroIsRank DEF Init
    <3>2. \E v \in {version[r] : r \in Rank} : \A r \in Rank : v <= version[r]
      <4>1. \A r \in Rank : 0 <= version[r]
        BY DEF Init
      <4> QED
        BY <3>1, <4>1
    <3>3. CommonUpdates \in {version[r] : r \in Rank}
      BY <3>2 DEF CommonUpdates
    <3> QED
      BY <3>1, <3>3
  <2> QED
    BY <2>1 DEF Init, Sequential!Init, Unusable, Sequential!Unsaved
<1>2. (IInv /\ CInv) /\ IInv' /\ [Next]_vars
        => [Sequential!Next]_<<CommonUpdates, validations, best, file>>
  <2> SUFFICES ASSUME IInv, CInv, IInv', [Next]_vars
               PROVE  Sequential!Next \/ UNCHANGED <<CommonUpdates, validations, best, file>>
    OBVIOUS
  <2>1. ASSUME NEW r \in Rank, LeaveAllreduce(r)
        PROVE  Sequential!Next \/ UNCHANGED <<CommonUpdates, validations, best, file>>
    BY <2>1, UpdateRefines DEF Sequential!Next
  <2>2. ASSUME NEW a \in Accuracies, Validate(a)
        PROVE  Sequential!Score(a)
    <3>1. pc[0] = "validate" /\ version' = version /\ pc[0] # "save"
      BY <2>2 DEF Validate, Alive
    <3>2. CommonUpdates = (Len(validations) + 1) * Steps /\ file.kind # "partial"
      BY <3>1, ValidatedUpdates DEF CInv
    <3>3. UNCHANGED CommonUpdates
      BY <3>1, SameVersions
    <3> QED
      BY <2>2, <3>2, <3>3 DEF Validate, Sequential!Score, Unusable, Sequential!Unsaved
  <2>3. ASSUME Save PROVE Sequential!Keep
    <3>1. pc[0] = "save" /\ version' = version
      BY <2>3 DEF Save, Alive
    <3>2. /\ CommonUpdates = version[0] /\ file.kind = "partial"
          /\ Len(validations) - 1 = epoch[0]
      BY <3>1, ValidatedUpdates DEF CInv
    <3>3. UNCHANGED CommonUpdates
      BY <3>1, SameVersions
    <3> QED
      BY <2>3, <3>2, <3>3 DEF Save, Sequential!Keep
  <2>4. ASSUME NEW r \in Rank,
               \/ LeaveRendezvous(r) \/ LeaveInitModel(r) \/ LeaveReady(r)
               \/ ComputeGradients(r) \/ LeaveTrained(r) \/ LeaveValidated(r) \/ Crash(r)
        PROVE  UNCHANGED <<CommonUpdates, validations, best, file>>
    <3>1. UNCHANGED <<version, validations, best, file>>
      BY <2>4 DEF LeaveRendezvous, LeaveInitModel, LeaveReady, ComputeGradients,
           LeaveTrained, PassTrained, LeaveValidated, NextEpoch, Crash
    <3> QED
      BY <3>1, SameVersions
  <2>5. CASE Start \/ Join \/ UNCHANGED vars
    <3>1. UNCHANGED <<version, validations, best, file>>
      BY <2>5 DEF Start, Join, vars
    <3> QED
      BY <3>1, SameVersions
  <2> QED
    BY <2>1, <2>2, <2>3, <2>4, <2>5 DEF Next, RankStep, Ended, Sequential!Next
<1>3. Spec => []IInv
  BY SpecIInv
<1> QED
  BY <1>1, <1>2, <1>3, SpecCInv, PTL DEF Spec, ImplementsSequential, Sequential!Spec, Sequential!vars
============================================================================
