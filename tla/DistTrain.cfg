\* A rank may die: the others then wait for ever, so the program may stop.
CONSTANTS
    WorldSize = 3
    NumTrain = 11
    BatchSize = 2
    Epochs = 2
    Accuracies = {0, 1, 2}
    MaxCrashes = 1
SPECIFICATION FairSpec
CHECK_DEADLOCK FALSE
INVARIANTS
    TypeOK
    CollectivesMatch
    ValidatedWeights
    ReplicasWithinOneStep
    CheckpointIsBest
    RanksStayTogether
PROPERTY
    Termination
    ImplementsSequential
