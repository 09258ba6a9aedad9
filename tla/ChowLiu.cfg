CONSTANTS
    N = 5
    Root = 2
SPECIFICATION FairSpec
INVARIANTS
    TypeOK
    ForestSound
    SetsAreComponents
    TreeBelowRoot
PROPERTY
    Termination
    ImplementsGreedy
