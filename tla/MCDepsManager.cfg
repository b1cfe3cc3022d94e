SPECIFICATION FairSpec
CONSTANTS
    a = a
    b = b
    c = c
    a1 = a1
    a2 = a2
    b1 = b1
    c1 = c1
    c2 = c2
    Exit = Exit
    Block <- MCBlock
    Parents <- MCParents
    Task <- MCTask
    HashOf <- MCHashOf
INVARIANTS
    TypeOK
    HandoverOrder
    NoTaskLost
    ExpectationsHold
PROPERTIES
    ImplementsStage
    EveryTaskEnds
    ExitIsPassedOn
