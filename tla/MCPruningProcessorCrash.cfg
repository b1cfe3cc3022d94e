SPECIFICATION FairSpec
CONSTANTS
    MainLength = 6
    ForkLength = 1
    ForkPoints = {1, 3}
    Jumps = {{1, 2, 5}}
    Block <- Numbers
    Genesis = 0
    Shapes <- Trees
    FinalityDepth = 2
    PruningDepth = 5
    Window = 1
    Archival = {FALSE}
    NoBlock = NoBlock
    MaxInPipeline = 1
    MaxRestarts = 2
INVARIANTS
    TypeOK
    UtxoSetAtPosition
    RecoveryPossible
    FutureIsHeld
    PointHeadersKept
PROPERTY PruningCompletes
