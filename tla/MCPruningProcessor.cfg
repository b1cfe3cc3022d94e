SPECIFICATION Spec
CONSTANTS
    MainLength = 10
    ForkLength = 4
    ForkPoints = {2, 4, 6}
    Jumps = {{}, {2}, {2, 6}, {12}}
    Block <- Numbers
    Genesis = 0
    Shapes <- Trees
    FinalityDepth = 2
    PruningDepth = 5
    Window = 1
    Archival = {TRUE}
    NoBlock = NoBlock
    MaxInPipeline = 1
    MaxRestarts = 0
INVARIANTS
    HeadersAgree
    NoPointPassedOver
