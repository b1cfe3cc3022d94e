SPECIFICATION Spec
CONSTANTS
    MainLength = 9
    ForkLength = 1
    ForkPoints = {2}
    Jumps = {{}}
    Block <- Numbers
    Genesis = 0
    Shapes <- Trees
    FinalityDepth = 2
    PruningDepth = 5
    Window = 1
    Archival = {FALSE}
    NoBlock = NoBlock
    MaxInPipeline = 1
    MaxRestarts = 0
INVARIANT QueuedBodyHasStatus
