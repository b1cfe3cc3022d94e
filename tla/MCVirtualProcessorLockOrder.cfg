CONSTANTS
    g = g
    a = a
    b = b
    k = k
    d = d
    e = e
    f = f
    m = m
    NoBlock = NoBlock
    Block = {g, a, b, k, d, e}
    Genesis = g
    Parents <- Sibling
    Rank <- Hashes
    BadUtxo = {b}
    FinalityDepth = 9
    MaxBlockParents = 3
    PoolThreads = 1
    MaxRestarts = 0
SPECIFICATION FairSpec
PROPERTY BodyCommitCompletes
CHECK_DEADLOCK FALSE
