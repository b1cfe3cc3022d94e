CONSTANTS
    g = g
    a = a
    b = b
    k = k
    d = d
    e = e
    f = f
    m = m
    NoBlock = NoBlock
    Block = {g, a, b, k, d, e, f}
    Genesis = g
    Parents <- Fork
    Rank <- Hashes
    BadUtxo = {}
    FinalityDepth = 9
    MaxBlockParents = 2
    PoolThreads = 2
    MaxRestarts = 0
SPECIFICATION FairSpec
INVARIANT TipsAreAntichain
PROPERTY EveryBodyWeighed
