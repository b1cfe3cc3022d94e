CONSTANTS
    g = g
    a = a
    b = b
    k = k
    d = d
    e = e
    f = f
    m = m
    NoBlock = NoBlock
    Block = {g, a, b, k, d, e, f, m}
    Genesis = g
    Parents <- Merge
    Rank <- Hashes
    BadUtxo = {b}
    FinalityDepth = 1
    MaxBlockParents = 3
    PoolThreads = 1
    MaxRestarts = 1
SPECIFICATION Spec
INVARIANTS
    TypeOK
    UtxoInStep
    SelectedChainInStep
    VerdictsFollowTheChain
    NoDisqualifiedParent
    SearchFindsHeaviest
    UncoveredBodiesAreTips
PROPERTIES
    VerdictsStand
    FinalityRespected
CHECK_DEADLOCK FALSE
