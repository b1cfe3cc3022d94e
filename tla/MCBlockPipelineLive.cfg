SPECIFICATION FairSpec
CONSTANTS
    g = g
    a = a
    b = b
    c = c
    ta = ta
    ta2 = ta2
    tb = tb
    tc = tc
    Exit = Exit
    Block = {g, a, c}
    Genesis = g
    Parents <- MCChainParents
    Task = {ta, ta2, tc}
    HashOf <- MCChainHashOf
    TrustedTask = {ta}
    HeaderOnlyTask = {ta2}
    MaxRestarts = 0
PROPERTIES
    EveryRequestAnswered
    ExitReachesTheEnd
