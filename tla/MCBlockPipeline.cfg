SPECIFICATION Spec
CONSTANTS
    g = g
    a = a
    b = b
    c = c
    ta = ta
    ta2 = ta2
    tb = tb
    tc = tc
    Exit = Exit
    Block = {g, a, c}
    Genesis = g
    Parents <- MCChainParents
    Task = {ta, ta2, tc}
    HashOf <- MCChainHashOf
    TrustedTask = {ta2}
    HeaderOnlyTask = {}
    MaxRestarts = 1
INVARIANTS
    TypeOK
    BodiesRestOnBodies
    NoSpuriousMissingParents
    VirtualTaskIsLate
    ResultsAreCommitted
    ExitIsLast
PROPERTIES
    StatusesAdvance
