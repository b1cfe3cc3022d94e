SPECIFICATION FairSpec
CONSTANTS
    r1 = r1
    r2 = r2
    w1 = w1
    w2 = w2
    Reader <- MCReader
    Writer <- MCWriter
    MaxPermits = 4
    MaxCalls = 2
INVARIANTS
    TypeOK
    Exclusive
    NoLostWakeup
PROPERTIES
    ReadersFirst
    EveryCallReturns
