CONSTANTS
    r1 = r1
    r2 = r2
    c1 = c1
    c2 = c2
    c3 = c3
    k1 = k1
    k2 = k2
    Replicas = {r1,r2}
    Callers = {c1,c2,c3}
    Home <- TwoReplicas
    NoCaller = NoCaller
    Keys = {k1,k2}
    Configs <- Instances
    EmptyValues <- FirstIsEmpty
    LockTtl = 2
    MaxEntries = 1
    MaxRounds = 1
SPECIFICATION FairSpec
INVARIANTS
    OneLoader
    AgeBounded
    InvalidationHolds
PROPERTY
    EveryCallReturns
CHECK_DEADLOCK FALSE
