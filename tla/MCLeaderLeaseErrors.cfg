CONSTANTS
    Workers = {w1,w2}
    NoOwner = NoOwner
    Orphan = Orphan
    Ttl = 3
    Renew = 2
    MaxErrors = 1
    MaxLosses = 0
SPECIFICATION Spec
INVARIANT
    SoleLeaderDespiteErrors
