CONSTANTS
    Workers = {w1,w2}
    NoOwner = NoOwner
    Orphan = Orphan
    Ttl = 3
    Renew = 1
    MaxErrors = 1
    MaxLosses = 1
SPECIFICATION FairSpec
INVARIANTS
    SoleLeader
PROPERTIES
    StaleLeaderLearns
