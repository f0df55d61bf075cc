CONSTANTS
    Users = {u1}
    Tenants = {global, t1}
    Callers = {c1, c2}
    NoTask = NoTask
    MaxEntries = 1
    Ttl = 1
    MaxChanges = 1
    MaxEpoch = 1
    MaxTime = 1
SPECIFICATION FairSpec
INVARIANTS
    NoStaleEntry
    FreshAfterInvalidation
PROPERTIES
    
    ImplementsFencedCache
