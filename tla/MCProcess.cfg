CONSTANTS
    Threads = {t1,t2}
    Generators = {g1,g2}
    NoGenerator = NoGenerator
    NoThread = NoThread
    Nodes <- MCNodes
    Epoch = 1
    Datacenters = 2
    Workers = 2
    SequenceSize = 2
    StartsAt = 1
    MaxClock = 3
    MaxSetBacks = 1
    MaxIds = 4
    LimiterProcs = {"p1","p2"}
    MaxRequests = 3
    Subjects <- Someone
    LimiterConfigs <- Endpoints
    WindowSeconds = 2
    MaxLocalEntries = 1
    MaxLimiterTime = 2
    MaxStoreCalls = 3
    SnapshotKeys = {"a"}
    RedisEnabled = {TRUE,FALSE}
    LocalTtl = 1
    RemoteTtl = 2
    MaxLocal = 1
    SocketTimeout = 1
    MaxStoreTime = 2
    MaxVersions = 2
    SingletonTasks = {s1,s2,s3}
    MaxResources = 3
    NoOwner = NoOwner
    Dependencies = {"postgres", "nats"}
    CheckTimeout = 2
    CacheTtl = 2
    MaxProbes = 3
    MaxProbeTime = 4
    MaxConditionChanges = 2
    Users = {"u1","u2"}
    Loops = {1,2}
    LoopOf <- OwnLoop
    ChannelKeys = {"grpc"}
    HttpKeys = {"http"}
    Specs = {"s","t"}
    MaxProxies = 3
    MaxChannels = 3
    MaxStops = 1
    Fetches = {"f", "g"}
    Lookups = {"t", "u"}
    Resets = {"r"}
    Nobody = "free"
SPECIFICATION ProcessSpec
INVARIANTS
    IdsUnique
    LimitKept
    SnapshotAge
    NoOrphanConnection
    OneResource
    VerdictIsRecent
    
    OneWholeReader
CHECK_DEADLOCK FALSE
