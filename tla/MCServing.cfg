CONSTANTS
    Servers = {a,b}
    NoServer = NoServer
    Services = {overall,named}
    ServiceNames = {overall}
    Watchers = {w1,w2}
    Probed = {a}
    MaxChanges = 2
    MaxRpcs = 2
    PoolThreads = {"t"}
    Methods <- Served
    Gates <- GateChoices
    OwnMetadata <- Metadata
    Forwarded <- Bound
    ChannelTokens = {"None", "platform", "secret b"}
    Failures <- Errors
    PatchNames = {"a", "b"}
    WithPresence = {"a"}
    PatchValues = {0, 1, 2}
    MaxPatches = 3
    Readers = {"u", "v"}
    Routes <- Pages
    Caches = {"browser", "proxy"}
    MaxGets = 3
    MaxResource = 2
    MaxTools = 3
    OwnFiles = {"o"}
    ContractFiles = {"c"}
    Ships <- Shipped
    Imports = {"x", "y", "w", "z"}
    Requests <- Projected
    Endpoints <- DeclaredPaths
    Blocks <- Nested
    Leaves <- Asked
    Folded <- Lowered
    MaxDescents = 2
    Models = {"device", "job"}
    Rows <- Table
    OwnerKind = "account"
    Subjects <- Askers
    Joins <- Statements
    Reasons = {"", "reconcile"}
    WindowStart = 1
    WindowEnd = 6
    StagnantMinOnline = 10
    TriggerWindow = 2
    StagnantMinDuration = 3
    NearFlatMinDuration = 3
    MaxGap = 1
    Readings <- Sampled
    Gaps = {0, 1, 2}
    Overrides <- Forcings
    MaxSamples = 4
    MaxInputs = 4
SPECIFICATION ServingSpec
INVARIANTS
    NoMissedWakeup
    ToldBeforeRefusing
    ServedOnlyIfAdmitted
    ContextOfTheCall
    OutcomeIsTold
    PatchArrives
    ReadsAreCurrent
    BuiltFromThePin
    DescentKeepsMeaning
    
    SegmentsTellTheMoments
PROPERTIES
    WatchersCatchUp
CHECK_DEADLOCK FALSE
