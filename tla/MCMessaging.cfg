CONSTANTS
    Replicas = {r1,r2}
    Messages = {1,2}
    Poison = {2}
    Batch = 2
    MaxDeliver = 2
    Stoppable = {r2}
    MaxFailures = 2
    MaxFaults = 2
    Callers = {c1,c2,c3}
    Closers = {c1,c2}
    MaxConnections = 2
    MaxDialFailures = 1
    BusCalls = {1,2,3,4}
    BusEnabled = {TRUE,FALSE}
    Members = {"a","b","c"}
    Wants <- OwnSubject
    Durable <- MixedDurables
    MaxCalls = 4
    MaxDeletes = 1
    MaxLostAcks = 1
SPECIFICATION MessagingSpec
INVARIANTS
    SettledAsHandled
    OneConnection
    
    EventsAreKept
PROPERTIES
    StopEndsRun
    ConsumerSettles
CHECK_DEADLOCK FALSE
