CONSTANTS
    Replicas = {r1}
    Messages = {1}
    Poison = {}
    Batch = 2
    MaxDeliver = 2
    Stoppable = {}
    MaxFailures = 0
    MaxFaults = 2
SPECIFICATION FairSpec
PROPERTY
    EveryMessageIsSettled
CHECK_DEADLOCK FALSE
