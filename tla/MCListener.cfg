CONSTANTS
    MaxNatsErrors = 2
    MaxRedisErrors = 1
    MaxCloseErrors = 1
    MaxLosses = 2
    MaxTakeovers = 2
SPECIFICATION FairSpec
INVARIANTS
    
    StopLeavesNothing
PROPERTIES
    RecoversBetweenStarts
    StopReturns
CHECK_DEADLOCK FALSE
