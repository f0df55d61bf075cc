CONSTANTS
    MaxNatsErrors = 0
    MaxRedisErrors = 0
    MaxCloseErrors = 0
    MaxLosses = 1
    MaxTakeovers = 1
SPECIFICATION FairSpec
PROPERTY
    Recovers
CHECK_DEADLOCK FALSE
