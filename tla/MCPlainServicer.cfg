CONSTANTS
    MaxRpcs = 1
    PoolThreads = {"t"}
    Methods <- PlainUnary
    Gates <- Verifying
    OwnMetadata <- NoMetadata
    Forwarded <- NothingBound
    ChannelTokens = {"None"}
    Failures = {}
SPECIFICATION RpcSpec
INVARIANTS
    PlainServicersAnswer
CHECK_DEADLOCK FALSE
