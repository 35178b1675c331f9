SPECIFICATION FairSpec
CONSTANTS
    a = a
    b = b
    d = d
    s1 = s1
    s2 = s2
    s3 = s3
    None = None
    Anything = Anything
    Calls <- TwoCalls
    Kinds = {"put", "touch", "delete", "read", "purge"}
    Stores <- OneStore
    MaxTime = 2
    MaxTtl = 1
    Grace = 0
    MaxInodes = 1
    Features = {"ioerror", "close", "cancel", "crash"}
CHECK_DEADLOCK FALSE
INVARIANT NoLitter
PROPERTIES Implements LiveIsKept EveryCallEnds
