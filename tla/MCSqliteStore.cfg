SPECIFICATION Spec
CONSTANTS
    a = a
    b = b
    d = d
    s1 = s1
    s2 = s2
    None = None
    Anything = Anything
    Calls <- TwoCalls
    Kinds = {"put", "touch", "delete", "read", "head", "purge"}
    Stores <- TwoStores
    MaxTime = 2
    MaxTtl = 1
    Features = {"cancel", "ioerror", "crash", "close"}
SYMMETRY Alike
CHECK_DEADLOCK FALSE
INVARIANTS Paired Owned
PROPERTIES Implements
