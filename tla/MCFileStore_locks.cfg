SPECIFICATION Spec
CONSTANTS
    a = a
    b = b
    d = d
    s1 = s1
    s2 = s2
    s3 = s3
    None = None
    Anything = Anything
    Calls <- TwoCalls
    Kinds = {"put", "delete"}
    Stores <- TwoStores
    MaxTime = 2
    MaxTtl = 0
    Grace = 0
    MaxInodes = 2
    Features = {"unlink", "crash", "close"}
SYMMETRY Alike
CHECK_DEADLOCK FALSE
INVARIANTS OneWriter CasOnce
PROPERTY Implements
