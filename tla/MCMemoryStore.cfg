SPECIFICATION Spec
CONSTANTS
    a = a
    b = b
    d = d
    Anything = Anything
    Calls <- ThreeCalls
    Kinds = {"put", "touch", "delete", "read"}
    MaxTime = 2
    MaxTtl = 1
SYMMETRY Alike
CHECK_DEADLOCK FALSE
PROPERTY Implements
