SPECIFICATION Spec
CONSTANTS
    c1 = c1
    c2 = c2
    r1 = r1
    r2 = r2
    NoRequest = NoRequest
    Clients <- Both
    Partial <- OnePartial
    Requests <- TwoRequests
    Unlabelled <- None
    MaxVersion = 2
    Features = {"drop", "offloop"}
SYMMETRY AnyRequest
CHECK_DEADLOCK FALSE
INVARIANTS ViewAgrees Answered
PROPERTY InOrder
