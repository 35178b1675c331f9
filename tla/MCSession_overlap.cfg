SPECIFICATION Spec
CONSTANTS
    c1 = c1
    c2 = c2
    r1 = r1
    r2 = r2
    NoRequest = NoRequest
    Clients <- Both
    Partial <- OnePartial
    Requests <- OneRequest
    Unlabelled <- None
    MaxVersion = 1
    Features = {"overlap", "settled", "cancel", "drop", "offloop"}
CHECK_DEADLOCK FALSE
INVARIANTS WriterHoldsLock NoLoss NoLeak OnceOnly FlushMeansSent
