SPECIFICATION FairSpec
CONSTANTS
    c1 = c1
    c2 = c2
    r1 = r1
    r2 = r2
    NoRequest = NoRequest
    Clients <- One
    Partial <- None
    Requests <- TwoRequests
    Unlabelled <- OneRequest
    MaxVersion = 1
    Features = {"overlap", "drop"}
CHECK_DEADLOCK FALSE
PROPERTIES EventuallyHeard RequestsFinish
