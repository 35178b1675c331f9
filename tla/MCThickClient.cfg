SPECIFICATION Spec
CONSTANTS
    a = a
    b = b
    n = n
    NoNode = NoNode
    Nodes <- ABN
    Start <- Two
    Values = {0, 1, 2}
    Limit = 1
    Tally = NoNode
    Features = {"linger"}
    MaxEdits = 2
    MaxHost = 1
    MaxBreaks = 1
INVARIANTS Optimistic UndoReveals AnswersInOrder ConvergedOnce OnlyDroppedLost
CHECK_DEADLOCK FALSE
