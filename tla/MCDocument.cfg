SPECIFICATION Spec
CONSTANTS
  top = top
  x1 = x1
  x2 = x2
  x3 = x3
  None = None
  Root = top
  Nodes = {top, x1, x2, x3}
  Starts <- Loaded
  MaxCalls = 3
  MaxCommits = 1
  Faults = {}
CHECK_DEADLOCK FALSE
INVARIANTS IndexExact Replays Pointers PutsBackAbsent
PROPERTIES Reversible RefsResolve Implements
