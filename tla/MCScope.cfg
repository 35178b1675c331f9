SPECIFICATION ScopeSpec
CONSTANTS
  top = top
  x1 = x1
  x2 = x2
  x3 = x3
  None = None
  Root = top
  Nodes = {top, x1, x2, x3}
  Starts <- Trees
  Scopes <- Asked
  MaxCalls = 2
  MaxCommits = 1
  Faults = {}
CHECK_DEADLOCK FALSE
INVARIANTS ViewExact Mirrors
PROPERTIES Delta
