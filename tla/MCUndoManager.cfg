SPECIFICATION Spec
CONSTANTS
    n1 = n1
    n2 = n2
    v = v
    c = c
    Nodes <- TwoNodes
    Targets <- OneNode
    Plain <- OneValue
    Default = v
    Absent = Absent
    Clients <- OneClient
    Host = Host
    MaxSteps = 2
    MaxEdits = 3
    Merging = TRUE
INVARIANTS TypeOK NeverRefused Reversible
PROPERTY Retraces
