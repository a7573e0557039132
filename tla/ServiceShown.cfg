CONSTANTS
    s1 = s1
    c1 = c1
    c2 = c2
    o1 = o1
    o2 = o2
    None = None
    Servers <- MCServers
    Commands <- MCCommands
    Ops <- MCOps
    MaxCalls = 1
SPECIFICATION Spec
PROPERTY ExecutedWasShown
