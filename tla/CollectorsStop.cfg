CONSTANTS
    s1 = s1
    s2 = s2
    r1 = r1
    r2 = r2
    
    x1 = x1
    x2 = x2
    None = None
    Servers <- MCServers
    Runs <- MCRuns
    Sessions <- MCSessions
SPECIFICATION Spec
INVARIANT StopHasSomethingToCancel
