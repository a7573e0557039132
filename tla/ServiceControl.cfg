CONSTANTS
    s1 = s1
    c1 = c1
    c2 = c2
    o1 = o1
    o2 = o2
    None = None
    Servers <- MCServers
    Commands <- MCCommands1
    Ops <- MCOps
    MaxCalls = 1
SPECIFICATION FairSpec
INVARIANTS TypeOK
    LockedWhileRunning
    RanIsRecorded
    LedgerClaimsWereRun
PROPERTY LostOperationReturns
