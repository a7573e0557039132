CONSTANTS
    e1 = e1
    e2 = e2
    None = None
    Effects <- MCEffects
    MaxPending = 8
    MaxTraffic = 2
SPECIFICATION Spec
SYMMETRY Symmetry
CHECK_DEADLOCK FALSE
INVARIANTS TypeOK
    AbandonedOnlyByLateReply
    ShellsClosable
    InputIsPrefix
    OutputIsPrefix
    ClosureOnItsWay
