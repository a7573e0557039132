CONSTANTS
    e1 = e1
    e2 = e2
    None = None
    Effects <- MCEffects
    MaxPending = 8
    MaxTraffic = 0
SPECIFICATION Spec
CHECK_DEADLOCK FALSE
INVARIANT NoShellLeftRunning
