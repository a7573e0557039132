CONSTANTS
    None = None
    Empty = Empty
    MaxTicks = 2
    MaxStreams = 2
    MaxBus = 4
    MaxTime = 2
    MaxBytes = 1
    MaxFaults = 1
    Word = 16
SPECIFICATION Spec
INVARIANTS TypeOK
    NoInventedTraffic
    ShownIsStored
    SilenceIsExplained
