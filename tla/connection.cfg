CONSTANTS
    Workers = {w1}
    Infos = {i1}
    Getters = {g1}
    Heartbeat = heartbeat
    Closer = closer
    Capacity = 1
    MaxCommands = 2
    MaxStops = 1
    MaxTasks = 2
SPECIFICATION MCFairSpec
INVARIANTS NothingSkipped OnlyGapLosesWakeups OneWarningUnlessConnecting
PROPERTIES LateFailureHarmless KeepsTrying
CHECK_DEADLOCK FALSE
