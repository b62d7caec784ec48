CONSTANTS
    MaxStarts = 2
    Configs <- MCConfigs
SPECIFICATION FairSpec
INVARIANTS TypeOK CleanerWhileServing
PROPERTIES StopStopsAll ListenersServe
CHECK_DEADLOCK FALSE
