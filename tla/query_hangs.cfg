CONSTANTS
    MaxQueries = 2
    MaxReplies = 1
    Capacity = 3
    MaxStops = 1
    MaxFaults = 0
    MaxOther = 0
SPECIFICATION FairSpec
PROPERTIES QueriesFinish
CHECK_DEADLOCK FALSE
