CONSTANTS
    Publishers = {}
    Subscribers = {s1, s2}
    Queriers = {}
    Other = other
    MaxCalls = 0
    MaxStops = 1
    MaxFaults = 0
    MaxOther = 0
SPECIFICATION FairSpec
PROPERTIES Restored
CHECK_DEADLOCK FALSE
