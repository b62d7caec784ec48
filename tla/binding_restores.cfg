CONSTANTS
    Publishers = {}
    Subscribers = {s1}
    Queriers = {}
    Other = other
    MaxCalls = 0
    MaxStops = 2
    MaxFaults = 2
    MaxOther = 2
SPECIFICATION FairSpec
PROPERTIES Restored
CHECK_DEADLOCK FALSE
