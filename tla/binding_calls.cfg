CONSTANTS
    Publishers = {p1}
    Subscribers = {}
    Queriers = {q1}
    Other = other
    MaxCalls = 1
    MaxStops = 1
    MaxFaults = 1
    MaxOther = 2
SPECIFICATION Spec
INVARIANTS OwnUnlessRestarted DeclaredOnce BoundIsDeclared
CHECK_DEADLOCK FALSE
