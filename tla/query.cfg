CONSTANTS
    MaxQueries = 2
    MaxReplies = 1
    Capacity = 2
    MaxStops = 1
    MaxFaults = 1
    MaxOther = 1
SPECIFICATION MCFairSpec
INVARIANTS OriginalUnlessRestarted FinishIsLast FinishNotLost
PROPERTIES FinishUnlessRestarted
CHECK_DEADLOCK FALSE
