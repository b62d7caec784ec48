CONSTANTS
    Producers = {p1, p2}
    Waiters = {w1}
    Capacity = 2
    Modulus = 8
    MaxPush = 2
SPECIFICATION FairSpec
INVARIANTS TypeOK PendingExact DropsAccounted
PROPERTIES IsLossyFifo FlushOnDone ItemsSettle
CHECK_DEADLOCK FALSE
