CONSTANTS
    Threads = {t1, t2}
    Dispatcher = d
    Unfit = {2}
    Capacity = 2
    MaxQueries = 3
    MaxRestarts = 1
    MaxCalls = 2
SPECIFICATION WFairSpec
INVARIANTS HeldOrFinished NoReplyAfterFinish DanglingOnlyIfOverlap
INVARIANTS ContextOutlivesCallbacks BTypeOK NoBadFree OwnedOnce
PROPERTIES IsQueryLife UndeclareSettles CallbackSeesQueries CallbackQueriesFinish
CHECK_DEADLOCK FALSE
