CONSTANTS
    Clients = {c1}
    Tasks = {t1}
    Cleaner = cleaner
    Sweep <- Publishers
    MaxHandle = 1
    MaxQuery = 0
    Breaks = FALSE
    None = none
SPECIFICATION FairSpec
PROPERTIES DeadClientsReclaimed
