CONSTANTS
    Clients = {c1, c2}
    Tasks = {t1, t2}
    Cleaner = cleaner
    Sweep <- Publishers
    MaxHandle = 2
    MaxQuery = 0
    Breaks = TRUE
    None = none
SPECIFICATION Spec
SYMMETRY Symmetric
INVARIANTS OneKeeper CleanupSparesOthers
