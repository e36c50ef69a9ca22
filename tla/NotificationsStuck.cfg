SPECIFICATION FairSpec
CONSTANTS
    t1 = t1
    t2 = t2
    None = None
    Requests = {t1, t2}
    BatchSize = 1
    Lifetime = 2
    MaxNotes = 2
    Scenes <- Stuck
PROPERTIES
    PendingTreated
CHECK_DEADLOCK FALSE
