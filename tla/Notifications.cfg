SPECIFICATION FairSpec
CONSTANTS
    t1 = t1
    t2 = t2
    None = None
    Requests = {t1, t2}
    BatchSize = 2
    Lifetime = 2
    MaxNotes = 7
    Scenes <- Regular
INVARIANTS
    NotificationTypeOK
    NothingLost
    OnceWithoutFaults
    RemindersStop
    LogMeansNotified
PROPERTIES
    SentUnlessBlocked
CHECK_DEADLOCK FALSE
