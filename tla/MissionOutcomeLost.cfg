SPECIFICATION Spec
CONSTANTS
    r1 = r1
    r2 = r2
    m1 = m1
    m2 = m2
    None = None
    Requests = {r1, r2}
    Missions = {m1, m2}
    Origins = {m1, m2}
    Vehicles = {v1}
    MaxPurchases = 2
    Scenes <- SideBySide
INVARIANT
    OutcomeRecorded
CHECK_DEADLOCK FALSE
