SPECIFICATION FairSpec
CONSTANTS
    r1 = r1
    r2 = r2
    c1 = c1
    c2 = c2
    d1 = d1
    t1 = t1
    t2 = t2
    f1 = f1
    m1 = m1
    m2 = m2
    i1 = i1
    i2 = i2
    a1 = a1
    u1 = u1
    u2 = u2
    x1 = x1
    x2 = x2
    v1 = v1
    v2 = v2
    p1 = p1
    p2 = p2
    l1 = l1
    l2 = l2
    None = None
    Requests = {r1, r2}
    Codes = {c1, c2}
    Details = {d1}
    MaxTables = 3
    Trips = {t1, t2}
    FuelSupplies = {f1}
    Repairs = {m1, m2}
    Demands = {i1, i2}
    Attempts = 2
    Assets = {a1}
    Origins = {m1, m2, i1, i2, a1}
    MaxPurchases = 2
    Quantities = {1, 2}
    MaxAttributions = 2
    Users = {u1, u2}
    Referred = {u2}
    MaxTokens = 3
    MaxPasswords = 2
    Contents = {x1, x2}
    Vehicles = {v1, v2}
    DocumentTypes = {"ASSURANCE"}
    MaxSpecimens = 2
    MaxFiles = 2
    MaxRows = 2
    Papers = {p1, p2}
    MaxJobs = 2
    MaxDeaths = 1
    LeaseIds = {l1, l2}
    MaxAmendments = 2
    Articles = {c1, c2}
    MaxOffers = 2
    MaxLines = 3
    Scenes <- AllScenes
    Samples <- AllSamples
INVARIANTS
    BackOfficeTypeOK
    TableInForce
    NumbersDense
    LinksSound
    StockSound
    SessionsSound
    FilesKept
    SignaturesStack
    LeaseHistory
    PvSettled
    ReportsExact
PROPERTIES
    SigningEnds
CHECK_DEADLOCK FALSE
