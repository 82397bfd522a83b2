CONSTANTS
    None = None
    m1 = m1
    m2 = m2
    Movies = {m1, m2}
    Drafts = {m1}
    ProviderItems = {1, 2}
    Given <- MCGiven
    Streamed = {1}
    Workers = {w1, w2}
    Runs = {r1}
    Scans <- MCScans
    Orders <- MCOrders
    RefreshLimit = 1
    Documents <- MCDocuments
    MaxRequests = 1
    MaxFaults = 1
SPECIFICATION Spec
INVARIANTS
    TypeOK
    PublishedOnce
    IndexFollows
    PagesTried
PROPERTIES
    EditorsDecide
    ReadersConverge
    RunsSettle
CHECK_DEADLOCK FALSE
