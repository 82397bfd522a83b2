CONSTANTS
    u1 = u1
    o1 = o1
    k1 = k1
    p1 = p1
    w1 = w1
    w2 = w2
    e1 = e1
    t1 = t1
    None = None
    Users = {u1}
    Orders = {o1}
    Keys = {k1}
    Plans = {p1}
    Workers = {w1, w2}
    Events = {e1}
    Txns = {t1}
    TTL = 1
    Window = 1
    Days <- MCDays
    MaxPlanVersion = 1
    MaxTime = 3
    MaxEnd = 3
SPECIFICATION FairSpec
INVARIANTS
    RemindedOnce
PROPERTIES
    LapsedExpires
    ConfirmedFailureCloses
