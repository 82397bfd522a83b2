CONSTANTS
    u1 = u1
    o1 = o1
    k1 = k1
    p1 = p1
    w1 = w1
    e1 = e1
    t1 = t1
    None = None
    Users = {u1}
    Orders = {o1}
    Keys = {k1}
    Plans = {p1}
    Workers = {w1}
    Events = {e1}
    Txns = {t1}
    TTL = 1
    Window = 1
    Days <- MCDays
    MaxPlanVersion = 1
    MaxTime = 2
    MaxEnd = 3
SPECIFICATION FairSpec
PROPERTIES
    AbandonedOrderCloses
