CONSTANTS
    u1 = u1
    o1 = o1
    o2 = o2
    k1 = k1
    k2 = k2
    p1 = p1
    w1 = w1
    e1 = e1
    e2 = e2
    t1 = t1
    t2 = t2
    None = None
    Users = {u1}
    Orders = {o1, o2}
    Keys = {k1, k2}
    Plans = {p1}
    Workers = {w1}
    Events = {e1, e2}
    Txns = {t1, t2}
    TTL = 1
    Window = 0
    Days <- MCDays
    MaxPlanVersion = 2
    MaxTime = 2
    MaxEnd = 3
SPECIFICATION Spec
SYMMETRY MCSymmetry
INVARIANTS
    TypeOK
    OneOpenOrderPerUser
    PaymentMatchesSubscription
    PaidNeverLost
    ActivatedOnce
    TermMatchesPurchase
PROPERTIES
    KeepsContract
