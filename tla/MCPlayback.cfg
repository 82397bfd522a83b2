CONSTANTS
    s1 = s1
    s2 = s2
    h1 = h1
    h2 = h2
    k1 = k1
    k2 = k2
    None = None
    Sessions = {s1, s2}
    Handlers = {h1, h2}
    Keys = {k1, k2}
    SentTypes = {"stopped"}
    Limit = 1
    TTL = 2
    MaxSeq = 0
    MaxTime = 3
    MaxUnrecorded = 1
SPECIFICATION Spec
SYMMETRY MCSymmetry
INVARIANTS
    TypeOK
    LiveHoldsSlot
PROPERTIES
    KeepsLimit
