CONSTANTS
    s1 = s1
    s2 = s2
    h1 = h1
    h2 = h2
    k1 = k1
    k2 = k2
    None = None
    Sessions = {s1, s2}
    Handlers = {h1, h2}
    Keys = {k1, k2}
    SentTypes = {"started", "qualified"}
    Limit = 2
    TTL = 1
    MaxSeq = 1
    MaxTime = 0
    MaxUnrecorded = 0
SPECIFICATION Spec
SYMMETRY MCSymmetry
INVARIANTS
    DeletedProfileKeepsNoProgress
    ViewCountedOnce
PROPERTIES
    ProgressForward
