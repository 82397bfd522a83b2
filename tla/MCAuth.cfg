CONSTANTS
    a = a
    u = u
    d1 = d1
    d2 = d2
    h1 = h1
    h2 = h2
    None = None
    Users = {a, u}
    FirstAdmins = {a}
    StaffRole = {"support", "admin"}
    Devices = {d1, d2}
    Handlers = {h1, h2}
    MaxDevices = 1
    TTL = 1
    MaxSessions = 3
    MaxTokens = 3
    MaxTime = 1
    MaxRequests = 2
SPECIFICATION Spec
SYMMETRY MCSymmetry
INVARIANTS
    TypeOK
    RevokedKeepsNoToken
    OneChain
    InactiveKeepsNoSession
