CONSTANTS
    k1 = k1
    k2 = k2
    w1 = w1
    w2 = w2
    Keys = {k1, k2}
    Workers = {w1, w2}
    MaxAttempts = 3
    MaxGen = 2
    MaxFaults = 1
SPECIFICATION Spec
INVARIANTS
    TypeOK
    ReadyServesUpload
    FailedIsExhausted
    SucceededIsSettled
    WaitingIsCarried
PROPERTIES
    OutcomeStands
    QueuedSettles
CHECK_DEADLOCK FALSE
