CONSTANTS
    p1 = p1
    p2 = p2
    n1 = n1
    n2 = n2
    Profiles = {p1, p2}
    ActiveProfileLimit = 1
    Events <- MCEvents
    Publishers <- MCPublishers
    BatchSize = 2
    Notices <- MCNotices
    Notifiers = {n1, n2}
    FailRecipients <- MCFailRecipients
    MaxAttempts = 2
    MaxFaults = 1
    MaxRequests = 3
SPECIFICATION Spec
INVARIANTS
    TypeOK
    PublishedIsSent
    ProfilesWithinLimit
PROPERTIES
    ExactlyOnce
    DeliveredIsFinal
    DeliveriesSettle
CHECK_DEADLOCK FALSE
