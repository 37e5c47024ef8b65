SPECIFICATION AudienceSpec
CONSTANTS
    x1 = x1
    p1 = p1
    p2 = p2
    Person = {x1}
    Proc = {p1, p2}
    ContactsLimit = 1
    MaxRows = 1
    MaxWords = 2
    MaxRequests = 2
    MaxFaults = 0
    MaxSyncs = 0
CHECK_DEADLOCK FALSE
INVARIANT NeverResurrected
