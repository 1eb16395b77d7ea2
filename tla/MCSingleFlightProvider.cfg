SPECIFICATION FairSpec
CONSTANTS
    c1 = c1
    c2 = c2
    c3 = c3
    lone = lone
    w1 = w1
    prompt = prompt
    NoRequest = NoRequest
    NoFingerprint = NoFingerprint
    MaxQueueSize = 1
    Requests <- MCCalls
    Workers <- MCWorkers
    PriorityOf <- MCSamePriority
    FingerprintOf <- MCFingerprints
INVARIANTS
    FlightTypeOK
    OneFlight
PROPERTIES
    CallsEnd
    ImplementsSharedRequests
CHECK_DEADLOCK FALSE
