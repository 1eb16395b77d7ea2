SPECIFICATION SchedFairSpec
CONSTANTS
    teacher1 = teacher1
    teacher2 = teacher2
    verifier1 = verifier1
    verifier2 = verifier2
    w1 = w1
    w2 = w2
    NoRequest = NoRequest
    Requests <- MCRequests
    Workers <- MCWorkers
    PriorityOf <- MCStagePriority
    MaxQueueSize = 2
INVARIANTS
    SchedTypeOK
    OneHome
    NoMissedWakeup
    DrainedWhenClosed
    FifoPerPriority
PROPERTIES
    SubmissionsEnd
    ShutdownReturns
    ImplementsPool
CHECK_DEADLOCK FALSE
