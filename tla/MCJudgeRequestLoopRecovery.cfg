SPECIFICATION FairSpec
CONSTANTS
    c1 = c1
    c2 = c2
    Callers <- MCTwoCallers
    MaxRetries = 1
    MaxInFlight = 1
    QualityKinds <- MCOneKind
    QualityRetries <- MCOneKindRetries
    UncaughtErrors = TRUE
    RollingWindowSize = 2
    RollingErrorPercent = 100
    ConsecutiveRetriableErrors = 2
    CooldownSeconds = 1
    HalfOpenProbeRequests = 2
PROPERTIES
    CallsReturn
    RecoveryCloses
