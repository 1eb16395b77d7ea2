SPECIFICATION MetricsSpec
CONSTANTS
    c1 = c1
    c2 = c2
    c3 = c3
    Callers <- MCCallers
    MaxRetries = 1
    MaxInFlight = 2
    QualityKinds <- MCQualityKinds
    QualityRetries <- MCQualityRetries
    UncaughtErrors = TRUE
    RollingWindowSize = 2
    RollingErrorPercent = 100
    ConsecutiveRetriableErrors = 2
    CooldownSeconds = 1
    HalfOpenProbeRequests = 1
    BucketSize = 2
    MaxWant = 5
    MaxGap = 2
    MaxSections = 4
VIEW Balances
SYMMETRY MCCallerSymmetry
INVARIANTS
    MetricsTypeOK
    BreakerConsistent
    NoPhantomProbe
    CallBudget
    OneOutcomePerRequest
    RetriesAccountForRequests
    RateRespected
