SPECIFICATION Spec
CONSTANTS
    g1 = g1
    g2 = g2
    i1 = i1
    i2 = i2
    Groups <- MCGroups
    PairIndices <- MCPairIndices
    Failures = {"transient", "circuit_open", "permanent"}
    RateUnit = 4
    MaxFallbackRate = 1
    MaxRetryRounds = 1
    MaxStepAttempts = 2
    MinGroupSize = 1
    MaxDropped = 0
    MinEffectiveRate = 2
SYMMETRY MCSymmetry
INVARIANTS
    TypeOK
    OneTeacherPerGroup
    RubricOnce
    RetryLedger
    RetriesBounded
    MaskMatchesVerdict
    GivesUpLate
PROPERTIES
    SuccessIsFinal
