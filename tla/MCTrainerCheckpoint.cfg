SPECIFICATION Spec
CONSTANTS
    rank0 = rank0
    rank1 = rank1
    Ranks <- MCRanks
    UseCritic = TRUE
    BatchesPerEpoch = 2
    TotalEpochs = 2
    TotalTrainingSteps = 5
    SaveFreq = 2
    MaxActorCkptToKeep = 2
    MaxCriticCkptToKeep = 3
    CriticWarmup = 2
    EsiMayExpire = TRUE
    MaxRuns = 3
INVARIANTS
    TypeOK
    EachBatchOnce
    EndsOnASavedStep
PROPERTIES
    ImplementsAtomicCheckpoint
    JobEnds
CHECK_DEADLOCK FALSE
