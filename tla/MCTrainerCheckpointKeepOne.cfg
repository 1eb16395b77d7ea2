SPECIFICATION Spec
CONSTANTS
    rank0 = rank0
    rank1 = rank1
    Ranks <- MCRanks
    UseCritic = TRUE
    BatchesPerEpoch = 2
    TotalEpochs = 2
    TotalTrainingSteps = 5
    SaveFreq = 2
    MaxActorCkptToKeep = 1
    MaxCriticCkptToKeep = 1
    CriticWarmup = 2
    EsiMayExpire = TRUE
    MaxRuns = 3
INVARIANT CompletedCheckpointRemains
CHECK_DEADLOCK FALSE
