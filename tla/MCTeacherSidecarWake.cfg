SPECIFICATION FairSpec
CONSTANTS
    a1 = a1
    a2 = a2
    Actors <- MCActors
    MaxSteps = 1
    FaultyKinds <- MCWakeOnly
    EngineMayDie = FALSE
    MaxDpSize = 3
    MaxBatch = 5
    MaxTokens = 2
PROPERTIES
    FailureLeavesAsleep
CHECK_DEADLOCK FALSE
