SPECIFICATION FairSpec
CONSTANTS
    a1 = a1
    a2 = a2
    Actors <- MCActors
    MaxSteps = 1
    FaultyKinds <- MCAll
    EngineMayDie = TRUE
    MaxDpSize = 3
    MaxBatch = 5
    MaxTokens = 2
PROPERTIES
    CallsEnd
CHECK_DEADLOCK FALSE
