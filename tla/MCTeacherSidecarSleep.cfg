SPECIFICATION Spec
CONSTANTS
    a1 = a1
    a2 = a2
    Actors <- MCActors
    MaxSteps = 2
    FaultyKinds <- MCSleepOnly
    EngineMayDie = FALSE
    MaxDpSize = 3
    MaxBatch = 5
    MaxTokens = 2
INVARIANTS
    SleepFailureIsNotFatal
CHECK_DEADLOCK FALSE
