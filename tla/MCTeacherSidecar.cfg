SPECIFICATION Spec
CONSTANTS
    a1 = a1
    a2 = a2
    Actors <- MCActors
    MaxSteps = 2
    FaultyKinds <- MCAll
    EngineMayDie = FALSE
    MaxDpSize = 3
    MaxBatch = 5
    MaxTokens = 2
SYMMETRY MCSymmetry
INVARIANTS
    TypeOK
    NoStaleBatch
    AsleepDuringRollout
    BatchDealtAndRestored
PROPERTIES
    ImplementsTeacherCalls
CHECK_DEADLOCK FALSE
