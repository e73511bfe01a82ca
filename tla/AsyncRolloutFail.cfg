SPECIFICATION Spec
CONSTANTS
    Ranks = {r0, r1, r2}
    Main = r0
    MaxStep = 6
    GradAccum = 3
    GenEvery = 2
    EvalBatches = 2
    EvalsAfter <- EvalSomeSteps
    SkipSync = TRUE
    InferMayFail = TRUE
INVARIANTS
    FrozenPolicy
    TrainsOnPrevious
CHECK_DEADLOCK FALSE
