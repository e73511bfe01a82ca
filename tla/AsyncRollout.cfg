SPECIFICATION FairSpec
CONSTANTS
    Ranks = {r0, r1, r2}
    Main = r0
    MaxStep = 6
    GradAccum = 2
    GenEvery = 3
    EvalBatches = 2
    EvalsAfter <- EvalSomeSteps
    SkipSync = FALSE
    InferMayFail = FALSE
INVARIANTS
    TypeOK
    NoLoadInFlight
    SampledAsAsked
    TrainsOnPrevious
    CollectivesAligned
PROPERTIES
    Finishes
    ImplementsPipeline
