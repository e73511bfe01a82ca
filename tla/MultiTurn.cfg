SPECIFICATION FairSpec
CONSTANTS
    Batch <- OneAndTwo
    MaxTurns = 3
    Outcomes <- Short
    Loops <- AllLoops
    Schedulers <- AllSchedulers
INVARIANTS
    OwnAnswers
    TrainedOnOwnWords
    MaskMarksAnswers
PROPERTIES
    AllEnd
CHECK_DEADLOCK FALSE
