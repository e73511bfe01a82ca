SPECIFICATION FairSpec
CONSTANTS
    NServers = 2
    NWorkers = 2
    NBuckets = 2
    MaxVersion = 2
    Lengths = {1, 5}
    MaxClient = 1
    FaultSets <- Some
INVARIANTS
    AnswersFromLastPush
    AnswersInOrder
PROPERTIES
    CallsEnd
CHECK_DEADLOCK FALSE
