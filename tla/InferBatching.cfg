SPECIFICATION FairSpec
CONSTANTS
    whole = whole
    chunks = chunks
    lora1 = lora1
    lora2 = lora2
    Callers = {c1, c2, c3}
    Requests <- OwnConfigs
    Streamed = {chunks}
    Settings <- Several
    Base = base
    Untouched = base
    NoAdapter = noAdapter
    MaxParts = 1
INVARIANTS
    OwnAnswer
    WholeAndInOrder
    StreamWhole
PROPERTIES
    AnsweredUnlessRaised
CHECK_DEADLOCK FALSE
