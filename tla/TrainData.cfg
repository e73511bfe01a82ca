SPECIFICATION FairSpec
CONSTANTS
    N = 6
    Length <- Lengths
    PackingLength = 3
    Bins <- BestFit
    Workers = {w1, w2}
    NoItem = none
    Interval = 2
    TooLong = {3}
    Broken = {6}
    Prefetch = 2
    Asked = 2
    RoundSize = 2
    WorldSize = 2
    Shuffle <- Multiples
    Epochs = 2
    MaxKills = 2
CHECK_DEADLOCK FALSE
INVARIANTS
    NothingOutstanding
    EverySampleOnce
    SameAsUninterrupted
    PackedIdxWhole
PROPERTIES
    TrainingEnds
