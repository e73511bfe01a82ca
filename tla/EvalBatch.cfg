SPECIFICATION FairSpec
CONSTANTS
    Callers = {c1, c2, c3}
    NoThread = none
    Again = {c1}
    BatchSize = 2
INVARIANTS
    OwnResult
    SomeoneHolds
PROPERTIES
    EveryCallEndsUnlessDead
CHECK_DEADLOCK FALSE
