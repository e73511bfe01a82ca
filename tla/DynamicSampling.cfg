SPECIFICATION FairSpec
CONSTANTS
    R = 2
    L = 3
    K = 2
    Spg = 3
    Iterations = 2
    MaxResample = 2
    MaxRounds = 2
    Prompts = {p, q, f}
    Failing = {f}
    p = p
    q = q
    f = f
    Orders <- TwoOrders
    MaxSteps = 8
CHECK_DEADLOCK FALSE
INVARIANTS
    OwnAdvantage
    OnlyUsefulGroups
PROPERTIES
    StepsEnd
