SPECIFICATION Spec
CONSTANTS
    R = 2
    L = 3
    K = 2
    Spg = 3
    Iterations = 2
    MaxResample = 1
    MaxRounds = 1
    Prompts = {p, q, f}
    Failing = {f}
    p = p
    q = q
    f = f
    Orders <- TwoOrders
    MaxSteps = 1
CHECK_DEADLOCK FALSE
INVARIANT OnePromptPerGroup
