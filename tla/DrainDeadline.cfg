SPECIFICATION FairSpec
CONSTANTS
    n1 = n1
    n2 = n2
    x1 = x1
    x2 = x2
    x3 = x3
    x4 = x4
    Nodes = {n1}
    Pods = {x1, x2}
    Home <- BothOnN1
    Traits <- AllControlled
    Guarded = {x1}
    Stubborn = {x2}
    Specs <- DrainOneTimeout
    UserOps = {"health", "cordon", "uncordon"}
    Grace = 1
    PodLag = TRUE
    PlanLag = FALSE
    MaxBudget = 1
    MaxClock = 3
    MaxEdits = 1
    MaxFaults = 0
PROPERTY TimeoutFires
PROPERTY TimedOutIsTerminal
PROPERTY NoEvictionAfterTimeout
CHECK_DEADLOCK FALSE
