SPECIFICATION HelpfulSpec
CONSTANTS
    n1 = n1
    n2 = n2
    x1 = x1
    x2 = x2
    x3 = x3
    x4 = x4
    Nodes = {n1, n2}
    Pods = {x1, x2}
    Home <- OneEach
    Traits <- AllControlled
    Guarded = {x1, x2}
    Stubborn = {}
    Specs <- DrainBoth
    UserOps = {"uncordon", "health", "delete"}
    Grace = 1
    PodLag = FALSE
    PlanLag = FALSE
    MaxBudget = 1
    MaxClock = 1
    MaxEdits = 1
    MaxFaults = 1
PROPERTY DrainCompletes
CHECK_DEADLOCK FALSE
