SPECIFICATION Spec
CONSTANTS
    n1 = n1
    n2 = n2
    x1 = x1
    x2 = x2
    x3 = x3
    x4 = x4
    Nodes = {n1, n2}
    Pods = {x1, x2}
    Home <- OneEach
    Traits <- AllControlled
    Guarded = {x2}
    Stubborn = {}
    Specs <- DrainBoth
    UserOps = {}
    Grace = 1
    PodLag = FALSE
    PlanLag = FALSE
    MaxBudget = 1
    MaxClock = 3
    MaxEdits = 0
    MaxFaults = 0
INVARIANT DrainingBeforeBlocked
CHECK_DEADLOCK FALSE
