SPECIFICATION Spec
CONSTANTS
    n1 = n1
    n2 = n2
    x1 = x1
    x2 = x2
    x3 = x3
    x4 = x4
    Nodes = {n1, n2}
    Pods = {x1, x2, x3, x4}
    Home <- TwoEach
    Traits <- AllKinds
    Guarded = {x1}
    Stubborn = {}
    Specs <- AnyOptions
    UserOps = {"edit", "run", "finish"}
    Grace = 0
    PodLag = FALSE
    PlanLag = FALSE
    MaxBudget = 1
    MaxClock = 2
    MaxEdits = 1
    MaxFaults = 1
INVARIANT TypeOK
PROPERTY ProtectedPodsSurvive
PROPERTY ReadyWhenDrained
PROPERTY ReadyIsKept
CHECK_DEADLOCK FALSE
