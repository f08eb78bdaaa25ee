SPECIFICATION Spec
CONSTANTS
    Nodes = {n1, n2}
    Plans = {p1}
    NoPlan = NoPlan
    Specs <- CordonLater
    UserOps = {"create", "edit", "delete", "cordon", "uncordon"}
    NodeLag = FALSE
    PlanLag = FALSE
    MaxClock = 2
    MaxEdits = 2
    MaxFaults = 1
INVARIANT NoAbandonedCordon
PROPERTY CordonOnTime
PROPERTY HandsOffReleased
PROPERTY NoEarlyReturn
CHECK_DEADLOCK FALSE
