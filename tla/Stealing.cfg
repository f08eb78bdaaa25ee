SPECIFICATION Spec
CONSTANTS
    Nodes = {n1}
    Plans = {p1, p2}
    NoPlan = NoPlan
    Specs <- CordonNow
    UserOps = {"create", "edit", "delete", "cordon", "uncordon"}
    NodeLag = FALSE
    PlanLag = FALSE
    MaxClock = 0
    MaxEdits = 0
    MaxFaults = 0
PROPERTY NoStealing
CHECK_DEADLOCK FALSE
