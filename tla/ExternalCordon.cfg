SPECIFICATION Spec
CONSTANTS
    Nodes = {n1}
    Plans = {p1}
    NoPlan = NoPlan
    Specs <- CordonOnOff
    UserOps = {"create", "edit", "delete", "cordon", "uncordon"}
    NodeLag = FALSE
    PlanLag = FALSE
    MaxClock = 0
    MaxEdits = 2
    MaxFaults = 0
PROPERTY ExternalCordonKept
CHECK_DEADLOCK FALSE
