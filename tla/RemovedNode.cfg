SPECIFICATION Spec
CONSTANTS
    Nodes = {n1}
    Plans = {p1}
    NoPlan = NoPlan
    Specs <- CordonLater
    UserOps = {"create", "edit", "delete", "cordon", "uncordon"}
    NodeLag = FALSE
    PlanLag = FALSE
    MaxClock = 2
    MaxEdits = 1
    MaxFaults = 0
PROPERTY RemovedNodeReleasedByPass
CHECK_DEADLOCK FALSE
