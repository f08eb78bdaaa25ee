SPECIFICATION Spec
CONSTANTS
    Nodes = {n1}
    Plans = {p1}
    NoPlan = NoPlan
    Specs <- CordonOffOrLater
    UserOps = {"edit"}
    NodeLag = FALSE
    PlanLag = FALSE
    MaxClock = 1
    MaxEdits = 1
    MaxFaults = 0
PROPERTY CordonOnTime
CHECK_DEADLOCK FALSE
