SPECIFICATION Spec
CONSTANTS
    Nodes = {n1}
    Plans = {p1}
    NoPlan = NoPlan
    Specs <- CordonAndDrain
    UserOps = {"uncordon"}
    NodeLag = FALSE
    PlanLag = TRUE
    MaxClock = 0
    MaxEdits = 1
    MaxFaults = 0
PROPERTY HandsOffReleased
CHECK_DEADLOCK FALSE
