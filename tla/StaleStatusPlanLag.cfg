SPECIFICATION FairSpec
CONSTANTS
    Nodes = {n1}
    Plans = {p1}
    NoPlan = NoPlan
    Specs <- CordonNow
    UserOps = {"edit"}
    NodeLag = FALSE
    PlanLag = TRUE
    MaxClock = 0
    MaxEdits = 2
    MaxFaults = 0
PROPERTY StatusConverges
CHECK_DEADLOCK FALSE
