SPECIFICATION FairSpec
CONSTANTS
    Nodes = {n1}
    Plans = {p1}
    NoPlan = NoPlan
    Specs <- AnySpec
    UserOps = {"create", "edit", "cordon", "uncordon"}
    NodeLag = TRUE
    PlanLag = FALSE
    MaxClock = 1
    MaxEdits = 2
    MaxFaults = 0
PROPERTY NodesConverge
PROPERTY StatusConverges
CHECK_DEADLOCK FALSE
