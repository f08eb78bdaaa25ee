SPECIFICATION FairSpec
CONSTANTS
    Nodes = {n1}
    Plans = {p1, p2}
    NoPlan = NoPlan
    Specs <- CordonNow
    UserOps = {"create", "edit", "delete", "cordon", "uncordon"}
    NodeLag = FALSE
    PlanLag = FALSE
    MaxClock = 0
    MaxEdits = 2
    MaxFaults = 0
INVARIANT OwnershipInv
PROPERTY NodesConverge
PROPERTY StatusConverges
PROPERTY DeletionCompletes
PROPERTY ImplementsLease
CHECK_DEADLOCK FALSE
