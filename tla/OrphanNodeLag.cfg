SPECIFICATION Spec
CONSTANTS
    Nodes = {n1}
    Plans = {p1}
    NoPlan = NoPlan
    Specs <- CordonAndDrain
    UserOps = {"delete"}
    NodeLag = TRUE
    PlanLag = FALSE
    MaxClock = 0
    MaxEdits = 1
    MaxFaults = 0
INVARIANT NoOrphan
CHECK_DEADLOCK FALSE
