SPECIFICATION Spec
CONSTANTS
    Nodes = {n1}
    Plans = {p1}
    NoPlan = NoPlan
    Specs <- AnySpec
    UserOps = {"create", "edit", "delete", "cordon"}
    NodeLag = FALSE
    PlanLag = TRUE
    MaxClock = 1
    MaxEdits = 2
    MaxFaults = 1
INVARIANT TypeOK
INVARIANT NoOrphan
INVARIANT NoPhantomDrift
CHECK_DEADLOCK FALSE
