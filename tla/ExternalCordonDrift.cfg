SPECIFICATION FairSpec
CONSTANTS
    Nodes = {n1}
    Plans = {p1}
    NoPlan = NoPlan
    Specs <- CordonOnOff
    UserOps = {"cordon", "uncordon"}
    NodeLag = FALSE
    PlanLag = FALSE
    MaxClock = 0
    MaxEdits = 2
    MaxFaults = 0
PROPERTY ExternalCordonDriftClears
CHECK_DEADLOCK FALSE
