SPECIFICATION Spec
CONSTANTS
    n1 = n1
    n2 = n2
    la = la
    Nodes = {n1, n2}
    Plans = {p1}
    NoPlan = NoPlan
    Labels = {la}
    Specs <- SelectorOnly
    UserOps = {"join"}
    Webhook = TRUE
    p1 = p1
    p2 = p2
    Lagging = {p1}
    MaxEdits = 1
    MaxFaults = 0
PROPERTY SnapshotPopulatedOnce
CHECK_DEADLOCK FALSE
