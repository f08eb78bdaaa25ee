SPECIFICATION Spec
CONSTANTS
    n1 = n1
    n2 = n2
    la = la
    Nodes = {n1}
    Plans = {p1, p2}
    NoPlan = NoPlan
    Labels = {la}
    Specs <- ListOrSelector
    UserOps = {"create"}
    Webhook = TRUE
    p1 = p1
    p2 = p2
    Lagging = {}
    MaxEdits = 1
    MaxFaults = 0
INVARIANT NoConflict
CHECK_DEADLOCK FALSE
