SPECIFICATION FairSpec
CONSTANTS
    n1 = n1
    n2 = n2
    la = la
    Nodes = {n1}
    Plans = {p1, p2}
    NoPlan = NoPlan
    Labels = {la}
    Specs <- ListOrSelector
    UserOps = {"create", "edit", "delete", "join", "leave", "relabel"}
    Webhook = TRUE
    p1 = p1
    p2 = p2
    Lagging = {p1}
    MaxEdits = 1
    MaxFaults = 1
INVARIANT TypeOK
INVARIANT NoGhostSeries
PROPERTY SnapshotFrozen
PROPERTY MembershipConverges
PROPERTY ImplementsLease
CHECK_DEADLOCK FALSE
