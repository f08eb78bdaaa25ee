SPECIFICATION FairSpec
CONSTANTS
    n1 = n1
    n2 = n2
    la = la
    Nodes = {n1, n2}
    Plans = {p1}
    NoPlan = NoPlan
    Labels = {la}
    Specs <- ListAll
    UserOps = {"leave", "delete"}
    Webhook = TRUE
    p1 = p1
    p2 = p2
    Lagging = {}
    MaxEdits = 2
    MaxFaults = 0
PROPERTY DeletedPlansVanish
CHECK_DEADLOCK FALSE
