SPECIFICATION Spec
CONSTANTS
    Replicas = {r1, r2}
    Servers <- BothServers
    Validity = 4
    RenewBefore = 2
    LeaderElect = FALSE
    MaxClock = 3
    MaxCAs = 3
    MaxFaults = 0
INVARIANT BundleIsSharedCA
CHECK_DEADLOCK FALSE
