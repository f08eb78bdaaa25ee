SPECIFICATION Spec
CONSTANTS
    Replicas = {r1}
    Servers <- BothServers
    Validity = 4
    RenewBefore = 2
    LeaderElect = FALSE
    MaxClock = 3
    MaxCAs = 3
    MaxFaults = 1
INVARIANT BundlePatchedOnStartup
CHECK_DEADLOCK FALSE
