SPECIFICATION Spec
CONSTANTS
    Replicas = {r1, r2}
    Servers <- BothServers
    Validity = 4
    RenewBefore = 2
    LeaderElect = TRUE
    MaxClock = 3
    MaxCAs = 2
    MaxFaults = 0
INVARIANT EveryPodTrusted
CHECK_DEADLOCK FALSE
