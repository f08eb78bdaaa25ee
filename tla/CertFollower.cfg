SPECIFICATION Spec
CONSTANTS
    Replicas = {r1, r2}
    Servers <- BothServers
    Validity = 4
    RenewBefore = 2
    LeaderElect = TRUE
    MaxClock = 6
    MaxCAs = 4
    MaxFaults = 0
INVARIANT CertsRotateInPlace
CHECK_DEADLOCK FALSE
