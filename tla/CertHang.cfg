SPECIFICATION Spec
CONSTANTS
    Replicas = {r1}
    Servers <- BothServers
    Validity = 3
    RenewBefore = 2
    LeaderElect = FALSE
    MaxClock = 5
    MaxCAs = 3
    MaxFaults = 1
INVARIANT CertsRotateInPlace
CHECK_DEADLOCK FALSE
