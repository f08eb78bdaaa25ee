SPECIFICATION FairSpec
CONSTANTS
    Replicas = {r1, r2}
    Servers <- BothServers
    Validity = 3
    RenewBefore = 2
    LeaderElect = FALSE
    MaxClock = 4
    MaxCAs = 3
    MaxFaults = 1
INVARIANT TypeOK
INVARIANT NoForeignCA
INVARIANT SoloTrusted
INVARIANT NeverExpired
PROPERTY BootEnds
CHECK_DEADLOCK FALSE
