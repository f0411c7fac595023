\* A gateway attaches while the radio connects.
SPECIFICATION FairSpec
CHECK_DEADLOCK FALSE
CONSTANTS
    c1 = c1
    t1 = t1
    Clients <- Gateway
    Tools <- NoTool
    MaxSends = 0
    MaxDrops = 1
    MaxDeaths = 0
    MaxCrashes = 0
    MaxFaults = 2
PROPERTIES HealthFollowsRadio
