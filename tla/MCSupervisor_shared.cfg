\* A gateway and a tool share the radio; the session is lost, supervisor and gateway die.
SPECIFICATION FairSpec
CHECK_DEADLOCK FALSE
CONSTANTS
    c1 = c1
    t1 = t1
    Clients <- Gateway
    Tools <- Tool
    MaxSends = 2
    MaxDrops = 1
    MaxDeaths = 1
    MaxCrashes = 1
    MaxFaults = 2
INVARIANTS CommandsTakeTurns HonestSent HealthHonest
PROPERTIES CallsEnd
