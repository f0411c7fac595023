\* A gateway and a tool share the radio; the session is lost, supervisor and gateway die.
SPECIFICATION Spec
CHECK_DEADLOCK FALSE
CONSTANTS
    c1 = c1
    t1 = t1
    Clients <- Gateway
    Tools <- Tool
    MaxSends = 2
    MaxDrops = 1
    MaxDeaths = 0
    MaxCrashes = 0
    MaxFaults = 2
INVARIANTS ReconnectSerialised
