\* One life: started once, stopped at any moment, RNS comes, goes and fails anywhere.
SPECIFICATION FairSpec
CONSTANTS
    MaxStarts = 1
    MaxAttempts = 2
    MaxRouters = 3
INVARIANTS OneUsableRouter
PROPERTIES GateFollowsLink RunningServes StopEnds
