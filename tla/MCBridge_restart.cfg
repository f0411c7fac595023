\* The operator stops the bridge and starts the same object again.
SPECIFICATION FairSpec
CONSTANTS
    MaxStarts = 2
    MaxAttempts = 1
    MaxRouters = 2
INVARIANTS RunningHasThreads
