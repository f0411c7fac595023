\* One caller of each kind, behind a gate that may stay shut, with senders that
\* may defer for ever.
SPECIFICATION FairSpec
CONSTANTS
    w1 = w1  w2 = w2  e1 = e1  e2 = e2  a = a  b = b
    Workers = {w1}
    Writers = {e1}
    Contents = {a}
    Priorities = {2, 3}
    MaxRows = 2
    MaxQueueSize = 1
    BatchSize = 2
    MaxRetries = 2
    UsePolicy = FALSE
    MaxTries = 2
    Outcomes = {"sent", "failed", "deferred", "refused"}
    HasMaxAge = TRUE
    Gated = TRUE
    Paced = TRUE
    OtherTraffic = TRUE
    DbErrors = TRUE
    MaxCrashes = 1
    MaxRevivals = 0
    MaxClears = 0
INVARIANTS ResendWithinBudget DepthBound EveryExitFires DropHonest
PROPERTIES BackoffHonoured EveryRowEnds
\* A queue with nothing left to do rests.
CHECK_DEADLOCK FALSE
