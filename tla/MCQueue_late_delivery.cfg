\* A send that outlives STALE_TIMEOUT.
SPECIFICATION Spec
CONSTANTS
    w1 = w1  w2 = w2  e1 = e1  e2 = e2  a = a  b = b
    Workers = {w1, w2}
    Writers = {e1}
    Contents = {a}
    Priorities = {2}
    MaxRows = 1
    MaxQueueSize = 4
    BatchSize = 2
    MaxRetries = 1
    UsePolicy = FALSE
    MaxTries = 2
    Outcomes = {"sent"}
    HasMaxAge = FALSE
    Gated = FALSE
    Paced = FALSE
    OtherTraffic = TRUE
    DbErrors = FALSE
    MaxCrashes = 0
    MaxRevivals = 0
    MaxClears = 0
INVARIANTS HookOncePerRow
\* A queue with nothing left to do rests.
CHECK_DEADLOCK FALSE
