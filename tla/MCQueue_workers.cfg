\* One row and two process_once callers; mark_failed counts against MaxTries,
\* cleanup_stale against MaxRetries.
SPECIFICATION Spec
CONSTANTS
    w1 = w1  w2 = w2  e1 = e1  e2 = e2  a = a  b = b
    Workers = {w1, w2}
    Writers = {e1}
    Contents = {a}
    Priorities = {2}
    MaxRows = 1
    MaxQueueSize = 4
    BatchSize = 2
    MaxRetries = 2
    UsePolicy = TRUE
    MaxTries = 3
    Outcomes = {"sent", "failed", "deferred", "refused"}
    HasMaxAge = TRUE
    Gated = FALSE
    Paced = FALSE
    OtherTraffic = TRUE
    DbErrors = TRUE
    MaxCrashes = 2
    MaxRevivals = 2
    MaxClears = 1
SYMMETRY WorkerSymmetry
INVARIANTS OneWorkerPerRow ActiveHasBudget
PROPERTIES ImplementsContract NoResendAfterSuccess
\* A queue with nothing left to do rests.
CHECK_DEADLOCK FALSE
