\* The process crashes between mark_timeout and the receipt.
SPECIFICATION FairSpec
CONSTANTS
    q = q  b = b
    Queued = {q}
    Broadcasts = {}
    MaxCopies = 1
    MaxFaults = 0
    MaxCrashes = 1
PROPERTIES TimedOutIsTold
\* With every record decided and every row at rest nothing is left to do.
CHECK_DEADLOCK FALSE
