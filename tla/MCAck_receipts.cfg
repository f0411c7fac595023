\* A queued message and a broadcast, copies of each handed over and called back in turn, a crash and a failed statement.
SPECIFICATION FairSpec
CONSTANTS
    q = q  b = b
    Queued = {q}
    Broadcasts = {b}
    MaxCopies = 1
    MaxFaults = 1
    MaxCrashes = 1
INVARIANTS OneReceipt HonestReceipt
PROPERTIES ProofBeatsTimeout EveryRecordEnds
\* With every record decided and every row at rest nothing is left to do.
CHECK_DEADLOCK FALSE
