\* One message of every kind, two threads, a crash, a failed write and a late step.
SPECIFICATION Spec
CONSTANTS
    m1 = m1  m2 = m2  br = br  bg = bg
    Msgs = {m1}
    Threads = {br, bg}
    Bridge = br
    Kinds = {"direct", "open", "broadcast"}
    NumDests = 2
    PendingCap = 2
    MaxRows = 3
    MaxOrigins = 4
    MaxFaults = 1
    MaxLate = 1
    MaxCrashes = 1
INVARIANTS AttemptedOnce OutcomesWithinAttempts NothingForgotten HonestOutcome
\* With every message counted and no row waiting the gateway rests.
CHECK_DEADLOCK FALSE
