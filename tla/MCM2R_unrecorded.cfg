\* A replay is sent and the write that records it fails.
SPECIFICATION Spec
CONSTANTS
    m1 = m1  m2 = m2  br = br  bg = bg
    Msgs = {m1}
    Threads = {br, bg}
    Bridge = br
    Kinds = {"direct", "open", "broadcast"}
    NumDests = 2
    PendingCap = 2
    MaxRows = 3
    MaxOrigins = 4
    MaxFaults = 1
    MaxLate = 0
    MaxCrashes = 0
INVARIANTS CountedOnce
\* With every message counted and no row waiting the gateway rests.
CHECK_DEADLOCK FALSE
