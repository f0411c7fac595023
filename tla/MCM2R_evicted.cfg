\* Two messages compete for one place in the map; the evicted one is replayed.
SPECIFICATION Spec
CONSTANTS
    m1 = m1  m2 = m2  br = br  bg = bg
    Msgs = {m1, m2}
    Threads = {br, bg}
    Bridge = br
    Kinds = {"open"}
    NumDests = 1
    PendingCap = 1
    MaxRows = 2
    MaxOrigins = 5
    MaxFaults = 0
    MaxLate = 0
    MaxCrashes = 0
INVARIANTS CountedOnce
\* With every message counted and no row waiting the gateway rests.
CHECK_DEADLOCK FALSE
