\* A table for one of two destinations: every lookup may evict.
CONSTANTS
    c1 = c1
    c2 = c2
    d1 = d1
    d2 = d2
    o1 = o1
    o2 = o2
    o3 = o3
    NoCircuit = NoCircuit
    Callers = {c1, c2}
    Dests = {d1, d2}
    Circuits = {o1, o2, o3}
    FailureThreshold = 1
    MaxCircuits = 1
    MayAbandon = TRUE
SPECIFICATION Spec
SYMMETRY Symmetry
INVARIANTS OneTrialPerEpisode
