\* A caller may return without recording an outcome.
CONSTANTS
    c1 = c1
    c2 = c2
    d1 = d1
    o1 = o1
    NoCircuit = NoCircuit
    Callers = {c1, c2}
    Dests = {d1}
    Circuits = {o1}
    FailureThreshold = 2
    MaxCircuits = 1
    MayAbandon = TRUE
SPECIFICATION FairSpec
PROPERTIES Recovers
