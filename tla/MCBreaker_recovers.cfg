\* A trial, an older call and a newcomer; everybody records an outcome.
CONSTANTS
    c1 = c1
    c2 = c2
    c3 = c3
    d1 = d1
    o1 = o1
    NoCircuit = NoCircuit
    Callers = {c1, c2, c3}
    Dests = {d1}
    Circuits = {o1}
    FailureThreshold = 2
    MaxCircuits = 1
    MayAbandon = FALSE
SPECIFICATION FairSpec
INVARIANTS FailingIsBlocked HalfOpenHasTrial
PROPERTIES Recovers
