\* A row is tried again after its first packet was armed.
SPECIFICATION Spec
CONSTANTS
    Direct = {}
    Queued = {q1}
    q1 = q1
    MaxPending = 2
    MaxPackets = 2
INVARIANTS FinalOutcome
SYMMETRY Symmetry
