\* Two messages of the queue and a direct one; replies lost, repeated and reordered; crashes.
SPECIFICATION Spec
CONSTANTS
    Direct = {d1}
    Queued = {q1, q2}
    d1 = d1
    q1 = q1
    q2 = q2
    MaxPending = 2
    MaxPackets = 3
INVARIANTS HonestConfirm OneVerdictPerPacket DirectSentFirst EveryPacketAccounted
SYMMETRY Symmetry
