CONSTANTS
    u1 = u1
    u2 = u2
    u3 = u3
    c1 = c1
    Writers = {u1, u2}
    Locking = {}
    Readers = {c1}
    BatchSize = 2
    MaxSequence = 2
SPECIFICATION Spec
INVARIANT
    StreamIsComplete
