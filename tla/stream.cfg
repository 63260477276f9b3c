CONSTANTS
    u1 = u1
    u2 = u2
    u3 = u3
    c1 = c1
    Writers = {u1, u2, u3}
    Locking = {u3}
    Readers = {c1}
    BatchSize = 1
    MaxSequence = 4
SPECIFICATION FairSpec
INVARIANTS
    CursorIsNewestEvent
PROPERTIES
    EventReachesReader
