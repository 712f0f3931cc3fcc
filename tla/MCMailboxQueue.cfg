SPECIFICATION Spec
CONSTANTS
    r1 = r1
    r2 = r2
    e1 = e1
    e2 = e2
    w1 = w1
    w2 = w2
    Readers = {r1, r2}
    Posts = {p1}
    EnvelopeIds = {e1, e2}
    Workers = {w1, w2}
    Ids = {id1}
    Sizes = {1}
    AppendRate = 0
    Minute = 1
    MaxEnvelopes = 2
    MaxBytes = 2
    MaxReaders = 2
    Retention = 1
    EvictionIdle = 1
    Limits = {1}
    MaxPage = 1
    MaxTime = 1
    MaxCursor = 2
    MaxFaults = 1
SYMMETRY Symmetry
INVARIANTS TypeOK ReadersNeverSkip AcksCoverThePast
PROPERTIES ImplementsQueue
