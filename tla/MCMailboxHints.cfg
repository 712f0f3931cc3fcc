SPECIFICATION HintSpec
CONSTANTS
    r1 = r1
    r2 = r2
    Readers = {r1, r2}
    Posts = {p1}
    EnvelopeIds = {e1}
    Workers = {w1}
    Ids = {id1}
    Limits = {1}
    Sizes = {1}
    AppendRate = 0
    Minute = 1
    MaxEnvelopes = 1
    MaxBytes = 1
    MaxReaders = 2
    Retention = 0
    EvictionIdle = 1
    MaxPage = 1
    MaxTime = 0
    MaxCursor = 1
    MaxFaults = 1
    Sockets = {s1}
    MaxSubscriptions = 1
    MaxPending = 2
SYMMETRY Symmetry
INVARIANTS HintsGoToReaders

