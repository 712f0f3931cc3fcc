SPECIFICATION MCSpec
CONSTANTS
    Readers = {r1}
    Posts = {p1}
    EnvelopeIds = {e1}
    Workers = {w1}
    Ids = {id1}
    Limits = {1}
    Sizes = {1}
    AppendRate = 3
    Minute = 4
    MaxEnvelopes = 1
    MaxBytes = 1
    MaxReaders = 1
    Retention = 1
    EvictionIdle = 1
    MaxPage = 1
    MaxTime = 2
    MaxCursor = 1
    MaxFaults = 1
    MaxNow = 9
INVARIANT RateHeld
PROPERTY RetentionWins
