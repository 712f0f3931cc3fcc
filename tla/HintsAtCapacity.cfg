SPECIFICATION HintSpec
CONSTANTS
    Readers = {r1}
    Posts = {p1}
    EnvelopeIds = {e1}
    Workers = {w1}
    Ids = {id1, id2}
    Limits = {1}
    Sizes = {1}
    AppendRate = 0
    Minute = 1
    MaxEnvelopes = 1
    MaxBytes = 1
    MaxReaders = 1
    Retention = 1
    EvictionIdle = 0
    MaxPage = 1
    MaxTime = 0
    MaxCursor = 0
    MaxFaults = 0
    Sockets = {s1}
    MaxSubscriptions = 1
    MaxPending = 1
INVARIANT DeletedMailboxesHaveNoHints
