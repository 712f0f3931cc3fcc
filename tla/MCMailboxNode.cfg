SPECIFICATION Spec
CONSTANTS
    id1 = id1
    id2 = id2
    id3 = id3
    w1 = w1
    w2 = w2
    Readers = {r1}
    Posts = {p1}
    EnvelopeIds = {e1}
    Workers = {w1, w2}
    Ids = {id1, id2, id3}
    Limits = {1, 2}
    Sizes = {1, 2}
    AppendRate = 0
    Minute = 1
    MaxEnvelopes = 1
    MaxBytes = 2
    MaxReaders = 1
    Retention = 2
    EvictionIdle = 1
    MaxPage = 1
    MaxTime = 2
    MaxCursor = 1
    MaxFaults = 1
SYMMETRY Symmetry
INVARIANTS CountersAgree FreshCursors
PROPERTIES MailboxesLeaveForAReason
CONSTRAINT MCConstraint
