SPECIFICATION MCSpec
CONSTANTS
    c1 = c1
    c2 = c2
    c3 = c3
    c4 = c4
    q1 = q1
    q2 = q2
    q3 = q3
    Records = {c1, c2, c3, c4, q1, q2, q3}
    Documents = {"d1", "d2", "d3", "d4"}
    Stores = {"small", "queued"}
    DocumentOf <- MCDocumentOf
    StoreOf <- MCStoreOf
    MaxQueued <- MCMaxQueued
    Attempts = 2
    MaxActive = 1
    MaxSubjects = 1
    Failing = {"d3"}
    Hanging = {"d3"}
    MaxFailures = 1
INVARIANTS ReadmissionTypeOK DroppedReadsWait NoWakeIsLost
PROPERTIES StoresDrain AcceptableArrive
CHECK_DEADLOCK FALSE
