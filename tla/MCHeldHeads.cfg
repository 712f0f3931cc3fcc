SPECIFICATION MCSpec
CONSTANTS
    h1 = h1
    h2 = h2
    h3 = h3
    Networks = {"A", "B"}
    Keys = {"k", "l"}
    Heads = {h1, h2, h3}
    KeyOf <- MCKeyOf
    Version <- MCVersion
    Proving = {h1, h2}
    Own <- MCOwn
    MaxCopies = 1
    MaxKeys = 1
    RoomKeys = 1
    MaxDroppedKeys = 1
    MaxExpiredKeys = 1
    MaxHolds = 2
    HoldAge = 2
    ChainAge = 1
    RetryEvery = 1
    MaxRescanFailures = 1
INVARIANTS HoldsEnd DroppedKeysWait RestoredKeysWait
PROPERTY WaitsEndForGood
CHECK_DEADLOCK FALSE
