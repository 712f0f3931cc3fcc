SPECIFICATION MCSpec
CONSTANTS
    b1 = b1
    b2 = b2
    b3 = b3
    u1 = u1
    Blobs = {b1, b2, b3}
    Uploads = {u1, u2}
    Removals = {r1}
    SizeOf <- MCSizeOf
    OwnerOf <- MCOwnerOf
    TotalQuota = 3
    OwnerQuota = 2
    UploadWindow = 1
    Settings <- MCSettings
    MaxTime = 3
    MaxFaults = 2
    Sizes = {1, 2, 3, 5, 8, 13, 21, 34, 55}
    Numbers = {0, 1, 2, 3, 5, 8, 13, 14, 20, 54, 55, 56}
INVARIANTS TimelyBlobsKeepTheirBytes StoreTimeKept ReservationsFitQuotas AnswersAreTheBytesNamed RefusedOnlyAtTheEnd
PROPERTY SpaceIsReclaimed
CHECK_DEADLOCK FALSE
