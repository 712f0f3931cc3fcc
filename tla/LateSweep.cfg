\* What the retention document says of completed blobs.
SPECIFICATION Spec
CONSTANTS
    b1 = b1
    Blobs = {b1}
    Uploads = {u1}
    Removals = {r1}
    SizeOf <- MCSizeOf
    OwnerOf <- MCOwnerOf
    TotalQuota = 1
    OwnerQuota = 1
    UploadWindow = 1
    Settings <- MCSettings
    MaxTime = 3
    MaxFaults = 0
INVARIANT CompletedBlobsLive
