SPECIFICATION Spec
CONSTANTS
    a = a  b = b
    p1 = p1  p2 = p2  c1 = c1  r2 = r2
    h0 = h0  h1 = h1  h2 = h2  hx = hx
    Ids = {p1, p2, c1, r2}
    Heads = {h0, h1, h2, hx}
    Devices = {a, b}
    Geneses = {"first"}
    Operations <- MCOperations
    Authorities = {a}
    FirstDevices = {a}
    Genesis0 = h0
    NoScope = NoScope
    NoOne = NoOne
    w1 = w1  w2 = w2
    Workers = {w1, w2}
    MaxPerAuthor = 1
    MaxNonAuthority = 1
    MaxAccepted = 4
    MaxDependencies = 2
    MaxHistorical = 1
    MaxPending = 2
    MaxPendingPerAuthor = 2
INVARIANTS PrivateTypeOK SiblingsFreeze RecordsFollowTheLog RecordsAgree
PROPERTIES ImplementsLedger NeededAreKept WaitingLeaveForAReason TransitionsAreReserved
CONSTRAINT MCConstraint
SYMMETRY MCSymmetry
