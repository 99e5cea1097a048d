SPECIFICATION Spec
CONSTANTS
    u1 = u1  u2 = u2  p1 = p1  p2 = p2  r1 = r1  r2 = r2
    Scheduler = Scheduler  None = None
    Uploads = {u1, u2}
    Parts = {p1, p2}
    PartsOf <- PartsTwoOne
    SizeOf <- SizeTwoOne
    Puts = {r1, r2}
    MaxStaging = 2
    MaxWrites = 1
    Batch = 1
    MaxCrashes = 1
    MaxFaults = 1
SYMMETRY PutSymmetry
INVARIANTS KnownHasStaging StagingReserved MarkersDurable CompletingIntact
PROPERTIES SessionAdvances
