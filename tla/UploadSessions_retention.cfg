SPECIFICATION LiveSpec
CONSTANTS
    u1 = u1  u2 = u2  p1 = p1  p2 = p2  r1 = r1  r2 = r2
    Scheduler = Scheduler  None = None
    Uploads = {u1}
    Parts = {p1}
    PartsOf <- PartsOne
    SizeOf <- SizeOne
    Puts = {r1}
    MaxStaging = 1
    MaxWrites = 1
    Batch = 1
    MaxCrashes = 0
    MaxFaults = 0
PROPERTIES RetentionEnforced
