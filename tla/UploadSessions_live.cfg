SPECIFICATION LiveSpec
CONSTANTS
    u1 = u1  u2 = u2  p1 = p1  p2 = p2  r1 = r1  r2 = r2
    Scheduler = Scheduler  None = None
    Uploads = {u1, u2}
    Parts = {p1}
    PartsOf <- PartsOneNone
    SizeOf <- SizeOneNone
    Puts = {r1}
    MaxStaging = 1
    MaxWrites = 1
    Batch = 1
    MaxCrashes = 1
    MaxFaults = 1
CONSTRAINT OneMishap
PROPERTIES OrphansDeleted DueExpires PartsCleared
