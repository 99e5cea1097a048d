SPECIFICATION LiveSpec
CONSTANTS
    f1 = f1  f2 = f2
    None = None
    Files = {f1}
    MaxAttempts = 3
    MaxCrashes = 2
    MaxFaults = 2
INVARIANTS ReadyIntact
PROPERTIES QueueKept JobsSettle TempsRemoved
CHECK_DEADLOCK FALSE
