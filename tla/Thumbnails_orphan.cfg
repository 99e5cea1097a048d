SPECIFICATION Spec
CONSTANTS
    f1 = f1  f2 = f2
    None = None
    Files = {f1}
    MaxAttempts = 2
    MaxCrashes = 0
    MaxFaults = 1
INVARIANTS NoOrphanDerivative
CHECK_DEADLOCK FALSE
