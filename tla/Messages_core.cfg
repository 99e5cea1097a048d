SPECIFICATION Spec
CONSTANTS
    a = a  b = b  k1 = k1  r1 = r1  r2 = r2
    t1 = t1  x1 = x1  b1 = b1  b2 = b2
    None = None
    Users = {a, b}
    MaxMsgs = 2
    Keys = {k1}
    Reqs = {r1, r2}
    Bodies = {b1}
    Tags = {t1}
    Uploads = {x1}
    Metas = {1}
    TagOwner <- OwnedByA
    Commands <- AllCommands
    TemporaryTTL = 1
    TrashTTL = 1
    KeyTTL = 2
    Batch = 1
    MaxVersion <- MostlyFirst
    MaxTime = 2
INVARIANTS LifecycleCoherent SensitiveSealed ContentKept NoLostUpdate OneMessagePerKey
PROPERTIES OnlyTrashPurged
