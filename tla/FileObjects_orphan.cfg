CONSTANTS
  u1 = u1 u2 = u2 u3 = u3 c1 = c1 c2 = c2
  Uploads = {u1, u2}
  Contents = {c1, c2}
  Objs = {o1, o2}
  Messages = {m1}
  ContentOf <- SameContent
  SizeOf <- UnitSizes
  Images = {c1}
  MaxStorage = 1
  FinalizeSlots = 2
  MaxCrashes = 0
  MaxFaults = 0
  None = None
SPECIFICATION Spec
INVARIANT NoOrphanFinal
