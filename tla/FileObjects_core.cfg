CONSTANTS
  u1 = u1 u2 = u2 u3 = u3 c1 = c1 c2 = c2
  Uploads = {u1, u2, u3}
  Contents = {c1, c2}
  Objs = {o1, o2}
  Messages = {m1, m2}
  ContentOf <- Contended
  SizeOf <- UnitSizes
  Images = {c1}
  MaxStorage = 1
  FinalizeSlots = 2
  MaxCrashes = 1
  MaxFaults = 1
  None = None
CONSTRAINT TwoAtATime
SYMMETRY SafetySymmetry
SPECIFICATION Spec
INVARIANTS AttachmentsIntact LeaseHolds ReadyHasFile ReservationsNotStolen StagingOutlivesUpload QuotaRespected
PROPERTIES StatusOnlyAdvances
