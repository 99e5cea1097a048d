SPECIFICATION MCSpec
CONSTANTS
  Conns = {c1, c2}
  NoConn = NoConn
  Buffer = 1
  MaxVersion = 2
  MaxDrops = 1
  FailureThreshold = 2
  MaxChanges = 2
  MaxRestarts = 2
  Attempts = {a1, a2, a3}
  Names = {user, enroll}
  AddressKey = ip
  NoName = NoName
  BlockAfter = 2
  MaxShift = 1
  RateEntryTTL = 1
  MaxEntries = 3
  MaxTime = 3
  MaxBurst = 3
INVARIANTS CaughtUp DegradedForCause ChallengesLimited
PROPERTIES CatchesUp StreamsEnd HealthFollowsNas ShutdownEnds
CHECK_DEADLOCK FALSE
