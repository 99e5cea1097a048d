SPECIFICATION MCSpec
CONSTANTS
    r1 = r1  r2 = r2
    None = None
    Users = {u}
    Sends <- AllAndSome
    Reqs = {r1, r2}
    MaxSessions = 3
    MaxChallenges = 2
    MaxSecrets = 2
    Period = 1
    Skew = 0
    IdleLifetime = 2
    AbsoluteLifetime = 3
    TouchInterval = 1
    ChallengeLifetime = 1
    RetentionGrace = 0
    LockoutDuration = 1
    MaxChallengeAttempts = 1
    MaxFailedAttempts = 1
    MaxTime = 2
CHECK_DEADLOCK FALSE
CONSTRAINTS TwoPasswordSessions InFocus
INVARIANTS SecondFactorOnce ConfirmedSecretOnly FailuresLock AttemptsBounded
PROPERTIES RevokedFinal
