------------------------ MODULE AuthenticationProofs ------------------------
(* Invariance proofs for Authentication, for any number of accounts, clients, *)
(* sessions, challenges and secrets, any limits and any times.                *)
EXTENDS Authentication, FiniteSetTheorems, TLAPS

(* The inductive invariant.                                                   *)

\* What a request has read is there when it writes, and the code that confirms
\* an enrollment is one of the secret it names.
TaskShaped(q) ==
    /\ q.op \in {"session", "wrong", "accepted", "ownwrong", "touch"} => q.at \in Nat
    /\ q.op \in {"wrong", "bump", "accepted"} => q.chal \in Challenges
    /\ q.op \in {"accepted", "confirm"} => q.step \in Nat
    /\ q.op = "touch" => q.sess \in Sessions
    /\ q.op = "confirm" => q.secret \in proved

\* The challenge of an accepted code is one of the account, until that goes.
OwnChallenge(q) ==
    q.op = "accepted" =>
        /\ status[q.user] # "ABSENT"
        /\ Exists(q.user) => chal[q.chal] # None /\ chal[q.chal].user = q.user

TasksGood == \A r \in Reqs : req[r] # None => TaskShaped(req[r]) /\ OwnChallenge(req[r])

\* Secrets are made once, for one account.
SecretsFresh ==
    /\ \A u \in Users : totp[u] # None => totp[u].secret <= made
    /\ \A u, v \in Users :
         (totp[u] # None /\ totp[v] # None /\ totp[u].secret = totp[v].secret) => u = v

\* The challenge that opened a session is consumed, and the enrollment, if it
\* still is the same one, has claimed the step of the code.
Spent(s) ==
    LET v == sess[s].via IN
    /\ v.secret <= made
    /\ chal[v.chal] # None /\ chal[v.chal].consumed # None /\ chal[v.chal].user = sess[s].user
    /\ \A u \in Users : (totp[u] # None /\ totp[u].secret = v.secret) =>
         totp[u].enabled /\ totp[u].last # None /\ v.step <= totp[u].last

FactorsSpent == \A s \in Opened : Spent(s)

\* Requests that are about to count an attempt on a challenge.
Guessing(c) == {r \in Reqs : (At(r, "wrong") \/ At(r, "bump")) /\ req[r].chal = c}

AttemptsCounted ==
    \A c \in Challenges : chal[c] # None =>
        chal[c].attempts + Cardinality(Guessing(c)) < MaxChallengeAttempts + Cardinality(Reqs)

IInv == /\ TypeOK /\ TasksGood /\ SecretsFresh /\ FactorsSpent
        /\ SecondFactorOnce /\ ConfirmedSecretOnly /\ FailuresLock /\ AttemptsCounted
-----------------------------------------------------------------------------
(* What most steps leave alone.                                               *)

\* A request goes on to count the attempt.
ToCount(r) == At(r, "wrong") /\ req[r] \in Tasks /\ req'[r] = [req[r] EXCEPT !.op = "bump"]

RequestsEnd == \A r \in Reqs : req'[r] \in {req[r], None} \/ ToCount(r)

AccountsKept ==
    \A u \in Users : status[u] # "ABSENT" =>
        status'[u] # "ABSENT" /\ (Exists(u)' => Exists(u))

SessionsKept ==
    \A s \in Sessions : (sess'[s] # None /\ sess'[s].via # None) =>
        s \in Opened /\ sess'[s].user = sess[s].user /\ sess'[s].via = sess[s].via

\* A challenge goes only with its account.
ChallengesKept ==
    \A c \in Challenges : chal[c] # None =>
        \/ /\ chal'[c] # None /\ chal'[c].user = chal[c].user
           /\ chal[c].consumed # None => chal'[c].consumed # None
        \/ /\ status'[chal[c].user] \notin {"ACTIVE", "DISABLED"}
           /\ \A s \in Sessions : sess'[s] # None => sess'[s].user # chal[c].user

SameEnrollment(e, f) ==
    /\ f.secret = e.secret
    /\ e.enabled => f.enabled
    /\ e.last # None => f.last # None /\ e.last <= f.last

EnrollmentsKept ==
    \A u \in Users : totp'[u] # None => totp[u] # None /\ SameEnrollment(totp[u], totp'[u])

FactorFacts == TasksGood /\ SecretsFresh /\ FactorsSpent /\ SecondFactorOnce

\* A step that spends no code and makes no secret.
LEMMA FactorsKeep ==
  ASSUME IInv, TypeOK', RequestsEnd, AccountsKept, SessionsKept, ChallengesKept, EnrollmentsKept,
         UNCHANGED <<made, proved>>
  PROVE  FactorFacts'
  <1>1. TasksGood'
    <2>. SUFFICES ASSUME NEW r \in Reqs, req'[r] # None
                  PROVE  TaskShaped(req[r])' /\ OwnChallenge(req[r])'
      BY DEF TasksGood
    <2>0. PICK q : q = req'[r]
      OBVIOUS
    <2>1. CASE ToCount(r)
      <3>1. req[r] \in Tasks /\ req[r].op = "wrong" /\ req[r] # None
        BY <2>1 DEF ToCount, At
      <3>2. req[r].chal \in Challenges
        BY <3>1 DEF IInv, TasksGood, TaskShaped
      <3>3. q.op = "bump" /\ q.chal = req[r].chal
        BY <2>0, <2>1, <3>1 DEF ToCount, Tasks
      <3>4. TaskShaped(q)' /\ OwnChallenge(q)'
        BY <3>2, <3>3 DEF TaskShaped, OwnChallenge
      <3>. QED
        BY <2>0, <3>4 DEF TaskShaped, OwnChallenge, Exists
    <2>. SUFFICES ASSUME ~ToCount(r)
                  PROVE  TaskShaped(req[r])' /\ OwnChallenge(req[r])'
      BY <2>1
    <2>2. req'[r] = q /\ q # None /\ q = req[r]
      BY <2>0 DEF RequestsEnd
    <2>3. TaskShaped(q) /\ OwnChallenge(q) /\ q \in Tasks
      BY <2>2 DEF IInv, TasksGood, TypeOK, Maybe
    <2>4. q.user \in Users /\ (q.op = "accepted" => q.chal \in Challenges)
      BY <2>3 DEF Tasks, TaskShaped
    <2>5. TaskShaped(q)'
      BY <2>3 DEF TaskShaped
    <2>6. OwnChallenge(q)'
      <3>. SUFFICES ASSUME q.op = "accepted"
                    PROVE  /\ status'[q.user] # "ABSENT"
                           /\ Exists(q.user)' => chal'[q.chal] # None /\ chal'[q.chal].user = q.user
        BY DEF OwnChallenge
      <3>1. /\ status[q.user] # "ABSENT" /\ q.chal \in Challenges
            /\ Exists(q.user) => chal[q.chal] # None /\ chal[q.chal].user = q.user
        BY <2>3, <2>4 DEF OwnChallenge
      <3>2. status'[q.user] # "ABSENT" /\ (Exists(q.user)' => Exists(q.user))
        BY <2>4, <3>1 DEF AccountsKept, Exists
      <3>3. Exists(q.user)' => chal'[q.chal] # None /\ chal'[q.chal].user = q.user
        BY <3>1, <3>2 DEF ChallengesKept, Exists
      <3>. QED
        BY <3>2, <3>3
    <2>. QED
      BY <2>2, <2>5, <2>6 DEF TaskShaped, OwnChallenge, Exists
  <1>2. SecretsFresh'
    BY DEF IInv, SecretsFresh, EnrollmentsKept, SameEnrollment
  <1>3. ASSUME NEW s \in Opened'
        PROVE  s \in Opened /\ sess'[s].via = sess[s].via /\ Spent(s)'
    <2>1. /\ s \in Opened /\ s \in Sessions /\ sess'[s] # None
          /\ sess'[s].user = sess[s].user /\ sess'[s].via = sess[s].via
      BY <1>3 DEF Opened, SessionsKept
    <2>. DEFINE v == sess[s].via
    <2>2. v \in Factors
      BY <2>1 DEF Opened, IInv, TypeOK, Maybe, SessionRows
    <2>3. /\ v.secret <= made
          /\ chal[v.chal] # None /\ chal[v.chal].consumed # None
          /\ chal[v.chal].user = sess[s].user
          /\ \A u \in Users : (totp[u] # None /\ totp[u].secret = v.secret) =>
               totp[u].enabled /\ totp[u].last # None /\ v.step <= totp[u].last
      BY <2>1 DEF IInv, FactorsSpent, Spent
    <2>4. v.chal \in Challenges /\ v.step \in Nat
      BY <2>2 DEF Factors
    <2>5. \A u \in Users : /\ totp[u] # None /\ totp[u].last # None => totp[u].last \in Nat
                           /\ totp'[u] # None /\ totp'[u].last # None => totp'[u].last \in Nat
      BY DEF IInv, TypeOK, Maybe, Enrollments
    <2>. HIDE DEF v
    <2>6. /\ chal'[v.chal] # None /\ chal'[v.chal].consumed # None
          /\ chal'[v.chal].user = sess'[s].user
      BY <2>1, <2>3, <2>4 DEF ChallengesKept
    <2>7. ASSUME NEW u \in Users, totp'[u] # None, totp'[u].secret = v.secret
          PROVE  totp'[u].enabled /\ totp'[u].last # None /\ v.step <= totp'[u].last
      <3>1. totp[u] # None /\ SameEnrollment(totp[u], totp'[u])
        BY <2>7 DEF EnrollmentsKept
      <3>2. totp[u].enabled /\ totp[u].last # None /\ v.step <= totp[u].last
        BY <2>3, <2>7, <3>1 DEF SameEnrollment
      <3>3. totp'[u].enabled /\ totp'[u].last # None /\ totp[u].last <= totp'[u].last
        BY <3>1, <3>2 DEF SameEnrollment
      <3>. QED
        BY <2>4, <2>5, <2>7, <3>1, <3>2, <3>3
    <2>8. v.secret <= made'
      BY <2>3
    <2>9. v = sess'[s].via
      BY <2>1 DEF v
    <2>. QED
      BY <2>1, <2>6, <2>7, <2>8, <2>9 DEF Spent
  <1>4. FactorsSpent'
    BY <1>3 DEF FactorsSpent
  <1>5. SecondFactorOnce'
    BY <1>3 DEF IInv, SecondFactorOnce
  <1>. QED
    BY <1>1, <1>2, <1>4, <1>5 DEF FactorFacts

AttemptsKept ==
    \A c \in Challenges : chal'[c] # None =>
        chal'[c].attempts = 0 \/ (chal[c] # None /\ chal'[c].attempts = chal[c].attempts)

LEMMA GuessingCounted ==
  ASSUME NEW c
  PROVE  /\ IsFiniteSet(Guessing(c)) /\ Cardinality(Guessing(c)) \in Nat
         /\ Cardinality(Reqs) \in Nat /\ Cardinality(Guessing(c)) <= Cardinality(Reqs)
  <1>1. Guessing(c) \subseteq Reqs
    BY DEF Guessing
  <1>. QED
    BY <1>1, FiniteRequests, FS_Subset, FS_CardinalityType

LEMMA AttemptsKeep ==
  ASSUME IInv, RequestsEnd, AttemptsKept
  PROVE  AttemptsCounted'
  <1>. SUFFICES ASSUME NEW c \in Challenges, chal'[c] # None
                PROVE  chal'[c].attempts + Cardinality(Guessing(c)')
                         < MaxChallengeAttempts + Cardinality(Reqs)
    BY DEF AttemptsCounted
  <1>1. Guessing(c)' \subseteq Guessing(c)
    <2>. SUFFICES ASSUME NEW r \in Guessing(c)' PROVE r \in Guessing(c)
      OBVIOUS
    <2>1. r \in Reqs /\ req'[r] # None /\ req'[r].op \in {"wrong", "bump"} /\ req'[r].chal = c
      BY DEF Guessing, At
    <2>2. CASE ToCount(r)
      BY <2>1, <2>2 DEF ToCount, Tasks, Guessing, At
    <2>3. CASE req'[r] = req[r]
      BY <2>1, <2>3 DEF Guessing, At
    <2>. QED
      BY <2>1, <2>2, <2>3 DEF RequestsEnd
  <1>2. /\ Cardinality(Guessing(c)') <= Cardinality(Guessing(c)) /\ Cardinality(Guessing(c)') \in Nat
    BY <1>1, GuessingCounted, FS_Subset, FS_CardinalityType
  <1>3. CASE chal'[c].attempts = 0
    BY <1>2, <1>3, GuessingCounted, PositiveBounds
  <1>4. CASE chal[c] # None /\ chal'[c].attempts = chal[c].attempts
    <2>1. chal[c].attempts \in Nat
      BY <1>4 DEF IInv, TypeOK, Maybe, ChallengeRows
    <2>2. chal[c].attempts + Cardinality(Guessing(c)) < MaxChallengeAttempts + Cardinality(Reqs)
      BY <1>4 DEF IInv, AttemptsCounted
    <2>. QED
      BY <1>2, <1>4, <2>1, <2>2, GuessingCounted, PositiveBounds
  <1>. QED
    BY <1>3, <1>4 DEF AttemptsKept

\* No enrollment is enabled, and none reaches the limit of failures unlocked.
LocksKept ==
    \A u \in Users : totp'[u] # None =>
        /\ totp[u] # None /\ totp'[u].secret = totp[u].secret
        /\ totp'[u].enabled => totp[u].enabled
        /\ \/ totp'[u].failed = totp[u].failed /\ totp'[u].locked = totp[u].locked
           \/ ~(totp'[u].failed >= MaxFailedAttempts)
           \/ totp'[u].locked # None

LEMMA LocksKeep ==
  ASSUME IInv, LocksKept, UNCHANGED proved
  PROVE  ConfirmedSecretOnly' /\ FailuresLock'
  BY DEF IInv, LocksKept, ConfirmedSecretOnly, FailuresLock

\* A table that does not change.
LEMMA SameTables ==
  ASSUME IInv
  PROVE  /\ UNCHANGED status => AccountsKept
         /\ UNCHANGED sess => SessionsKept
         /\ UNCHANGED chal => ChallengesKept /\ AttemptsKept
         /\ UNCHANGED totp => EnrollmentsKept /\ LocksKept
  <1>1. UNCHANGED status => AccountsKept
    BY DEF AccountsKept, Exists
  <1>2. UNCHANGED sess => SessionsKept
    BY DEF SessionsKept, Opened
  <1>3. UNCHANGED chal => ChallengesKept /\ AttemptsKept
    BY DEF ChallengesKept, AttemptsKept
  <1>4. \A u \in Users : totp[u] # None /\ totp[u].last # None => totp[u].last \in Nat
    BY DEF IInv, TypeOK, Maybe, Enrollments
  <1>5. UNCHANGED totp => EnrollmentsKept /\ LocksKept
    BY <1>4 DEF EnrollmentsKept, SameEnrollment, LocksKept
  <1>. QED
    BY <1>1, <1>2, <1>3, <1>5

LEMMA EndsEnd ==
  ASSUME IInv, NEW r \in Reqs, End(r)
  PROVE  /\ RequestsEnd /\ req' \in [Reqs -> Maybe(Tasks)]
         /\ req'[r] = None /\ \A p \in Reqs \ {r} : req'[p] = req[p]
  BY DEF IInv, TypeOK, End, RequestsEnd, Maybe

LEMMA KeptKeeps ==
  ASSUME IInv, TypeOK', RequestsEnd, AccountsKept, SessionsKept, ChallengesKept, EnrollmentsKept,
         AttemptsKept, LocksKept, UNCHANGED <<made, proved>>
  PROVE  IInv'
  BY FactorsKeep, AttemptsKeep, LocksKeep DEF IInv, FactorFacts

-----------------------------------------------------------------------------
(* Requests that begin: the reads.                                            *)

LEMMA TaskTyped ==
  ASSUME NEW op \in Ops, NEW u \in Users, now \in Nat
  PROVE  /\ Task(op, u) \in Tasks /\ Timed(op, u) \in Tasks
         /\ Task(op, u).op = op /\ Timed(op, u).op = op /\ Timed(op, u).at = now
         /\ Timed(op, u).user = u
  BY DEF Task, Timed, Tasks, Maybe

\* A task is begun on a challenge that has attempts left, with an account that
\* owns it.
LEMMA BeginKeeps ==
  ASSUME IInv, NEW r \in Reqs, NEW task \in Tasks, Idle(r), Begin(r, task),
         proved' \in SUBSET Secrets, proved \subseteq proved',
         UNCHANGED <<status, totp, made, chal, sess, now>>,
         task.op \in {"session", "wrong", "accepted", "ownwrong", "touch"} => task.at \in Nat,
         task.op \in {"wrong", "bump", "accepted"} => task.chal \in Challenges,
         task.op \in {"accepted", "confirm"} => task.step \in Nat,
         task.op = "touch" => task.sess \in Sessions,
         task.op = "confirm" => task.secret \in proved',
         task.op = "accepted" => /\ status[task.user] # "ABSENT" /\ chal[task.chal] # None
                                 /\ chal[task.chal].user = task.user,
         task.op \in {"wrong", "bump"} => /\ chal[task.chal] # None
                                          /\ chal[task.chal].attempts < MaxChallengeAttempts
  PROVE  IInv'
  <1>1. req'[r] = task /\ (\A p \in Reqs \ {r} : req'[p] = req[p]) /\ req' \in [Reqs -> Maybe(Tasks)]
    BY DEF Begin, IInv, TypeOK, Maybe
  <1>2. TypeOK'
    BY <1>1 DEF IInv, TypeOK
  <1>3. TasksGood'
    <2>1. TaskShaped(task)' /\ OwnChallenge(task)'
      BY DEF TaskShaped, OwnChallenge, Exists
    <2>2. ASSUME NEW p \in Reqs \ {r}, req'[p] # None
          PROVE  TaskShaped(req[p])' /\ OwnChallenge(req[p])'
      <3>1. PICK q : q = req[p]
        OBVIOUS
      <3>2. TaskShaped(q) /\ OwnChallenge(q) /\ req'[p] = q
        BY <1>1, <2>2, <3>1 DEF IInv, TasksGood
      <3>3. TaskShaped(q)' /\ OwnChallenge(q)'
        BY <3>2 DEF TaskShaped, OwnChallenge, Exists
      <3>. QED
        BY <3>2, <3>3 DEF TaskShaped, OwnChallenge, Exists
    <2>3. TaskShaped(req[r])' /\ OwnChallenge(req[r])'
      BY <1>1, <2>1 DEF TaskShaped, OwnChallenge, Exists
    <2>. QED
      BY <2>2, <2>3 DEF TasksGood
  <1>4. AttemptsCounted'
    <2>. SUFFICES ASSUME NEW c \in Challenges, chal[c] # None
                  PROVE  chal[c].attempts + Cardinality(Guessing(c)')
                           < MaxChallengeAttempts + Cardinality(Reqs)
      BY DEF AttemptsCounted
    <2>1. chal[c].attempts \in Nat
      BY DEF IInv, TypeOK, Maybe, ChallengeRows
    <2>2. Guessing(c)' \subseteq Reqs
      BY DEF Guessing
    <2>3. /\ Cardinality(Guessing(c)') \in Nat /\ Cardinality(Guessing(c)') <= Cardinality(Reqs)
      BY <2>2, FiniteRequests, FS_Subset, FS_CardinalityType
    <2>4. CASE task.op \in {"wrong", "bump"} /\ task.chal = c
      BY <2>1, <2>3, <2>4, GuessingCounted, PositiveBounds
    <2>5. CASE ~(task.op \in {"wrong", "bump"} /\ task.chal = c)
      <3>1. Guessing(c)' = Guessing(c)
        BY <1>1, <2>5 DEF Guessing, At, Idle
      <3>. QED
        BY <3>1 DEF IInv, AttemptsCounted
    <2>. QED
      BY <2>4, <2>5
  <1>5. SecretsFresh' /\ FailuresLock' /\ ConfirmedSecretOnly'
    BY DEF IInv, SecretsFresh, FailuresLock, ConfirmedSecretOnly
  <1>6. FactorsSpent' /\ SecondFactorOnce'
    BY DEF IInv, FactorsSpent, Spent, SecondFactorOnce, Opened
  <1>. QED
    BY <1>2, <1>3, <1>4, <1>5, <1>6 DEF IInv

LEMMA LoginVerifyKeeps ==
  ASSUME IInv, NEW r \in Reqs, NEW u \in Users, LoginVerify(r, u)
  PROVE  IInv'
  <1>1. UNCHANGED <<status, totp, made, proved, chal, sess, now>> /\ Idle(r)
    BY DEF LoginVerify, database
  <1>2. proved' \in SUBSET Secrets /\ now \in Nat
    BY <1>1 DEF IInv, TypeOK
  <1>3. CASE Begin(r, Task("challenge", u))
    <2>1. Task("challenge", u) \in Tasks /\ Task("challenge", u).op = "challenge"
      BY <1>2, TaskTyped DEF Ops
    <2>. QED
      BY <1>1, <1>2, <1>3, <2>1, BeginKeeps
  <1>4. CASE Begin(r, Timed("session", u))
    <2>1. Timed("session", u) \in Tasks /\ Timed("session", u).op = "session"
          /\ Timed("session", u).at = now
      BY <1>2, TaskTyped DEF Ops
    <2>. QED
      BY <1>1, <1>2, <1>4, <2>1, BeginKeeps
  <1>. QED
    BY <1>3, <1>4 DEF LoginVerify

LEMMA CompleteLoginKeeps ==
  ASSUME IInv, NEW r \in Reqs, NEW c \in Challenges, CompleteLoginTOTP(r, c)
  PROVE  IInv'
  <1>. DEFINE u == chal[c].user
  <1>1. UNCHANGED <<status, totp, made, proved, chal, sess, now>> /\ Idle(r)
    BY DEF CompleteLoginTOTP, database
  <1>2. /\ chal[c] # None /\ chal[c].attempts < MaxChallengeAttempts
        /\ status[u] = "ACTIVE"
    BY DEF CompleteLoginTOTP, ChallengeUsable, GetTOTPChallengeByHash
  <1>3. proved' \in SUBSET Secrets /\ now \in Nat /\ u \in Users
    BY <1>1, <1>2 DEF IInv, TypeOK, Maybe, ChallengeRows
  <1>4. CASE Begin(r, [Timed("wrong", u) EXCEPT !.chal = c])
    <2>. DEFINE t == [Timed("wrong", u) EXCEPT !.chal = c]
    <2>1. t \in Tasks /\ t.op = "wrong" /\ t.at = now /\ t.chal = c
      BY <1>3 DEF Timed, Task, Tasks, Maybe, Ops
    <2>. HIDE DEF t
    <2>. QED
      BY <1>1, <1>2, <1>3, <1>4, <2>1, BeginKeeps DEF t
  <1>5. CASE \E st \in ValidateTOTP(now, totp[u].last) :
               Begin(r, [Timed("accepted", u) EXCEPT !.chal = c, !.step = st])
    <2>1. PICK st \in ValidateTOTP(now, totp[u].last) :
               Begin(r, [Timed("accepted", u) EXCEPT !.chal = c, !.step = st])
      BY <1>5
    <2>. DEFINE t == [Timed("accepted", u) EXCEPT !.chal = c, !.step = st]
    <2>2. st \in Nat
      BY DEF ValidateTOTP
    <2>3. t \in Tasks /\ t.op = "accepted" /\ t.at = now /\ t.chal = c /\ t.step = st /\ t.user = u
      BY <1>3, <2>2 DEF Timed, Task, Tasks, Maybe, Ops
    <2>4. Begin(r, t)
      BY <2>1
    <2>. HIDE DEF t, u
    <2>. QED
      BY <1>1, <1>2, <1>3, <2>2, <2>3, <2>4, BeginKeeps DEF u
  <1>. QED
    BY <1>4, <1>5 DEF CompleteLoginTOTP

LEMMA OwnRequestsKeep ==
  ASSUME IInv, NEW r \in Reqs, NEW u \in Users,
         StartTOTPEnrollment(r, u) \/ OwnCodeWrong(r, u) \/ DisableTOTP(r, u)
  PROVE  IInv'
  <1>1. UNCHANGED <<status, totp, made, proved, chal, sess, now>> /\ Idle(r)
    BY DEF StartTOTPEnrollment, OwnCodeWrong, DisableTOTP, database
  <1>2. proved' \in SUBSET Secrets /\ now \in Nat
    BY <1>1 DEF IInv, TypeOK
  <1>3. CASE Begin(r, Task("enroll", u))
    <2>1. Task("enroll", u) \in Tasks /\ Task("enroll", u).op = "enroll"
      BY <1>2, TaskTyped DEF Ops
    <2>. QED
      BY <1>1, <1>2, <1>3, <2>1, BeginKeeps
  <1>4. CASE Begin(r, Timed("ownwrong", u))
    <2>1. Timed("ownwrong", u) \in Tasks /\ Timed("ownwrong", u).op = "ownwrong"
          /\ Timed("ownwrong", u).at = now
      BY <1>2, TaskTyped DEF Ops
    <2>. QED
      BY <1>1, <1>2, <1>4, <2>1, BeginKeeps
  <1>5. CASE Begin(r, Task("disable", u))
    <2>1. Task("disable", u) \in Tasks /\ Task("disable", u).op = "disable"
      BY <1>2, TaskTyped DEF Ops
    <2>. QED
      BY <1>1, <1>2, <1>5, <2>1, BeginKeeps
  <1>. QED
    BY <1>3, <1>4, <1>5 DEF StartTOTPEnrollment, OwnCodeWrong, DisableTOTP

LEMMA ConfirmKeeps ==
  ASSUME IInv, NEW r \in Reqs, NEW u \in Users, ConfirmTOTPEnrollment(r, u)
  PROVE  IInv'
  <1>1. /\ UNCHANGED <<status, totp, made, chal, sess, now>> /\ Idle(r)
        /\ proved' = proved \union {totp[u].secret} /\ totp[u] # None
    BY DEF ConfirmTOTPEnrollment, ReadEnrollment
  <1>2. totp[u].secret \in Secrets /\ now \in Nat
    BY <1>1 DEF IInv, TypeOK, Maybe, Enrollments
  <1>3. PICK st \in ValidateTOTP(now, None) :
          Begin(r, [Task("confirm", u) EXCEPT !.secret = totp[u].secret, !.step = st])
    BY DEF ConfirmTOTPEnrollment
  <1>. DEFINE t == [Task("confirm", u) EXCEPT !.secret = totp[u].secret, !.step = st]
  <1>4. st \in Nat
    BY DEF ValidateTOTP
  <1>5. t \in Tasks /\ t.op = "confirm" /\ t.step = st /\ t.secret = totp[u].secret
    BY <1>2, <1>4 DEF Task, Tasks, Maybe, Ops
  <1>6. Begin(r, t)
    BY <1>3
  <1>. HIDE DEF t
  <1>7. proved' \in SUBSET Secrets /\ t.secret \in proved' /\ proved \subseteq proved'
    BY <1>1, <1>2, <1>5 DEF IInv, TypeOK
  <1>. QED
    BY <1>1, <1>4, <1>5, <1>6, <1>7, BeginKeeps

LEMMA TouchReadKeeps ==
  ASSUME IInv, NEW r \in Reqs, NEW s \in Sessions, TouchAuthenticated(r, s)
  PROVE  IInv'
  <1>. DEFINE t == [Timed("touch", sess[s].user) EXCEPT !.sess = s]
  <1>1. UNCHANGED <<status, totp, made, proved, chal, sess, now>> /\ Idle(r) /\ Begin(r, t)
    BY DEF TouchAuthenticated, database
  <1>2. sess[s] # None
    BY DEF TouchAuthenticated, Valid, GetAuthByTokenHash
  <1>3. proved' \in SUBSET Secrets /\ now \in Nat /\ sess[s].user \in Users
    BY <1>1, <1>2 DEF IInv, TypeOK, Maybe, SessionRows
  <1>4. t \in Tasks /\ t.op = "touch" /\ t.at = now /\ t.sess = s
    BY <1>3 DEF Timed, Task, Tasks, Maybe, Ops
  <1>. HIDE DEF t
  <1>. QED
    BY <1>1, <1>3, <1>4, BeginKeeps

-----------------------------------------------------------------------------
(* Sessions and challenges.                                                   *)

LEMMA SessionStepKeeps ==
  ASSUME IInv, RequestsEnd, req' \in [Reqs -> Maybe(Tasks)],
         sess' \in [Sessions -> Maybe(SessionRows)], SessionsKept,
         UNCHANGED <<status, totp, made, proved, chal, now>>
  PROVE  IInv'
  <1>1. TypeOK'
    BY DEF IInv, TypeOK
  <1>. QED
    BY <1>1, KeptKeeps, SameTables

LEMMA NewSessionTyped ==
  ASSUME NEW u \in Users, NEW at \in Nat, NEW via \in Maybe(Factors)
  PROVE  /\ NewSession(u, at, via) \in SessionRows /\ NewSession(u, at, via) # None
         /\ NewSession(u, at, via).user = u /\ NewSession(u, at, via).via = via
  <1>1. at + IdleLifetime \in Nat /\ at + AbsoluteLifetime \in Nat
    BY LifetimesTyped
  <1>2. NewSession(u, at, via) \in SessionRows
    BY <1>1 DEF NewSession, SessionRows
  <1>3. NewSession(u, at, via).user = u /\ NewSession(u, at, via).via = via
    BY DEF NewSession
  <1>. QED
    BY <1>2, <1>3, NoneIsNoRecord

LEMMA LoginSessionKeeps ==
  ASSUME IInv, NEW r \in Reqs, LoginCreateSession(r)
  PROVE  IInv'
  <1>1. /\ req[r] # None /\ req[r].op = "session" /\ End(r)
        /\ UNCHANGED <<status, totp, made, proved, chal, now>>
    BY DEF LoginCreateSession, At
  <1>2. PICK s \in Sessions : sess' = [sess EXCEPT ![s] = NewSession(req[r].user, req[r].at, None)]
    BY DEF LoginCreateSession, NewIds
  <1>3. req[r].user \in Users /\ req[r].at \in Nat
    BY <1>1 DEF IInv, TypeOK, TasksGood, TaskShaped, Maybe, Tasks
  <1>. DEFINE n == NewSession(req[r].user, req[r].at, None)
  <1>4. n \in SessionRows /\ n.via = None
    BY <1>3, NewSessionTyped DEF Maybe
  <1>5. sess' = [sess EXCEPT ![s] = n]
    BY <1>2
  <1>. HIDE DEF n
  <1>6. sess' \in [Sessions -> Maybe(SessionRows)]
    BY <1>4, <1>5 DEF IInv, TypeOK, Maybe
  <1>7. SessionsKept
    BY <1>4, <1>5 DEF SessionsKept, Opened, IInv, TypeOK
  <1>. QED
    BY <1>1, <1>6, <1>7, EndsEnd, SessionStepKeeps

\* Touching and revoking change neither the account nor the factor of a session.
LEMMA TouchedKept ==
  ASSUME IInv, NEW s \in Sessions, NEW at \in Nat
  PROVE  /\ TouchSession(s, at) \in Maybe(SessionRows)
         /\ TouchSession(s, at) = None <=> sess[s] = None
         /\ sess[s] # None => /\ TouchSession(s, at).user = sess[s].user
                              /\ TouchSession(s, at).via = sess[s].via
                              /\ sess[s].revoked => TouchSession(s, at) = sess[s]
  <1>1. CASE sess[s] = None \/ sess[s].revoked
    BY <1>1 DEF TouchSession, IInv, TypeOK
  <1>2. CASE ~(sess[s] = None \/ sess[s].revoked)
    <2>1. sess[s] \in SessionRows
      BY <1>2 DEF IInv, TypeOK, Maybe
    <2>2. Least(at + IdleLifetime, sess[s].abs) \in Nat
      BY <2>1, LifetimesTyped DEF Least, SessionRows
    <2>. DEFINE n == [sess[s] EXCEPT !.exp = Least(at + IdleLifetime, sess[s].abs)]
    <2>3. n \in SessionRows /\ n.user = sess[s].user /\ n.via = sess[s].via
      BY <2>1, <2>2 DEF SessionRows
    <2>4. TouchSession(s, at) = n
      BY <1>2 DEF TouchSession
    <2>. HIDE DEF n
    <2>. QED
      BY <1>2, <2>3, <2>4, NoneIsNoRecord DEF Maybe
  <1>. QED
    BY <1>1, <1>2

LEMMA TouchKeeps ==
  ASSUME IInv, NEW r \in Reqs, Touch(r)
  PROVE  IInv'
  <1>1. /\ req[r] # None /\ req[r].op = "touch" /\ End(r)
        /\ UNCHANGED <<status, totp, made, proved, chal, now>>
        /\ sess' = [sess EXCEPT ![req[r].sess] = TouchSession(req[r].sess, req[r].at)]
    BY DEF Touch, At
  <1>2. req[r].sess \in Sessions /\ req[r].at \in Nat
    BY <1>1 DEF IInv, TasksGood, TaskShaped
  <1>3. sess' \in [Sessions -> Maybe(SessionRows)]
    BY <1>1, <1>2, TouchedKept DEF IInv, TypeOK
  <1>4. SessionsKept
    BY <1>1, <1>2, TouchedKept DEF SessionsKept, Opened, IInv, TypeOK
  <1>. QED
    BY <1>1, <1>3, <1>4, EndsEnd, SessionStepKeeps

LEMMA RevokedKept ==
  ASSUME IInv, NEW S
  PROVE  /\ RevokeWhere(S) \in [Sessions -> Maybe(SessionRows)]
         /\ \A s \in Sessions :
              /\ RevokeWhere(S)[s] = None <=> sess[s] = None
              /\ sess[s] # None => /\ RevokeWhere(S)[s].user = sess[s].user
                                   /\ RevokeWhere(S)[s].via = sess[s].via
                                   /\ sess[s].revoked => RevokeWhere(S)[s] = sess[s]
  <1>. DEFINE n(s) == IF s \in S /\ sess[s] # None THEN [sess[s] EXCEPT !.revoked = TRUE]
                      ELSE sess[s]
  <1>1. ASSUME NEW s \in Sessions
        PROVE  /\ n(s) \in Maybe(SessionRows) /\ (n(s) = None <=> sess[s] = None)
               /\ sess[s] # None => /\ n(s).user = sess[s].user /\ n(s).via = sess[s].via
                                    /\ sess[s].revoked => n(s) = sess[s]
    <2>1. CASE sess[s] = None
      BY <2>1 DEF Maybe
    <2>2. CASE sess[s] # None
      <3>1. sess[s] \in SessionRows
        BY <2>2 DEF IInv, TypeOK, Maybe
      <3>. DEFINE m == [sess[s] EXCEPT !.revoked = TRUE]
      <3>2. /\ m \in SessionRows /\ m.user = sess[s].user /\ m.via = sess[s].via
            /\ sess[s].revoked => m = sess[s]
        BY <3>1 DEF SessionRows
      <3>3. n(s) \in {m, sess[s]}
        BY <2>2
      <3>. HIDE DEF n, m
      <3>. QED
        BY <2>2, <3>1, <3>2, <3>3, NoneIsNoRecord DEF Maybe
    <2>. QED
      BY <2>1, <2>2
  <1>2. RevokeWhere(S) = [s \in Sessions |-> n(s)]
    BY DEF RevokeWhere
  <1>. HIDE DEF n
  <1>. QED
    BY <1>1, <1>2

LEMMA RevokeKeeps ==
  ASSUME IInv, NEW S, sess' = RevokeWhere(S),
         UNCHANGED <<status, totp, made, proved, chal, req, now>>
  PROVE  IInv'
  <1>1. SessionsKept
    BY RevokedKept DEF SessionsKept, Opened
  <1>2. RequestsEnd /\ req' \in [Reqs -> Maybe(Tasks)]
    BY DEF RequestsEnd, IInv, TypeOK
  <1>. QED
    BY <1>1, <1>2, RevokedKept, SessionStepKeeps

LEMMA ChallengeStepKeeps ==
  ASSUME IInv, RequestsEnd, req' \in [Reqs -> Maybe(Tasks)],
         chal' \in [Challenges -> Maybe(ChallengeRows)], ChallengesKept, AttemptsKept,
         UNCHANGED <<status, totp, made, proved, sess, now>>
  PROVE  IInv'
  <1>1. TypeOK'
    BY DEF IInv, TypeOK
  <1>. QED
    BY <1>1, KeptKeeps, SameTables

LEMMA NewChallengeKeeps ==
  ASSUME IInv, NEW r \in Reqs, NewLoginChallenge(r)
  PROVE  IInv'
  <1>1. /\ req[r] # None /\ End(r) /\ UNCHANGED <<status, totp, made, proved, sess, now>>
    BY DEF NewLoginChallenge, At
  <1>2. PICK c \in Challenges : /\ chal[c] = None
                                /\ chal' = [chal EXCEPT ![c] = CreateTOTPChallenge(req[r].user)]
    BY DEF NewLoginChallenge, NewIds
  <1>. DEFINE n == CreateTOTPChallenge(req[r].user)
  <1>3. req[r].user \in Users /\ now + ChallengeLifetime \in Nat
    BY <1>1, LifetimesTyped DEF IInv, TypeOK, Maybe, Tasks
  <1>4. n \in ChallengeRows /\ n.attempts = 0
    BY <1>3 DEF CreateTOTPChallenge, ChallengeRows, Maybe
  <1>5. chal' = [chal EXCEPT ![c] = n]
    BY <1>2
  <1>. HIDE DEF n
  <1>6. chal' \in [Challenges -> Maybe(ChallengeRows)]
    BY <1>4, <1>5 DEF IInv, TypeOK, Maybe
  <1>7. ChallengesKept /\ AttemptsKept
    BY <1>2, <1>4, <1>5 DEF ChallengesKept, AttemptsKept, IInv, TypeOK
  <1>. QED
    BY <1>1, <1>6, <1>7, EndsEnd, ChallengeStepKeeps

LEMMA CleanupKeeps ==
  ASSUME IInv, CleanupTOTPChallenges
  PROVE  IInv'
  <1>. DEFINE doomed == DeleteExpiredTOTPChallenges(now - RetentionGrace)
  <1>1. /\ UNCHANGED <<status, totp, made, proved, sess, req, now>>
        /\ chal' = [c \in Challenges |-> IF c \in doomed THEN [chal[c] EXCEPT !.gone = TRUE]
                                        ELSE chal[c]]
    BY DEF CleanupTOTPChallenges
  <1>2. ASSUME NEW c \in Challenges, c \in doomed
        PROVE  LET n == [chal[c] EXCEPT !.gone = TRUE] IN
               /\ chal[c] # None /\ n \in ChallengeRows /\ n # None /\ n.user = chal[c].user
               /\ n.consumed = chal[c].consumed /\ n.attempts = chal[c].attempts
    <2>1. chal[c] # None
      BY <1>2 DEF DeleteExpiredTOTPChallenges
    <2>2. chal[c] \in ChallengeRows
      BY <2>1 DEF IInv, TypeOK, Maybe
    <2>3. [chal[c] EXCEPT !.gone = TRUE] \in ChallengeRows
      BY <2>2 DEF ChallengeRows
    <2>. QED
      BY <2>1, <2>2, <2>3, NoneIsNoRecord DEF ChallengeRows
  <1>. HIDE DEF doomed
  <1>3. chal' \in [Challenges -> Maybe(ChallengeRows)]
    BY <1>1, <1>2 DEF IInv, TypeOK, Maybe
  <1>4. ChallengesKept /\ AttemptsKept
    BY <1>1, <1>2 DEF ChallengesKept, AttemptsKept
  <1>5. RequestsEnd /\ req' \in [Reqs -> Maybe(Tasks)]
    BY <1>1 DEF RequestsEnd, IInv, TypeOK
  <1>. QED
    BY <1>1, <1>3, <1>4, <1>5, ChallengeStepKeeps

-----------------------------------------------------------------------------
(* Enrollments.                                                               *)

LEMMA FailureCounted ==
  ASSUME IInv, NEW u \in Users, NEW at \in Nat, totp' = RecordTOTPFailure(u, at)
  PROVE  /\ totp' \in [Users -> Maybe(Enrollments)] /\ EnrollmentsKept /\ LocksKept
  <1>1. CASE totp[u] = None
    <2>1. totp' = totp
      BY <1>1 DEF RecordTOTPFailure, IInv, TypeOK
    <2>. QED
      BY <2>1, SameTables DEF IInv, TypeOK
  <1>2. CASE totp[u] # None
    <2>. DEFINE e == totp[u]
                f == [e EXCEPT !.failed = e.failed + 1,
                               !.locked = IF e.failed + 1 >= MaxFailedAttempts
                                          THEN at + LockoutDuration ELSE e.locked]
    <2>1. e \in Enrollments
      BY <1>2 DEF IInv, TypeOK, Maybe
    <2>2. at + LockoutDuration \in Nat /\ e.failed + 1 \in Nat
      BY <2>1, LifetimesTyped DEF Enrollments
    <2>3. f \in Enrollments
      BY <2>1, <2>2 DEF Enrollments, Maybe
    <2>4. /\ f.secret = e.secret /\ f.enabled = e.enabled /\ f.last = e.last
          /\ ~(f.failed >= MaxFailedAttempts) \/ f.locked # None
      BY <2>1, <2>2, NoneIsNothing DEF Enrollments
    <2>5. totp' = [totp EXCEPT ![u] = f]
      <3>1. totp' = [totp EXCEPT ![u] = IF totp[u] = None THEN None ELSE f]
        BY DEF RecordTOTPFailure
      <3>. HIDE DEF f
      <3>. QED
        BY <1>2, <3>1
    <2>. HIDE DEF f
    <2>6. totp'[u] = f /\ \A v \in Users \ {u} : totp'[v] = totp[v]
      BY <2>5 DEF IInv, TypeOK
    <2>7. \A v \in Users : totp[v] # None /\ totp[v].last # None => totp[v].last \in Nat
      BY DEF IInv, TypeOK, Maybe, Enrollments
    <2>8. EnrollmentsKept
      BY <1>2, <2>4, <2>6, <2>7 DEF EnrollmentsKept, SameEnrollment
    <2>9. LocksKept
      BY <1>2, <2>4, <2>6 DEF LocksKept
    <2>. QED
      BY <2>3, <2>5, <2>8, <2>9 DEF IInv, TypeOK, Maybe
  <1>. QED
    BY <1>1, <1>2

LEMMA OwnRefusedKeeps ==
  ASSUME IInv, NEW r \in Reqs, OwnCodeRefused(r)
  PROVE  IInv'
  <1>1. /\ req[r] # None /\ req[r].op = "ownwrong" /\ End(r)
        /\ totp' = RecordTOTPFailure(req[r].user, req[r].at)
        /\ UNCHANGED <<status, made, proved, chal, sess, now>>
    BY DEF OwnCodeRefused, At
  <1>2. req[r].user \in Users /\ req[r].at \in Nat
    BY <1>1 DEF IInv, TypeOK, Maybe, Tasks, TasksGood, TaskShaped
  <1>3. totp' \in [Users -> Maybe(Enrollments)] /\ EnrollmentsKept /\ LocksKept
    BY <1>1, <1>2, FailureCounted
  <1>4. TypeOK'
    BY <1>1, <1>3, EndsEnd DEF IInv, TypeOK
  <1>. QED
    BY <1>1, <1>3, <1>4, EndsEnd, SameTables, KeptKeeps

LEMMA CodeRefusedKeeps ==
  ASSUME IInv, NEW r \in Reqs, CodeRefused(r)
  PROVE  IInv'
  <1>1. /\ req[r] # None /\ req[r].op = "wrong" /\ req' = [req EXCEPT ![r].op = "bump"]
        /\ totp' \in {totp, RecordTOTPFailure(req[r].user, req[r].at)}
        /\ UNCHANGED <<status, made, proved, chal, sess, now>>
    BY DEF CodeRefused, At
  <1>2. req[r] \in Tasks /\ req[r].user \in Users /\ req[r].at \in Nat
    BY <1>1 DEF IInv, TypeOK, Maybe, Tasks, TasksGood, TaskShaped
  <1>3. totp' \in [Users -> Maybe(Enrollments)] /\ EnrollmentsKept /\ LocksKept
    <2>1. CASE totp' = totp
      BY <2>1, SameTables DEF IInv, TypeOK
    <2>. QED
      BY <1>1, <1>2, <2>1, FailureCounted
  <1>. DEFINE t == [req[r] EXCEPT !.op = "bump"]
  <1>4. t \in Tasks
    BY <1>2 DEF Tasks, Ops
  <1>5. req' = [req EXCEPT ![r] = t]
    BY <1>1
  <1>6. RequestsEnd
    <2>1. req'[r] = t /\ \A p \in Reqs \ {r} : req'[p] = req[p]
      BY <1>5 DEF IInv, TypeOK
    <2>2. ToCount(r)
      BY <1>1, <1>2, <2>1 DEF ToCount, At
    <2>. QED
      BY <2>1, <2>2 DEF RequestsEnd
  <1>. HIDE DEF t
  <1>7. req' \in [Reqs -> Maybe(Tasks)]
    BY <1>4, <1>5 DEF IInv, TypeOK, Maybe
  <1>8. TypeOK'
    BY <1>1, <1>3, <1>7 DEF IInv, TypeOK
  <1>. QED
    BY <1>1, <1>3, <1>6, <1>8, SameTables, KeptKeeps

\* The attempt that is counted is one of a request that ends.
LEMMA CountAttemptKeeps ==
  ASSUME IInv, NEW r \in Reqs, CountAttempt(r)
  PROVE  IInv'
  <1>1. /\ req[r] # None /\ req[r].op = "bump" /\ End(r)
        /\ chal' = BumpTOTPChallengeAttempts(req[r].chal)
        /\ UNCHANGED <<status, totp, made, proved, sess, now>>
    BY DEF CountAttempt, At
  <1>2. req[r].chal \in Challenges
    BY <1>1 DEF IInv, TasksGood, TaskShaped
  <1>3. totp' \in [Users -> Maybe(Enrollments)] /\ EnrollmentsKept /\ LocksKept
    BY <1>1, SameTables DEF IInv, TypeOK
  <1>4. CASE chal' = chal
    <2>1. TypeOK'
      BY <1>1, <1>3, <1>4, EndsEnd DEF IInv, TypeOK
    <2>. QED
      BY <1>1, <1>3, <1>4, <2>1, EndsEnd, SameTables, KeptKeeps
  <1>5. CASE chal' = BumpTOTPChallengeAttempts(req[r].chal) /\ chal[req[r].chal] = None
    <2>1. chal' = chal
      BY <1>2, <1>5 DEF BumpTOTPChallengeAttempts, IInv, TypeOK
    <2>. QED
      BY <1>4, <2>1
  <1>6. CASE chal' = BumpTOTPChallengeAttempts(req[r].chal) /\ chal[req[r].chal] # None
    <2>1. PICK c \in Challenges : c = req[r].chal
      BY <1>2
    <2>. DEFINE n == [chal[c] EXCEPT !.attempts = chal[c].attempts + 1]
    <2>2. chal[c] \in ChallengeRows /\ chal[c].attempts \in Nat
      BY <1>6, <2>1 DEF IInv, TypeOK, Maybe, ChallengeRows
    <2>3. /\ n \in ChallengeRows /\ n.user = chal[c].user /\ n.consumed = chal[c].consumed
          /\ n.attempts = chal[c].attempts + 1
      BY <2>2 DEF ChallengeRows
    <2>4. chal' = [chal EXCEPT ![c] = n]
      <3>1. chal' = [chal EXCEPT ![c] = IF chal[c] = None THEN None ELSE n]
        BY <1>6, <2>1 DEF BumpTOTPChallengeAttempts
      <3>. HIDE DEF n
      <3>. QED
        BY <1>6, <2>1, <3>1
    <2>. HIDE DEF n
    <2>5. n # None
      BY <2>3, NoneIsNoRecord
    <2>6. chal'[c] = n /\ \A d \in Challenges \ {c} : chal'[d] = chal[d]
      BY <2>4 DEF IInv, TypeOK
    <2>7. chal' \in [Challenges -> Maybe(ChallengeRows)]
      BY <2>3, <2>4 DEF IInv, TypeOK, Maybe
    <2>8. ChallengesKept
      BY <2>3, <2>5, <2>6 DEF ChallengesKept
    <2>9. TypeOK'
      BY <1>1, <1>3, <2>7, EndsEnd DEF IInv, TypeOK
    <2>10. FactorFacts'
      BY <1>1, <1>3, <2>8, <2>9, EndsEnd, SameTables, FactorsKeep
    <2>11. AttemptsCounted'
      <3>. SUFFICES ASSUME NEW d \in Challenges, chal'[d] # None
                    PROVE  chal'[d].attempts + Cardinality(Guessing(d)')
                             < MaxChallengeAttempts + Cardinality(Reqs)
        BY DEF AttemptsCounted
      <3>1. CASE d = c
        <4>1. r \in Guessing(c) /\ Guessing(c)' = Guessing(c) \ {r}
          BY <1>1, <2>1, EndsEnd DEF Guessing, At
        <4>2. Cardinality(Guessing(c)') = Cardinality(Guessing(c)) - 1
          BY <4>1, GuessingCounted, FS_RemoveElement
        <4>3. chal[c].attempts + Cardinality(Guessing(c)) < MaxChallengeAttempts + Cardinality(Reqs)
          BY <1>6, <2>1 DEF IInv, AttemptsCounted
        <4>. QED
          BY <2>2, <2>3, <2>6, <3>1, <4>2, <4>3, GuessingCounted, PositiveBounds
      <3>2. CASE d # c
        <4>1. chal'[d] = chal[d] /\ Guessing(d)' = Guessing(d)
          BY <1>1, <2>1, <2>6, <3>2, EndsEnd DEF Guessing, At
        <4>. QED
          BY <4>1 DEF IInv, AttemptsCounted
      <3>. QED
        BY <3>1, <3>2
    <2>. QED
      BY <1>1, <1>3, <2>9, <2>10, <2>11, LocksKeep DEF IInv, FactorFacts
  <1>. QED
    BY <1>1, <1>4, <1>5, <1>6

LEMMA DeleteEnrollmentKeeps ==
  ASSUME IInv, NEW r \in Reqs, DeleteUserTOTP(r)
  PROVE  IInv'
  <1>1. /\ req[r] # None /\ End(r) /\ totp' = [totp EXCEPT ![req[r].user] = None]
        /\ UNCHANGED <<status, made, proved, chal, sess, now>>
    BY DEF DeleteUserTOTP, At
  <1>2. totp' \in [Users -> Maybe(Enrollments)]
    BY <1>1 DEF IInv, TypeOK, Maybe
  <1>3. \A u \in Users : totp'[u] # None => totp'[u] = totp[u]
    BY <1>1 DEF IInv, TypeOK
  <1>4. \A u \in Users : totp[u] # None /\ totp[u].last # None => totp[u].last \in Nat
    BY DEF IInv, TypeOK, Maybe, Enrollments
  <1>5. EnrollmentsKept /\ LocksKept
    BY <1>3, <1>4 DEF EnrollmentsKept, LocksKept, SameEnrollment
  <1>6. TypeOK'
    BY <1>1, <1>2, EndsEnd DEF IInv, TypeOK
  <1>. QED
    BY <1>1, <1>5, <1>6, EndsEnd, SameTables, KeptKeeps

\* The code that confirms was one of the very secret that is enabled, and no
\* session was opened with it.
LEMMA ConfirmEnableKeeps ==
  ASSUME IInv, NEW r \in Reqs, ConfirmEnable(r)
  PROVE  IInv'
  <1>. DEFINE u == req[r].user
              e == totp[u]
              f == [e EXCEPT !.enabled = TRUE, !.last = req[r].step, !.failed = 0, !.locked = None]
  <1>1. /\ req[r] # None /\ req[r].op = "confirm" /\ End(r)
        /\ e # None /\ ~e.enabled /\ e.secret = req[r].secret
        /\ totp' = [totp EXCEPT ![u] = f]
        /\ UNCHANGED <<status, made, proved, chal, sess, now>>
    BY DEF ConfirmEnable, SamePending, At
  <1>2. u \in Users /\ req[r].step \in Nat /\ req[r].secret \in proved
    BY <1>1 DEF IInv, TypeOK, Maybe, Tasks, TasksGood, TaskShaped
  <1>3. e \in Enrollments
    BY <1>1, <1>2 DEF IInv, TypeOK, Maybe
  <1>4. /\ f \in Enrollments /\ f.secret = e.secret /\ f.enabled /\ f.last = req[r].step
        /\ f.failed = 0
    BY <1>2, <1>3 DEF Enrollments, Maybe
  <1>5. totp' \in [Users -> Maybe(Enrollments)]
    BY <1>1, <1>4 DEF IInv, TypeOK, Maybe
  <1>6. totp'[u] = f /\ \A v \in Users \ {u} : totp'[v] = totp[v]
    BY <1>1, <1>2 DEF IInv, TypeOK
  <1>7. TypeOK'
    BY <1>1, <1>5, EndsEnd DEF IInv, TypeOK
  <1>. HIDE DEF f
  <1>8. \A s \in Opened : sess[s].via.secret # e.secret
    BY <1>1, <1>2 DEF IInv, FactorsSpent, Spent
  <1>9. SecretsFresh'
    BY <1>1, <1>4, <1>6 DEF IInv, SecretsFresh
  <1>10. FactorsSpent' /\ SecondFactorOnce'
    <2>1. Opened' = Opened
      BY <1>1 DEF Opened
    <2>2. ASSUME NEW s \in Opened PROVE Spent(s)'
      <3>1. Spent(s) /\ sess[s].via.secret # f.secret
        BY <1>4, <1>8, <2>2 DEF IInv, FactorsSpent
      <3>. QED
        BY <1>1, <1>6, <3>1 DEF Spent
    <2>. QED
      BY <1>1, <2>1, <2>2 DEF IInv, FactorsSpent, SecondFactorOnce
  <1>11. ConfirmedSecretOnly' /\ FailuresLock'
    BY <1>1, <1>2, <1>4, <1>6, PositiveBounds DEF IInv, ConfirmedSecretOnly, FailuresLock
  <1>12. TasksGood'
    <2>. SUFFICES ASSUME NEW p \in Reqs, req'[p] # None
                  PROVE  TaskShaped(req[p])' /\ OwnChallenge(req[p])'
      BY DEF TasksGood
    <2>1. req'[p] = req[p] /\ TaskShaped(req[p]) /\ OwnChallenge(req[p])
      BY <1>1, EndsEnd DEF IInv, TasksGood
    <2>. QED
      BY <1>1, <2>1 DEF TaskShaped, OwnChallenge, Exists
  <1>13. AttemptsCounted'
    BY <1>1, EndsEnd, SameTables, AttemptsKeep
  <1>. QED
    BY <1>7, <1>9, <1>10, <1>11, <1>12, <1>13 DEF IInv

\* A new secret is one that no session and no enrollment knows.
LEMMA UpsertKeeps ==
  ASSUME IInv, NEW r \in Reqs, UpsertPendingTOTP(r)
  PROVE  IInv'
  <1>. DEFINE u == req[r].user
              f == [secret |-> made + 1, enabled |-> FALSE, last |-> None, failed |-> 0,
                    locked |-> None]
  <1>1. /\ req[r] # None /\ End(r) /\ made < MaxSecrets /\ made' = made + 1
        /\ totp' = [totp EXCEPT ![u] = f]
        /\ UNCHANGED <<status, proved, chal, sess, now>>
    BY DEF UpsertPendingTOTP, At
  <1>2. u \in Users /\ made \in Nat /\ made + 1 \in Secrets /\ made' \in 0 .. MaxSecrets
    BY <1>1, PositiveBounds DEF IInv, TypeOK, Maybe, Tasks, Secrets
  <1>3. f \in Enrollments /\ f.secret = made + 1 /\ f.enabled = FALSE /\ f.failed = 0
    BY <1>2 DEF Enrollments, Maybe
  <1>. HIDE DEF f
  <1>4. totp' \in [Users -> Maybe(Enrollments)]
    BY <1>1, <1>3 DEF IInv, TypeOK, Maybe
  <1>5. totp'[u] = f /\ \A v \in Users \ {u} : totp'[v] = totp[v]
    BY <1>1, <1>2 DEF IInv, TypeOK
  <1>6. TypeOK'
    BY <1>1, <1>2, <1>4, EndsEnd DEF IInv, TypeOK
  <1>7. \A v \in Users : totp[v] # None => totp[v].secret \in Nat /\ totp[v].secret <= made
    BY DEF IInv, TypeOK, Maybe, Enrollments, SecretsFresh, Secrets
  <1>8. \A s \in Opened : sess[s].via.secret \in Nat /\ sess[s].via.secret <= made
    <2>1. \A s \in Opened : sess[s].via \in Factors
      BY DEF Opened, IInv, TypeOK, Maybe, SessionRows
    <2>. QED
      BY <2>1 DEF Factors, Secrets, IInv, FactorsSpent, Spent
  <1>. HIDE DEF u
  <1>9. SecretsFresh'
    <2>1. \A v \in Users : totp'[v] # None => totp'[v].secret <= made'
      BY <1>1, <1>2, <1>3, <1>5, <1>7
    <2>2. \A v \in Users : (totp'[v] # None /\ totp'[v].secret = made + 1) => v = u
      BY <1>2, <1>5, <1>7
    <2>3. \A v \in Users \ {u} : totp'[v] # None => totp'[v].secret # made + 1
      BY <2>2
    <2>4. ASSUME NEW v \in Users, NEW w \in Users, totp'[v] # None, totp'[w] # None,
                 totp'[v].secret = totp'[w].secret
          PROVE  v = w
      <3>1. CASE v = u \/ w = u
        BY <1>3, <1>5, <2>2, <2>4, <3>1
      <3>2. CASE v # u /\ w # u
        BY <1>5, <2>4, <3>2 DEF IInv, SecretsFresh
      <3>. QED
        BY <3>1, <3>2
    <2>. QED
      BY <2>1, <2>4 DEF SecretsFresh
  <1>10. FactorsSpent' /\ SecondFactorOnce'
    <2>1. Opened' = Opened
      BY <1>1 DEF Opened
    <2>2. ASSUME NEW s \in Opened PROVE Spent(s)'
      <3>1. Spent(s) /\ sess[s].via.secret # f.secret /\ sess[s].via.secret <= made'
        BY <1>1, <1>2, <1>3, <1>8, <2>2 DEF IInv, FactorsSpent
      <3>. QED
        BY <1>1, <1>5, <3>1 DEF Spent
    <2>. QED
      BY <1>1, <2>1, <2>2 DEF IInv, FactorsSpent, SecondFactorOnce
  <1>11. ConfirmedSecretOnly' /\ FailuresLock'
    BY <1>1, <1>3, <1>5, PositiveBounds DEF IInv, ConfirmedSecretOnly, FailuresLock
  <1>12. TasksGood'
    <2>. SUFFICES ASSUME NEW p \in Reqs, req'[p] # None
                  PROVE  TaskShaped(req[p])' /\ OwnChallenge(req[p])'
      BY DEF TasksGood
    <2>1. req'[p] = req[p] /\ TaskShaped(req[p]) /\ OwnChallenge(req[p])
      BY <1>1, EndsEnd DEF IInv, TasksGood
    <2>. QED
      BY <1>1, <2>1 DEF TaskShaped, OwnChallenge, Exists
  <1>13. AttemptsCounted'
    BY <1>1, EndsEnd, SameTables, AttemptsKeep
  <1>. QED
    BY <1>6, <1>9, <1>10, <1>11, <1>12, <1>13 DEF IInv

\* The session that opens is the first one of its challenge, which was not
\* consumed, and of its step, which is later than every claimed one.
LEMMA CompleteKeeps ==
  ASSUME IInv, NEW r \in Reqs, CompleteTOTPLogin(r)
  PROVE  IInv'
  <1>1. PICK q : q = req[r]
    OBVIOUS
  <1>2. /\ q # None /\ q.op = "accepted" /\ End(r) /\ UNCHANGED <<status, made, proved, now>>
        /\ Enabled(q.user) /\ Exists(q.user) /\ (totp[q.user].last # None => totp[q.user].last < q.step)
        /\ chal[q.chal] # None /\ chal[q.chal].consumed = None
        /\ totp' = [totp EXCEPT ![q.user].last = q.step, ![q.user].failed = 0,
                                ![q.user].locked = None]
        /\ chal' = [chal EXCEPT ![q.chal].consumed = q.at]
    BY <1>1 DEF CompleteTOTPLogin, At, ClaimTOTPStep, ConsumeTOTPChallenge
  <1>3. q \in Tasks /\ TaskShaped(q) /\ OwnChallenge(q)
    BY <1>1, <1>2 DEF IInv, TypeOK, Maybe, TasksGood
  <1>4. PICK u \in Users, c \in Challenges, at \in Nat, st \in Nat :
          u = q.user /\ c = q.chal /\ at = q.at /\ st = q.step
    BY <1>2, <1>3 DEF Tasks, TaskShaped
  <1>5. chal[c].user = u
    BY <1>2, <1>3, <1>4 DEF OwnChallenge
  <1>. DEFINE e == totp[u]
              f == [e EXCEPT !.last = st, !.failed = 0, !.locked = None]
              d == [chal[c] EXCEPT !.consumed = at]
              via == [chal |-> c, secret |-> e.secret, step |-> st]
              n == NewSession(u, at, via)
  <1>6. e \in Enrollments /\ e # None /\ e.enabled /\ chal[c] \in ChallengeRows
    BY <1>2, <1>4 DEF Enabled, IInv, TypeOK, Maybe
  <1>7. /\ f \in Enrollments /\ f.secret = e.secret /\ f.enabled /\ f.last = st
        /\ f.failed = 0
    BY <1>6 DEF Enrollments, Maybe
  <1>8. /\ d \in ChallengeRows /\ d # None /\ d.user = chal[c].user /\ d.consumed = at
        /\ d.attempts = chal[c].attempts
    <2>1. d \in ChallengeRows
      BY <1>6 DEF ChallengeRows, Maybe
    <2>. QED
      BY <1>6, <2>1, NoneIsNoRecord DEF ChallengeRows
  <1>9. via \in Factors /\ via # None /\ via.chal = c /\ via.secret = e.secret /\ via.step = st
    <2>1. via \in Factors
      BY <1>6 DEF Factors, Enrollments
    <2>. QED
      BY <2>1, NoneIsNoRecord
  <1>10. totp' = [totp EXCEPT ![u] = f]
    BY <1>2, <1>4, <1>6 DEF IInv, TypeOK, Enrollments
  <1>11. chal' = [chal EXCEPT ![c] = d]
    BY <1>2, <1>4
  <1>12. PICK s \in Sessions : sess[s] = None /\ sess' = [sess EXCEPT ![s] = n]
    BY <1>1, <1>4 DEF CompleteTOTPLogin, NewIds
  <1>. HIDE DEF f, d, via
  <1>13. n \in SessionRows /\ n.user = u /\ n.via = via
    BY <1>9, NewSessionTyped DEF Maybe
  <1>. HIDE DEF n
  <1>14. /\ totp' \in [Users -> Maybe(Enrollments)] /\ chal' \in [Challenges -> Maybe(ChallengeRows)]
         /\ sess' \in [Sessions -> Maybe(SessionRows)]
    BY <1>7, <1>8, <1>10, <1>11, <1>12, <1>13 DEF IInv, TypeOK, Maybe
  <1>15. /\ totp'[u] = f /\ \A v \in Users \ {u} : totp'[v] = totp[v]
         /\ chal'[c] = d /\ \A b \in Challenges \ {c} : chal'[b] = chal[b]
         /\ sess'[s] = n /\ \A t \in Sessions \ {s} : sess'[t] = sess[t]
    BY <1>10, <1>11, <1>12 DEF IInv, TypeOK
  <1>16. TypeOK'
    BY <1>2, <1>14, EndsEnd DEF IInv, TypeOK
  <1>17. at # None /\ st # None
    BY NoneIsNothing
  <1>18. e.last # None => e.last \in Nat /\ e.last < st
    BY <1>2, <1>4, <1>6 DEF Enrollments, Maybe
  <1>19. TasksGood'
    <2>. SUFFICES ASSUME NEW p \in Reqs, req'[p] # None
                  PROVE  TaskShaped(req[p])' /\ OwnChallenge(req[p])'
      BY DEF TasksGood
    <2>1. PICK x : x = req[p]
      OBVIOUS
    <2>2. req'[p] = x /\ TaskShaped(x) /\ OwnChallenge(x)
      BY <1>2, <2>1, EndsEnd DEF IInv, TasksGood
    <2>3. TaskShaped(x)'
      BY <1>2, <2>2 DEF TaskShaped
    <2>4. OwnChallenge(x)'
      <3>1. x.op = "accepted" => x.chal \in Challenges
        BY <2>2 DEF TaskShaped
      <3>. QED
        BY <1>2, <1>8, <1>15, <2>2, <3>1 DEF OwnChallenge, Exists
    <2>. QED
      BY <2>2, <2>3, <2>4 DEF TaskShaped, OwnChallenge, Exists
  <1>20. SecretsFresh'
    <2>1. \A v \in Users : totp'[v] # None => totp[v] # None /\ totp'[v].secret = totp[v].secret
      BY <1>6, <1>7, <1>15
    <2>2. SecretsFresh /\ made' = made
      BY <1>2 DEF IInv
    <2>3. \A v \in Users : totp'[v] # None => totp'[v].secret <= made'
      BY <2>1, <2>2 DEF SecretsFresh
    <2>4. ASSUME NEW v \in Users, NEW w \in Users, totp'[v] # None, totp'[w] # None,
                 totp'[v].secret = totp'[w].secret
          PROVE  v = w
      <3>1. totp[v] # None /\ totp[w] # None /\ totp[v].secret = totp[w].secret
        BY <2>1, <2>4
      <3>. QED
        BY <2>2, <3>1 DEF SecretsFresh
    <2>. QED
      BY <2>3, <2>4 DEF SecretsFresh
  <1>21. Opened' = Opened \union {s} /\ s \notin Opened
    BY <1>9, <1>12, <1>13, <1>14, <1>15, NoneIsNoRecord DEF Opened
  <1>22. \A t \in Opened : /\ sess'[t] = sess[t] /\ sess[t].via \in Factors /\ Spent(t)
                           /\ sess[t].via.chal # c
                           /\ sess[t].via.secret = e.secret => sess[t].via.step < st
    <2>. SUFFICES ASSUME NEW t \in Opened
                  PROVE  /\ sess'[t] = sess[t] /\ sess[t].via \in Factors /\ Spent(t)
                         /\ sess[t].via.chal # c
                         /\ sess[t].via.secret = e.secret => sess[t].via.step < st
      OBVIOUS
    <2>1. t \in Sessions /\ t # s /\ sess[t].via \in Factors /\ Spent(t)
      BY <1>21 DEF Opened, IInv, TypeOK, Maybe, SessionRows, FactorsSpent
    <2>2. sess'[t] = sess[t]
      BY <1>15, <2>1
    <2>3. sess[t].via.chal # c
      BY <1>2, <1>4, <2>1 DEF Spent
    <2>4. sess[t].via.secret = e.secret => e.last # None /\ sess[t].via.step <= e.last
      BY <1>6, <2>1 DEF Spent
    <2>5. sess[t].via.step \in Nat
      BY <2>1 DEF Factors
    <2>. QED
      BY <1>18, <2>1, <2>2, <2>3, <2>4, <2>5
  <1>23. FactorsSpent'
    <2>1. Spent(s)'
      <3>1. via.secret <= made'
        BY <1>2, <1>6, <1>9 DEF IInv, SecretsFresh
      <3>2. chal'[via.chal] # None /\ chal'[via.chal].consumed # None /\ chal'[via.chal].user = u
        BY <1>5, <1>8, <1>9, <1>15, <1>17
      <3>3. ASSUME NEW v \in Users, totp'[v] # None, totp'[v].secret = via.secret
            PROVE  totp'[v].enabled /\ totp'[v].last # None /\ via.step <= totp'[v].last
        <4>1. v = u
          BY <1>6, <1>9, <1>15, <3>3 DEF IInv, SecretsFresh
        <4>. QED
          BY <1>6, <1>7, <1>9, <1>15, <1>17, <4>1
      <3>4. sess'[s].via = via /\ sess'[s].user = u
        BY <1>13, <1>15
      <3>. QED
        BY <3>1, <3>2, <3>3, <3>4 DEF Spent
    <2>2. ASSUME NEW t \in Opened PROVE Spent(t)'
      <3>1. PICK v \in Factors : v = sess[t].via
        BY <1>22
      <3>2. /\ sess'[t] = sess[t] /\ Spent(t) /\ v.chal # c /\ v.chal \in Challenges
            /\ v.step \in Nat /\ (v.secret = e.secret => v.step < st)
        BY <1>22, <3>1 DEF Factors
      <3>3. chal'[v.chal] = chal[v.chal]
        BY <1>15, <3>2
      <3>4. ASSUME NEW w \in Users, totp'[w] # None, totp'[w].secret = v.secret
            PROVE  totp'[w].enabled /\ totp'[w].last # None /\ v.step <= totp'[w].last
        <4>1. CASE w = u
          BY <1>6, <1>7, <1>15, <1>17, <3>2, <3>4, <4>1
        <4>2. CASE w # u
          BY <1>15, <3>1, <3>2, <3>4, <4>2 DEF Spent
        <4>. QED
          BY <4>1, <4>2
      <3>5. v.secret <= made' /\ chal[v.chal] # None /\ chal[v.chal].consumed # None
            /\ chal[v.chal].user = sess[t].user
        BY <1>2, <3>1, <3>2 DEF Spent
      <3>. QED
        BY <3>1, <3>2, <3>3, <3>4, <3>5 DEF Spent
    <2>. QED
      BY <1>21, <2>1, <2>2 DEF FactorsSpent
  <1>24. SecondFactorOnce'
    <2>1. \A t \in Opened : /\ sess'[t].via.chal # sess'[s].via.chal
                            /\ \/ sess'[t].via.secret # sess'[s].via.secret
                               \/ sess'[t].via.step # sess'[s].via.step
      <3>1. \A t \in Opened : sess[t].via.step \in Nat
        BY <1>22 DEF Factors
      <3>. QED
        BY <1>9, <1>13, <1>15, <1>22, <3>1
    <2>. QED
      BY <1>21, <1>22, <2>1 DEF IInv, SecondFactorOnce
  <1>25. ConfirmedSecretOnly' /\ FailuresLock'
    <2>1. e.secret \in proved /\ proved' = proved
      BY <1>2, <1>6 DEF IInv, ConfirmedSecretOnly
    <2>2. ConfirmedSecretOnly'
      <3>. SUFFICES ASSUME NEW v \in Users, totp'[v] # None, totp'[v].enabled
                    PROVE  totp'[v].secret \in proved'
        BY DEF ConfirmedSecretOnly
      <3>1. CASE v = u
        BY <1>7, <1>15, <2>1, <3>1
      <3>2. CASE v # u
        <4>1. totp'[v] = totp[v]
          BY <1>15, <3>2
        <4>. QED
          BY <2>1, <4>1 DEF IInv, ConfirmedSecretOnly
      <3>. QED
        BY <3>1, <3>2
    <2>3. ~(f.failed >= MaxFailedAttempts)
      BY <1>7, PositiveBounds
    <2>4. FailuresLock'
      BY <1>15, <2>3 DEF IInv, FailuresLock
    <2>. QED
      BY <2>2, <2>4
  <1>26. AttemptsCounted'
    <2>1. AttemptsKept
      BY <1>2, <1>4, <1>8, <1>15 DEF AttemptsKept
    <2>. QED
      BY <1>2, <2>1, EndsEnd, AttemptsKeep
  <1>. QED
    BY <1>16, <1>19, <1>20, <1>23, <1>24, <1>25, <1>26 DEF IInv

-----------------------------------------------------------------------------
(* Accounts, the clock and the process.                                       *)

LEMMA AccountKeeps ==
  ASSUME IInv, NEW u \in Users, Account(u)
  PROVE  IInv'
  <1>1. CASE BootstrapInitialAdmin(u) \/ CreateUser(u)
    <2>1. /\ status[u] = "ABSENT" /\ status' = [status EXCEPT ![u] = "ACTIVE"]
          /\ UNCHANGED <<totp, made, proved, chal, sess, req, now>>
      BY <1>1 DEF BootstrapInitialAdmin, CreateUser
    <2>2. TypeOK' /\ RequestsEnd
      BY <2>1 DEF IInv, TypeOK, Statuses, RequestsEnd
    <2>3. AccountsKept
      BY <2>1 DEF AccountsKept, Exists, IInv, TypeOK
    <2>. QED
      BY <2>1, <2>2, <2>3, SameTables, KeptKeeps
  <1>2. CASE DisableUser(u)
    <2>1. /\ status[u] \in {"ACTIVE", "DISABLED"} /\ status' = [status EXCEPT ![u] = "DISABLED"]
          /\ sess' = RevokeWhere(SessionsOf(u))
          /\ UNCHANGED <<totp, made, proved, chal, req, now>>
      BY <1>2 DEF DisableUser, Exists
    <2>2. TypeOK' /\ RequestsEnd
      BY <2>1, RevokedKept DEF IInv, TypeOK, Statuses, RequestsEnd
    <2>3. AccountsKept
      BY <2>1 DEF AccountsKept, Exists, IInv, TypeOK
    <2>4. SessionsKept
      BY <2>1, RevokedKept DEF SessionsKept, Opened
    <2>. QED
      BY <2>1, <2>2, <2>3, <2>4, SameTables, KeptKeeps
  <1>3. CASE DeleteUser(u)
    <2>1. /\ status[u] \in {"ACTIVE", "DISABLED"} /\ status' = [status EXCEPT ![u] = "DELETED"]
          /\ sess' = [s \in Sessions |-> IF s \in SessionsOf(u) THEN None ELSE sess[s]]
          /\ chal' = [c \in Challenges |->
                        IF chal[c] # None /\ chal[c].user = u THEN None ELSE chal[c]]
          /\ totp' = [totp EXCEPT ![u] = None]
          /\ UNCHANGED <<made, proved, req, now>>
      BY <1>3 DEF DeleteUser, Exists
    <2>2. TypeOK' /\ RequestsEnd
      BY <2>1 DEF IInv, TypeOK, Statuses, Maybe, RequestsEnd
    <2>3. AccountsKept /\ status'[u] = "DELETED"
      BY <2>1 DEF AccountsKept, Exists, IInv, TypeOK
    <2>4. SessionsKept
      BY <2>1 DEF SessionsKept, Opened
    <2>5. \A s \in Sessions : sess'[s] # None => sess'[s].user # u
      BY <2>1 DEF SessionsOf
    <2>6. ChallengesKept /\ AttemptsKept
      BY <2>1, <2>3, <2>5 DEF ChallengesKept, AttemptsKept
    <2>7. \A v \in Users : totp'[v] # None => totp'[v] = totp[v]
      BY <2>1 DEF IInv, TypeOK
    <2>8. \A v \in Users : totp[v] # None /\ totp[v].last # None => totp[v].last \in Nat
      BY DEF IInv, TypeOK, Maybe, Enrollments
    <2>9. EnrollmentsKept /\ LocksKept
      BY <2>7, <2>8 DEF EnrollmentsKept, LocksKept, SameEnrollment
    <2>. QED
      BY <2>1, <2>2, <2>3, <2>4, <2>6, <2>9, KeptKeeps
  <1>4. CASE ResetPasswordByAdmin(u)
    BY <1>4, RevokeKeeps DEF ResetPasswordByAdmin, ResetPasswordAndRevokeAll
  <1>5. CASE Revoke(u)
    BY <1>5, RevokeKeeps DEF Revoke
  <1>. QED
    BY <1>1, <1>2, <1>3, <1>4, <1>5 DEF Account

LEMMA OwnSessionKeeps ==
  ASSUME IInv, NEW s \in Sessions, OwnSession(s)
  PROVE  IInv'
  BY RevokeKeeps DEF OwnSession, Logout, ChangePassword, ChangePasswordAndRevokeOthers

LEMMA QuietKeeps ==
  ASSUME IInv, UNCHANGED database, RequestsEnd, req' \in [Reqs -> Maybe(Tasks)], now' \in Nat
  PROVE  IInv'
  <1>1. UNCHANGED <<status, totp, made, proved, chal, sess>>
    BY DEF database
  <1>2. TypeOK'
    BY <1>1 DEF IInv, TypeOK
  <1>. QED
    BY <1>1, <1>2, SameTables, KeptKeeps

-----------------------------------------------------------------------------
(* The theorems.                                                              *)

LEMMA InitEstablishes ==
  ASSUME Init
  PROVE  IInv
  BY PositiveBounds DEF Init, IInv, TypeOK, Statuses, Maybe, TasksGood, SecretsFresh, FactorsSpent,
     SecondFactorOnce, Opened, ConfirmedSecretOnly, FailuresLock, AttemptsCounted

LEMMA StepKeeps ==
  ASSUME IInv, [Next]_vars
  PROVE  IInv'
  <1>0. req \in [Reqs -> Maybe(Tasks)] /\ now \in Nat
    BY DEF IInv, TypeOK
  <1>1. CASE UNCHANGED vars \/ Tick
    BY <1>0, <1>1, QuietKeeps DEF vars, Tick, RequestsEnd
  <1>2. CASE Restart
    <2>1. UNCHANGED database /\ now' = now /\ RequestsEnd /\ req' \in [Reqs -> Maybe(Tasks)]
      BY <1>2 DEF Restart, RequestsEnd, Maybe
    <2>. QED
      BY <1>0, <2>1, QuietKeeps
  <1>3. ASSUME NEW r \in Reqs, Abort(r) PROVE IInv'
    BY <1>0, <1>3, EndsEnd, QuietKeeps DEF Abort
  <1>4. ASSUME NEW r \in Reqs, Login(r) PROVE IInv'
    BY <1>4, LoginVerifyKeeps, NewChallengeKeeps, LoginSessionKeeps DEF Login
  <1>5. ASSUME NEW r \in Reqs, SecondFactor(r) PROVE IInv'
    BY <1>5, CompleteLoginKeeps, CodeRefusedKeeps, CountAttemptKeeps, CompleteKeeps
       DEF SecondFactor
  <1>6. ASSUME NEW r \in Reqs, Enrollment(r) PROVE IInv'
    BY <1>6, OwnRequestsKeep, ConfirmKeeps, UpsertKeeps, OwnRefusedKeeps, ConfirmEnableKeeps,
       DeleteEnrollmentKeeps DEF Enrollment
  <1>7. ASSUME NEW r \in Reqs, Activity(r) PROVE IInv'
    BY <1>7, TouchReadKeeps, TouchKeeps DEF Activity
  <1>. QED
    BY <1>1, <1>2, <1>3, <1>4, <1>5, <1>6, <1>7, AccountKeeps, OwnSessionKeeps, CleanupKeeps
       DEF Next

LEMMA Invariance == Spec => []IInv
  BY InitEstablishes, StepKeeps, PTL DEF Spec

\* Accounts, enrollments, challenges, sessions and requests keep their types.
THEOREM TypeCorrect == Spec => []TypeOK
  <1>1. IInv => TypeOK
    BY DEF IInv
  <1>. QED
    BY <1>1, Invariance, PTL

\* However many requests complete a login at once, no code and no challenge
\* opens two sessions (ClaimTOTPStep and ConsumeTOTPChallenge in one
\* transaction).
THEOREM FactorSpentOnce == Spec => []SecondFactorOnce
  <1>1. IInv => SecondFactorOnce
    BY DEF IInv
  <1>. QED
    BY <1>1, Invariance, PTL

\* Confirming enables the secret that the code was checked against, whatever
\* enrollments started in between.
THEOREM EnabledIsConfirmed == Spec => []ConfirmedSecretOnly
  <1>1. IInv => ConfirmedSecretOnly
    BY DEF IInv
  <1>. QED
    BY <1>1, Invariance, PTL

\* No interleaving of failures, successes and replacements leaves an enrollment
\* at the limit of failures without a lock.
THEOREM FailuresAlwaysLock == Spec => []FailuresLock
  <1>1. IInv => FailuresLock
    BY DEF IInv
  <1>. QED
    BY <1>1, Invariance, PTL

\* The attempts on a challenge exceed the limit by less than the number of
\* requests at a time, because an attempt is counted after its check.
THEOREM AttemptsStayBounded == Spec => []AttemptsBounded
  <1>1. ASSUME IInv, NEW c \in Challenges, chal[c] # None
        PROVE  chal[c].attempts < MaxChallengeAttempts + Cardinality(Reqs)
    <2>1. chal[c].attempts \in Nat
      BY <1>1 DEF IInv, TypeOK, Maybe, ChallengeRows
    <2>2. chal[c].attempts + Cardinality(Guessing(c)) < MaxChallengeAttempts + Cardinality(Reqs)
      BY <1>1 DEF IInv, AttemptsCounted
    <2>. QED
      BY <2>1, <2>2, GuessingCounted, PositiveBounds
  <1>2. IInv => AttemptsBounded
    BY <1>1 DEF AttemptsBounded
  <1>. QED
    BY <1>2, Invariance, PTL

-----------------------------------------------------------------------------
(* The action property.                                                       *)

LEMMA StepKeepsRevoked ==
  ASSUME IInv, [Next]_vars, NEW s \in Sessions, sess[s] # None, sess[s].revoked
  PROVE  sess'[s] \in {sess[s], None}
  <1>1. CASE UNCHANGED sess
    BY <1>1
  <1>2. ASSUME NEW t \in Sessions, NEW n, sess[t] = None, sess' = [sess EXCEPT ![t] = n]
        PROVE  sess'[s] = sess[s]
    BY <1>2 DEF IInv, TypeOK
  <1>3. ASSUME NEW r \in Reqs, LoginCreateSession(r) \/ CompleteTOTPLogin(r)
        PROVE  sess'[s] = sess[s]
    <2>1. \E t \in Sessions : sess[t] = None /\ \E n : sess' = [sess EXCEPT ![t] = n]
      BY <1>3 DEF LoginCreateSession, CompleteTOTPLogin, NewIds
    <2>. QED
      BY <1>2, <2>1
  <1>4. ASSUME NEW r \in Reqs, Touch(r) PROVE sess'[s] = sess[s]
    <2>1. /\ req[r] # None /\ req[r].op = "touch"
          /\ sess' = [sess EXCEPT ![req[r].sess] = TouchSession(req[r].sess, req[r].at)]
      BY <1>4 DEF Touch, At
    <2>2. req[r].sess \in Sessions /\ req[r].at \in Nat
      BY <2>1 DEF IInv, TasksGood, TaskShaped
    <2>. QED
      BY <2>1, <2>2, TouchedKept DEF IInv, TypeOK
  <1>5. ASSUME NEW S, sess' = RevokeWhere(S) PROVE sess'[s] = sess[s]
    BY <1>5, RevokedKept
  <1>6. ASSUME NEW u \in Users, Account(u) PROVE sess'[s] \in {sess[s], None}
    <2>1. CASE DeleteUser(u)
      BY <2>1 DEF DeleteUser
    <2>2. CASE UNCHANGED sess
      BY <2>2
    <2>3. CASE \E S : sess' = RevokeWhere(S)
      BY <1>5, <2>3
    <2>. QED
      BY <1>6, <2>1, <2>2, <2>3 DEF Account, BootstrapInitialAdmin, CreateUser, DisableUser,
         ResetPasswordByAdmin, ResetPasswordAndRevokeAll, Revoke
  <1>7. ASSUME NEW t \in Sessions, OwnSession(t) PROVE sess'[s] = sess[s]
    BY <1>5, <1>7 DEF OwnSession, Logout, ChangePassword, ChangePasswordAndRevokeOthers
  <1>8. \/ UNCHANGED sess
        \/ \E r \in Reqs : LoginCreateSession(r) \/ CompleteTOTPLogin(r) \/ Touch(r)
        \/ \E u \in Users : Account(u)
        \/ \E t \in Sessions : OwnSession(t)
    BY DEF Next, vars, database, Login, LoginVerify, NewLoginChallenge, SecondFactor,
       CompleteLoginTOTP, CodeRefused, CountAttempt, Enrollment, StartTOTPEnrollment, ConfirmTOTPEnrollment,
       DisableTOTP, OwnCodeWrong, UpsertPendingTOTP, OwnCodeRefused, ConfirmEnable, DeleteUserTOTP,
       Activity, TouchAuthenticated, Abort, CleanupTOTPChallenges, Restart, Tick
  <1>. QED
    BY <1>1, <1>3, <1>4, <1>6, <1>7, <1>8

\* A session that was revoked is neither extended nor brought back, also by an
\* activity that had read it before.
THEOREM RevokedStays == Spec => RevokedFinal
  <1>1. IInv /\ [Next]_vars =>
          [\A s \in Sessions :
             (sess[s] # None /\ sess[s].revoked) => sess'[s] \in {sess[s], None}]_vars
    BY StepKeepsRevoked
  <1>. QED
    BY <1>1, Invariance, PTL DEF Spec, RevokedFinal

=============================================================================
