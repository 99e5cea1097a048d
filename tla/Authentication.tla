--------------------------- MODULE Authentication ---------------------------
(***************************************************************************)
(* Accounts, sessions and the second factor (internal/auth,                *)
(* internal/users/admin.go, the challenge cleanup of                       *)
(* internal/jobs/scheduler.go).                                            *)
(*                                                                         *)
(* A request reads rows, computes (hashes a password, checks a code) and   *)
(* then writes in one statement or one transaction: the read and the write *)
(* are separate actions, and other requests come in between.  Values of    *)
(* passwords and devices are left out, so a password check may end either  *)
(* way.  A code is known by the step of time it was made for.  The limiter *)
(* (module RateLimiter) may refuse any request: it is then not made.       *)
(***************************************************************************)
EXTENDS Naturals, FiniteSets

CONSTANTS Users, Reqs,
          Sends,                                    \* kinds of requests of a client
          MaxSessions, MaxChallenges, MaxSecrets,   \* bounds on new rows
          Period, Skew,                             \* of a TOTP code
          IdleLifetime, AbsoluteLifetime, TouchInterval,
          ChallengeLifetime, RetentionGrace, LockoutDuration,
          MaxChallengeAttempts, MaxFailedAttempts,
          MaxTime,         \* bound of the clock
          None

Sessions == 1 .. MaxSessions
Challenges == 1 .. MaxChallenges
Secrets == 1 .. MaxSecrets

Statuses == {"ABSENT", "ACTIVE", "DISABLED", "DELETED"}
Ops == {"challenge", "session", "wrong", "bump", "accepted", "enroll",
        "ownwrong", "confirm", "disable", "touch"}
Maybe(S) == S \union {None}

\* Rows of user_totp, totp_challenges and sessions, and requests in progress; a
\* session remembers the challenge and the code it was opened with.
Enrollments == [secret : Secrets, enabled : BOOLEAN, last : Maybe(Nat), failed : Nat,
                locked : Maybe(Nat)]
ChallengeRows == [user : Users, exp : Nat, consumed : Maybe(Nat), attempts : Nat, gone : BOOLEAN]
Factors == [chal : Challenges, secret : Secrets, step : Nat]
SessionRows == [user : Users, exp : Nat, abs : Nat, revoked : BOOLEAN, via : Maybe(Factors)]
Tasks == [op : Ops, user : Users, chal : Maybe(Challenges), secret : Maybe(Secrets),
          step : Maybe(Nat), sess : Maybe(Sessions), at : Maybe(Nat)]

ASSUME PositiveBounds ==
    /\ MaxSessions \in Nat /\ MaxChallenges \in Nat /\ MaxSecrets \in Nat /\ MaxTime \in Nat
    /\ Period \in Nat \ {0} /\ Skew \in Nat
    /\ MaxChallengeAttempts \in Nat \ {0} /\ MaxFailedAttempts \in Nat \ {0}
ASSUME LifetimesTyped ==
    /\ IdleLifetime \in Nat /\ AbsoluteLifetime \in Nat /\ TouchInterval \in Nat
    /\ ChallengeLifetime \in Nat /\ RetentionGrace \in Nat /\ LockoutDuration \in Nat
ASSUME FiniteRequests == IsFiniteSet(Reqs)
ASSUME NoneIsNothing == None \notin Nat /\ None \notin Users
ASSUME NoneIsNoRecord ==
    None \notin Enrollments /\ None \notin ChallengeRows /\ None \notin Factors
    /\ None \notin SessionRows /\ None \notin Tasks

VARIABLES
    status,   \* users: status of an account
    totp,     \* user_totp: enrollment of an account
    made,     \* secrets generated so far
    proved,   \* history: secrets whose owner presented a code
    chal,     \* totp_challenges
    sess,     \* sessions
    req,      \* requests between their reads and their writes
    now       \* the clock

database == <<status, totp, made, proved, chal, sess>>
vars == <<database, req, now>>

Init ==
    /\ status = [u \in Users |-> "ABSENT"]
    /\ totp = [u \in Users |-> None]
    /\ made = 0 /\ proved = {}
    /\ chal = [c \in Challenges |-> None]
    /\ sess = [s \in Sessions |-> None]
    /\ req = [r \in Reqs |-> None]
    /\ now = 0

-----------------------------------------------------------------------------
(* Requests.                                                                *)

\* What a request has read, each kind of request in its own fields; the time
\* where it uses the one it read.
Task(op, u) ==
    [op |-> op, user |-> u, chal |-> None, secret |-> None, step |-> None,
     sess |-> None, at |-> None]
Timed(op, u) == [Task(op, u) EXCEPT !.at = now]

Begin(r, task) == task.op \in Sends[r] /\ req' = [req EXCEPT ![r] = task]
End(r) == req' = [req EXCEPT ![r] = None]
Idle(r) == req[r] = None
At(r, op) == req[r] # None /\ req[r].op = op

NewIds(table, ids) == {i \in ids : table[i] = None /\ \A n \in ids : n < i => table[n] # None}

Exists(u) == status[u] \in {"ACTIVE", "DISABLED"}

\* The row of a token, with its account.
GetAuthByTokenHash(s) == sess[s] # None

Valid(s) ==
    /\ GetAuthByTokenHash(s) /\ status[sess[s].user] = "ACTIVE" /\ ~sess[s].revoked
    /\ now < sess[s].exp /\ now < sess[s].abs

\* Users with a session that Authenticate accepts.
SignedIn == {sess[s].user : s \in {x \in Sessions : Valid(x)}}

NewSession(u, at, via) ==
    [user |-> u, exp |-> at + IdleLifetime, abs |-> at + AbsoluteLifetime,
     revoked |-> FALSE, via |-> via]

-----------------------------------------------------------------------------
(* Login with a password.                                                   *)

Enabled(u) == totp[u] # None /\ totp[u].enabled

\* Reads the account and, when the password was right, the enrollment.
LoginVerify(r, u) ==
    /\ Idle(r) /\ status[u] = "ACTIVE"
    /\ \/ Enabled(u) /\ Begin(r, Task("challenge", u))
       \/ ~Enabled(u) /\ Begin(r, Timed("session", u))
    /\ UNCHANGED <<database, now>>

CreateTOTPChallenge(u) ==
    [user |-> u, exp |-> now + ChallengeLifetime, consumed |-> None, attempts |-> 0,
     gone |-> FALSE]

NewLoginChallenge(r) ==
    /\ At(r, "challenge") /\ Exists(req[r].user)
    /\ \E c \in NewIds(chal, Challenges) :
         chal' = [chal EXCEPT ![c] = CreateTOTPChallenge(req[r].user)]
    /\ End(r)
    /\ UNCHANGED <<status, totp, made, proved, sess, now>>

LoginCreateSession(r) ==
    /\ At(r, "session") /\ Exists(req[r].user)
    /\ \E s \in NewIds(sess, Sessions) :
         sess' = [sess EXCEPT ![s] = NewSession(req[r].user, req[r].at, None)]
    /\ End(r)
    /\ UNCHANGED <<status, totp, made, proved, chal, now>>

-----------------------------------------------------------------------------
(* The second factor.                                                       *)

StepOf(t) == t \div Period

\* Steps a code may have been made for, to be accepted at time t.
ValidateTOTP(t, last) ==
    {st \in 0 .. StepOf(t) + Skew : st + Skew >= StepOf(t) /\ (last # None => st > last)}

Unlocked(e) == e.locked # None => e.locked <= now

GetTOTPChallengeByHash(c) == chal[c] # None /\ ~chal[c].gone

\* Mutant: attempts are not limited.
ChallengeUsableNotCounting(c) ==
    /\ GetTOTPChallengeByHash(c)
    /\ chal[c].consumed = None /\ chal[c].exp > now

ChallengeUsable(c) ==
    /\ GetTOTPChallengeByHash(c)
    /\ chal[c].consumed = None /\ chal[c].exp > now
    /\ chal[c].attempts < MaxChallengeAttempts

\* Reads challenge, account and enrollment, and checks the code.
CompleteLoginTOTP(r, c) ==
    /\ Idle(r) /\ ChallengeUsable(c)
    /\ LET u == chal[c].user IN
       /\ status[u] = "ACTIVE" /\ Enabled(u) /\ Unlocked(totp[u])
       /\ \/ Begin(r, [Timed("wrong", u) EXCEPT !.chal = c])
          \/ \E st \in ValidateTOTP(now, totp[u].last) :
               Begin(r, [Timed("accepted", u) EXCEPT !.chal = c, !.step = st])
    /\ UNCHANGED <<database, now>>

\* Mutant: the lock comes one failure late.
RecordTOTPFailureLate(u, at) ==
    [totp EXCEPT ![u] = IF @ = None THEN None
       ELSE [@ EXCEPT !.failed = totp[u].failed + 1,
                      !.locked = IF totp[u].failed >= MaxFailedAttempts
                                 THEN at + LockoutDuration ELSE totp[u].locked]]

\* Counts on whatever enrollment the account has by now.
RecordTOTPFailure(u, at) ==
    [totp EXCEPT ![u] = IF @ = None THEN None
       ELSE [@ EXCEPT !.failed = totp[u].failed + 1,
                      !.locked = IF totp[u].failed + 1 >= MaxFailedAttempts
                                 THEN at + LockoutDuration ELSE totp[u].locked]]

BumpTOTPChallengeAttempts(c) ==
    [chal EXCEPT ![c] = IF @ = None THEN None
                        ELSE [@ EXCEPT !.attempts = chal[c].attempts + 1]]

\* A wrong code is counted in two statements; an error of either is ignored.
CodeRefused(r) ==
    /\ At(r, "wrong")
    /\ totp' \in {totp, RecordTOTPFailure(req[r].user, req[r].at)}
    /\ req' = [req EXCEPT ![r].op = "bump"]
    /\ UNCHANGED <<status, made, proved, chal, sess, now>>

CountAttempt(r) ==
    /\ At(r, "bump")
    /\ chal' = BumpTOTPChallengeAttempts(req[r].chal)
    /\ End(r)
    /\ UNCHANGED <<status, totp, made, proved, sess, now>>

\* Mutant: a step can be claimed again.
ClaimTOTPStepEnabled(u, st) == Enabled(u) /\ Exists(u)

\* Two requests may hold the same step or the same challenge here.
ClaimTOTPStep(u, st) ==
    Enabled(u) /\ Exists(u) /\ (totp[u].last # None => totp[u].last < st)

ConsumeTOTPChallenge(c, at) ==
    /\ chal[c] # None /\ ~chal[c].gone
    /\ chal[c].consumed = None /\ chal[c].exp > at

CompleteTOTPLogin(r) ==
    /\ At(r, "accepted")
    /\ LET q == req[r] IN
       /\ ClaimTOTPStep(q.user, q.step) /\ ConsumeTOTPChallenge(q.chal, q.at)
       /\ totp' = [totp EXCEPT ![q.user].last = q.step, ![q.user].failed = 0,
                               ![q.user].locked = None]
       /\ chal' = [chal EXCEPT ![q.chal].consumed = q.at]
       /\ \E s \in NewIds(sess, Sessions) :
            sess' = [sess EXCEPT ![s] = NewSession(q.user, q.at,
                       [chal |-> q.chal, secret |-> totp[q.user].secret, step |-> q.step])]
    /\ End(r)
    /\ UNCHANGED <<status, made, proved, now>>

-----------------------------------------------------------------------------
(* Enrollment.                                                              *)

StartTOTPEnrollment(r, u) ==
    /\ Idle(r) /\ u \in SignedIn /\ ~Enabled(u)
    /\ Begin(r, Task("enroll", u))
    /\ UNCHANGED <<database, now>>

UpsertPendingTOTP(r) ==
    /\ At(r, "enroll") /\ made < MaxSecrets
    /\ LET u == req[r].user IN
       /\ Exists(u) /\ ~Enabled(u)
       /\ totp' = [totp EXCEPT ![u] = [secret |-> made + 1, enabled |-> FALSE, last |-> None,
                                       failed |-> 0, locked |-> None]]
    /\ made' = made + 1
    /\ End(r)
    /\ UNCHANGED <<status, proved, chal, sess, now>>

\* GetUserTOTP for Confirm (a pending enrollment) or Disable (a confirmed one),
\* and a code that is not accepted.
ReadEnrollment(u, enabled) ==
    u \in SignedIn /\ totp[u] # None /\ totp[u].enabled = enabled /\ Unlocked(totp[u])

OwnCodeWrong(r, u) ==
    /\ Idle(r) /\ \E enabled \in BOOLEAN : ReadEnrollment(u, enabled)
    /\ Begin(r, Timed("ownwrong", u))
    /\ UNCHANGED <<database, now>>

OwnCodeRefused(r) ==
    /\ At(r, "ownwrong")
    /\ totp' = RecordTOTPFailure(req[r].user, req[r].at)
    /\ End(r)
    /\ UNCHANGED <<status, made, proved, chal, sess, now>>

ConfirmTOTPEnrollment(r, u) ==
    /\ Idle(r) /\ ReadEnrollment(u, FALSE)
    /\ \E st \in ValidateTOTP(now, None) :
         Begin(r, [Task("confirm", u) EXCEPT !.secret = totp[u].secret, !.step = st])
    /\ proved' = proved \union {totp[u].secret}
    /\ UNCHANGED <<status, totp, made, chal, sess, now>>

\* Mutant: the pending secret is not compared.
AnyPending(u, secret) == totp[u] # None /\ ~totp[u].enabled

\* Compare-and-swap on the pending secret that was read.
SamePending(u, secret) ==
    totp[u] # None /\ ~totp[u].enabled /\ totp[u].secret = secret

ConfirmEnable(r) ==
    /\ At(r, "confirm")
    /\ LET q == req[r] IN
       /\ Exists(q.user) /\ SamePending(q.user, q.secret)
       /\ totp' = [totp EXCEPT ![q.user] = [@ EXCEPT !.enabled = TRUE, !.last = q.step,
                                                     !.failed = 0, !.locked = None]]
    /\ End(r)
    /\ UNCHANGED <<status, made, proved, chal, sess, now>>

DisableTOTP(r, u) ==
    /\ Idle(r) /\ ReadEnrollment(u, TRUE)
    /\ ValidateTOTP(now, totp[u].last) # {}
    /\ Begin(r, Task("disable", u))
    /\ UNCHANGED <<database, now>>

DeleteUserTOTP(r) ==
    /\ At(r, "disable") /\ Enabled(req[r].user)
    /\ totp' = [totp EXCEPT ![req[r].user] = None]
    /\ End(r)
    /\ UNCHANGED <<status, made, proved, chal, sess, now>>

-----------------------------------------------------------------------------
(* Sessions.                                                                *)

\* The first request in TouchInterval extends the session.  The time of the
\* last one is known by the expiry it led to, unless that is the absolute one.
TouchDue(s) ==
    sess[s].exp = sess[s].abs \/ now + IdleLifetime >= sess[s].exp + TouchInterval

TouchAuthenticated(r, s) ==
    /\ Idle(r) /\ Valid(s) /\ TouchDue(s)
    /\ Begin(r, [Timed("touch", sess[s].user) EXCEPT !.sess = s])
    /\ UNCHANGED <<database, now>>

Least(a, b) == IF a < b THEN a ELSE b

\* Mutant: a revoked session is touched like any other.
TouchSessionAlways(s, at) ==
    IF sess[s] = None THEN None ELSE
    [sess[s] EXCEPT !.exp = Least(at + IdleLifetime, sess[s].abs)]

TouchSession(s, at) ==
    IF sess[s] = None \/ sess[s].revoked THEN sess[s]
    ELSE [sess[s] EXCEPT !.exp = Least(at + IdleLifetime, sess[s].abs)]

Touch(r) ==
    /\ At(r, "touch")
    /\ sess' = [sess EXCEPT ![req[r].sess] = TouchSession(req[r].sess, req[r].at)]
    /\ End(r)
    /\ UNCHANGED <<status, totp, made, proved, chal, now>>

RevokeWhere(S) ==
    [s \in Sessions |-> IF s \in S /\ sess[s] # None THEN [sess[s] EXCEPT !.revoked = TRUE]
                        ELSE sess[s]]

SessionsOf(u) == {s \in Sessions : sess[s] # None /\ sess[s].user = u}

\* Any session of the signed-in user.
Revoke(u) ==
    /\ u \in SignedIn
    /\ \E s \in SessionsOf(u) : sess' = RevokeWhere({s})
    /\ UNCHANGED <<status, totp, made, proved, chal, req, now>>

Logout(s) ==
    /\ Valid(s)
    /\ sess' = RevokeWhere({s})
    /\ UNCHANGED <<status, totp, made, proved, chal, req, now>>

ChangePasswordAndRevokeOthers(s) == RevokeWhere(SessionsOf(sess[s].user) \ {s})

ChangePassword(s) ==
    /\ Valid(s)
    /\ sess' = ChangePasswordAndRevokeOthers(s)
    /\ UNCHANGED <<status, totp, made, proved, chal, req, now>>

ResetPasswordAndRevokeAll(u) == RevokeWhere(SessionsOf(u))

ResetPasswordByAdmin(u) ==
    /\ Exists(u)
    /\ sess' = ResetPasswordAndRevokeAll(u)
    /\ UNCHANGED <<status, totp, made, proved, chal, req, now>>

-----------------------------------------------------------------------------
(* Accounts, the clock and the process.                                     *)

\* The users table is locked while it is seen to be empty.
BootstrapInitialAdmin(u) ==
    /\ status[u] = "ABSENT" /\ \A v \in Users : ~Exists(v)
    /\ status' = [status EXCEPT ![u] = "ACTIVE"]
    /\ UNCHANGED <<totp, made, proved, chal, sess, req, now>>

\* By an administrator, who need not be one of Users; the id is a new one.
CreateUser(u) ==
    /\ status[u] = "ABSENT"
    /\ status' = [status EXCEPT ![u] = "ACTIVE"]
    /\ UNCHANGED <<totp, made, proved, chal, sess, req, now>>

DisableUser(u) ==
    /\ Exists(u)
    /\ status' = [status EXCEPT ![u] = "DISABLED"]
    /\ sess' = RevokeWhere(SessionsOf(u))
    /\ UNCHANGED <<totp, made, proved, chal, req, now>>

\* The rows of the account go with it (ON DELETE CASCADE).
DeleteUser(u) ==
    /\ Exists(u)
    /\ status' = [status EXCEPT ![u] = "DELETED"]
    /\ sess' = [s \in Sessions |-> IF s \in SessionsOf(u) THEN None ELSE sess[s]]
    /\ chal' = [c \in Challenges |-> IF chal[c] # None /\ chal[c].user = u THEN None ELSE chal[c]]
    /\ totp' = [totp EXCEPT ![u] = None]
    /\ UNCHANGED <<made, proved, req, now>>

DeleteExpiredTOTPChallenges(cutoff) ==
    {c \in Challenges : /\ chal[c] # None /\ ~chal[c].gone
                        /\ chal[c].exp < cutoff
                           \/ (chal[c].consumed # None /\ chal[c].consumed < cutoff)}

CleanupTOTPChallenges ==
    /\ now >= RetentionGrace
    /\ LET doomed == DeleteExpiredTOTPChallenges(now - RetentionGrace) IN
       /\ doomed # {}
       /\ chal' = [c \in Challenges |-> IF c \in doomed THEN [chal[c] EXCEPT !.gone = TRUE]
                                        ELSE chal[c]]
    /\ UNCHANGED <<status, totp, made, proved, sess, req, now>>

\* Errors, refused conditions, cancelled requests.
Abort(r) ==
    /\ ~Idle(r)
    /\ End(r)
    /\ UNCHANGED <<database, now>>

\* The process ends and starts again: what is in memory is lost.
Restart ==
    /\ req' = [r \in Reqs |-> None]
    /\ UNCHANGED <<database, now>>

Tick ==
    /\ now < MaxTime
    /\ now' = now + 1
    /\ UNCHANGED <<database, req>>

-----------------------------------------------------------------------------
Login(r) ==
    \/ \E u \in Users : LoginVerify(r, u)
    \/ NewLoginChallenge(r) \/ LoginCreateSession(r)

SecondFactor(r) ==
    \/ \E c \in Challenges : CompleteLoginTOTP(r, c)
    \/ CodeRefused(r) \/ CountAttempt(r) \/ CompleteTOTPLogin(r)

Enrollment(r) ==
    \/ \E u \in Users : \/ StartTOTPEnrollment(r, u) \/ ConfirmTOTPEnrollment(r, u)
                        \/ DisableTOTP(r, u) \/ OwnCodeWrong(r, u)
    \/ UpsertPendingTOTP(r) \/ OwnCodeRefused(r) \/ ConfirmEnable(r) \/ DeleteUserTOTP(r)

Activity(r) == (\E s \in Sessions : TouchAuthenticated(r, s)) \/ Touch(r)

Account(u) ==
    \/ BootstrapInitialAdmin(u) \/ CreateUser(u) \/ DisableUser(u) \/ DeleteUser(u) \/ ResetPasswordByAdmin(u)
    \/ Revoke(u)

OwnSession(s) == Logout(s) \/ ChangePassword(s)

Next ==
    \/ \E r \in Reqs : Login(r) \/ SecondFactor(r) \/ Enrollment(r) \/ Activity(r) \/ Abort(r)
    \/ \E u \in Users : Account(u)
    \/ \E s \in Sessions : OwnSession(s)
    \/ CleanupTOTPChallenges \/ Restart \/ Tick

Spec == Init /\ [][Next]_vars

-----------------------------------------------------------------------------
(* Properties.                                                              *)

TypeOK ==
    /\ status \in [Users -> Statuses]
    /\ totp \in [Users -> Maybe(Enrollments)]
    /\ made \in 0 .. MaxSecrets /\ proved \subseteq Secrets
    /\ chal \in [Challenges -> Maybe(ChallengeRows)]
    /\ sess \in [Sessions -> Maybe(SessionRows)]
    /\ req \in [Reqs -> Maybe(Tasks)]
    /\ now \in Nat

Opened == {s \in Sessions : sess[s] # None /\ sess[s].via # None}

\* A step of an enrollment and a challenge open one session each, however many
\* requests checked the code or read the challenge before one of them commits.
SecondFactorOnce ==
    \A s, t \in Opened :
        s # t => /\ sess[s].via.chal # sess[t].via.chal
                 /\ \/ sess[s].via.secret # sess[t].via.secret
                    \/ sess[s].via.step # sess[t].via.step

\* Only a secret whose owner presented a code of it is ever enabled, also when
\* the pending enrollment is replaced while its confirmation is under way.
ConfirmedSecretOnly ==
    \A u \in Users : (totp[u] # None /\ totp[u].enabled) => totp[u].secret \in proved

\* An enrollment that has reached the limit of failures is locked at some time:
\* no success, replacement or late failure leaves the count without a lock.
FailuresLock ==
    \A u \in Users :
        (totp[u] # None /\ totp[u].failed >= MaxFailedAttempts) => totp[u].locked # None

\* Requests that read a challenge before its last attempt was counted are the
\* only ones that can go past the limit of attempts.
AttemptsBounded ==
    \A c \in Challenges :
        chal[c] # None => chal[c].attempts < MaxChallengeAttempts + Cardinality(Reqs)

\* A revoked session stays what it was: no activity that was under way when it
\* was revoked extends it or brings it back.
RevokedFinal ==
    [][\A s \in Sessions : (sess[s] # None /\ sess[s].revoked) => sess'[s] \in {sess[s], None}]_vars

=============================================================================
