---------------------------- MODULE RateLimiter ----------------------------
(***************************************************************************)
(* The in-memory limiter of login attempts (internal/auth/ratelimit.go)    *)
(* and the requests that use it: Allow before a password or a code is      *)
(* checked, then Failure, AllowChallenge or Success.  Between the two the  *)
(* request is busy with Argon2 or the database, so several requests that   *)
(* passed Allow can be under way.  All of them come from one address; a    *)
(* method of the limiter holds its mutex and is one step.                  *)
(***************************************************************************)
EXTENDS Naturals, FiniteSets

CONSTANTS Attempts,        \* requests that may be under way together
          Names,           \* names a request is limited by, besides its address
          BlockAfter,      \* failures after which a key is blocked (3)
          MaxShift,        \* longest block is 2^MaxShift seconds (8)
          RateEntryTTL, MaxEntries,
          MaxTime,         \* bound of the clock
          MaxBurst,        \* bound on the challenges counted by burst
          AddressKey, NoName

LimitKeys == Names \union {AddressKey}

ASSUME LimiterBounds ==
    /\ BlockAfter \in Nat \ {0} /\ MaxShift \in Nat /\ RateEntryTTL \in Nat
    /\ MaxEntries \in Nat \ {0} /\ MaxTime \in Nat /\ MaxBurst \in Nat
ASSUME LimiterNames == AddressKey \notin Names /\ NoName \notin Names

VARIABLES
    entries,  \* RateLimiter.entries
    trying,   \* the name of each request that passed Allow
    burst,    \* history: challenges allowed at this moment since a success, and
              \* whether the table was trimmed since then
    now

limiterVars == <<entries, trying, burst, now>>

\* An absent key reads as the zero entry; a key in the map has failures.
NoEntry == [failures |-> 0, last |-> 0, blocked |-> 0]
NoBurst == [count |-> 0, trimmed |-> FALSE]
NoEntries == [k \in LimitKeys |-> NoEntry]

LimiterInit ==
    /\ entries = NoEntries
    /\ trying = [a \in Attempts |-> NoName]
    /\ burst = NoBurst
    /\ now = 0

Cleanup(E) ==
    [k \in LimitKeys |-> IF now > E[k].last + RateEntryTTL THEN NoEntry ELSE E[k]]

Present(E) == {k \in LimitKeys : E[k].failures > 0}

Allowed(E, name) == \A k \in {AddressKey, name} : now >= E[k].blocked

\* An entry with the oldest last; the order of a map decides between equals.
EvictOldest(E) ==
    {[k \in LimitKeys |-> IF k = x THEN NoEntry ELSE E[k]] :
        x \in {y \in Present(E) : \A z \in Present(E) : E[y].last <= E[z].last}}

Delay(failures) ==
    LET n == failures - BlockAfter IN 2 ^ (IF n < MaxShift THEN n ELSE MaxShift)

Pressed(e) ==
    LET n == e.failures + 1 IN
    [failures |-> n, last |-> now,
     blocked |-> IF n >= BlockAfter THEN now + Delay(n) ELSE e.blocked]

\* The table is trimmed whenever it is full, also when the key is in it.
PressKey(E, k) ==
    LET room == IF Cardinality(Present(E)) >= MaxEntries THEN EvictOldest(E) ELSE {E} IN
    {[F EXCEPT ![k] = Pressed(F[k])] : F \in room}

RecordPressure(E, name) == UNION {PressKey(F, name) : F \in PressKey(E, AddressKey)}

Trims(E) == Cardinality(Present(E) \union {AddressKey}) >= MaxEntries

Press(name, allowed) ==
    LET E == Cleanup(entries) IN
    /\ entries' \in RecordPressure(E, name)
    /\ burst' = [count |-> burst.count + allowed, trimmed |-> burst.trimmed \/ Trims(E)]

Settled(a) == trying' = [trying EXCEPT ![a] = NoName]

Allow(a, name) ==
    /\ trying[a] = NoName
    /\ Allowed(Cleanup(entries), name)
    /\ entries' = Cleanup(entries)
    /\ trying' = [trying EXCEPT ![a] = name]
    /\ UNCHANGED <<burst, now>>

\* A wrong password or code.
Failure(a) ==
    /\ trying[a] # NoName
    /\ Press(trying[a], 0)
    /\ Settled(a)
    /\ UNCHANGED now

\* Mutant: the challenge is checked and not counted.
AllowChallengeUnreserved(a) ==
    /\ trying[a] # NoName /\ burst.count < MaxBurst
    /\ Allowed(Cleanup(entries), trying[a])
    /\ entries' = Cleanup(entries)
    /\ burst' = [burst EXCEPT !.count = @ + 1]
    /\ Settled(a)
    /\ UNCHANGED now

\* The right password of an account with a second factor.
AllowChallenge(a) ==
    /\ trying[a] # NoName /\ burst.count < MaxBurst
    /\ Allowed(Cleanup(entries), trying[a])
    /\ Press(trying[a], 1)
    /\ Settled(a)
    /\ UNCHANGED now

\* A challenge refused by the limiter: the request ends without a failure.
ChallengeRefused(a) ==
    /\ trying[a] # NoName
    /\ ~Allowed(Cleanup(entries), trying[a])
    /\ entries' = Cleanup(entries)
    /\ Settled(a)
    /\ UNCHANGED <<burst, now>>

\* A new session, with or without a second factor.
Success(a) ==
    /\ trying[a] # NoName
    /\ entries' = [entries EXCEPT ![AddressKey] = NoEntry, ![trying[a]] = NoEntry]
    /\ burst' = NoBurst
    /\ Settled(a)
    /\ UNCHANGED now

\* A request that ends on a database error or by its client.
AttemptAborted(a) ==
    /\ trying[a] # NoName
    /\ Settled(a)
    /\ UNCHANGED <<entries, burst, now>>

LimiterTick ==
    /\ now < MaxTime
    /\ now' = now + 1
    /\ burst' = NoBurst
    /\ UNCHANGED <<entries, trying>>

LimiterNext ==
    \/ \E a \in Attempts :
        \/ \E name \in Names : Allow(a, name)
        \/ Failure(a) \/ AllowChallenge(a) \/ ChallengeRefused(a)
        \/ Success(a) \/ AttemptAborted(a)
    \/ LimiterTick

LimiterSpec == LimiterInit /\ [][LimiterNext]_limiterVars

-----------------------------------------------------------------------------
(* Properties.                                                              *)

LimiterTypeOK ==
    /\ entries \in [LimitKeys -> [failures : Nat, last : Nat, blocked : Nat]]
    /\ trying \in [Attempts -> Names \union {NoName}]
    /\ burst \in [count : Nat, trimmed : BOOLEAN]
    /\ now \in 0 .. MaxTime

\* Requests that passed Allow together do not get a challenge each: however
\* many are under way, at one moment at most BlockAfter of them are given one,
\* unless a login succeeded or the table of the limiter was full and trimmed
\* (AllowChallenge reserves what it grants, ratelimit.go).
ChallengesLimited == burst.count > BlockAfter => burst.trimmed

=============================================================================
