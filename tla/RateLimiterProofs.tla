------------------------- MODULE RateLimiterProofs -------------------------
(* Invariance proofs for RateLimiter, for any number of requests and names,  *)
(* any limit and any size of the table.                                      *)
EXTENDS RateLimiter, FiniteSetTheorems, TLAPS

Entry == [failures : Nat, last : Nat, blocked : Nat]
Table == [LimitKeys -> Entry]

\* While the table has not been trimmed, the challenges of this moment are all
\* counted in the entry of the address, and the entry blocks once it is full.
Counted ==
    burst.count > 0 /\ ~burst.trimmed =>
        /\ entries[AddressKey].last = now
        /\ burst.count <= entries[AddressKey].failures
        /\ burst.count <= BlockAfter
        /\ entries[AddressKey].failures >= BlockAfter => entries[AddressKey].blocked > now

LInv == LimiterTypeOK /\ IsFiniteSet(Present(entries)) /\ Counted

----------------------------------------------------------------------------
(* The operators of the limiter.                                             *)

\* A block lasts at least a second: there are 2^n subsets of 1..n.
LEMMA DelayPositive ==
  ASSUME NEW n \in Nat, n >= BlockAfter
  PROVE  Delay(n) \in Nat /\ Delay(n) >= 1
  <1>1. ASSUME NEW k \in Nat PROVE 2 ^ k \in Nat /\ 2 ^ k >= 1
    <2>1. IsFiniteSet(1 .. k) /\ Cardinality(1 .. k) = k
      BY FS_Interval
    <2>2. IsFiniteSet(SUBSET (1 .. k)) /\ Cardinality(SUBSET (1 .. k)) = 2 ^ k
      BY <2>1, FS_SUBSET
    <2>3. Cardinality(SUBSET (1 .. k)) \in Nat /\ Cardinality(SUBSET (1 .. k)) # 0
      BY <2>2, FS_CardinalityType, FS_EmptySet
    <2>. QED
      BY <2>2, <2>3
  <1>2. (IF n - BlockAfter < MaxShift THEN n - BlockAfter ELSE MaxShift) \in Nat
    BY LimiterBounds
  <1>. QED
    BY <1>1, <1>2 DEF Delay

\* Cleanup forgets entries and invents none; an entry of this moment stays.
LEMMA CleanupKeeps ==
  ASSUME NEW E \in Table, now \in Nat
  PROVE  /\ Cleanup(E) \in Table /\ Present(Cleanup(E)) \subseteq Present(E)
         /\ \A k \in LimitKeys : E[k].last = now => Cleanup(E)[k] = E[k]
  <1>1. NoEntry \in Entry /\ NoEntry.failures = 0
    BY DEF NoEntry, Entry
  <1>2. Cleanup(E) \in Table
    BY <1>1 DEF Cleanup, Table
  <1>3. Present(Cleanup(E)) \subseteq Present(E)
    BY <1>1 DEF Cleanup, Present, Table
  <1>4. \A k \in LimitKeys : E[k].last = now => Cleanup(E)[k] = E[k]
    BY LimiterBounds DEF Cleanup, Table, Entry
  <1>. QED
    BY <1>2, <1>3, <1>4

\* An entry after one more failure.
LEMMA PressedEntry ==
  ASSUME NEW e \in Entry, now \in Nat
  PROVE  /\ Pressed(e) \in Entry /\ Pressed(e).last = now
         /\ Pressed(e).failures = e.failures + 1
         /\ Pressed(e).failures >= BlockAfter => Pressed(e).blocked > now
  <1>1. e.failures \in Nat /\ e.blocked \in Nat
    BY DEF Entry
  <1>2. PICK b : b = IF e.failures + 1 >= BlockAfter THEN now + Delay(e.failures + 1) ELSE e.blocked
    OBVIOUS
  <1>3. b \in Nat /\ (e.failures + 1 >= BlockAfter => b > now)
    BY <1>1, <1>2, DelayPositive
  <1>4. Pressed(e) = [failures |-> e.failures + 1, last |-> now, blocked |-> b]
    BY <1>2 DEF Pressed
  <1>. QED
    BY <1>1, <1>3, <1>4 DEF Entry

\* Whatever is evicted, a pressed table is a table and has at most one new key.
LEMMA PressKeyTable ==
  ASSUME NEW E \in Table, now \in Nat, NEW k \in LimitKeys, NEW F \in PressKey(E, k)
  PROVE  F \in Table /\ Present(F) \subseteq Present(E) \union {k}
  <1>1. NoEntry \in Entry /\ NoEntry.failures = 0
    BY DEF NoEntry, Entry
  <1>2. ASSUME NEW G \in EvictOldest(E)
        PROVE  G \in Table /\ Present(G) \subseteq Present(E)
    <2>1. PICK x \in LimitKeys : G = [y \in LimitKeys |-> IF y = x THEN NoEntry ELSE E[y]]
      BY <1>2 DEF EvictOldest, Present
    <2>2. G \in Table
      BY <1>1, <2>1 DEF Table
    <2>3. Present(G) \subseteq Present(E)
      BY <1>1, <2>1 DEF Present
    <2>. QED
      BY <2>2, <2>3
  <1>3. PICK G : /\ G \in Table /\ Present(G) \subseteq Present(E)
                 /\ F = [G EXCEPT ![k] = Pressed(G[k])]
    BY <1>2 DEF PressKey
  <1>4. Pressed(G[k]) \in Entry
    BY <1>3, PressedEntry DEF Table
  <1>5. F \in Table
    BY <1>3, <1>4 DEF Table
  <1>6. \A y \in LimitKeys : y # k => F[y] = G[y]
    BY <1>3 DEF Table
  <1>7. Present(F) \subseteq Present(E) \union {k}
    BY <1>3, <1>6 DEF Present
  <1>. QED
    BY <1>5, <1>7

\* In a table with room nothing is evicted.
LEMMA PressKeyRoom ==
  ASSUME NEW E, NEW k, ~(Cardinality(Present(E)) >= MaxEntries), NEW F \in PressKey(E, k)
  PROVE  F = [E EXCEPT ![k] = Pressed(E[k])]
  BY DEF PressKey

----------------------------------------------------------------------------
(* recordPressure as a whole.                                                *)

\* A failure or a challenge leaves a table of finitely many entries; unless it
\* is trimmed, the entry of the address has one failure more.
LEMMA PressKeeps ==
  ASSUME LInv, NEW name \in Names, NEW n \in Nat, Press(name, n)
  PROVE  /\ entries' \in Table /\ IsFiniteSet(Present(entries'))
         /\ burst' \in [count : Nat, trimmed : BOOLEAN]
         /\ burst'.count = burst.count + n /\ (burst.trimmed => burst'.trimmed)
         /\ ~burst'.trimmed =>
               entries'[AddressKey] = Pressed(Cleanup(entries)[AddressKey])
  <1>. DEFINE E == Cleanup(entries)
  <1>1. now \in Nat /\ entries \in Table /\ burst \in [count : Nat, trimmed : BOOLEAN]
    BY LimiterBounds DEF LInv, LimiterTypeOK, Table, Entry
  <1>2. AddressKey \in LimitKeys /\ name \in LimitKeys /\ name # AddressKey
    BY LimiterNames DEF LimitKeys
  <1>3. E \in Table /\ Present(E) \subseteq Present(entries)
    BY <1>1, CleanupKeeps
  <1>4. /\ entries' \in RecordPressure(E, name)
        /\ burst' = [count |-> burst.count + n, trimmed |-> burst.trimmed \/ Trims(E)]
    BY DEF Press
  <1>. HIDE DEF E
  <1>5. PICK F \in PressKey(E, AddressKey) : entries' \in PressKey(F, name)
    BY <1>4 DEF RecordPressure
  <1>6. F \in Table /\ Present(F) \subseteq Present(E) \union {AddressKey}
    BY <1>1, <1>2, <1>3, PressKeyTable
  <1>7. entries' \in Table /\ Present(entries') \subseteq Present(F) \union {name}
    BY <1>1, <1>2, <1>5, <1>6, PressKeyTable
  <1>8. IsFiniteSet(Present(E))
    BY <1>3, FS_Subset DEF LInv
  <1>9. IsFiniteSet(Present(E) \union {AddressKey})
    BY <1>8, FS_AddElement
  <1>10. IsFiniteSet(Present(entries'))
    <2>1. IsFiniteSet((Present(E) \union {AddressKey}) \union {name})
      BY <1>9, FS_AddElement
    <2>2. Present(entries') \subseteq (Present(E) \union {AddressKey}) \union {name}
      BY <1>6, <1>7
    <2>. QED
      BY <2>1, <2>2, FS_Subset
  <1>11. /\ burst'.count = burst.count + n /\ (burst.trimmed => burst'.trimmed)
         /\ (~burst'.trimmed => ~Trims(E))
    BY <1>4
  <1>12. burst' \in [count : Nat, trimmed : BOOLEAN]
    <2>1. burst.count + n \in Nat
      BY <1>1
    <2>2. (burst.trimmed \/ Trims(E)) \in BOOLEAN
      BY <1>1 DEF Trims
    <2>. QED
      BY <1>4, <2>1, <2>2
  <1>13. ASSUME ~Trims(E)
         PROVE  entries'[AddressKey] = Pressed(E[AddressKey])
    <2>1. ~(Cardinality(Present(E) \union {AddressKey}) >= MaxEntries)
      BY <1>13 DEF Trims
    <2>2. ~(Cardinality(Present(E)) >= MaxEntries) /\ ~(Cardinality(Present(F)) >= MaxEntries)
      <3>1. ASSUME NEW S, S \subseteq Present(E) \union {AddressKey}
            PROVE  ~(Cardinality(S) >= MaxEntries)
        <4>1. /\ IsFiniteSet(S)
              /\ Cardinality(S) <= Cardinality(Present(E) \union {AddressKey})
          BY <1>9, <3>1, FS_Subset
        <4>2. Cardinality(S) \in Nat /\ Cardinality(Present(E) \union {AddressKey}) \in Nat
          BY <1>9, <4>1, FS_CardinalityType
        <4>. QED
          BY <2>1, <4>1, <4>2, LimiterBounds
      <3>. QED
        BY <1>6, <3>1
    <2>3. F = [E EXCEPT ![AddressKey] = Pressed(E[AddressKey])]
      BY <2>2, PressKeyRoom
    <2>4. entries' = [F EXCEPT ![name] = Pressed(F[name])]
      BY <1>5, <2>2, PressKeyRoom
    <2>. QED
      BY <1>2, <1>3, <1>6, <2>3, <2>4 DEF Table
  <1>. QED
    BY <1>7, <1>10, <1>11, <1>12, <1>13 DEF E

\* A request that ends.
LEMMA SettledTyped ==
  ASSUME LimiterTypeOK, NEW a \in Attempts, Settled(a)
  PROVE  trying' \in [Attempts -> Names \union {NoName}]
  BY DEF LimiterTypeOK, Settled

----------------------------------------------------------------------------
(* One lemma per kind of step.                                               *)

\* A failure is counted and no challenge is given.
LEMMA FailureKeeps ==
  ASSUME LInv, NEW a \in Attempts, Failure(a)
  PROVE  LInv'
  <1>. DEFINE e == entries[AddressKey]
  <1>1. trying[a] \in Names /\ Press(trying[a], 0) /\ Settled(a) /\ now' = now
    BY DEF Failure, LInv, LimiterTypeOK
  <1>2. now \in Nat /\ entries \in Table /\ e \in Entry /\ burst.count \in Nat
    BY LimiterBounds DEF LInv, LimiterTypeOK, Table, Entry, LimitKeys
  <1>3. /\ entries' \in Table /\ IsFiniteSet(Present(entries'))
        /\ burst' \in [count : Nat, trimmed : BOOLEAN]
        /\ burst'.count = burst.count + 0 /\ (burst.trimmed => burst'.trimmed)
        /\ ~burst'.trimmed => entries'[AddressKey] = Pressed(Cleanup(entries)[AddressKey])
    BY <1>1, PressKeeps
  <1>4. LimiterTypeOK'
    BY <1>1, <1>3, SettledTyped DEF LInv, LimiterTypeOK, Table, Entry
  <1>5. Counted'
    <2>. SUFFICES ASSUME burst'.count > 0, ~burst'.trimmed
                  PROVE  /\ entries'[AddressKey].last = now
                         /\ burst'.count <= entries'[AddressKey].failures
                         /\ burst'.count <= BlockAfter
                         /\ entries'[AddressKey].failures >= BlockAfter
                               => entries'[AddressKey].blocked > now
      BY <1>1 DEF Counted
    <2>1. burst.count > 0 /\ ~burst.trimmed /\ burst'.count = burst.count
      BY <1>2, <1>3
    <2>2. e.last = now /\ burst.count <= e.failures /\ burst.count <= BlockAfter
      BY <2>1 DEF LInv, Counted
    <2>3. entries'[AddressKey] = Pressed(e)
      BY <1>2, <1>3, <2>2, CleanupKeeps DEF LimitKeys
    <2>4. /\ Pressed(e).last = now /\ Pressed(e).failures = e.failures + 1
          /\ Pressed(e).failures >= BlockAfter => Pressed(e).blocked > now
      BY <1>2, PressedEntry
    <2>5. burst.count <= e.failures + 1
      BY <1>2, <2>2 DEF Entry
    <2>. QED
      BY <2>1, <2>2, <2>3, <2>4, <2>5
  <1>. QED
    BY <1>3, <1>4, <1>5 DEF LInv

\* A challenge is given only while the entry of the address is not blocked,
\* so the entry has counted fewer than BlockAfter before.
LEMMA AllowChallengeKeeps ==
  ASSUME LInv, NEW a \in Attempts, AllowChallenge(a)
  PROVE  LInv'
  <1>. DEFINE e == Cleanup(entries)[AddressKey]
  <1>1. /\ trying[a] \in Names /\ Press(trying[a], 1) /\ Settled(a) /\ now' = now
        /\ now >= e.blocked
    BY DEF AllowChallenge, Allowed, LInv, LimiterTypeOK
  <1>2. now \in Nat /\ entries \in Table /\ burst.count \in Nat /\ AddressKey \in LimitKeys
    BY LimiterBounds DEF LInv, LimiterTypeOK, Table, Entry, LimitKeys
  <1>3. e \in Entry
    BY <1>2, CleanupKeeps DEF Table
  <1>4. /\ entries' \in Table /\ IsFiniteSet(Present(entries'))
        /\ burst' \in [count : Nat, trimmed : BOOLEAN]
        /\ burst'.count = burst.count + 1 /\ (burst.trimmed => burst'.trimmed)
        /\ ~burst'.trimmed => entries'[AddressKey] = Pressed(e)
    BY <1>1, PressKeeps
  <1>5. LimiterTypeOK'
    BY <1>1, <1>4, SettledTyped DEF LInv, LimiterTypeOK, Table, Entry
  <1>6. Counted'
    <2>. SUFFICES ASSUME ~burst'.trimmed
                  PROVE  /\ entries'[AddressKey].last = now
                         /\ burst'.count <= entries'[AddressKey].failures
                         /\ burst'.count <= BlockAfter
                         /\ entries'[AddressKey].failures >= BlockAfter
                               => entries'[AddressKey].blocked > now
      BY <1>1 DEF Counted
    <2>1. burst.count > 0 => burst.count <= e.failures /\ e.failures < BlockAfter
      <3>. SUFFICES ASSUME burst.count > 0
                    PROVE  burst.count <= e.failures /\ e.failures < BlockAfter
        OBVIOUS
      <3>1. /\ entries[AddressKey].last = now
            /\ burst.count <= entries[AddressKey].failures
            /\ entries[AddressKey].failures >= BlockAfter => entries[AddressKey].blocked > now
        BY <1>4 DEF LInv, Counted
      <3>2. e = entries[AddressKey]
        BY <1>2, <3>1, CleanupKeeps
      <3>3. burst.count <= e.failures /\ (e.failures >= BlockAfter => e.blocked > now)
        BY <3>1, <3>2
      <3>4. e.failures \in Nat /\ e.blocked \in Nat
        BY <1>3 DEF Entry
      <3>. HIDE DEF e
      <3>. QED
        BY <1>1, <1>2, <3>3, <3>4, LimiterBounds
    <2>2. /\ Pressed(e).last = now /\ Pressed(e).failures = e.failures + 1
          /\ Pressed(e).failures >= BlockAfter => Pressed(e).blocked > now
      BY <1>2, <1>3, PressedEntry
    <2>3. burst.count + 1 <= e.failures + 1 /\ burst.count + 1 <= BlockAfter
      <3>1. e.failures \in Nat
        BY <1>3 DEF Entry
      <3>. HIDE DEF e
      <3>. QED
        BY <1>2, <2>1, <3>1, LimiterBounds
    <2>. HIDE DEF e
    <2>. QED
      BY <1>4, <2>2, <2>3
  <1>. QED
    BY <1>4, <1>5, <1>6 DEF LInv

\* Allow and a refused challenge clean up, which leaves the entry of the
\* address alone as long as it counts challenges of this moment.
LEMMA CleaningKeeps ==
  ASSUME LInv, entries' = Cleanup(entries), UNCHANGED <<burst, now>>,
         trying' \in [Attempts -> Names \union {NoName}]
  PROVE  LInv'
  <1>1. now \in Nat /\ entries \in Table /\ AddressKey \in LimitKeys
    BY LimiterBounds DEF LInv, LimiterTypeOK, Table, Entry, LimitKeys
  <1>2. /\ entries' \in Table /\ Present(entries') \subseteq Present(entries)
        /\ entries[AddressKey].last = now => entries'[AddressKey] = entries[AddressKey]
    BY <1>1, CleanupKeeps
  <1>3. LimiterTypeOK'
    BY <1>2 DEF LInv, LimiterTypeOK, Table, Entry
  <1>4. IsFiniteSet(Present(entries'))
    BY <1>2, FS_Subset DEF LInv
  <1>5. Counted'
    BY <1>2 DEF LInv, Counted
  <1>. QED
    BY <1>3, <1>4, <1>5 DEF LInv

\* A login that succeeds forgets the entries and the history.
LEMMA SuccessKeeps ==
  ASSUME LInv, NEW a \in Attempts, Success(a)
  PROVE  LInv'
  <1>1. NoEntry \in Entry /\ NoEntry.failures = 0
    BY DEF NoEntry, Entry
  <1>2. /\ trying[a] \in LimitKeys /\ AddressKey \in LimitKeys
        /\ entries' = [entries EXCEPT ![AddressKey] = NoEntry, ![trying[a]] = NoEntry]
        /\ burst' = NoBurst /\ Settled(a) /\ now' = now
    BY DEF Success, LInv, LimiterTypeOK, LimitKeys
  <1>3. entries \in Table
    BY DEF LInv, LimiterTypeOK, Table, Entry
  <1>4. entries' \in Table
    BY <1>1, <1>2, <1>3 DEF Table
  <1>5. \A k \in LimitKeys : entries'[k] = entries[k] \/ entries'[k] = NoEntry
    BY <1>2, <1>3 DEF Table
  <1>6. Present(entries') \subseteq Present(entries)
    BY <1>1, <1>5 DEF Present
  <1>7. IsFiniteSet(Present(entries'))
    BY <1>6, FS_Subset DEF LInv
  <1>8. burst' \in [count : Nat, trimmed : BOOLEAN] /\ Counted'
    BY <1>2 DEF NoBurst, Counted
  <1>9. LimiterTypeOK'
    BY <1>2, <1>4, <1>8, SettledTyped DEF LInv, LimiterTypeOK, Table, Entry
  <1>. QED
    BY <1>7, <1>8, <1>9 DEF LInv

\* A request that gives up, and the clock.
LEMMA OthersKeep ==
  ASSUME LInv, LimiterTick \/ UNCHANGED limiterVars
               \/ \E a \in Attempts : AttemptAborted(a)
  PROVE  LInv'
  <1>1. CASE LimiterTick
    <2>1. NoBurst \in [count : Nat, trimmed : BOOLEAN] /\ Counted'
      BY <1>1 DEF LimiterTick, NoBurst, Counted
    <2>2. now' \in 0 .. MaxTime
      BY <1>1, LimiterBounds DEF LimiterTick, LInv, LimiterTypeOK
    <2>3. LimiterTypeOK'
      BY <1>1, <2>1, <2>2 DEF LimiterTick, LInv, LimiterTypeOK
    <2>. QED
      BY <1>1, <2>1, <2>3 DEF LimiterTick, LInv
  <1>2. ASSUME NEW a \in Attempts, AttemptAborted(a) PROVE LInv'
    <2>1. LimiterTypeOK'
      BY <1>2, SettledTyped DEF AttemptAborted, LInv, LimiterTypeOK
    <2>. QED
      BY <1>2, <2>1 DEF AttemptAborted, LInv, Counted
  <1>3. CASE UNCHANGED limiterVars
    BY <1>3 DEF limiterVars, LInv, LimiterTypeOK, Counted
  <1>. QED
    BY <1>1, <1>2, <1>3

----------------------------------------------------------------------------

\* The invariant of the limiter, for any number of requests and names.
THEOREM LimiterInvariance == LimiterSpec => []LInv
  <1>1. LimiterInit => LInv
    <2>. SUFFICES ASSUME LimiterInit PROVE LInv
      OBVIOUS
    <2>1. LimiterTypeOK /\ Counted
      BY LimiterBounds DEF LimiterInit, NoEntries, NoEntry, NoBurst, LimiterTypeOK, Counted
    <2>2. Present(entries) = {}
      BY DEF LimiterInit, NoEntries, NoEntry, Present
    <2>. QED
      BY <2>1, <2>2, FS_EmptySet DEF LInv
  <1>2. LInv /\ [LimiterNext]_limiterVars => LInv'
    <2>. SUFFICES ASSUME LInv, [LimiterNext]_limiterVars PROVE LInv'
      OBVIOUS
    <2>1. ASSUME NEW a \in Attempts, NEW name \in Names, Allow(a, name) PROVE LInv'
      <3>1. trying' \in [Attempts -> Names \union {NoName}]
        BY <2>1 DEF Allow, LInv, LimiterTypeOK
      <3>. QED
        BY <2>1, <3>1, CleaningKeeps DEF Allow
    <2>2. ASSUME NEW a \in Attempts, ChallengeRefused(a) PROVE LInv'
      BY <2>2, SettledTyped, CleaningKeeps DEF ChallengeRefused, LInv
    <2>. QED
      BY <2>1, <2>2, FailureKeeps, AllowChallengeKeeps, SuccessKeeps, OthersKeep DEF LimiterNext
  <1>. QED
    BY <1>1, <1>2, PTL DEF LimiterSpec

\* However many requests passed Allow together, at one moment no more than
\* BlockAfter of them are given a challenge, unless the table was trimmed.
THEOREM ChallengesStayLimited == LimiterSpec => []ChallengesLimited
  <1>1. LInv => ChallengesLimited
    BY LimiterBounds DEF LInv, LimiterTypeOK, Counted, ChallengesLimited
  <1>. QED
    BY <1>1, LimiterInvariance, PTL
=============================================================================
