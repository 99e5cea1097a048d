--------------------------- MODULE StorageMonitor ---------------------------
(***************************************************************************)
(* The monitor of the NAS (internal/storage/monitor.go): a loop that       *)
(* starts a probe, waits for its result or for a timer, and settles the    *)
(* health; the probe runs in a goroutine of its own and may hang in the    *)
(* file system, holding the gate.  A probe that does not hang answers well *)
(* within the interval of the ticker.                                      *)
(***************************************************************************)
EXTENDS Naturals

CONSTANTS FailureThreshold,   \* consecutive failures before it is degraded
          MaxChanges          \* bound on the changes of the NAS

ASSUME MonitorBounds == FailureThreshold \in Nat \ {0} /\ MaxChanges \in Nat

VARIABLES
    nas,       \* what a call of the file system does
    changes,
    loop,      \* Run: in probeOnce, in its select, in the select of Run, ended
    probe,     \* the probe goroutine; it holds the gate until it is "none"
    tick,      \* the ticker's channel holds a tick
    failures,  \* failureCount, up to the threshold
    healthy,
    blamed     \* history: a probe failed or hung since the last good one

monitorVars == <<nas, changes, loop, probe, tick, failures, healthy, blamed>>
monitorMemory == <<loop, probe, tick, failures, healthy, blamed>>

MonitorInit ==
    /\ nas = "ok" /\ changes = 0
    /\ loop = "probe" /\ probe = "none" /\ tick = FALSE
    /\ failures = 0 /\ healthy = TRUE /\ blamed = FALSE

SettleHealthy == failures' = 0 /\ healthy' = TRUE /\ blamed' = FALSE

\* Mutant: one failure is enough.
DegradedAtOnce(n) == n >= 1

Degraded(n) == n >= FailureThreshold

SettleFailed(cause) ==
    /\ failures' = IF failures < FailureThreshold THEN failures + 1 ELSE failures
    /\ healthy' = IF Degraded(failures') THEN FALSE ELSE healthy
    /\ blamed' = (blamed \/ cause)

\* probeOnce up to its select.  The gate may be held by a probe that hangs, or
\* by one that has answered and is about to leave.
StartProbe ==
    /\ loop = "probe"
    /\ IF probe = "none"
       THEN probe' = "running" /\ loop' = "wait" /\ UNCHANGED <<failures, healthy, blamed>>
       ELSE loop' = "sleep" /\ SettleFailed(probe = "running") /\ UNCHANGED probe
    /\ UNCHANGED <<nas, changes, tick>>

\* Mutant: the channel has no buffer, and an abandoned probe never ends.
ProbeReturnsIfWaited ==
    /\ probe = "running" /\ nas # "hung" /\ loop = "wait"
    /\ probe' = "returned" /\ loop' = "sleep"
    /\ IF nas = "ok" THEN SettleHealthy ELSE SettleFailed(TRUE)
    /\ UNCHANGED <<nas, changes, tick>>

\* The probe returns; nobody waits for the result of an abandoned one.
ProbeReturns ==
    /\ probe = "running" /\ nas # "hung"
    /\ probe' = "returned"
    /\ IF loop = "wait"
       THEN loop' = "sleep" /\ IF nas = "ok" THEN SettleHealthy ELSE SettleFailed(TRUE)
       ELSE UNCHANGED <<loop, failures, healthy, blamed>>
    /\ UNCHANGED <<nas, changes, tick>>

ReleaseGate ==
    /\ probe = "returned" /\ probe' = "none"
    /\ UNCHANGED <<nas, changes, loop, tick, failures, healthy, blamed>>

ProbeTimeout ==
    /\ loop = "wait" /\ probe = "running" /\ nas = "hung"
    /\ loop' = "sleep" /\ SettleFailed(TRUE)
    /\ UNCHANGED <<nas, changes, probe, tick>>

\* An interval is longer than the probe's way from its answer to the gate.
TickerFires ==
    /\ loop \in {"wait", "sleep"} /\ ~tick /\ probe # "returned"
    /\ tick' = TRUE
    /\ UNCHANGED <<nas, changes, loop, probe, failures, healthy, blamed>>

NextRound ==
    /\ loop = "sleep" /\ tick
    /\ loop' = "probe" /\ tick' = FALSE
    /\ UNCHANGED <<nas, changes, probe, failures, healthy, blamed>>

\* Run returns when the context of the server is done.
MonitorStops ==
    /\ loop = "sleep" /\ loop' = "ended"
    /\ UNCHANGED <<nas, changes, probe, tick, failures, healthy, blamed>>

NasChanges ==
    /\ changes < MaxChanges /\ changes' = changes + 1
    /\ \E n \in {"ok", "error", "hung"} \ {nas} : nas' = n
    /\ UNCHANGED monitorMemory

MonitorLoop == StartProbe \/ ProbeTimeout \/ TickerFires \/ NextRound
ProbeGoroutine == ProbeReturns \/ ReleaseGate

\* The process ends, and a new one starts.
MonitorReset ==
    /\ loop' = "probe" /\ probe' = "none" /\ tick' = FALSE
    /\ failures' = 0 /\ healthy' = TRUE /\ blamed' = FALSE

MonitorTypeOK ==
    /\ nas \in {"ok", "error", "hung"} /\ changes \in 0 .. MaxChanges
    /\ loop \in {"probe", "wait", "sleep", "ended"}
    /\ probe \in {"none", "running", "returned"} /\ tick \in BOOLEAN
    /\ failures \in 0 .. FailureThreshold
    /\ healthy \in BOOLEAN /\ blamed \in BOOLEAN

\* Storage is reported as degraded only if a probe failed or hung since the
\* last one that succeeded: meeting the gate of a probe which has answered and
\* is about to leave is not enough (the threshold of settle, monitor.go).
DegradedForCause == ~healthy => blamed

=============================================================================
