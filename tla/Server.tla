------------------------------- MODULE Server -------------------------------
(***************************************************************************)
(* The life of the server process (cmd/relayshelf/main.go): it serves, is  *)
(* told to stop, waits a bounded time for its background tasks, closes the *)
(* hub and the pool, exits and is started again; or it crashes.  The hub   *)
(* of events (RealtimeHub) and the monitor of the NAS (StorageMonitor) are *)
(* parts of the process.                                                   *)
(***************************************************************************)
EXTENDS RealtimeHub, StorageMonitor

CONSTANT MaxRestarts   \* bound on the lives of the process
ASSUME ServerBounds == MaxRestarts \in Nat

VARIABLES
    stage,      \* where main is
    task,       \* the goroutines of the worker and of the scheduler
    restarts

processVars == <<stage, task, restarts>>
serverVars == <<hubVars, monitorVars, processVars>>

Tasks == {"worker", "scheduler"}

ServerInit ==
    /\ HubInit /\ MonitorInit
    /\ stage = "serving"
    /\ task = [t \in Tasks |-> "idle"]
    /\ restarts = 0

Accepting == stage = "serving"
Running == stage # "exited"

-----------------------------------------------------------------------------
(* main.                                                                    *)

\* serveCtx is done.
Signal ==
    /\ stage = "serving" /\ restarts < MaxRestarts
    /\ stage' = "draining"
    /\ UNCHANGED <<hubVars, monitorVars, task, restarts>>

\* Shutdown closes the listener, and ListenAndServe returns without waiting
\* for the requests under way.
ListenAndServeReturns ==
    /\ stage = "draining" /\ stage' = "waiting"
    /\ UNCHANGED <<hubVars, monitorVars, task, restarts>>

\* Mutant: there is no deadline.
BackgroundWaitWithoutDeadline == \A t \in Tasks : task[t] = "done"

\* The background tasks are done, or 30 seconds have passed.
BackgroundWaitOver == TRUE

\* main returns: the hub is closed first.
MainReturns ==
    /\ stage = "waiting" /\ BackgroundWaitOver
    /\ stage' = "closing"
    /\ Close
    /\ UNCHANGED <<monitorVars, task, restarts>>

\* Closing the pool waits for its connections: the scheduler holds one for the
\* whole of a pass, the worker's handler none while it is in the file system.
ConnectionsReturned == task["scheduler"] # "busy"

PoolClosed ==
    /\ stage = "closing" /\ ConnectionsReturned
    /\ stage' = "exited"
    /\ HubGone
    /\ UNCHANGED <<monitorVars, task, restarts>>

Crash ==
    /\ Running /\ restarts < MaxRestarts
    /\ stage' = "exited"
    /\ HubGone
    /\ UNCHANGED <<monitorVars, task, restarts>>

\* A new process gets past storage.Check only while the storage works; its
\* monitor runs from here on.
Restart ==
    /\ stage = "exited" /\ nas = "ok"
    /\ stage' = "starting" /\ restarts' = restarts + 1
    /\ task' = [t \in Tasks |-> "idle"]
    /\ MonitorReset
    /\ UNCHANGED <<hubVars, nas, changes>>

\* Reconcile or VerifyReady fails.
StartFails ==
    /\ stage = "starting" /\ restarts < MaxRestarts
    /\ stage' = "exited"
    /\ UNCHANGED <<hubVars, monitorVars, task, restarts>>

\* The passes at startup are over (FileObjects, UploadSessions), and the server
\* listens.  A signal that came meanwhile is taken after that.
Started ==
    /\ stage = "starting" /\ nas # "hung"
    /\ stage' = "serving"
    /\ UNCHANGED <<hubVars, monitorVars, task, restarts>>

-----------------------------------------------------------------------------
(* The worker and the scheduler: a pass may hang in the file system.        *)

StartPass(t) ==
    /\ stage = "serving" /\ task[t] = "idle"
    /\ task' = [task EXCEPT ![t] = "busy"]
    /\ UNCHANGED <<hubVars, monitorVars, stage, restarts>>

EndPass(t) ==
    /\ Running /\ task[t] = "busy"
    /\ task' = [task EXCEPT ![t] = "idle"]
    /\ UNCHANGED <<hubVars, monitorVars, stage, restarts>>

TaskReturns(t) ==
    /\ stage \in {"draining", "waiting", "closing"} /\ task[t] = "idle"
    /\ task' = [task EXCEPT ![t] = "done"]
    /\ UNCHANGED <<hubVars, monitorVars, stage, restarts>>

-----------------------------------------------------------------------------

Serving(action) == Accepting /\ action /\ UNCHANGED <<monitorVars, processVars>>
Alive(action) == Running /\ action /\ UNCHANGED <<monitorVars, processVars>>

Change == Serving(CommitChange)
PublishChange == Alive(Publish)
OpenStream(c) == Serving(Connect(c))
SubscribeStream(c) == Alive(Subscribe(c))
DeliverEvent(c) == Alive(Deliver(c))
CancelledStream(c) == Alive(StreamCancelled(c))
RevalidateStream(c) == Alive(ValidateSession(c))
BrokenStream(c) == Alive(StreamFails(c))
ResetStream(c) == Alive(ConnectionReset(c))
TabSeesOpen == Alive(TabOpens)
TabLosesConnection == Alive(ConnectionLost)
TabShown == TabVisible /\ UNCHANGED <<monitorVars, processVars>>
TabReads == Serving(Refetch)
TabReadFails == FetchFails /\ UNCHANGED <<monitorVars, processVars>>
TabSignedOut == Serving(SignedOut)
StreamNotOpened == ConnectFails /\ UNCHANGED <<monitorVars, processVars>>
EndSession == Serving(SessionEnds)

StreamNext ==
    \/ Change \/ PublishChange \/ TabSeesOpen \/ TabLosesConnection
    \/ TabShown \/ TabReads \/ TabReadFails \/ TabSignedOut \/ StreamNotOpened \/ EndSession
    \/ \E c \in Conns :
        \/ OpenStream(c) \/ SubscribeStream(c) \/ DeliverEvent(c) \/ CancelledStream(c)
        \/ RevalidateStream(c) \/ BrokenStream(c) \/ ResetStream(c)

MonitorRuns == Running /\ MonitorLoop /\ UNCHANGED <<hubVars, processVars>>
ProbeRuns == Running /\ ProbeGoroutine /\ UNCHANGED <<hubVars, processVars>>
MonitorEnds ==
    /\ stage \in {"draining", "waiting", "closing"}
    /\ MonitorStops
    /\ UNCHANGED <<hubVars, processVars>>
StorageChanges == NasChanges /\ UNCHANGED <<hubVars, processVars>>

StorageNext ==
    \/ MonitorRuns \/ ProbeRuns \/ MonitorEnds \/ StorageChanges
    \/ \E t \in Tasks : StartPass(t) \/ EndPass(t) \/ TaskReturns(t)

ProcessNext ==
    \/ Signal \/ ListenAndServeReturns \/ MainReturns \/ PoolClosed \/ Crash
    \/ Restart \/ StartFails \/ Started

ServerNext == StreamNext \/ StorageNext \/ ProcessNext

\* What the browser asks of a server that serves is answered, well or not.
StreamAnswered == Accepting /\ (StreamNotOpened \/ \E c \in Conns : OpenStream(c))
ReadAnswered == Accepting /\ (TabReads \/ TabReadFails)

\* Goroutines, timers and the browser are scheduled; a pass ends unless the
\* file system hangs; a process that exited is started again; which of several
\* ready cases a select takes is random.
StreamFairness ==
    /\ WF_serverVars(PublishChange) /\ WF_serverVars(TabSeesOpen)
    /\ WF_serverVars(StreamAnswered) /\ WF_serverVars(ReadAnswered)
    /\ \A c \in Conns :
        /\ WF_serverVars(SubscribeStream(c)) /\ WF_serverVars(DeliverEvent(c)) /\ WF_serverVars(CancelledStream(c))
        /\ WF_serverVars(RevalidateStream(c)) /\ WF_serverVars(ResetStream(c))
StorageFairness ==
    /\ WF_serverVars(MonitorRuns) /\ WF_serverVars(ProbeRuns)
    /\ \A t \in Tasks : WF_serverVars(nas # "hung" /\ EndPass(t)) /\ WF_serverVars(TaskReturns(t))
ProcessFairness ==
    /\ WF_serverVars(ListenAndServeReturns) /\ WF_serverVars(MainReturns)
    /\ WF_serverVars(PoolClosed) /\ WF_serverVars(Restart) /\ WF_serverVars(Started)

ServerSpec ==
    /\ ServerInit /\ [][ServerNext]_serverVars
    /\ StreamFairness /\ StorageFairness /\ ProcessFairness

-----------------------------------------------------------------------------
(* Properties.                                                              *)

\* A tab whose stream is up, with nothing left in its queue, to publish or to
\* read (a read that failed counts as left), shows every committed change, unless
\* the hint came while it had no subscription (between the flush of the header and
\* Subscribe, or before the first connection).  The hints in the queue of a
\* stream that is cut off, because the queue is full (Hub.Publish), the server
\* stops or the network fails, are made up for by the next connection.
CaughtUp ==
    LET s == conn[tab.conn] IN
    (/\ tab.conn # NoConn /\ tab.opened /\ ~tab.stale /\ ~tab.missed
     /\ s.stage = "live" /\ ~s.cancelled /\ s.queue = 0 /\ pending = 0)
    => tab.known = version

\* A tab that is behind catches up in the end, through lost connections, full
\* queues, crashes, restarts and starts that fail, unless the hint was missed,
\* a read and its retry failed (it is repeated at the next hint, connection or
\* showing), a reconnection got an answer other than 200 (realtime.ts keeps
\* the closed EventSource), the session ended, or the storage keeps the server
\* from starting.
CatchesUp ==
    (tab.known # version)
        ~> (\/ tab.known = version \/ tab.missed \/ tab.failed \/ tab.source # "on"
            \/ ~valid \/ nas # "ok")

\* A stream does not outlive its session for good: the heartbeat or the expiry
\* timer ends it (GetEvents).
StreamsEnd == ~valid ~> (\A c \in Conns : conn[c].stage = "none")

\* Once the NAS stays well (or stays away) and the process keeps serving, the
\* reported health follows for good; a probe that hung before must give the
\* gate back when it returns (probeOnce).
HealthFollowsNas ==
    /\ <>[](nas = "ok" /\ Accepting) => <>[]healthy
    /\ <>[](nas # "ok" /\ Accepting) => <>[]~healthy

\* After a signal the process exits, even if the worker hangs in the file
\* system for ever; only a scheduler pass that hangs keeps it, since closing
\* the pool waits for the connection of that pass.
ShutdownEnds ==
    <>[]~(nas = "hung" /\ task["scheduler"] = "busy")
        => (stage = "draining" ~> stage = "exited")

ServerTypeOK ==
    /\ HubTypeOK /\ MonitorTypeOK
    /\ stage \in {"starting", "serving", "draining", "waiting", "closing", "exited"}
    /\ task \in [Tasks -> {"idle", "busy", "done"}]
    /\ restarts \in 0 .. MaxRestarts

=============================================================================
