---------------------------- MODULE RealtimeHub ----------------------------
(***************************************************************************)
(* Server-sent events (internal/realtime): the hub of subscriptions, the   *)
(* handler of GET /events, the requests that publish a hint after their    *)
(* change is committed, and the browser that follows the hints             *)
(* (web/src/app/realtime.ts).  One account and one browser tab; an event   *)
(* is a hint to read again, so a queue is known by its length and what the *)
(* tab shows by the number of changes it has read.                         *)
(***************************************************************************)
EXTENDS Naturals, FiniteSets

CONSTANTS Conns,        \* requests for /events of the tab
          Buffer,       \* capacity of a subscription (DefaultSubscriberBuffer)
          MaxVersion,   \* bound on the changes
          MaxDrops,     \* bound on lost connections and failed streams
          NoConn

ASSUME HubBounds ==
    Buffer \in Nat \ {0} /\ MaxVersion \in Nat /\ MaxDrops \in Nat /\ NoConn \notin Conns

\* Streams of the server, and what the tab knows.  A read that failed is not
\* repeated before the next invalidation; an EventSource is closed for good by
\* an answer other than 200, and stopped when the tab goes to the login page.
Streams == [stage : {"none", "flushed", "live"}, registered : BOOLEAN,
            cancelled : BOOLEAN, queue : 0 .. Buffer]
Tabs == [conn : Conns \union {NoConn}, opened : BOOLEAN, known : 0 .. MaxVersion,
         stale : BOOLEAN, failed : BOOLEAN, wasDisconnected : BOOLEAN, missed : BOOLEAN,
         source : {"on", "closed", "stopped"}]

VARIABLES
    version,   \* committed changes
    pending,   \* committed changes whose Publish is still to come
    conn,      \* GetEvents per connection
    tab,       \* the browser tab
    valid,     \* the session of the tab
    drops

hubVars == <<version, pending, conn, tab, valid, drops>>

NoStream == [stage |-> "none", registered |-> FALSE, cancelled |-> FALSE, queue |-> 0]

HubInit ==
    /\ version = 0 /\ pending = 0
    /\ conn = [c \in Conns |-> NoStream]
    /\ tab = [conn |-> NoConn, opened |-> FALSE, known |-> 0, stale |-> FALSE,
              failed |-> FALSE, wasDisconnected |-> FALSE, missed |-> FALSE, source |-> "on"]
    /\ valid = TRUE
    /\ drops = 0

\* Subscribe was called for the connection the tab reads from.
Reached == tab.conn # NoConn /\ conn[tab.conn].stage = "live"

CommitChange ==
    /\ version < MaxVersion
    /\ version' = version + 1
    /\ pending' = pending + 1
    /\ UNCHANGED <<conn, tab, valid, drops>>

Offered(s) ==
    IF ~s.registered THEN s
    ELSE IF s.queue < Buffer THEN [s EXCEPT !.queue = @ + 1]
    ELSE [s EXCEPT !.cancelled = TRUE]

\* A hint that finds no subscription of a tab which is not going to read
\* again by itself is missed.
Publish ==
    /\ pending > 0
    /\ pending' = pending - 1
    /\ conn' = [c \in Conns |-> Offered(conn[c])]
    /\ tab' = [tab EXCEPT !.missed = @ \/ (~Reached /\ ~tab.wasDisconnected)]
    /\ UNCHANGED <<version, valid, drops>>

\* Up to the flush of the response's header.
Connect(c) ==
    /\ tab.conn = NoConn /\ tab.source = "on" /\ conn[c].stage = "none" /\ valid
    /\ conn' = [conn EXCEPT ![c].stage = "flushed"]
    /\ tab' = [tab EXCEPT !.conn = c, !.opened = FALSE]
    /\ UNCHANGED <<version, pending, valid, drops>>

\* The request's context may be done already when it subscribes.
Subscribe(c) ==
    /\ conn[c].stage = "flushed"
    /\ conn' = [conn EXCEPT ![c].stage = "live", ![c].registered = TRUE]
    /\ UNCHANGED <<version, pending, tab, valid, drops>>

\* Mutant: a new connection does not read again.
OpenedWithoutReading(t) == [t EXCEPT !.opened = TRUE, !.wasDisconnected = FALSE]

\* invalidateServerTruth: a read under way is begun again.
Invalidated(t) == [t EXCEPT !.stale = TRUE, !.failed = FALSE]

\* The tab's "open" event.
Opened(t) ==
    LET u == IF t.wasDisconnected THEN Invalidated(t) ELSE t IN
    [u EXCEPT !.opened = TRUE, !.wasDisconnected = FALSE]

TabOpens ==
    /\ tab.conn # NoConn /\ ~tab.opened
    /\ tab' = Opened(tab)
    /\ UNCHANGED <<version, pending, conn, valid, drops>>

\* An event is taken from the queue, written and seen by the tab, if it still
\* reads from this connection.
Deliver(c) ==
    /\ conn[c].stage = "live" /\ conn[c].queue > 0
    /\ conn' = [conn EXCEPT ![c].queue = @ - 1]
    /\ tab' = IF tab.conn = c THEN Invalidated(Opened(tab)) ELSE tab
    /\ UNCHANGED <<version, pending, valid, drops>>

\* Mutant: the tab does not remember that it lost a connection.
DisconnectedForgotten(t) == [t EXCEPT !.conn = NoConn, !.opened = FALSE]

\* The tab's "error" event.
Disconnected(t) ==
    [t EXCEPT !.conn = NoConn, !.opened = FALSE, !.wasDisconnected = TRUE]

\* An attempt to connect is not answered, and is made again by the browser, or
\* is answered by something other than a 200: the proxy's while there is no
\* server, or a 401 for any error of Authenticate.  The EventSource is then
\* closed, and nobody makes a new one.
ConnectFails ==
    /\ tab.conn = NoConn /\ tab.source = "on"
    /\ \E s \in {"on", "closed"} : tab' = [Disconnected(tab) EXCEPT !.source = s]
    /\ UNCHANGED <<version, pending, conn, valid, drops>>

Return(c) ==
    /\ conn' = [conn EXCEPT ![c] = NoStream]
    /\ tab' = IF tab.conn = c THEN Disconnected(tab) ELSE tab

\* The context is done.
StreamCancelled(c) ==
    /\ conn[c].stage = "live" /\ conn[c].cancelled
    /\ Return(c)
    /\ UNCHANGED <<version, pending, valid, drops>>

\* Mutant: the session is asked for only when the stream ends anyway.
ValidateSessionOnCancel(c) ==
    /\ conn[c].stage = "live" /\ conn[c].cancelled /\ ~valid
    /\ Return(c)
    /\ UNCHANGED <<version, pending, valid, drops>>

\* The heartbeat and the expiry timer ask for the session again.
ValidateSession(c) ==
    /\ conn[c].stage = "live" /\ ~valid
    /\ Return(c)
    /\ UNCHANGED <<version, pending, valid, drops>>

\* A write or the query of a validation fails.
StreamFails(c) ==
    /\ conn[c].stage = "live" /\ drops < MaxDrops
    /\ drops' = drops + 1
    /\ Return(c)
    /\ UNCHANGED <<version, pending, valid>>

\* The network: the tab sees it at once, the server later.
ConnectionLost ==
    /\ tab.conn # NoConn /\ drops < MaxDrops
    /\ drops' = drops + 1
    /\ tab' = Disconnected(tab)
    /\ UNCHANGED <<version, pending, conn, valid>>

ConnectionReset(c) ==
    /\ conn[c].stage # "none" /\ tab.conn # c /\ ~conn[c].cancelled
    /\ conn' = [conn EXCEPT ![c].cancelled = TRUE]
    /\ UNCHANGED <<version, pending, tab, valid, drops>>

\* The session expires or is revoked.
SessionEnds ==
    /\ valid /\ valid' = FALSE
    /\ UNCHANGED <<version, pending, conn, tab, drops>>

\* The visibilitychange handler.
TabVisible ==
    /\ tab.source # "stopped" /\ (tab.stale => tab.failed)
    /\ tab' = Invalidated(tab)
    /\ UNCHANGED <<version, pending, conn, valid, drops>>

\* The invalidated queries are read again.
Refetch ==
    /\ tab.stale /\ ~tab.failed /\ valid
    /\ tab' = [tab EXCEPT !.stale = FALSE, !.missed = FALSE, !.known = version]
    /\ UNCHANGED <<version, pending, conn, valid, drops>>

\* The read and its one retry fail; the queries stay invalidated.
FetchFails ==
    /\ tab.stale /\ ~tab.failed
    /\ tab' = [tab EXCEPT !.failed = TRUE]
    /\ UNCHANGED <<version, pending, conn, valid, drops>>

\* A 401, for a read, for the poll of the storage's status or for the probe
\* after an error, sends the tab to the login page.  Signing in starts it anew.
SignedOut ==
    /\ tab.source # "stopped"
    /\ tab' = [tab EXCEPT !.conn = NoConn, !.opened = FALSE, !.stale = FALSE, !.failed = FALSE,
                          !.wasDisconnected = FALSE, !.source = "stopped"]
    /\ UNCHANGED <<version, pending, conn, valid, drops>>

\* Hub.Close: a fresh map, and every subscription of the old one is cancelled.
Closed(s) ==
    IF s.registered THEN [s EXCEPT !.registered = FALSE, !.cancelled = TRUE] ELSE s

Close ==
    /\ conn' = [c \in Conns |-> Closed(conn[c])]
    /\ UNCHANGED <<version, pending, tab, valid, drops>>

\* The process ends: its requests and connections end with it.
HubGone ==
    /\ pending' = 0
    /\ conn' = [c \in Conns |-> NoStream]
    /\ tab' = IF tab.conn # NoConn THEN Disconnected(tab)
              ELSE [tab EXCEPT !.missed = @ \/ (pending > 0 /\ ~tab.wasDisconnected)]
    /\ UNCHANGED <<version, valid, drops>>

HubTypeOK ==
    /\ version \in 0 .. MaxVersion /\ pending \in 0 .. MaxVersion
    /\ conn \in [Conns -> Streams] /\ tab \in Tabs
    /\ valid \in BOOLEAN /\ drops \in 0 .. MaxDrops

=============================================================================
