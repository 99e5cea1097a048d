---------------------------- MODULE ServerProofs ----------------------------
(* Invariance proofs for Server: any number of connections, any size of the  *)
(* subscriptions' buffers, any number of changes, restarts and failures.     *)
EXTENDS Server, TLAPS

(* The inductive invariant.                                                  *)

\* A tab that does not show every change has a reason to read again, unless it
\* was sent to the login page: a hint is to come, on its way or missed, or it
\* has lost a connection.
TabReason ==
    tab.known # version =>
        \/ pending > 0 \/ tab.missed \/ tab.wasDisconnected \/ tab.source = "stopped"
        \/ /\ tab.conn # NoConn
           /\ \/ tab.stale
              \/ conn[tab.conn].queue > 0 \/ conn[tab.conn].cancelled

\* A live stream that the hub does not know is cut off; a process that exited or
\* is starting has no connection, nor has a tab whose EventSource is closed.
StreamsKnown ==
    /\ \A c \in Conns : conn[c].stage = "live" => conn[c].registered \/ conn[c].cancelled
    /\ tab.opened => ~tab.wasDisconnected
    /\ stage \in {"exited", "starting"} => tab.conn = NoConn
    /\ tab.source # "on" => tab.conn = NoConn
    /\ pending <= version

Stages == {"starting", "serving", "draining", "waiting", "closing", "exited"}

HubInv == HubTypeOK /\ stage \in Stages /\ TabReason /\ StreamsKnown

\* Without a failure to blame, at most one probe found the gate held, and the
\* ticker does not fire before that gate is released.
Blameless ==
    /\ loop = "probe" => ~tick
    /\ ~blamed =>
        /\ healthy /\ failures <= 1
        /\ probe = "running" => loop = "wait"
        /\ (failures = 1 /\ probe = "returned") => loop \in {"sleep", "ended"} /\ ~tick

MonitorInv == MonitorTypeOK /\ (FailureThreshold >= 2 => Blameless)

\* A process that is to end may be started once more.
ProcessInv ==
    /\ task \in [Tasks -> {"idle", "busy", "done"}] /\ restarts \in 0 .. MaxRestarts
    /\ stage \notin {"serving", "starting"} => restarts < MaxRestarts

IInv == HubInv /\ MonitorInv /\ ProcessInv

-----------------------------------------------------------------------------
(* The hub and the tab.                                                      *)

LEMMA CommitKeeps ==
  ASSUME HubInv, CommitChange, stage' = stage
  PROVE  HubInv'
  <1>1. HubTypeOK'
    BY HubBounds DEF HubInv, HubTypeOK, StreamsKnown, CommitChange
  <1>2. TabReason' /\ StreamsKnown'
    BY HubBounds DEF HubInv, HubTypeOK, TabReason, StreamsKnown, CommitChange
  <1>. QED
    BY <1>1, <1>2 DEF HubInv

LEMMA OfferedTyped ==
  ASSUME NEW s \in Streams
  PROVE  /\ Offered(s) \in Streams /\ Offered(s).stage = s.stage
         /\ Offered(s).registered = s.registered
         /\ s.registered => Offered(s).queue > 0 \/ Offered(s).cancelled
         /\ s.cancelled => Offered(s).cancelled
         /\ s.queue > 0 => Offered(s).queue > 0
  <1>1. CASE ~s.registered
    BY <1>1 DEF Offered, Streams
  <1>2. CASE s.registered /\ s.queue < Buffer
    <2>1. s.queue \in Nat /\ s.queue + 1 \in 0 .. Buffer /\ s.queue + 1 > 0
      BY <1>2, HubBounds DEF Streams
    <2>. DEFINE n == s.queue + 1
    <2>2. Offered(s) = [s EXCEPT !.queue = n]
      BY <1>2 DEF Offered
    <2>3. n \in 0 .. Buffer /\ n > 0
      BY <2>1
    <2>. HIDE DEF n
    <2>. QED
      BY <2>2, <2>3 DEF Streams
  <1>3. CASE s.registered /\ ~(s.queue < Buffer)
    BY <1>3, HubBounds DEF Offered, Streams
  <1>. QED
    BY <1>1, <1>2, <1>3

\* The hint reaches the subscription of the tab, or it is noted as missed.
LEMMA PublishKeeps ==
  ASSUME HubInv, Publish, stage' = stage
  PROVE  HubInv'
  <1>1. /\ pending > 0 /\ pending' = pending - 1 /\ UNCHANGED <<version, valid, drops>>
        /\ conn' = [c \in Conns |-> Offered(conn[c])]
        /\ tab' = [tab EXCEPT !.missed = @ \/ (~Reached /\ ~tab.wasDisconnected)]
    BY DEF Publish
  <1>2. tab \in Tabs /\ conn \in [Conns -> Streams]
    BY DEF HubInv, HubTypeOK
  <1>3. \A c \in Conns : conn[c] \in Streams /\ conn'[c] = Offered(conn[c])
    BY <1>1, <1>2
  <1>4. \A c \in Conns : /\ conn'[c] \in Streams /\ conn'[c].stage = conn[c].stage
                         /\ conn'[c].registered = conn[c].registered
                         /\ conn[c].registered => conn'[c].queue > 0 \/ conn'[c].cancelled
                         /\ conn[c].cancelled => conn'[c].cancelled
    BY <1>3, OfferedTyped
  <1>. DEFINE miss == ~Reached /\ ~tab.wasDisconnected
  <1>5. /\ tab' \in Tabs /\ tab'.conn = tab.conn /\ tab'.opened = tab.opened
        /\ tab'.wasDisconnected = tab.wasDisconnected /\ tab'.source = tab.source
        /\ tab.missed \/ miss => tab'.missed
    <2>1. miss \in BOOLEAN
      OBVIOUS
    <2>2. tab' = [tab EXCEPT !.missed = tab.missed \/ miss]
      BY <1>1
    <2>. HIDE DEF miss
    <2>. QED
      BY <1>2, <2>1, <2>2 DEF Tabs
  <1>6. HubTypeOK'
    <2>1. pending' \in 0 .. MaxVersion
      BY <1>1, HubBounds DEF HubInv, HubTypeOK
    <2>2. conn' \in [Conns -> Streams]
      BY <1>1, <1>3, <1>4
    <2>. QED
      BY <1>1, <1>5, <2>1, <2>2 DEF HubInv, HubTypeOK
  <1>7. TabReason'
    <2>1. CASE Reached
      <3>1. tab.conn \in Conns /\ conn[tab.conn].stage = "live" /\ tab.conn # NoConn
        BY <1>2, <2>1 DEF Reached, Tabs
      <3>2. conn[tab.conn].registered \/ conn[tab.conn].cancelled
        BY <3>1 DEF HubInv, StreamsKnown
      <3>3. conn'[tab.conn].queue > 0 \/ conn'[tab.conn].cancelled
        BY <1>4, <3>1, <3>2
      <3>. QED
        BY <1>5, <3>1, <3>3 DEF TabReason
    <2>2. CASE ~Reached
      BY <1>5, <2>2 DEF TabReason
    <2>. QED
      BY <2>1, <2>2
  <1>8. StreamsKnown'
    BY <1>1, <1>4, <1>5 DEF HubInv, HubTypeOK, StreamsKnown
  <1>. QED
    BY <1>6, <1>7, <1>8 DEF HubInv

LEMMA ConnectKeeps ==
  ASSUME HubInv, NEW c \in Conns, Connect(c), Accepting, stage' = stage
  PROVE  HubInv'
  <1>1. /\ tab.conn = NoConn /\ conn[c].stage = "none" /\ tab.source = "on"
        /\ UNCHANGED <<version, pending, valid, drops>>
        /\ conn' = [conn EXCEPT ![c].stage = "flushed"]
        /\ tab' = [tab EXCEPT !.conn = c, !.opened = FALSE] /\ stage = "serving"
    BY DEF Connect, Accepting
  <1>2. tab \in Tabs /\ conn \in [Conns -> Streams] /\ conn[c] \in Streams
    BY DEF HubInv, HubTypeOK
  <1>3. conn' \in [Conns -> Streams] /\ tab' \in Tabs
    BY <1>1, <1>2 DEF Streams, Tabs
  <1>4. \A d \in Conns : conn'[d].stage = "live" => conn'[d] = conn[d]
    BY <1>1, <1>2 DEF Streams
  <1>5. /\ tab'.known = tab.known /\ tab'.missed = tab.missed /\ tab'.opened = FALSE
        /\ tab'.wasDisconnected = tab.wasDisconnected /\ tab'.source = tab.source
    BY <1>1, <1>2 DEF Tabs
  <1>6. HubTypeOK'
    BY <1>1, <1>3 DEF HubInv, HubTypeOK
  <1>7. TabReason'
    BY <1>1, <1>5 DEF HubInv, TabReason
  <1>8. StreamsKnown'
    BY <1>1, <1>4, <1>5 DEF HubInv, StreamsKnown
  <1>. QED
    BY <1>6, <1>7, <1>8 DEF HubInv

LEMMA SubscribeKeeps ==
  ASSUME HubInv, NEW c \in Conns, Subscribe(c), stage' = stage
  PROVE  HubInv'
  <1>1. /\ UNCHANGED <<version, pending, tab, valid, drops>>
        /\ conn' = [conn EXCEPT ![c].stage = "live", ![c].registered = TRUE]
    BY DEF Subscribe
  <1>2. tab \in Tabs /\ conn \in [Conns -> Streams] /\ conn[c] \in Streams
    BY DEF HubInv, HubTypeOK
  <1>. DEFINE s == [conn[c] EXCEPT !.stage = "live", !.registered = TRUE]
  <1>3. s \in Streams /\ s.registered /\ s.queue = conn[c].queue /\ s.cancelled = conn[c].cancelled
    BY <1>2 DEF Streams
  <1>4. conn' = [conn EXCEPT ![c] = s]
    BY <1>1, <1>2 DEF Streams
  <1>. HIDE DEF s
  <1>5. conn' \in [Conns -> Streams]
    BY <1>2, <1>3, <1>4
  <1>6. \A d \in Conns : /\ conn'[d].queue = conn[d].queue /\ conn'[d].cancelled = conn[d].cancelled
                         /\ conn'[d].registered \/ conn'[d] = conn[d]
    BY <1>2, <1>3, <1>4
  <1>7. HubTypeOK'
    BY <1>1, <1>5 DEF HubInv, HubTypeOK
  <1>8. TabReason'
    BY <1>1, <1>2, <1>6 DEF HubInv, TabReason, Tabs
  <1>9. StreamsKnown'
    BY <1>1, <1>6 DEF HubInv, StreamsKnown
  <1>. QED
    BY <1>7, <1>8, <1>9 DEF HubInv

LEMMA InvalidatedTyped ==
  ASSUME NEW t \in Tabs
  PROVE  /\ Invalidated(t) \in Tabs /\ Invalidated(t).conn = t.conn
         /\ Invalidated(t).known = t.known /\ Invalidated(t).opened = t.opened
         /\ Invalidated(t).wasDisconnected = t.wasDisconnected
         /\ Invalidated(t).missed = t.missed /\ Invalidated(t).source = t.source
         /\ Invalidated(t).stale
  BY DEF Invalidated, Tabs

LEMMA OpenedTyped ==
  ASSUME NEW t \in Tabs
  PROVE  /\ Opened(t) \in Tabs /\ Opened(t).conn = t.conn /\ Opened(t).known = t.known
         /\ ~Opened(t).wasDisconnected /\ Opened(t).missed = t.missed
         /\ Opened(t).source = t.source
         /\ t.stale \/ t.wasDisconnected => Opened(t).stale
  <1>. DEFINE u == IF t.wasDisconnected THEN Invalidated(t) ELSE t
  <1>1. /\ u \in Tabs /\ u.conn = t.conn /\ u.known = t.known /\ u.missed = t.missed
        /\ u.source = t.source
        /\ t.stale \/ t.wasDisconnected => u.stale
    BY InvalidatedTyped
  <1>2. Opened(t) = [u EXCEPT !.opened = TRUE, !.wasDisconnected = FALSE]
    BY DEF Opened
  <1>. HIDE DEF u
  <1>. QED
    BY <1>1, <1>2 DEF Tabs

LEMMA TabOpensKeeps ==
  ASSUME HubInv, TabOpens, stage' = stage
  PROVE  HubInv'
  <1>1. /\ tab.conn # NoConn /\ tab' = Opened(tab)
        /\ UNCHANGED <<version, pending, conn, valid, drops>>
    BY DEF TabOpens
  <1>2. tab \in Tabs
    BY DEF HubInv, HubTypeOK
  <1>3. /\ tab' \in Tabs /\ tab'.conn = tab.conn /\ tab'.known = tab.known
        /\ ~tab'.wasDisconnected /\ tab'.missed = tab.missed /\ tab'.source = tab.source
        /\ tab.stale \/ tab.wasDisconnected => tab'.stale
    BY <1>1, <1>2, OpenedTyped
  <1>4. HubTypeOK'
    BY <1>1, <1>3 DEF HubInv, HubTypeOK
  <1>5. TabReason' /\ StreamsKnown'
    BY <1>1, <1>3 DEF HubInv, TabReason, StreamsKnown
  <1>. QED
    BY <1>4, <1>5 DEF HubInv

LEMMA DeliverKeeps ==
  ASSUME HubInv, NEW c \in Conns, Deliver(c), stage' = stage
  PROVE  HubInv'
  <1>1. /\ conn[c].queue > 0 /\ conn' = [conn EXCEPT ![c].queue = @ - 1]
        /\ tab' = IF tab.conn = c THEN Invalidated(Opened(tab)) ELSE tab
        /\ UNCHANGED <<version, pending, valid, drops>>
    BY DEF Deliver
  <1>2. tab \in Tabs /\ conn \in [Conns -> Streams] /\ conn[c] \in Streams
    BY DEF HubInv, HubTypeOK
  <1>3. conn' \in [Conns -> Streams]
    <2>. DEFINE n == conn[c].queue - 1
    <2>1. n \in 0 .. Buffer
      BY <1>1, <1>2, HubBounds DEF Streams
    <2>2. conn' = [conn EXCEPT ![c] = [conn[c] EXCEPT !.queue = n]]
      BY <1>1, <1>2
    <2>. HIDE DEF n
    <2>3. [conn[c] EXCEPT !.queue = n] \in Streams
      BY <1>2, <2>1 DEF Streams
    <2>. QED
      BY <1>2, <2>2, <2>3
  <1>4. \A d \in Conns : /\ conn'[d].stage = conn[d].stage
                         /\ conn'[d].registered = conn[d].registered
                         /\ conn'[d].cancelled = conn[d].cancelled
                         /\ d # c => conn'[d] = conn[d]
    BY <1>1, <1>2 DEF Streams
  <1>5. CASE tab.conn = c
    <2>1. /\ tab' \in Tabs /\ tab'.conn = c /\ tab'.stale /\ ~tab'.wasDisconnected
          /\ tab'.source = tab.source
      <3>. DEFINE o == Opened(tab)
      <3>1. o \in Tabs /\ o.conn = c /\ ~o.wasDisconnected /\ o.source = tab.source
        BY <1>2, <1>5, OpenedTyped
      <3>2. tab' = Invalidated(o)
        BY <1>1, <1>5
      <3>. HIDE DEF o
      <3>. QED
        BY <3>1, <3>2, InvalidatedTyped
    <2>2. c # NoConn
      BY HubBounds
    <2>3. HubTypeOK'
      BY <1>1, <1>3, <2>1 DEF HubInv, HubTypeOK
    <2>4. TabReason' /\ StreamsKnown'
      BY <1>1, <1>4, <1>5, <2>1, <2>2 DEF HubInv, TabReason, StreamsKnown
    <2>. QED
      BY <2>3, <2>4 DEF HubInv
  <1>6. CASE tab.conn # c
    <2>1. tab' = tab
      BY <1>1, <1>6
    <2>2. HubTypeOK'
      BY <1>1, <1>3, <2>1 DEF HubInv, HubTypeOK
    <2>3. TabReason' /\ StreamsKnown'
      BY <1>1, <1>2, <1>4, <1>6, <2>1 DEF HubInv, TabReason, StreamsKnown, Tabs
    <2>. QED
      BY <2>2, <2>3 DEF HubInv
  <1>. QED
    BY <1>5, <1>6

LEMMA DisconnectedTyped ==
  ASSUME NEW t \in Tabs
  PROVE  /\ Disconnected(t) \in Tabs /\ Disconnected(t).conn = NoConn
         /\ Disconnected(t).wasDisconnected /\ ~Disconnected(t).opened
  BY DEF Disconnected, Tabs

LEMMA ReturnKeeps ==
  ASSUME HubInv, NEW c \in Conns, Return(c), stage' = stage, UNCHANGED <<version, pending, valid>>,
         drops' \in 0 .. MaxDrops
  PROVE  HubInv'
  <1>1. /\ conn' = [conn EXCEPT ![c] = NoStream]
        /\ tab' = IF tab.conn = c THEN Disconnected(tab) ELSE tab
    BY DEF Return
  <1>2. tab \in Tabs /\ conn \in [Conns -> Streams]
    BY DEF HubInv, HubTypeOK
  <1>3. NoStream \in Streams /\ NoStream.stage = "none"
    BY HubBounds DEF NoStream, Streams
  <1>4. conn' \in [Conns -> Streams] /\ conn'[c].stage = "none"
        /\ \A d \in Conns \ {c} : conn'[d] = conn[d]
    BY <1>1, <1>2, <1>3
  <1>5. CASE tab.conn = c
    <2>1. tab' \in Tabs /\ tab'.conn = NoConn /\ tab'.wasDisconnected /\ ~tab'.opened
      BY <1>1, <1>2, <1>5, DisconnectedTyped
    <2>2. HubTypeOK'
      BY <1>4, <2>1 DEF HubInv, HubTypeOK
    <2>3. TabReason' /\ StreamsKnown'
      BY <1>4, <2>1 DEF HubInv, TabReason, StreamsKnown
    <2>. QED
      BY <2>2, <2>3 DEF HubInv
  <1>6. CASE tab.conn # c
    <2>1. tab' = tab
      BY <1>1, <1>6
    <2>2. HubTypeOK'
      BY <1>4, <2>1 DEF HubInv, HubTypeOK
    <2>3. TabReason' /\ StreamsKnown'
      BY <1>2, <1>4, <1>6, <2>1 DEF HubInv, TabReason, StreamsKnown, Tabs
    <2>. QED
      BY <2>2, <2>3 DEF HubInv
  <1>. QED
    BY <1>5, <1>6

LEMMA StreamsEndKeep ==
  ASSUME HubInv, NEW c \in Conns, stage' = stage,
         StreamCancelled(c) \/ ValidateSession(c) \/ StreamFails(c)
  PROVE  HubInv'
  <1>1. Return(c) /\ UNCHANGED <<version, pending, valid>>
    BY DEF StreamCancelled, ValidateSession, StreamFails
  <1>2. drops' \in 0 .. MaxDrops
    BY HubBounds DEF StreamCancelled, ValidateSession, StreamFails, HubInv, HubTypeOK
  <1>. QED
    BY <1>1, <1>2, ReturnKeeps

LEMMA LostKeeps ==
  ASSUME HubInv, ConnectionLost, stage' = stage
  PROVE  HubInv'
  <1>1. /\ tab' = Disconnected(tab) /\ UNCHANGED <<version, pending, conn, valid>>
        /\ drops < MaxDrops /\ drops' = drops + 1
    BY DEF ConnectionLost
  <1>2. tab' \in Tabs /\ tab'.conn = NoConn /\ tab'.wasDisconnected /\ ~tab'.opened
    BY <1>1, DisconnectedTyped DEF HubInv, HubTypeOK
  <1>3. HubTypeOK'
    BY <1>1, <1>2, HubBounds DEF HubInv, HubTypeOK
  <1>4. TabReason' /\ StreamsKnown'
    BY <1>1, <1>2 DEF HubInv, TabReason, StreamsKnown
  <1>. QED
    BY <1>3, <1>4 DEF HubInv

\* A tab that is refused or sent to the login page has no connection.
LEMMA RefusedKeeps ==
  ASSUME HubInv, ConnectFails \/ SignedOut, stage' = stage
  PROVE  HubInv'
  <1>1. UNCHANGED <<version, pending, conn, valid, drops>>
    BY DEF ConnectFails, SignedOut
  <1>2. tab \in Tabs
    BY DEF HubInv, HubTypeOK
  <1>3. /\ tab' \in Tabs /\ tab'.conn = NoConn /\ ~tab'.opened
        /\ tab'.wasDisconnected \/ tab'.source = "stopped"
    <2>1. CASE ConnectFails
      <3>. DEFINE d == Disconnected(tab)
      <3>1. d \in Tabs /\ d.conn = NoConn /\ d.wasDisconnected /\ ~d.opened
        BY <1>2, DisconnectedTyped
      <3>2. \E s \in {"on", "closed"} : tab' = [d EXCEPT !.source = s]
        BY <2>1 DEF ConnectFails
      <3>. HIDE DEF d
      <3>. QED
        BY <3>1, <3>2 DEF Tabs
    <2>2. CASE SignedOut
      BY <1>2, <2>2 DEF SignedOut, Tabs
    <2>. QED
      BY <2>1, <2>2
  <1>4. HubTypeOK'
    BY <1>1, <1>3 DEF HubInv, HubTypeOK
  <1>5. TabReason' /\ StreamsKnown'
    BY <1>1, <1>3 DEF HubInv, TabReason, StreamsKnown
  <1>. QED
    BY <1>4, <1>5 DEF HubInv

\* Cancelling streams, by the network or by Hub.Close.
LEMMA CancelKeeps ==
  ASSUME HubInv, conn' \in [Conns -> Streams], UNCHANGED <<version, pending, tab, valid, drops>>,
         stage' \in {stage, "closing"},
         \A c \in Conns : \/ conn'[c] = conn[c]
                          \/ conn'[c].cancelled
  PROVE  HubInv'
  <1>1. HubTypeOK' /\ stage' \in Stages
    BY DEF HubInv, HubTypeOK, Stages
  <1>2. tab \in Tabs
    BY DEF HubInv, HubTypeOK
  <1>3. TabReason'
    BY <1>2 DEF HubInv, TabReason, Tabs
  <1>4. StreamsKnown'
    BY DEF HubInv, StreamsKnown
  <1>. QED
    BY <1>1, <1>3, <1>4 DEF HubInv

LEMMA ResetKeeps ==
  ASSUME HubInv, NEW c \in Conns, ConnectionReset(c), stage' = stage
  PROVE  HubInv'
  <1>1. conn \in [Conns -> Streams] /\ conn[c] \in Streams
    BY DEF HubInv, HubTypeOK
  <1>2. conn' = [conn EXCEPT ![c].cancelled = TRUE] /\ UNCHANGED <<version, pending, tab, valid, drops>>
    BY DEF ConnectionReset
  <1>3. conn' \in [Conns -> Streams]
    BY <1>1, <1>2 DEF Streams
  <1>4. \A d \in Conns : conn'[d] = conn[d] \/ conn'[d].cancelled
    BY <1>1, <1>2 DEF Streams
  <1>. QED
    BY <1>2, <1>3, <1>4, CancelKeeps

LEMMA CloseKeeps ==
  ASSUME HubInv, Close, stage = "waiting", stage' = "closing"
  PROVE  HubInv'
  <1>1. conn \in [Conns -> Streams]
    BY DEF HubInv, HubTypeOK
  <1>2. ASSUME NEW s \in Streams
        PROVE  Closed(s) \in Streams /\ (Closed(s) = s \/ Closed(s).cancelled)
    BY <1>2 DEF Closed, Streams
  <1>3. conn' = [c \in Conns |-> Closed(conn[c])] /\ UNCHANGED <<version, pending, tab, valid, drops>>
    BY DEF Close
  <1>. QED
    BY <1>1, <1>2, <1>3, CancelKeeps

LEMMA TabKeeps ==
  ASSUME HubInv, stage' = stage,
         SessionEnds \/ TabVisible \/ Refetch \/ FetchFails
  PROVE  HubInv'
  <1>1. tab \in Tabs /\ version \in 0 .. MaxVersion
    BY DEF HubInv, HubTypeOK
  <1>2. CASE SessionEnds
    <2>1. HubTypeOK'
      BY <1>2 DEF HubInv, HubTypeOK, SessionEnds
    <2>. QED
      BY <1>2, <2>1 DEF SessionEnds, HubInv, TabReason, StreamsKnown
  <1>3. CASE TabVisible
    <2>1. /\ tab' \in Tabs /\ tab'.conn = tab.conn /\ tab'.known = tab.known
          /\ tab'.wasDisconnected = tab.wasDisconnected /\ tab'.missed = tab.missed
          /\ tab'.opened = tab.opened /\ tab'.stale /\ tab'.source = tab.source
      BY <1>1, <1>3, InvalidatedTyped DEF TabVisible
    <2>2. HubTypeOK'
      BY <1>3, <2>1 DEF HubInv, HubTypeOK, TabVisible
    <2>. QED
      BY <1>3, <2>1, <2>2 DEF TabVisible, HubInv, TabReason, StreamsKnown
  <1>4. CASE Refetch
    <2>1. /\ tab' \in Tabs /\ tab'.conn = tab.conn /\ tab'.known = version
          /\ tab'.wasDisconnected = tab.wasDisconnected /\ tab'.opened = tab.opened
          /\ tab'.source = tab.source
      BY <1>1, <1>4 DEF Refetch, Tabs
    <2>2. HubTypeOK'
      BY <1>4, <2>1 DEF HubInv, HubTypeOK, Refetch
    <2>. QED
      BY <1>4, <2>1, <2>2 DEF Refetch, HubInv, TabReason, StreamsKnown
  <1>5. CASE FetchFails
    <2>1. /\ tab' \in Tabs /\ tab'.conn = tab.conn /\ tab'.known = tab.known
          /\ tab'.wasDisconnected = tab.wasDisconnected /\ tab'.missed = tab.missed
          /\ tab'.opened = tab.opened /\ tab'.stale = tab.stale /\ tab'.source = tab.source
      BY <1>1, <1>5 DEF FetchFails, Tabs
    <2>2. HubTypeOK'
      BY <1>5, <2>1 DEF HubInv, HubTypeOK, FetchFails
    <2>. QED
      BY <1>5, <2>1, <2>2 DEF FetchFails, HubInv, TabReason, StreamsKnown
  <1>. QED
    BY <1>2, <1>3, <1>4, <1>5

\* The connections of a process end with it: a tab that read from one of them
\* reads again when it is connected anew.
LEMMA GoneKeeps ==
  ASSUME HubInv, HubGone, stage' = "exited"
  PROVE  HubInv'
  <1>1. tab \in Tabs /\ version \in 0 .. MaxVersion
    BY DEF HubInv, HubTypeOK
  <1>2. /\ pending' = 0 /\ conn' = [c \in Conns |-> NoStream] /\ UNCHANGED <<version, valid, drops>>
        /\ tab' = IF tab.conn # NoConn THEN Disconnected(tab)
                  ELSE [tab EXCEPT !.missed = @ \/ (pending > 0 /\ ~tab.wasDisconnected)]
    BY DEF HubGone
  <1>3. NoStream \in Streams /\ NoStream.stage = "none"
    BY HubBounds DEF NoStream, Streams
  <1>4. conn' \in [Conns -> Streams] /\ \A c \in Conns : conn'[c].stage = "none"
    BY <1>2, <1>3
  <1>5. CASE tab.conn # NoConn
    <2>1. tab' \in Tabs /\ tab'.conn = NoConn /\ tab'.wasDisconnected /\ ~tab'.opened
      BY <1>1, <1>2, <1>5, DisconnectedTyped
    <2>2. HubTypeOK'
      BY <1>2, <1>4, <2>1, HubBounds DEF HubInv, HubTypeOK
    <2>. QED
      BY <1>1, <1>2, <1>4, <2>1, <2>2 DEF HubInv, TabReason, StreamsKnown, Stages
  <1>6. CASE tab.conn = NoConn
    <2>. DEFINE miss == pending > 0 /\ ~tab.wasDisconnected
    <2>1. miss \in BOOLEAN /\ tab' = [tab EXCEPT !.missed = tab.missed \/ miss]
      BY <1>2, <1>6
    <2>. HIDE DEF miss
    <2>2. /\ tab' \in Tabs /\ tab'.conn = NoConn /\ tab'.known = tab.known
          /\ tab'.wasDisconnected = tab.wasDisconnected /\ tab'.opened = tab.opened
          /\ tab'.source = tab.source
          /\ tab.missed \/ miss => tab'.missed
      BY <1>1, <1>6, <2>1 DEF Tabs
    <2>3. HubTypeOK'
      BY <1>2, <1>4, <2>2, HubBounds DEF HubInv, HubTypeOK
    <2>4. TabReason'
      BY <1>2, <1>6, <2>2 DEF HubInv, TabReason, miss
    <2>5. StreamsKnown'
      BY <1>1, <1>2, <1>4, <2>2 DEF HubInv, StreamsKnown
    <2>. QED
      BY <2>3, <2>4, <2>5 DEF HubInv, Stages
  <1>. QED
    BY <1>5, <1>6

LEMMA HubSame ==
  ASSUME HubInv, UNCHANGED hubVars, stage' \in Stages,
         stage' \in {"exited", "starting"} => stage \in {"exited", "starting"}
  PROVE  HubInv'
  <1>1. UNCHANGED <<version, pending, conn, tab, valid, drops>>
    BY DEF hubVars
  <1>2. HubTypeOK'
    BY <1>1 DEF HubInv, HubTypeOK
  <1>3. TabReason'
    BY <1>1 DEF HubInv, TabReason, StreamsKnown
  <1>4. StreamsKnown'
    BY <1>1 DEF HubInv, StreamsKnown
  <1>. QED
    BY <1>2, <1>3, <1>4 DEF HubInv

-----------------------------------------------------------------------------
(* The monitor.                                                              *)

LEMMA FailureSettled ==
  ASSUME MonitorTypeOK, NEW cause \in BOOLEAN, SettleFailed(cause)
  PROVE  /\ failures' \in 0 .. FailureThreshold /\ healthy' \in BOOLEAN /\ blamed' \in BOOLEAN
         /\ blamed' = (blamed \/ cause)
         /\ failures' = IF failures < FailureThreshold THEN failures + 1 ELSE failures
         /\ (healthy /\ failures = 0 /\ FailureThreshold >= 2) => healthy'
  <1>1. /\ failures' = IF failures < FailureThreshold THEN failures + 1 ELSE failures
        /\ healthy' = IF failures' >= FailureThreshold THEN FALSE ELSE healthy
        /\ blamed' = (blamed \/ cause)
    BY DEF SettleFailed, Degraded
  <1>2. failures \in 0 .. FailureThreshold /\ healthy \in BOOLEAN /\ blamed \in BOOLEAN
    BY DEF MonitorTypeOK
  <1>3. failures' \in 0 .. FailureThreshold
    BY <1>1, <1>2, MonitorBounds
  <1>4. healthy' \in BOOLEAN /\ blamed' \in BOOLEAN
    BY <1>1, <1>2
  <1>5. (healthy /\ failures = 0 /\ FailureThreshold >= 2) => healthy'
    <2>. SUFFICES ASSUME healthy, failures = 0, FailureThreshold >= 2 PROVE healthy'
      OBVIOUS
    <2>1. ~(failures' >= FailureThreshold)
      BY <1>1, MonitorBounds
    <2>. QED
      BY <1>1, <2>1
  <1>. QED
    BY <1>1, <1>3, <1>4, <1>5

LEMMA StartProbeKeeps ==
  ASSUME MonitorInv, StartProbe
  PROVE  MonitorInv'
  <1>0. MonitorTypeOK
    BY DEF MonitorInv
  <1>1. CASE probe = "none"
    <2>1. /\ probe' = "running" /\ loop' = "wait" /\ loop = "probe"
          /\ UNCHANGED <<failures, healthy, blamed, nas, changes, tick>>
      BY <1>1 DEF StartProbe
    <2>. QED
      BY <1>0, <2>1 DEF MonitorInv, MonitorTypeOK, Blameless
  <1>2. CASE probe # "none"
    <2>1. /\ loop = "probe" /\ loop' = "sleep" /\ SettleFailed(probe = "running")
          /\ UNCHANGED <<probe, nas, changes, tick>>
      BY <1>2 DEF StartProbe
    <2>2. /\ failures' \in 0 .. FailureThreshold /\ healthy' \in BOOLEAN /\ blamed' \in BOOLEAN
          /\ blamed' = (blamed \/ probe = "running")
          /\ failures' = IF failures < FailureThreshold THEN failures + 1 ELSE failures
          /\ (healthy /\ failures = 0 /\ FailureThreshold >= 2) => healthy'
      BY <1>0, <2>1, FailureSettled
    <2>3. MonitorTypeOK'
      BY <1>0, <2>1, <2>2 DEF MonitorTypeOK
    <2>4. ASSUME FailureThreshold >= 2 PROVE Blameless'
      <3>1. Blameless
        BY <2>4 DEF MonitorInv
      <3>2. ~blamed' => ~blamed /\ probe = "returned" /\ failures = 0
        BY <1>0, <1>2, <2>1, <2>2, <3>1 DEF MonitorTypeOK, Blameless
      <3>. QED
        BY <1>0, <2>1, <2>2, <2>4, <3>1, <3>2 DEF MonitorTypeOK, Blameless
    <2>. QED
      BY <2>3, <2>4 DEF MonitorInv
  <1>. QED
    BY <1>1, <1>2

LEMMA ProbeReturnsKeeps ==
  ASSUME MonitorInv, ProbeReturns
  PROVE  MonitorInv'
  <1>0. MonitorTypeOK
    BY DEF MonitorInv
  <1>1. probe = "running" /\ probe' = "returned" /\ UNCHANGED <<nas, changes, tick>>
    BY DEF ProbeReturns
  <1>2. CASE loop = "wait" /\ nas = "ok"
    <2>1. loop' = "sleep" /\ failures' = 0 /\ healthy' = TRUE /\ blamed' = FALSE
      BY <1>2 DEF ProbeReturns, SettleHealthy
    <2>2. 0 \in 0 .. FailureThreshold
      BY MonitorBounds
    <2>3. MonitorTypeOK'
      BY <1>0, <1>1, <2>1, <2>2 DEF MonitorTypeOK
    <2>4. Blameless'
      BY <1>1, <2>1 DEF Blameless
    <2>. QED
      BY <2>3, <2>4 DEF MonitorInv
  <1>3. CASE loop = "wait" /\ nas # "ok"
    <2>1. loop' = "sleep" /\ SettleFailed(TRUE)
      BY <1>3 DEF ProbeReturns
    <2>2. /\ failures' \in 0 .. FailureThreshold /\ healthy' \in BOOLEAN /\ blamed' = TRUE
      BY <1>0, <2>1, FailureSettled
    <2>. QED
      BY <1>0, <1>1, <2>1, <2>2 DEF MonitorInv, MonitorTypeOK, Blameless
  <1>4. CASE loop # "wait"
    <2>1. UNCHANGED <<loop, failures, healthy, blamed>>
      BY <1>4 DEF ProbeReturns
    <2>2. MonitorTypeOK'
      BY <1>0, <1>1, <2>1 DEF MonitorTypeOK
    <2>. QED
      BY <1>1, <1>4, <2>1, <2>2 DEF MonitorInv, Blameless
  <1>. QED
    BY <1>2, <1>3, <1>4

LEMMA MonitorRestKeeps ==
  ASSUME MonitorInv,
         \/ ReleaseGate \/ ProbeTimeout \/ TickerFires \/ NextRound \/ MonitorStops \/ NasChanges
         \/ UNCHANGED monitorVars
         \/ MonitorReset /\ UNCHANGED <<nas, changes>>
  PROVE  MonitorInv'
  <1>0. MonitorTypeOK
    BY DEF MonitorInv
  <1>1. CASE ReleaseGate
    BY <1>0, <1>1 DEF ReleaseGate, MonitorInv, MonitorTypeOK, Blameless
  <1>2. CASE ProbeTimeout
    <2>1. /\ loop' = "sleep" /\ SettleFailed(TRUE) /\ UNCHANGED <<nas, changes, probe, tick>>
      BY <1>2 DEF ProbeTimeout
    <2>2. /\ failures' \in 0 .. FailureThreshold /\ healthy' \in BOOLEAN /\ blamed' = TRUE
      BY <1>0, <2>1, FailureSettled
    <2>. QED
      BY <1>0, <2>1, <2>2 DEF MonitorInv, MonitorTypeOK, Blameless
  <1>3. CASE TickerFires
    BY <1>0, <1>3 DEF TickerFires, MonitorInv, MonitorTypeOK, Blameless
  <1>4. CASE NextRound
    BY <1>0, <1>4 DEF NextRound, MonitorInv, MonitorTypeOK, Blameless
  <1>5. CASE MonitorStops
    BY <1>0, <1>5 DEF MonitorStops, MonitorInv, MonitorTypeOK, Blameless
  <1>6. CASE NasChanges
    BY <1>0, <1>6, MonitorBounds DEF NasChanges, monitorMemory, MonitorInv, MonitorTypeOK, Blameless
  <1>7. CASE UNCHANGED monitorVars
    BY <1>0, <1>7 DEF monitorVars, MonitorInv, MonitorTypeOK, Blameless
  <1>8. CASE MonitorReset /\ UNCHANGED <<nas, changes>>
    <2>1. 0 \in 0 .. FailureThreshold
      BY MonitorBounds
    <2>2. MonitorTypeOK'
      BY <1>0, <1>8, <2>1 DEF MonitorReset, MonitorTypeOK
    <2>3. Blameless'
      BY <1>8 DEF MonitorReset, Blameless
    <2>. QED
      BY <2>2, <2>3 DEF MonitorInv
  <1>. QED
    BY <1>1, <1>2, <1>3, <1>4, <1>5, <1>6, <1>7, <1>8

-----------------------------------------------------------------------------
(* The theorems.                                                             *)

LEMMA InitEstablishes ==
  ASSUME ServerInit
  PROVE  IInv
  <1>1. HubInv
    <2>1. NoStream \in Streams /\ NoStream.stage = "none"
      BY HubBounds DEF NoStream, Streams
    <2>2. tab \in Tabs /\ tab.known = 0 /\ tab.conn = NoConn /\ tab.opened = FALSE
      BY HubBounds DEF ServerInit, HubInit, Tabs
    <2>3. /\ version = 0 /\ pending = 0 /\ conn = [c \in Conns |-> NoStream]
          /\ valid = TRUE /\ drops = 0 /\ stage = "serving"
      BY DEF ServerInit, HubInit
    <2>. QED
      BY <2>1, <2>2, <2>3, HubBounds
         DEF HubInv, HubTypeOK, Stages, TabReason, StreamsKnown
  <1>2. MonitorInv
    <2>1. 0 \in 0 .. FailureThreshold /\ 0 \in 0 .. MaxChanges
      BY MonitorBounds
    <2>2. MonitorTypeOK
      BY <2>1 DEF ServerInit, MonitorInit, MonitorTypeOK
    <2>3. Blameless
      BY DEF ServerInit, MonitorInit, Blameless
    <2>. QED
      BY <2>2, <2>3 DEF MonitorInv
  <1>3. ProcessInv
    BY ServerBounds DEF ServerInit, ProcessInv
  <1>. QED
    BY <1>1, <1>2, <1>3 DEF IInv

LEMMA StreamStepKeeps ==
  ASSUME IInv, StreamNext
  PROVE  IInv'
  <1>1. UNCHANGED <<monitorVars, processVars>>
    BY DEF StreamNext, Change, PublishChange, TabSeesOpen, TabLosesConnection, TabShown, TabReads,
       TabReadFails, TabSignedOut, StreamNotOpened, EndSession, OpenStream, SubscribeStream,
       DeliverEvent, CancelledStream, RevalidateStream, BrokenStream, ResetStream, Serving, Alive
  <1>2. MonitorInv' /\ ProcessInv' /\ stage' = stage
    BY <1>1, MonitorRestKeeps DEF IInv, ProcessInv, processVars
  <1>3. HubInv
    BY DEF IInv
  <1>4. CASE Change \/ PublishChange \/ TabSeesOpen \/ TabLosesConnection
    BY <1>2, <1>3, <1>4, CommitKeeps, PublishKeeps, TabOpensKeeps, LostKeeps
       DEF IInv, Change, PublishChange, TabSeesOpen, TabLosesConnection, Serving, Alive
  <1>5. CASE TabShown \/ TabReads \/ TabReadFails \/ EndSession
    BY <1>2, <1>3, <1>5, TabKeeps
       DEF IInv, TabShown, TabReads, TabReadFails, EndSession, Serving
  <1>6. CASE TabSignedOut \/ StreamNotOpened
    BY <1>2, <1>3, <1>6, RefusedKeeps DEF IInv, TabSignedOut, StreamNotOpened, Serving
  <1>7. ASSUME NEW c \in Conns, OpenStream(c) \/ SubscribeStream(c) \/ DeliverEvent(c) PROVE IInv'
    BY <1>2, <1>3, <1>7, ConnectKeeps, SubscribeKeeps, DeliverKeeps
       DEF IInv, OpenStream, SubscribeStream, DeliverEvent, Serving, Alive
  <1>8. ASSUME NEW c \in Conns,
               CancelledStream(c) \/ RevalidateStream(c) \/ BrokenStream(c) \/ ResetStream(c)
        PROVE IInv'
    BY <1>2, <1>3, <1>8, StreamsEndKeep, ResetKeeps
       DEF IInv, CancelledStream, RevalidateStream, BrokenStream, ResetStream, Alive
  <1>. QED
    BY <1>4, <1>5, <1>6, <1>7, <1>8 DEF StreamNext

LEMMA StorageStepKeeps ==
  ASSUME IInv, StorageNext
  PROVE  IInv'
  <1>1. UNCHANGED hubVars /\ stage' = stage
    BY DEF StorageNext, MonitorRuns, ProbeRuns, MonitorEnds, StorageChanges, StartPass, EndPass,
       TaskReturns, processVars
  <1>2. HubInv'
    BY <1>1, HubSame DEF IInv, HubInv
  <1>3. CASE MonitorRuns \/ ProbeRuns \/ MonitorEnds \/ StorageChanges
    <2>1. MonitorInv'
      BY <1>3, StartProbeKeeps, ProbeReturnsKeeps, MonitorRestKeeps
         DEF IInv, MonitorRuns, ProbeRuns, MonitorEnds, StorageChanges, MonitorLoop, ProbeGoroutine
    <2>2. ProcessInv'
      BY <1>3 DEF IInv, ProcessInv, MonitorRuns, ProbeRuns, MonitorEnds, StorageChanges, processVars
    <2>. QED
      BY <1>2, <2>1, <2>2 DEF IInv
  <1>4. ASSUME NEW t \in Tasks, StartPass(t) \/ EndPass(t) \/ TaskReturns(t) PROVE IInv'
    <2>1. UNCHANGED monitorVars
      BY <1>4 DEF StartPass, EndPass, TaskReturns
    <2>2. ProcessInv'
      BY <1>4 DEF IInv, ProcessInv, StartPass, EndPass, TaskReturns
    <2>. QED
      BY <1>2, <2>1, <2>2, MonitorRestKeeps DEF IInv
  <1>. QED
    BY <1>3, <1>4 DEF StorageNext

LEMMA ProcessStepKeeps ==
  ASSUME IInv, ProcessNext
  PROVE  IInv'
  <1>1. CASE Signal \/ ListenAndServeReturns
    <2>1. UNCHANGED <<hubVars, monitorVars, task, restarts>> /\ stage' \in {"draining", "waiting"}
      BY <1>1 DEF Signal, ListenAndServeReturns
    <2>2. ProcessInv'
      BY <1>1, <2>1 DEF IInv, ProcessInv, Signal, ListenAndServeReturns
    <2>3. HubInv' /\ MonitorInv'
      BY <2>1, HubSame, MonitorRestKeeps DEF IInv, Stages
    <2>. QED
      BY <2>2, <2>3 DEF IInv
  <1>2. CASE MainReturns
    BY <1>2, CloseKeeps, MonitorRestKeeps DEF MainReturns, IInv, ProcessInv
  <1>3. CASE PoolClosed \/ Crash
    BY <1>3, GoneKeeps, MonitorRestKeeps DEF PoolClosed, Crash, IInv, ProcessInv
  <1>4. CASE Restart
    <2>1. HubInv'
      BY <1>4, HubSame DEF Restart, IInv, Stages
    <2>2. MonitorInv'
      BY <1>4, MonitorRestKeeps DEF Restart, IInv
    <2>3. ProcessInv'
      <3>1. restarts' \in 0 .. MaxRestarts
        BY <1>4, ServerBounds DEF Restart, IInv, ProcessInv
      <3>. QED
        BY <1>4, <3>1 DEF Restart, ProcessInv
    <2>. QED
      BY <2>1, <2>2, <2>3 DEF IInv
  <1>5. CASE StartFails \/ Started
    <2>1. /\ UNCHANGED <<hubVars, monitorVars, task, restarts>>
          /\ stage = "starting" /\ stage' \in {"exited", "serving"}
      BY <1>5 DEF StartFails, Started
    <2>2. ProcessInv'
      BY <1>5, <2>1 DEF IInv, ProcessInv, StartFails, Started
    <2>3. HubInv' /\ MonitorInv'
      BY <2>1, HubSame, MonitorRestKeeps DEF IInv, Stages
    <2>. QED
      BY <2>2, <2>3 DEF IInv
  <1>. QED
    BY <1>1, <1>2, <1>3, <1>4, <1>5 DEF ProcessNext

LEMMA StepKeeps ==
  ASSUME IInv, [ServerNext]_serverVars
  PROVE  IInv'
  <1>1. CASE UNCHANGED serverVars
    <2>1. UNCHANGED <<hubVars, monitorVars, stage, task, restarts>>
      BY <1>1 DEF serverVars, processVars
    <2>. QED
      BY <2>1, HubSame, MonitorRestKeeps DEF IInv, HubInv, ProcessInv
  <1>. QED
    BY <1>1, StreamStepKeeps, StorageStepKeeps, ProcessStepKeeps DEF ServerNext

LEMMA Invariance == ServerSpec => []IInv
  BY InitEstablishes, StepKeeps, PTL DEF ServerSpec

\* The hub, the tab, the monitor and the process keep their types.
THEOREM TypeCorrect == ServerSpec => []ServerTypeOK
  <1>1. IInv => ServerTypeOK
    BY DEF IInv, HubInv, MonitorInv, ProcessInv, Stages, ServerTypeOK
  <1>. QED
    BY <1>1, Invariance, PTL

\* Whatever queues fill up, connections break and processes end, a tab with a
\* quiet live stream shows every change, unless it missed a hint while it had
\* no subscription.
THEOREM TabsCaughtUp == ServerSpec => []CaughtUp
  <1>1. ASSUME IInv PROVE CaughtUp
    <2>. SUFFICES ASSUME tab.conn # NoConn, tab.opened, ~tab.stale, ~tab.missed,
                         ~conn[tab.conn].cancelled, conn[tab.conn].queue = 0, pending = 0
                  PROVE  tab.known = version
      BY DEF CaughtUp
    <2>1. ~tab.wasDisconnected /\ tab.source = "on"
      BY <1>1 DEF IInv, HubInv, StreamsKnown
    <2>. QED
      BY <1>1, <2>1 DEF IInv, HubInv, TabReason
  <1>. QED
    BY <1>1, Invariance, PTL

\* With a threshold of at least two failures (monitor.go has two), storage is
\* never reported as degraded for a gate that a good probe was about to leave.
THEOREM DegradedOnlyForCause == FailureThreshold >= 2 => (ServerSpec => []DegradedForCause)
  <1>. SUFFICES ASSUME FailureThreshold >= 2
                PROVE  ServerSpec => []DegradedForCause
    OBVIOUS
  <1>1. IInv => DegradedForCause
    BY DEF IInv, MonitorInv, Blameless, DegradedForCause
  <1>. QED
    BY <1>1, Invariance, PTL

=============================================================================
