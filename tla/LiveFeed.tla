------------------------------- MODULE LiveFeed -------------------------------
(***************************************************************************)
(* The live feed from storage-core to the dashboards: backend-api's one    *)
(* upstream connection (BlockFeed, app/blockfeed.py), its fan-out to        *)
(* browsers (BrowserHub, app/hub.py, and ws_blocks, app/main.py) and the    *)
(* hook that follows it in a dashboard (useBlockStream.ts, blockStream.ts). *)
(*                                                                         *)
(* backend-api is one event loop: what it does between two awaits is one    *)
(* step.  Nothing is awaited from the receipt of an upstream frame to the   *)
(* last browser's queue.  Blocks are the numbers 1, 2, ... of the ledger,   *)
(* and all of them are readings.                                           *)
(* Of storage-core there is the Subscription of the upstream connection,    *)
(* which module Broadcast has in full; Subscriptions is what both promise.  *)
(***************************************************************************)
EXTENDS Integers, SequencesExt

CONSTANTS
    Tabs,          \* dashboards
    Stalled,       \* those that hang: they keep their socket and never read from it
    MaxSessions,   \* bound on the handlers of /ws/blocks there are at a time
    UpCapacity,    \* of storage-core's Subscription
    QueueCapacity, \* QUEUE_CAPACITY of the hub's
    Room,          \* frames a browser's socket takes, the one send_json waits with included
    MaxReadings,   \* MAX_STREAM_READINGS
    MaxBlocks,     \* bound on the ledger, for TLC
    Worlds,        \* which dashboards there are, and a bound on breaking connections
    None

Sessions == 1..MaxSessions

Blocks == 1..MaxBlocks

ASSUME LiveFeedAssumption ==
    /\ Stalled \subseteq Tabs
    /\ {MaxSessions, UpCapacity, QueueCapacity, Room, MaxReadings} \subseteq Nat \ {0}
    /\ MaxBlocks \in Nat
    /\ Worlds \subseteq [tabs : SUBSET Tabs, breaks : Nat]
    /\ None \notin Sessions

VARIABLES
    published,  \* how many blocks the ledger has
    breaks,     \* how many connections may still break
    feed,       \* BlockFeed._run: connecting, in its connection, or in its sleep
    connects,   \* BlockFeed.connects
    upstream,   \* storage-core's Subscription for that connection
    wire,       \* frames on their way to BlockFeed
    handler,    \* handler[s]: how far ws_blocks is
    queue,      \* queue[s]: frames in the Subscription of the hub
    dropped,    \* dropped[s]: Subscription.dropped
    pipe,       \* pipe[s]: frames sent to the browser, not yet received
    closed,     \* sessions of which one end, or the network between, is gone
    tab,        \* tab[t]: the hook of each dashboard
    socket,     \* socket[t]: the session its WebSocket belongs to
    stream,     \* stream[t]: its StreamState, without lastSeen
    joined,     \* history: connects when s subscribed
    account     \* history: what t was told and not told on its present socket

upside == <<published, feed, connects, upstream, wire>>
hub == <<handler, queue, dropped, joined>>
browser == <<tab, socket, stream, account>>
vars == <<upside, breaks, hub, pipe, closed, browser>>

Frame == [type : {"block"}, index : Blocks] \cup [type : {"lagged"}, dropped : 1..MaxBlocks]

NoUpstream == [buffer |-> <<>>, lagged |-> 0]

\* A socket on which nothing has been heard.
Fresh == [last |-> 0, told |-> 0, silent |-> 0]

TypeOK ==
    /\ published \in 0..MaxBlocks /\ breaks \in Nat
    /\ feed \in {"connecting", "connected", "waiting"}
    /\ connects \in Nat
    /\ upstream \in [buffer : Seq(Blocks), lagged : 0..MaxBlocks]
    /\ Len(upstream.buffer) <= UpCapacity
    /\ wire \in Seq(Frame)
    /\ feed # "connected" => upstream = NoUpstream /\ wire = <<>>
    /\ handler \in [Sessions -> {"none", "accepted", "subscribed"}]
    /\ queue \in [Sessions -> Seq(Frame)] /\ pipe \in [Sessions -> Seq(Frame)]
    /\ \A s \in Sessions : Len(queue[s]) <= QueueCapacity /\ Len(pipe[s]) <= Room
    /\ dropped \in [Sessions -> Nat] /\ joined \in [Sessions -> Nat]
    /\ closed \subseteq Sessions
    /\ tab \in [Tabs -> {"waiting", "opening", "open", "left"}]
    /\ socket \in [Tabs -> Sessions \cup {None}]
    /\ \A t \in Tabs : tab[t] = "open" <=> socket[t] # None
    /\ stream \in [Tabs -> [connected : BOOLEAN, dropped : Nat, readings : Seq(Blocks)]]
    /\ account \in [Tabs -> [last : 0..MaxBlocks, told : Nat, silent : Int]]

Init ==
    /\ \E w \in Worlds :
          /\ breaks = w.breaks
          /\ tab = [t \in Tabs |-> IF t \in w.tabs THEN "opening" ELSE "left"]
    /\ published = 0
    /\ feed = "connecting" /\ connects = 0 /\ upstream = NoUpstream /\ wire = <<>>
    /\ handler = [s \in Sessions |-> "none"]
    /\ queue = [s \in Sessions |-> <<>>] /\ dropped = [s \in Sessions |-> 0]
    /\ pipe = [s \in Sessions |-> <<>>] /\ closed = {}
    /\ socket = [t \in Tabs |-> None]
    /\ stream = [t \in Tabs |-> [connected |-> FALSE, dropped |-> 0, readings |-> <<>>]]
    /\ joined = [s \in Sessions |-> 0]
    /\ account = [t \in Tabs |-> Fresh]

-----------------------------------------------------------------------------
(* storage-core *)

PushUncounted(sub, b) ==  \* mutant
    [sub EXCEPT !.buffer = IF Len(@) >= UpCapacity THEN Append(Tail(@), b) ELSE Append(@, b)]

\* A full buffer loses its oldest block, and counts it.
Push(sub, b) ==
    IF Len(sub.buffer) >= UpCapacity
    THEN [buffer |-> Append(Tail(sub.buffer), b), lagged |-> sub.lagged + 1]
    ELSE [sub EXCEPT !.buffer = Append(@, b)]

Publish ==
    /\ published < MaxBlocks
    /\ published' = published + 1
    /\ upstream' = IF feed = "connected" THEN Push(upstream, published') ELSE upstream
    /\ UNCHANGED <<feed, connects, wire, breaks, hub, pipe, closed, browser>>

LagNotice(n) == IF n > 0 THEN <<[type |-> "lagged", dropped |-> n]>> ELSE <<>>

\* pump_loop: the gap is announced before the block that follows it.
SendUpstream ==
    /\ upstream.buffer # <<>> /\ wire = <<>>
    /\ wire' = Append(LagNotice(upstream.lagged),
                      [type |-> "block", index |-> Head(upstream.buffer)])
    /\ upstream' = [buffer |-> Tail(upstream.buffer), lagged |-> 0]
    /\ UNCHANGED <<published, feed, connects, breaks, hub, pipe, closed, browser>>

-----------------------------------------------------------------------------
(* BlockFeed._run *)

Connect ==
    /\ feed = "connecting"
    /\ feed' = "connected"
    /\ connects' = connects + 1
    /\ UNCHANGED <<published, upstream, wire, breaks, hub, pipe, closed, browser>>

ConnectFails ==
    /\ feed = "connecting"
    /\ feed' = "waiting"
    /\ UNCHANGED <<published, connects, upstream, wire, breaks, hub, pipe, closed, browser>>

Retry ==
    /\ feed = "waiting"
    /\ feed' = "connecting"
    /\ UNCHANGED <<published, connects, upstream, wire, breaks, hub, pipe, closed, browser>>

Break == breaks > 0 /\ breaks' = breaks - 1

\* storage-core's end closes its Subscription, the next connection gets a new one.
FeedBreaks ==
    /\ feed = "connected"
    /\ Break
    /\ feed' = "waiting" /\ upstream' = NoUpstream /\ wire' = <<>>
    /\ UNCHANGED <<published, connects, hub, pipe, closed, browser>>

-----------------------------------------------------------------------------
(* BlockFeed._dispatch and BrowserHub.broadcast *)

Subscribed == {s \in Sessions : handler[s] = "subscribed"}

PutUnbounded(s, frame) == Append(queue[s], frame)  \* mutant

\* Subscription.put drops the oldest frame for the newest, whatever they are.
Put(s, frame) ==
    IF Len(queue[s]) >= QueueCapacity
    THEN Append(Tail(queue[s]), frame)
    ELSE Append(queue[s], frame)

AllHaveRoom == \A s \in Subscribed : Len(queue[s]) < QueueCapacity  \* mutant

PutNeverWaits == TRUE

SwallowNotices(frame) == IF frame.type = "block" THEN Subscribed ELSE {}  \* mutant

\* _on_block and _on_lagged alike broadcast to all there are.
Recipients(frame) == Subscribed

Dispatch ==
    /\ wire # <<>>
    /\ PutNeverWaits
    /\ LET frame == Head(wire)
           full == {s \in Recipients(frame) : Len(queue[s]) >= QueueCapacity}
       IN  /\ queue' = [s \in Sessions |->
                  IF s \in Recipients(frame) THEN Put(s, frame) ELSE queue[s]]
           /\ dropped' = [s \in Sessions |-> dropped[s] + IF s \in full THEN 1 ELSE 0]
    /\ wire' = Tail(wire)
    /\ UNCHANGED <<published, feed, connects, upstream, breaks, handler, joined, pipe,
                   closed, browser>>

-----------------------------------------------------------------------------
(* ws_blocks *)

\* Sessions that a dashboard believes in.
InUse == {socket[t] : t \in Tabs} \ {None}

Unused == {s \in Sessions \ InUse : handler[s] = "none"}

Accept(t) ==
    /\ tab[t] = "opening"
    /\ \E s \in Unused :
          /\ \A r \in Unused : s <= r
          /\ handler' = [handler EXCEPT ![s] = "accepted"]
          /\ socket' = [socket EXCEPT ![t] = s]
    /\ tab' = [tab EXCEPT ![t] = "open"]
    /\ stream' = [stream EXCEPT ![t].connected = TRUE]
    /\ UNCHANGED <<upside, breaks, queue, dropped, joined, pipe, closed, account>>

Subscribe(s) ==
    /\ handler[s] = "accepted"
    /\ handler' = [handler EXCEPT ![s] = "subscribed"]
    /\ joined' = [joined EXCEPT ![s] = connects]
    /\ UNCHANGED <<upside, breaks, queue, dropped, pipe, closed, browser>>

\* pump
SendFrame(s) ==
    /\ handler[s] = "subscribed" /\ s \notin closed
    /\ queue[s] # <<>> /\ Len(pipe[s]) < Room
    /\ pipe' = [pipe EXCEPT ![s] = Append(@, Head(queue[s]))]
    /\ queue' = [queue EXCEPT ![s] = Tail(@)]
    /\ UNCHANGED <<upside, breaks, handler, dropped, joined, closed, browser>>

CloseSeenBySending(s) == queue[s] # <<>>  \* mutant

\* watch_for_close is there for a browser that leaves while nothing is sent to it.
CloseSeen(s) == TRUE

\* Either task ends, and the handler with it: it unsubscribes.
EndSession(s) ==
    /\ handler[s] = "subscribed" /\ s \in closed
    /\ CloseSeen(s)
    /\ handler' = [handler EXCEPT ![s] = "none"]
    /\ queue' = [queue EXCEPT ![s] = <<>>] /\ dropped' = [dropped EXCEPT ![s] = 0]
    /\ joined' = [joined EXCEPT ![s] = 0]
    /\ pipe' = [pipe EXCEPT ![s] = <<>>]
    /\ closed' = IF s \in InUse THEN closed ELSE closed \ {s}
    /\ UNCHANGED <<upside, breaks, browser>>

\* The process ends, its lifespan with it, and is started again.
BackendRestarts ==
    /\ Break
    /\ feed' = "connecting" /\ connects' = 0 /\ upstream' = NoUpstream /\ wire' = <<>>
    /\ handler' = [s \in Sessions |-> "none"]
    /\ queue' = [s \in Sessions |-> <<>>] /\ dropped' = [s \in Sessions |-> 0]
    /\ joined' = [s \in Sessions |-> 0]
    /\ closed' = InUse
    /\ UNCHANGED <<published, pipe, browser>>

-----------------------------------------------------------------------------
(* useBlockStream and applyFrame *)

Lagged(t, n) ==
    /\ stream' = [stream EXCEPT ![t].dropped = @ + n]
    /\ account' = [account EXCEPT ![t].told = @ + n]

NewestFirst(readings, b) ==  \* mutant
    SubSeq(<<b>> \o readings, 1, Min({MaxReadings, Len(readings) + 1}))

\* The last MAX_STREAM_READINGS of them.
WithReading(readings, b) ==
    SubSeq(Append(readings, b), Max({1, Len(readings) + 2 - MaxReadings}), Len(readings) + 1)

\* On the account: what lies between two blocks, and what was said of it.
Block(t, b) ==
    LET a == account[t]
        missed == IF a.last = 0 THEN 0 ELSE b - a.last - 1 - a.told
    IN  /\ stream' = [stream EXCEPT ![t].readings = WithReading(@, b)]
        /\ account' = [account EXCEPT ![t] = [last |-> b, told |-> 0, silent |-> a.silent + missed]]

Receive(t) ==
    /\ tab[t] = "open" /\ t \notin Stalled
    /\ pipe[socket[t]] # <<>>
    /\ LET frame == Head(pipe[socket[t]])
       IN  IF frame.type = "lagged" THEN Lagged(t, frame.dropped) ELSE Block(t, frame.index)
    /\ pipe' = [pipe EXCEPT ![socket[t]] = Tail(@)]
    /\ UNCHANGED <<upside, breaks, hub, closed, tab, socket>>

OpenAgain(t) ==
    /\ tab[t] = "waiting"
    /\ tab' = [tab EXCEPT ![t] = "opening"]
    /\ UNCHANGED <<upside, breaks, hub, pipe, closed, socket, stream, account>>

\* onclose: of a socket that never opened, and of one that was open.
OpenFails(t) ==
    /\ tab[t] = "opening"
    /\ tab' = [tab EXCEPT ![t] = "waiting"]
    /\ UNCHANGED <<upside, breaks, hub, pipe, closed, socket, stream, account>>

OnClose(t) ==
    /\ tab[t] = "open" /\ socket[t] \in closed
    /\ tab' = [tab EXCEPT ![t] = "waiting"]
    /\ stream' = [stream EXCEPT ![t].connected = FALSE]
    /\ pipe' = [pipe EXCEPT ![socket[t]] = <<>>]
    /\ socket' = [socket EXCEPT ![t] = None]
    /\ account' = [account EXCEPT ![t] = Fresh]
    /\ closed' = IF handler[socket[t]] = "none" THEN closed \ {socket[t]} ELSE closed
    /\ UNCHANGED <<upside, breaks, hub>>

SocketBreaks(t) ==
    /\ tab[t] = "open" /\ socket[t] \notin closed
    /\ Break
    /\ closed' = closed \cup {socket[t]}
    /\ UNCHANGED <<upside, hub, pipe, browser>>

\* The effect's cleanup: no timer, no socket, and nothing that opens another.
Leave(t) ==
    /\ tab[t] # "left" /\ t \notin Stalled
    /\ tab' = [tab EXCEPT ![t] = "left"]
    /\ IF tab[t] = "open"
       THEN /\ closed' = IF handler[socket[t]] = "none"
                         THEN closed \ {socket[t]}
                         ELSE closed \cup {socket[t]}
            /\ pipe' = [pipe EXCEPT ![socket[t]] = <<>>]
            /\ socket' = [socket EXCEPT ![t] = None]
            /\ stream' = [stream EXCEPT ![t].connected = FALSE]
            /\ account' = [account EXCEPT ![t] = Fresh]
       ELSE UNCHANGED <<closed, pipe, socket, stream, account>>
    /\ UNCHANGED <<upside, breaks, hub>>

-----------------------------------------------------------------------------
FeedStep == SendUpstream \/ Retry \/ Dispatch
SessionStep(s) == Subscribe(s) \/ SendFrame(s) \/ EndSession(s)
TabStep(t) == OpenAgain(t) \/ Receive(t) \/ OnClose(t)

Next ==
    \/ Publish
    \/ FeedStep \/ Connect \/ ConnectFails \/ FeedBreaks
    \/ \E s \in Sessions : SessionStep(s)
    \/ BackendRestarts
    \/ \E t \in Tabs : TabStep(t) \/ Accept(t) \/ OpenFails(t) \/ SocketBreaks(t) \/ Leave(t)

SafeSpec == Init /\ [][Next]_vars

(***************************************************************************)
(* Timers fire, the event loops get round to what is there, and a          *)
(* connection that is attempted again and again is made some time.  Nobody *)
(* has to publish, to leave, or to break anything, and no attempt to fail. *)
(***************************************************************************)
Fairness ==
    /\ WF_vars(FeedStep) /\ SF_vars(Connect)
    /\ \A s \in Sessions : WF_vars(SessionStep(s))
    /\ \A t \in Tabs : WF_vars(TabStep(t)) /\ SF_vars(Accept(t))

Spec == SafeSpec /\ Fairness

-----------------------------------------------------------------------------
(* Properties *)

\* From the ledger to the dashboard, through two queues that drop what they have no
\* room for: a hole between two blocks on one socket was announced to the number
\* of its blocks, unless the hub dropped a frame of this browser's or the feed lost its
\* connection in between.
GapsAreExplained ==
    \A t \in Tabs : LET s == socket[t] IN
        s \in Subscribed /\ dropped[s] = 0 /\ connects = joined[s] =>
            account[t].silent = 0

Latest(t) == IF stream[t].readings = <<>> THEN 0 ELSE Last(stream[t].readings)

\* A dashboard never gets a block twice or after a later one, whichever sockets,
\* feeds and backends they came through.
NeverRewinds ==
    [][\A t \in Tabs : stream'[t].readings # stream[t].readings => Latest(t)' > Latest(t)]_vars

\* Whatever is dropped on the way and however slow the other browsers are: a block
\* that storage-core holds for the feed, or a later one, gets to every dashboard that
\* reads, unless its socket or the feed's connection breaks first.
NewestGetsThrough ==
    \A t \in Tabs \ Stalled, b \in Blocks :
        (b \in ToSet(upstream.buffer) /\ socket[t] \in Subscribed)
            ~> (Latest(t) >= b \/ socket[t] \in closed \cup {None} \/ feed # "connected")

\* Whatever broke: the feed and the dashboards find their way back, and a browser that
\* has gone is taken out of the hub even if nothing is sent to it any more.
AllComeBack ==
    /\ feed = "waiting" ~> feed = "connected"
    /\ \A t \in Tabs : tab[t] = "waiting" ~> tab[t] \in {"open", "left"}
    /\ \A s \in Sessions : s \in closed ~> handler[s] = "none"

(* The Subscription of the upstream connection, as it is specified for itself. *)

\* The block the pump is sending, and what it has yet to say of the lost ones.
InHand == [block |-> Last(wire).index, lagged |-> IF Len(wire) = 2 THEN Head(wire).dropped ELSE 0]

Subs == INSTANCE Subscriptions WITH
    Clients <- {"feed"},
    Capacity <- UpCapacity,
    Nothing <- None,
    known <- [c \in {"feed"} |-> IF feed = "connected"
                                 THEN published - upstream.lagged - Len(upstream.buffer)
                                 ELSE 0],
    buffer <- [c \in {"feed"} |-> upstream.buffer],
    lagged <- [c \in {"feed"} |-> upstream.lagged],
    open <- IF feed = "connected" THEN {"feed"} ELSE {},
    client <- [c \in {"feed"} |-> IF feed # "connected" THEN "none"
                                  ELSE IF wire = <<>> THEN "asking" ELSE "holding"],
    got <- [c \in {"feed"} |-> IF wire = <<>> THEN None ELSE InHand]

\* Each connection of BlockFeed has a Subscription of its own that does what
\* Subscriptions, which Broadcast implements, has it do: it starts with nothing, and
\* what is lost in it is told before the block that follows, to the right number.
UsesSubscriptions ==
    /\ [](feed # "connected" => Subs!Init)
    /\ [][feed' = "connected" => Subs!Next \/ UNCHANGED Subs!subvars]_vars

\* main.py on lag notices: "passed through rather than swallowed", for "a dashboard
\* that silently missed blocks would show a stale chart that looks live".
NothingMissedSilently ==
    \A t \in Tabs : stream[t].connected /\ stream[t].dropped = 0 => account[t].silent = 0
===============================================================================
