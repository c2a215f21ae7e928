---------------------------- MODULE LedgerActivity ----------------------------
(***************************************************************************)
(* The cache behind GET /devices, /devices/{id}/sensors and /readings of   *)
(* backend-api (app/activity.py): what the ledger says of each device, kept *)
(* up to date by a cursor that follows GET /blocks of storage-core.        *)
(*                                                                         *)
(* Every one of those requests awaits refresh() before it reads the cache. *)
(* All run on one event loop, so that what refresh() does after its await  *)
(* is one step; but many can be at the await at a time, and their answers  *)
(* come back in any order.                                                 *)
(***************************************************************************)
EXTENDS Integers, SequencesExt, BlockRange

CONSTANTS
    Requests,      \* the requests that can be under way at a time
    Devices,
    Sensors,       \* a sensor is known by its device and its own name
    Urls,          \* addresses a camera may announce
    Events,        \* what devices report: a set of Event
    HistoryLimit,  \* READING_HISTORY_LIMIT
    MaxTime,       \* bound on timestamps, for TLC
    MaxBlocks,     \* bound on the length of the first ledger, for TLC, and one less
                   \* for each that replaces it
    MaxResets,     \* bound on how often the ledger is replaced, for TLC
    None

System == "system"          \* the actor of a genesis block

Actors == Devices \cup {System}

Keys == Devices \X Sensors

\* "other" stands for every event that is no valid reading or camera event, and
\* actor None for an event without one.
Event ==
    [type : {"SENSOR_READING"}, actor : Devices, sensor : Sensors]
        \cup [type : {"CAMERA_EVENT"}, actor : Devices, sensor : Sensors,
              url : Urls \cup {None}]
        \cup [type : {"other"}, actor : Devices \cup {None}]

ASSUME ActivityAssumption ==
    /\ Events \subseteq Event
    /\ HistoryLimit \in Nat \ {0}
    /\ MaxTime \in Nat \ {0}
    /\ MaxBlocks \in 1..(MaxIndex + 1)
    /\ MaxResets \in Nat
    /\ None \notin Actors \cup Urls

VARIABLES
    chain,       \* the blocks storage-core holds
    resets,      \* how often that ledger has been replaced by a new one
    last_seen,   \* _last_seen; NoTime for an actor never seen
    readings,    \* _latest and _history of each sensor
    camera,      \* _camera: the latest event of each camera, None before the first
    next_index,  \* _next_index
    reachable,   \* _reachable
    request      \* what each request is waiting for

vars == <<chain, resets, last_seen, readings, camera, next_index, reachable, request>>

cache == <<last_seen, readings, camera>>

NoTime == 0

Times == 1..MaxTime

Block == [ledger : 0..MaxResets, index : 0..(MaxBlocks - 1), at : Times,
          event : Event \cup [type : {"GENESIS"}, actor : {System}]]

Camera == [last : Block, stream_url : Urls \cup {None}]

ASSUME NoneIsNothing == None \notin Block \cup Camera

\* blocks from genesis on: a ledger that has only just been created.
Genesis(ledger) ==
    [ledger |-> ledger, index |-> 0, at |-> 1,
     event |-> [type |-> "GENESIS", actor |-> System]]

Idle == [stage |-> "idle"]

Request ==
    [stage : {"idle", "refused"}]
        \cup [stage : {"asked"}, from : Nat]
        \cup [stage : {"answered"}, blocks : Seq(Block), chain_length : Nat]

TypeOK ==
    /\ chain \in Seq(Block) /\ Len(chain) \in 1..MaxBlocks
    /\ resets \in 0..MaxResets
    /\ last_seen \in [Actors -> Times \cup {NoTime}]
    /\ readings \in [Keys -> [latest : Block \cup {None}, history : Seq(Block)]]
    /\ \A k \in Keys : Len(readings[k].history) <= HistoryLimit
    /\ camera \in [Keys -> Camera \cup {None}]
    /\ next_index \in 0..MaxBlocks
    /\ reachable \in BOOLEAN
    /\ request \in [Requests -> Request]

Init ==
    /\ chain = <<Genesis(0)>>
    /\ resets = 0
    /\ last_seen = [a \in Actors |-> NoTime]
    /\ readings = [k \in Keys |-> [latest |-> None, history |-> <<>>]]
    /\ camera = [k \in Keys |-> None]
    /\ next_index = 0
    /\ reachable = TRUE
    /\ request = [r \in Requests |-> Idle]

-----------------------------------------------------------------------------
(* storage-core, as seen from here.  Module Ledger has its inside. *)

\* Its clock has a resolution of a second and may be set back: any time will do.
AppendBlock ==
    /\ Len(chain) < MaxBlocks - resets
    /\ \E e \in Events, t \in Times :
          chain' = Append(chain, [ledger |-> resets, index |-> Len(chain), at |-> t,
                                  event |-> e])
    /\ UNCHANGED <<resets, cache, next_index, reachable, request>>

\* It comes back with another, younger ledger.
Reset ==
    /\ resets < MaxResets
    /\ resets' = resets + 1
    /\ chain' = <<Genesis(resets')>>
    /\ UNCHANGED <<cache, next_index, reachable, request>>

\* GET /blocks?from=from, without an end: answered, or a 400.
Answer(from) ==
    LET reply == GetBlocks(chain, Digits(from), Absent)
    IN  IF reply.status = 400
        THEN [stage |-> "refused"]
        ELSE [stage |-> "answered", blocks |-> reply.blocks,
              chain_length |-> reply.chain_length]

Serve(r) ==
    /\ request[r].stage = "asked"
    /\ request' = [request EXCEPT ![r] = Answer(request[r].from)]
    /\ UNCHANGED <<chain, resets, cache, next_index, reachable>>

-----------------------------------------------------------------------------
(* refresh, up to its await *)

FromTheNext == next_index  \* mutant

\* One before the next index, so that there is always a block to return.
From == IF next_index = 0 THEN 0 ELSE next_index - 1

Ask(r) ==
    /\ request[r] = Idle
    /\ request' = [request EXCEPT ![r] = [stage |-> "asked", from |-> From]]
    /\ UNCHANGED <<chain, resets, cache, next_index, reachable>>

-----------------------------------------------------------------------------
(* _consume, on the blocks of one answer *)

TimesOf(blocks, a) == {b.at : b \in {b \in ToSet(blocks) : b.event.actor = a}}

LastTime(blocks, a) ==  \* mutant
    LET own == SelectSeq(blocks, LAMBDA b : b.event.actor = a)
    IN  IF own = <<>> THEN last_seen[a] ELSE Last(own).at

\* max, not assign.
LastSeen(blocks, a) == Max({last_seen[a]} \cup TimesOf(blocks, a))

IsReading(b, k) ==
    /\ b.event.type = "SENSOR_READING"
    /\ <<b.event.actor, b.event.sensor>> = k

IsCameraEvent(b, k) ==
    /\ b.event.type = "CAMERA_EVENT"
    /\ <<b.event.actor, b.event.sensor>> = k

NeverOutOfOrder(previous, b) == FALSE  \* mutant

\* A block older than the latest one of its key is passed over.
OutOfOrder(previous, b) == previous # None /\ previous.at > b.at

Unbounded(history) == history  \* mutant

\* deque(maxlen=HISTORY_LIMIT): what is too much goes on the left.
Bounded(history) ==
    IF Len(history) > HistoryLimit THEN Tail(history) ELSE history

\* _consume_reading, on the entry of the block's own sensor.
ConsumeReading(entry, b) ==
    IF OutOfOrder(entry.latest, b)
    THEN entry
    ELSE [latest |-> b, history |-> Bounded(Append(entry.history, b))]

\* _consume_camera_event.  An event without an address keeps the one announced last.
ConsumeCameraEvent(record, b) ==
    IF record # None /\ OutOfOrder(record.last, b)
    THEN record
    ELSE [last       |-> b,
          stream_url |-> IF b.event.url = None /\ record # None
                         THEN record.stream_url
                         ELSE b.event.url]

ConsumeBlock(entries, b) ==
    [readings |-> [k \in Keys |-> IF IsReading(b, k)
                                  THEN ConsumeReading(entries.readings[k], b)
                                  ELSE entries.readings[k]],
     camera   |-> [k \in Keys |-> IF IsCameraEvent(b, k)
                                  THEN ConsumeCameraEvent(entries.camera[k], b)
                                  ELSE entries.camera[k]]]

\* The loop over the blocks.
Entries(blocks) ==
    LET after[n \in 0..Len(blocks)] ==
            IF n = 0
            THEN [readings |-> readings, camera |-> camera]
            ELSE ConsumeBlock(after[n - 1], blocks[n])
    IN  after[Len(blocks)]

Consume(blocks) ==
    LET after == Entries(blocks)
    IN  /\ last_seen' = [a \in Actors |-> LastSeen(blocks, a)]
        /\ readings' = after.readings
        /\ camera' = after.camera

-----------------------------------------------------------------------------
(* refresh, from its await on.  The reply that follows only reads the cache. *)

Succeed(r) ==
    /\ request[r].stage = "answered"
    /\ reachable' = TRUE
    /\ Consume(request[r].blocks)
    /\ next_index' = request[r].chain_length
    /\ request' = [request EXCEPT ![r] = Idle]
    /\ UNCHANGED <<chain, resets>>

StayAhead(r) ==  \* mutant
    /\ request[r].stage = "refused"
    /\ reachable' = FALSE
    /\ request' = [request EXCEPT ![r] = Idle]
    /\ UNCHANGED <<chain, resets, cache, next_index>>

Rewind(r) ==
    /\ request[r].stage = "refused"
    /\ reachable' = FALSE
    /\ next_index' = 0
    /\ request' = [request EXCEPT ![r] = Idle]
    /\ UNCHANGED <<chain, resets, cache>>

\* Unreachable, out of time, a 5xx, or no JSON: the cache stays as it is.
GiveUp(r) ==
    /\ request[r].stage = "asked"
    /\ reachable' = FALSE
    /\ request' = [request EXCEPT ![r] = Idle]
    /\ UNCHANGED <<chain, resets, cache, next_index>>

-----------------------------------------------------------------------------
Resume(r) == Succeed(r) \/ Rewind(r)

Next ==
    \/ AppendBlock
    \/ Reset
    \/ \E r \in Requests : Ask(r) \/ Serve(r) \/ GiveUp(r) \/ Resume(r)

SafeSpec == Init /\ [][Next]_vars

(***************************************************************************)
(* Dashboards keep asking, storage-core is not out of reach for ever, and  *)
(* the event loop gets round to a coroutine whose answer is there.         *)
(***************************************************************************)
Fairness ==
    \A r \in Requests : WF_vars(Ask(r)) /\ SF_vars(Serve(r)) /\ WF_vars(Resume(r))

Spec == SafeSpec /\ Fairness

-----------------------------------------------------------------------------
(* Properties.  Those that speak of one ledger say resets = 0. *)

\* As long as the ledger only grows, no refresh asks for a block it does not have,
\* however the answers overtake each other: nobody is told that storage-core cannot
\* be reached because nothing new has arrived.
NeverPastTheEnd ==
    resets = 0 => \A r \in Requests : request[r].stage # "refused"

\* last_seen takes account of the first n blocks.
Covered(n) ==
    \A i \in 1..n : chain[i].event.actor \in Actors =>
        last_seen[chain[i].event.actor] >= chain[i].at

\* The cursor covers what is before it: each block there has been accounted for in
\* its actor's last_seen and its sensor's latest reading or event, although a slow
\* answer may have moved the cursor back, and a fast one forward, in the meantime.
\* The address a camera announced is known too, unless the announcement came with a
\* timestamp older than an earlier event's.
NothingSkipped ==
    resets = 0 =>
        /\ Covered(next_index)
        /\ \A i \in 1..next_index, k \in Keys : IsReading(chain[i], k) =>
              readings[k].latest # None /\ readings[k].latest.at >= chain[i].at
        /\ \A i \in 1..next_index, k \in Keys : IsCameraEvent(chain[i], k) =>
              /\ camera[k] # None /\ camera[k].last.at >= chain[i].at
              /\ \/ chain[i].event.url = None
                 \/ camera[k].stream_url # None
                 \/ \E j \in 1..(i - 1) :
                       IsCameraEvent(chain[j], k) /\ chain[j].at > chain[i].at

\* A chart's series has no hole and runs forward.  A reading before the cursor is in its
\* sensor's history, unless it came with a timestamp older than an earlier one's or has
\* been pushed out by later ones; and whatever was read again or came from another
\* ledger, a history is oldest first and ends with the latest reading.
HistoryIsRight ==
    /\ resets = 0 =>
          \A i \in 1..next_index, k \in Keys : IsReading(chain[i], k) =>
              LET history == readings[k].history
              IN  \/ chain[i] \in ToSet(history)
                  \/ \E j \in 1..(i - 1) : IsReading(chain[j], k) /\ chain[j].at > chain[i].at
                  \/ Len(history) = HistoryLimit /\ history[1].at >= chain[i].at
    /\ \A k \in Keys :
          LET history == readings[k].history
          IN  /\ \A i, j \in DOMAIN history : i < j => history[i].at <= history[j].at
              /\ readings[k].latest = IF history = <<>> THEN None ELSE Last(history)

\* A cursor that is past the end of a ledger that was replaced comes back, and the
\* new ledger is read from its first block.
CursorComesBack == next_index > Len(chain) ~> next_index <= Len(chain)

\* What a comment says of reading the last block again: it is harmless.  A history
\* then holds no block twice.
ReReadingIsHarmless ==
    \A k \in Keys :
        LET history == readings[k].history
        IN  \A i, j \in DOMAIN history : i # j => history[i] # history[j]
==============================================================================
