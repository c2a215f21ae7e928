# A verification project for the IoT devices ledger auditor

TLA+ models of this repository's ledger service, the TLC runs that check them and
the proofs about them. Paths are relative to the repository's root; `storage-core`
stands for `src/storage-core`, and line numbers are those of the commit the models
were written from. `PROJECT.json` lists components, runs, mutants, the hazards the
properties answer to, and for every definition the lines it models.

- [The system](#the-system)
- [Modules](#modules) and how they correspond to the code
- [Runs](#runs): what is checked, on which instances, under which fairness
- [Mutants](#mutants)
- [Proofs](#proofs)
- [Where the code and its documents disagree](#where-the-code-and-its-documents-disagree)
- [Not modelled](#not-modelled)
- [Plan](#plan)

## The system

Devices post events. `storage-core` (C++) chains each event to its predecessor by
hash, appends it to an NDJSON file, answers the device, and announces the block on
a WebSocket feed. `backend-api` (Python) polls the ledger and follows the feed; it
combines what it learns with a registry of devices in PostgreSQL and serves a
dashboard (`frontend`, React), which has a feed of its own. `auditor` is a stub.

```
 device --POST /events--> handler --WriteQueue--> writer thread --> ledger.ndjson
                            ^                        |    |
                            +------ promise ---------+    +--> Chain (in memory)
                                                     |           ^
                                                     v           | shared lock
                                    Broadcaster -> Subscription  GET /blocks, /verify
                                                     |           ^
                                                   pump          | poll
                                                     v           |
 browser <-- BrowserHub <-- BlockFeed <---- WebSocket    LedgerActivity --> GET /devices ...
```

| part | state it keeps | operations | meets the rest through |
|---|---|---|---|
| hash chain (`chain.cpp`, `block.hpp`) | the vector of blocks | `load`, `push_persisted`, `latest`, `verify` | a shared mutex: readers are the HTTP handlers, the only writer is the writer thread |
| storage (`storage.cpp`) | the file and its append stream | `open_append`, `append_block`, `load_chain` | called at boot and by the writer |
| write queue (`writer.cpp`) | a bounded deque, a closed flag | `push`, `pop`, `close` | handlers push, the writer pops, `main` closes; a promise per request carries the answer back |
| writer thread (`writer.cpp`) | the request and block in hand | `writer_loop`, `build_next` | queue, chain, file, broadcaster |
| broadcaster (`broadcast.cpp`) | weak pointers to subscriptions; per subscription a drop-oldest buffer and a count of drops | `subscribe`, `publish`, `close_all`; `push`, `next`, `close` | the writer publishes, a pump thread per client drains |
| WebSocket server (`ws.cpp` over IXWebSocket) | connections with their pumps | `start`, `on_open`, `on_close`, `stop` | IXWebSocket's callbacks on its threads, the broadcaster, `main` |
| lifecycle (`main.cpp`, `signals.cpp`, `ServerHandle`) | which `Server` may be stopped, whether a stop was asked for | boot, `attach`, `stop`, `detach`, the shutdown sequence | the signal thread calls `stop`, `main` runs the rest |
| HTTP routes (`server.cpp` over cpp-httplib) | none | `POST /events`, `GET /blocks`, `GET /verify` | queue, chain |
| ledger activity (`activity.py`) | a cursor, last seen and recent readings per device | `refresh`, the lookups | polls `GET /blocks`, shared by all requests of the API |
| block feed and hub (`blockfeed.py`, `hub.py`, `main.py`) | one upstream task, a queue per browser, a registry cache | `start`, `stop`, dispatch, `broadcast`, `enrich` | the WebSocket feed, the browsers' sockets |
| REST API (`main.py`, `db.py`, `models.py`) | rows of the registry | filtered and sorted reads | the activity cache, PostgreSQL |
| dashboard (`frontend/src`) | fetched rows, streamed frames, the URL's query | fetch and abort, reconnect, merge | REST API and feed of `backend-api` |

What is hard here, and what makes each part correct:

- **Threads.** Handlers, the writer, a pump and a connection thread per client, the
  signal thread and `main` meet on two condition variables, four kinds of mutex and
  callbacks that run on whichever thread happens to close a socket. *No wakeup is
  lost, close releases everyone, a pump always has an owner, and nobody uses a
  server that is gone.*
- **Failure in the middle of an append.** A process may die, a disk fill up or an
  allocation fail between file, chain, feed and answer. *What a client was told
  stays true in every later process; readers see nothing that is not on disk; the
  chain verifies; the loop answers everybody and goes on.*
- **Slow readers.** *The writer never waits for one, and what a reader misses is
  counted exactly and told to it in order.*
- **Stopping.** A signal can arrive at any point of a start or a stop. *It brings
  `main` to its shutdown, and a process that ends has served every accepted request and
  joined every thread.*
- **Caches that follow the ledger** (backend and dashboard). *A poll, a feed and
  their merge miss no block without saying so and count none twice.* Of these the
  poll and the feed are modelled, the merge is not.
- **An audit.** *What `GET /verify` and `GET /blocks` answer is right for every chain,
  those that were altered included.*

## Modules

`BoundedQueue`, `Subscriptions` and `DurableLog` are specifications of a promise; the others are
translations of code. There is one action for each stretch of code between two
points at which another thread, or a crash, can intervene.

**`Chain`** (`block.hpp`, `chain.cpp`) is a pure module. A digest is the tuple of
what is hashed, so two are equal exactly when their inputs are: this is the one
assumption about SHA-256. `verify_chain` is the code's scan, with its counts.
**`BlockRange`** (`server.cpp:140-206`) is pure too: `GET /blocks` as a function of the
chain and of two parameters, each absent, malformed or a number of any size
(`parse_index`), with the clamped end and both ways to a 400. It is computed under the
shared lock, so that no other step can come in between.

**`WriteQueue`** (`writer.cpp:18-73`) has the queue's mutex, held for one step
each, its two condition variables as sets of waiting threads, and the notifications
as steps of their own, because the code notifies after it has unlocked. A waiting
thread may wake for no reason.
**`BoundedQueue`** is the same queue with atomic operations, which is what the
header promises (`writer.hpp:28-64`); `WriteQueue` implements it (`Abstract ==
INSTANCE BoundedQueue`, `ImplementsBoundedQueue`), and `Ledger`, which has no threads of
the queue in it, uses it as that promise has it (`Queue == INSTANCE BoundedQueue`,
`UsesBoundedQueue`). The two levels are checked apart and meet in that module. `got` and
`popped` are what the last call gave its caller; a new call clears them.

**`Ledger`** is the write path: `POST /events`, the queue, `writer_loop`, the file,
the chain, the feed, boot and shutdown, crashes.

| action | code |
|---|---|
| `BootFresh`, `BootReload`, `BootFails` | `main.cpp:39-75`, `storage.cpp:34-59`: an empty file gets a genesis block, which is in memory before it is on disk; a file is loaded whole or the process ends |
| `Post`, `Push` | `server.cpp:78-131`: validate, then `WriteQueue::push` |
| `Pop`, `PopEnd`, `BuildNext` | `writer.cpp:88-98` |
| `WriteBody`, `WriteNewline` | `append_block`, `storage.cpp:26-32`: JSON and newline are two pieces |
| `WriteFails`, `WriteOnBadStream` | the `throw` of `append_block`; the stream's failed state is never cleared, so that every later append fails too |
| `PushPersisted`, `Publish`, `Reply` | `writer.cpp:105-121` |
| `OutOfMemory` | `std::bad_alloc` out of `push_persisted` or `publish`, `writer.cpp:122-137` |
| `Stop`, `CloseQueue`, `Exit` | `main.cpp:89-116`; httplib's `listen` returns once its handlers have. Before `CloseQueue` `ws.stop()` has to return, which it need not (`WsServer`): the step is not fair |
| `Crash` | the process is gone between any two steps, or within a write; the file stays |

The file is a sequence of lines, each a sequence of pieces: a whole block or `Torn`,
a part of one. A line loads when it is one whole block. `status` and `answer` are
what each client knows; they outlive the server.
**`LedgerMemory`** adds one history variable to `Ledger`, `starved`: an allocation has
failed between file and chain at some time. The chain verifies, and the feed is a window
of it, only until then.
**`DurableLog`** says what a client may rely on with no server in sight: a log that
only grows, requests that enter it at most once and only while their client waits,
`created` only for a request in the log, anything else leaving that open. A crash is
no action of it. `Ledger` implements it with the file's whole blocks (`Entries`) for the
log, and with what each client has been told for the outcomes.

**`Broadcast`** is `broadcast.cpp` and the pump's loop (`ws.cpp:66-82`). The
Broadcaster's mutex is held across a whole `publish`, which visits the subscriptions
one by one (`task`), in an order that is left open; pumps, connections that close and spurious wakeups happen
between the visits. Blocks are numbers. `last` and `item` record what each client
has been given. A pump breaks off (`Leave`) only with a block in hand, since it looks at
the socket after `next` has returned.
**`Subscriptions`** is what one client's `Subscription` promises (`broadcast.hpp:16-84`),
with no mutex, no Broadcaster and no wakeup in sight: from some block on it takes in
every one, loses the oldest when it is full and counts it, hands out the rest in order
with that count, and ends when it is closed and drained. `Broadcast` implements it (`Subs == INSTANCE
Subscriptions`, `ImplementsSubscriptions`), and `LiveFeed` uses it (`UsesSubscriptions`).

**`Shutdown`** is `run()` in `main.cpp`, the signal thread, `ServerHandle`, and what
`stop` and `listen` of httplib do: `stop` has no effect unless `is_running_` is set.
Startup may fail at every place where the code has a way out for it; a `SIGTERM` and a `SIGINT` may arrive
whenever the process exists. `WsStop` is the return of `ws.stop()`: `main` may wait for it for ever.

**`WsServer`** is `ws.cpp` over the vendored IXWebSocket: a connection's thread
(`conn`), its pump (`pump`) and `main`, which stops them. Each of the three sends frames, may find
the socket broken and may set the state CLOSED, and then runs `on_close`; so what lies
between is written once, for a thread `t` (`SendOrClose`; `At` and `Go` read and set where it is).

| actions | code |
|---|---|
| `SendAll`, `SendPart`, `SendFails`, `Sent` | `sendFragment` and `sendOnSocket`; `sendData` goes on to flush whatever was left, after a send that failed in CLOSING as well (`IXWebSocketTransport.cpp:936-941`) |
| `FlushLoop`, `FlushWrites`, `FlushInterrupted`, `FlushError` | `flushSendBuffer`: its condition with `_requestInitCancellation` (`cancel`), and the outcomes of `isReadyToWrite`, which takes wake-up requests from the pipe as `poll` does (`pipe`) |
| `SetClosed`, `OnClose`, `Join`, `OnClosed` | `setReadyState(CLOSED)` with the callback under its mutex: `on_close`, `ws.cpp:109-125` |
| `PumpNext`, `PumpEnds`, `PumpSend` | `pump_loop`, `ws.cpp:66-82` |
| `Connect` to `Register` | accept, handshake and `on_open`, which refuses other paths than `/blocks` |
| `EndOfRun` to `ResetCancellation` | `WebSocket::run`: `poll`, `dispatch` and the ways to close there are in them |
| `Stop` to `Sweep` | `WsServer::stop` on `main`: `close()` for each client IXWebSocket knows, the joins, `close_all` |

The labels are places in the code where a
thread waits or another one may see its effects; `_setReadyStateMutex` and
`_txbufMutex` are variables because threads hold them while they run callbacks. The
connection's thread calls the shared part from several places, and `back` has where it
returns to. A frame is taken to be shorter than 32 KiB (`kChunkSize`);
a longer one goes out in fragments, and a failed one ends `sendData` at once.
`Behaviours` is a set of worlds, one of which a behaviour starts in (`may`): what each
client may do beyond reading and staying. It may close its connection in order (`"leave"`), vanish
(`"vanish"`), stop reading (`"slow"`), be in its handshake while the server stops (`"late"`), ask
for another path (`"refused"`) or never come (`"absent"`). A property that holds only of some
clients says of which.

**`LedgerActivity`** is `activity.py` with the `GET /blocks` it lives on
(`BlockRange`): the cache behind `/devices`, `/devices/{id}/sensors` and
`/readings`. All requests run on one event loop and every one awaits `refresh()`.

| action | code |
|---|---|
| `Ask` | `refresh` up to its await: the cursor is read here, `activity.py:72-87` |
| `Serve` | `GET /blocks`, under the chain's lock |
| `Succeed` | the rest of `refresh` and `_consume`, in one step since nothing is awaited |
| `Rewind`, `GiveUp` | a 400; every other failure. The answer may also be late or lost: to the cache that is one more failure |
| `AppendBlock`, `Reset` | storage-core: a block with any timestamp; another ledger in the place of this one |

A payload is consumed block by block, as the loop does (`Entries`), and by a maximum for
`last_seen`. A reading or camera event is the block it came in. A property about "one ledger" says `resets = 0`.

**`LiveFeed`** is the way of a block from storage-core's `Subscription` for
`backend-api` to the charts: `BlockFeed`, `BrowserHub` and the handlers of `/ws/blocks`
(`blockfeed.py`, `hub.py`, `main.py:46-117`), and `useBlockStream` with `applyFrame` in
each dashboard. Everything that can hold or lose a frame is there: the subscription, the
connection, the hub's queue for each browser, what its socket has taken.

| action | code |
|---|---|
| `Publish`, `SendUpstream` | storage-core's `Subscription::push` and `pump_loop`, in short; `Broadcast` has them in full, and `Subscriptions` is what both agree on |
| `Connect`, `ConnectFails`, `FeedBreaks`, `Retry` | `BlockFeed._run`, `blockfeed.py:79-104` |
| `Dispatch` | `_dispatch`, `_on_block` and `_on_lagged`, `broadcast` and `Subscription.put`: one step, since nothing is awaited in between |
| `Accept`, `Subscribe`, `SendFrame`, `EndSession` | `ws_blocks`, `main.py:86-117`: accepting awaits, so a block can come before the subscription does |
| `BackendRestarts` | the process and its lifespan end and start again |
| `Receive` | `onmessage` and `applyFrame` |
| `OnClose`, `OpenFails`, `OpenAgain`, `Leave` | the hook's `onclose`, its timer and its cleanup |

`account` and `joined` are history: what a dashboard was told and not told on its socket.

`MC...` modules instantiate these for TLC. `WriteQueueProofs`, `BroadcastProofs`,
`LedgerProofs` and, upon it, `LedgerChainProofs` (which has the theorems about `Chain`
too), `ShutdownProofs`, `WsServerProofs`, `LiveFeedProofs` and `LedgerActivityProofs`
(with the one about `BlockRange`) hold the theorems.

## Runs

| run | instance | properties | what it shows |
|---|---|---|---|
| `MCWriteQueue_writer` | 3 handlers, 1 writer, capacity 2, 2 items | `TypeOK`, `NoLostWakeup`, `ImplementsBoundedQueue` | no interleaving of push, pop and close loses a wakeup, and the queue behaves as an atomic one, which releases everyone when it is closed |
| `MCLedger_faults` | 3 requests, capacity 1; crashes, full disk, out-of-memory | `TypeOK`, `NothingServedUnpersisted`, `AcknowledgedIsDurable`, `AcknowledgedIndicesDistinct`, `SoundUnlessStarved`, `FeedFollowsUnlessStarved`, `ShutdownServesAccepted`, `EveryPostAnswered`, `ShutdownProceeds`, `UsesBoundedQueue`, `ImplementsDurableLog` | what holds under every fault; the write path holds up no shutdown, before `ws.stop()` or after it; until an allocation fails, `GET /verify` finds nothing wrong whatever crashed before, and the feed is a window of the chain; handlers, writer and shutdown use the queue as its specification has it |
| `MCLedger_torn` | 2 requests; crashes | `AcknowledgedSurvivesRestart` | **violated**, see below |
| `MCBroadcast_feed` | 2 clients, one of which may stall for ever; capacity 1, 3 blocks | `TypeOK`, `LagExact`, `NoLostWakeup`, `WriterNeverBlocks`, `CatchesUp`, `ImplementsSubscriptions` | every missed block is counted once and announced in order; a stalled client delays neither the writer nor the other client, and closing releases all; each client has the `Subscription` it was promised |
| `MCShutdown_pass` | one process, two signals | `NoDanglingServer`, `NothingLeftBehind`, `StopTakesEffect` | every order of startup, failure, signal and shutdown; a stop brings `main` as far as `ws.stop()`, and from its return on to the exit |
| `MCShutdown_lost` | the same | `SignalEndsProcess` | **violated**, see below |
| `MCWsServer_pass` | 1 client that stays, leaves or is refused, is refused and vanishes or is late, or may leave, vanish, be slow and late; backlog 2 | `TypeOK`, `PumpIsOwned`, `NothingLeaks`, `ServerSurvivesStop`, `DisconnectDeregisters`, `StopReturns` | ownership of pumps and subscriptions on every path; the server's own stop makes no pump of a client that stays join itself; the pump of a client that leaves ends and `stop` returns with all threads ended, unless a block on its way to a client that leaves strands the pump |
| `MCWsServer_vanish` | 1 client that may vanish | `ServerSurvivesClients` | **violated**, see below |
| `MCLedgerActivity_cursor` | 2 requests, 1 device with a sensor and a camera, history of 2, two timestamps; 3 blocks, replaced once by up to 2 | `TypeOK`, `NeverPastTheEnd`, `NothingSkipped`, `HistoryIsRight`, `CursorComesBack` | overlapping refreshes miss nothing and put nothing out of order; a cursor past the end recovers |
| `MCLedgerActivity_reread` | 1 request at a time, readings only | `ReReadingIsHarmless` | **violated**, see below |
| `MCLiveFeed_feed` | 2 dashboards of which 1 hangs and nothing breaks, or 1 dashboard and 2 breaks; every queue of 1, 3 blocks | `TypeOK`, `GapsAreExplained`, `NeverRewinds`, `NewestGetsThrough`, `AllComeBack`, `UsesSubscriptions` | gaps are announced unless the hub's queue overflows or the feed reconnects; no block comes twice or late; a dashboard that hangs delays nobody; all find back after every break; the upstream end is what `Subscriptions` promises |
| `MCLiveFeed_silent` | 1 dashboard | `NothingMissedSilently` | **violated**, see below |

### Bounds, and why they are enough

- *Queue.* Capacity 2 with three handlers has a full queue with one more waiting, an
  empty one with the writer waiting, and both conditions changing hands. The proofs
  do without the bound.
- *Ledger.* Each request is posted once; three fill the queue (capacity 1), the
  writer's hand and a waiting handler at the same time, and leave one to be posted
  after a crash or a failure. There may be any number of crashes and restarts: a
  crash without an append changes nothing, so the number of states stays finite. One
  timestamp is enough since no code compares them, and equal ones are the harder
  case for telling blocks apart.
- *Broadcast.* `MaxBlocks` bounds what is published. With capacity 1 three blocks
  drop two in a row, so that counts above one occur (`LagExact` tells them
  apart from a flag). Each client subscribes once; a client that reconnects is a new
  subscription in the code.
- *Shutdown* has no bound: a pending signal is a flag in the kernel too.
- *WsServer.* The backlog is a count; at its bound a publish drops a block and adds
  one, so it can be published for ever. One client at a time: what happens to a connection
  involves its own two threads and `main`, and clients share nothing but `main`'s loop over
  them. Two clients with all their threads have several hundred thousand states, too many
  for the liveness properties; the safety properties are proved for any number.
- *LedgerActivity.* Two requests make every race there is between one answer and
  another: a slow one, a fast one, a stale refusal. Three blocks (genesis and two
  more) with two timestamps have equal, ascending and descending neighbours; as blocks
  are read again, a history of two overflows. The second ledger can be shorter than
  the cursor or catch up with it. `MaxIndex` need only be beyond the ledger here; the
  theorems about `BlockRange` leave it open.
- *LiveFeed.* Queues of one frame overflow at once, so three blocks make a gap upstream,
  a gap in the hub and a notice that is itself dropped. Two breaks let the feed and a
  socket break, either one twice, or the backend restart in the middle of a reconnect. Two
  handlers let a dashboard come back before the handler of its old socket has noticed.

Symmetry is not used: the runs are small, and most check liveness.

### Fairness

Weak fairness of each thread that runs: of the writer's steps, of a handler inside
`push`, of `main` in its shutdown except in `ws.stop()`, of a pump that is not waiting for a client. It
is what a preemptive scheduler gives to runnable threads; a thread in a wait set is
not runnable, and its wakeup is a step of another. Nothing in the environment is
fair: no client has to post, connect, read or leave, no signal has to come, no fault
has to happen, no process has to be started again. Mutexes that are held across
steps are taken with weak fairness too, so liveness never rests on a lock being won
against competitors for ever. `Broadcast` exempts the pumps in `Stalled` from all
fairness. `LedgerActivity` is the exception to "nothing in the environment": its only
liveness property is about a cache that nobody refreshes without a request, so
requests keep coming and some of them are answered (strong fairness of `Serve`: a
storage-core that is unreachable now and then, not for ever). So is `LiveFeed`, whose
code tries for ever: an attempt to connect that is made again and again succeeds some
time (strong fairness of `Connect` and `Accept`), while nothing has to be published and
no connection ever has to break; a dashboard in `Stalled` need not read, but its hook
runs.

### Deadlock

Checked wherever the system has no natural end. Where it is off (`CHECK_DEADLOCK
FALSE`), the model may stop: in `Broadcast` after `close_all` or with `MaxBlocks`
published and everybody asleep, in `WsServer` after `stop`, or with a stranded pump, in
`LedgerActivity` and `LiveFeed` when their bounds are used up.
`WriteQueue` ends in a state in which its callers can call again, `Shutdown` in
`Exited`, `Ledger` in `BootFails`.

## Mutants

Each property is checked to fail for a plausible slip in the code it is about: a
definition marked `\* mutant` stands beside the one it replaces. Some examples:
the queue's `close` notifying one waiter instead of all; the index of a new block
taken from the last block's index; a failed append treated as if it had worked; the
dropped block not counted; the writer waiting for room in a subscription; `detach`
not taking the handle's mutex; the pump detached instead of joined; `last_seen`
assigned instead of maximised; the cursor asked for instead of the block before it; lag
notices swallowed by the hub; a block taken into a subscription that is closed; a closed browser noticed only when something is sent.

## Proofs

Every safety property that the passing runs check is proved for all values of the
constants, and what the read routes answer for every chain. What is assumed are the
modules' `ASSUME`s. The proofs join where the modules do: that the queue's threads implement
`BoundedQueue` and that the server uses it as such, that the Broadcaster implements
`Subscriptions` and that the feed to the dashboards starts from one, and that the whole
write path implements `DurableLog`.

### `WriteQueueProofs`

For any finite sets of producers and consumers and any capacity
(`WriteQueueAssumption`):

- `TypeCorrect`: `SafeSpec => []TypeOK`.
- `WakeupsCorrect`: `SafeSpec => []NoLostWakeup`. `NoLostWakeup` counts: as long
  as somebody waits for room, the slots that are free are covered by consumers that
  have taken an item and not yet notified and by producers on their way to the lock,
  and likewise for items. Stated so it is inductive, together with `TypeOK` and the
  agreement of labels and wait sets (`IInv`). Each action has a step of its own, and
  one for what it does to each of the counts.
- `RefinesBoundedQueue`: `SafeSpec => Abstract!SafeSpec`. Initial states map to
  initial states; taking the lock, waiting, waking and notifying map to stutters;
  the step under the mutex that changes the queue maps to the abstract operation.

### `BroadcastProofs`

For any clients, any capacity and any number of blocks:

- `TypeCorrect` and `BooksBalance` (`LagExact`) by one invariant: types, the agreement
  of the list of subscriptions with who is on it (`ListOK`), and the books
  themselves: what was delivered, then what was dropped since, then the buffer
  are consecutive numbers up to the newest block the subscription was visited for.
  Dropping the oldest block moves one number from the buffer to the count.
- `GapsAnnounced`, an action property that no run needs beside `ImplementsSubscriptions`,
  from the same invariant: the count handed out with a block is the distance from the
  last block handed out.
- `WakeupsCorrect` (`NoLostWakeup`): a pump goes to sleep only when it has seen an
  empty buffer under the mutex, and whoever fills it notifies in its next step.
- `FeedImplementsSubscriptions` (`ImplementsSubscriptions`): `Broadcast` implements
  `Subscriptions` step by step. Its registry, its loop, expiry and notifications map to
  stutters; the number that `Subscriptions` computes for the next block of a client is the
  block of the publish under way because the books balance.

### `LedgerProofs`, `LedgerChainProofs`

For any requests, timestamps and capacity (`LedgerAssumption`), any number of crashes
and restarts, and, unless said otherwise, any `Faults`. What a client is promised
spans processes that share nothing but the file, so the invariant (`LedgerInv`) is
about the file first: its form (`FileOK`), that nothing written ever leaves it
(`FileStep`), and that a file which loads, loads whole (`LoadedWhole`). To this come
the phases and steps (`ControlOK`), the requests in hand (`ClientsOK`, `HandlersOK`)
and where the block being appended already is (`ChainOK`).

- `ServedIsPersisted` (`NothingServedUnpersisted`), `AcknowledgedForEver`
  (`AcknowledgedIsDurable`): the block in hand is in the file from `newline` on and in
  the chain from `publish` on; a reload takes in the whole file.
- `ShutdownServes` (`ShutdownServesAccepted`): no handler is inside when the queue is
  closed, and none can come in after that.
- `ServedChainGrows` (`ChainAppendOnly`).
- `TypeCorrect` (`TypeOK`): the blocks anywhere are blocks that `make_block` made.
- `SoundUntilStarved` (`SoundUnlessStarved`): `SoundInv` relates memory and file as long
  as no allocation has failed. While the append stream is good and the file loads, the
  file holds the chain, or, between the write and the push, the chain and the block in
  hand; a file with a torn piece, or with two pieces on a line, never loads again
  (`WritePieceLoaded`); once a write failed nothing reaches the file. So whatever loads is
  sound. The first failed allocation breaks the relation for good, and with it
  `ChainSound` (see below), so `HistoryInvariant` is `~starved => SoundInv`.
- `FeedFollowsUntilStarved` (`FeedFollowsUnlessStarved`), from the same invariant.
- `PlacesGivenOnce` (`AcknowledgedIndicesDistinct`): indices may be taken twice when an
  allocation fails, yet never by two blocks that are both acknowledged. No block claims
  a place behind its own, in the chain and in a file that loads (`PlacesInv`); so what was
  told before lies below the chain's end (`GivenPlaces`), and what is told next lies there.
- `LedgerIsLog`: `Ledger` implements `DurableLog!SafeSpec`. `LogStep` maps every step:
  `WriteBody` to `Seed` in boot and to `Commit` while serving, `Post` to `Submit`, `Reply`
  to `Acknowledge`, every answer other than 201 and every crash to `GiveUp`, all others to
  a stutter. This needs to know that a request cannot get into the log twice, which spans
  the queue, the writer's hand, the file and the processes to come (`LogInv`): genesis is
  in before anyone is served (`LogStarted`), a request is in one place of the queue or in
  hand, where its client waits (`InOnePlace`), and one that is in the log is neither
  queued nor about to be written (`NotAgain`). And it needs to know what a piece more in
  the file does to `Entries`, which `FlattenSeq` computes by a recursive function: lemmas
  `FlattenLoop` to `EntriesStep`, by the smallest position at which two computations differ.
- `QueueUsedAsPromised` (`UsesBoundedQueue`): in each life of the process every step is
  one of `BoundedQueue` or leaves the queue alone, and a process that ends leaves it as the
  next one finds it. The writer is a consumer that asks again only with nothing in hand,
  which the invariant of the chain does not say and `LetGoBefore` adds.
- `AnsweringIsEnough` (`ImplementsDurableLog`): with `EveryPostAnswered` the ledger
  implements all of `DurableLog`, its liveness included. That property is the
  hypothesis here and is left to TLC, which checks it on `MCLedger_faults`.

About functions, and so for every chain there is rather than for those the program
builds:

- `VerifyNamesFirst`: when `GET /verify` says "not valid", the index it names is that of
  the first block out of order, and it has looked at the blocks up to there.
- `EditIsLocated`: a block of a valid chain whose content was altered under its old hash
  is found and named. The tests do this to one chain.
- `HeadDeterminesChain`: two chains that verify and end in the same hash are the same, of
  whatever length. The proof walks back from the common end, by the smallest distance at
  which they differ; a genesis block's previous hash, which is no digest, ends the walk
  in both at once. This is what a valid answer of `GET /verify` is worth to someone who has
  noted the last hash, and the assumption is needed: a chain that was cut short or
  built anew verifies too, so "valid" alone does not say that nothing was edited.
- `HasSmallest`, from the well-foundedness of the natural numbers, stands in for the
  inductions.

### `ShutdownProofs`

`Shutdown` has no constants, so that its run covers every state there is; the proofs say
why. `main` is one thread, and what may be true beside it depends on how far it is. The
invariant (`IInv`) gives each piece of state the stretch of `main` in which it is held:
the handle its server (`HandleOK`), the writer and the listener theirs (`WriterOK`,
`ListenerOK`), and the signal thread is joined last (`WaiterOK`).

- `TypeCorrect`: the types, and that the handle's mutex is held exactly while the signal
  thread is inside `stop()`.
- `NeverDangles` (`NoDanglingServer`): a `stop()` that has found the server keeps the
  handle's mutex, and `detach`, which comes before the server's end, waits for it.
- `AllIsJoined` (`NothingLeftBehind`): the ways out of a startup that failed lead through the
  same joins as the way out of a stop.

### `WsServerProofs`

For any clients of any behaviour and any backlog (`WsServerAssumption`, which with this
proof came to say that no thread is called `None`: else a mutex could look free that is
held):

- `TypeCorrect` (`TypeOK`), `PumpsAreOwned` (`PumpIsOwned`) and `NothingIsLeaked`
  (`NothingLeaks`) by one invariant, `IInv`. It names the six situations a connection can be
  in, told apart by its subscription, its entry in the map and its pump: not subscribed,
  between the subscription and the map, registered, the connection's thread joining the
  pump, the pump joining itself, deregistered. What keeps two threads from running the
  close callback both is the state mutex, which is held throughout it (`MutexOK`). Of `main`
  it says what is settled by the time it sends a CLOSE frame (`CloseOK`), whence `main`
  never joins a pump in the callback; and `BackOK` that no send returns into the middle of a
  close. A step of one client's threads leaves what the invariants say of the
  others alone (`Untouched`, `UntouchedOK`, the `Others` lemmas), so that each step is
  gone through for its own client only.
- `StayingClientsAreSafe` (`ServerSurvivesStop`): the pump of a client that reads and stays
  never joins itself, whatever the other clients do. Its send can fail, for `stop` makes the
  connection's thread close the socket. What saves it is an order: `close()` sets
  `_requestInitCancellation` before it sets CLOSING, so that the flush after the failed send
  is over before it begins. Under `IInv` a second invariant (`Smooth`) has this: as long as the
  state is OPEN the socket is whole and nothing is unsent, and in CLOSING the flushing is cancelled
  until nobody needs it any more (`Settled`), when `ResetCancellation` takes it back.
- `StayingClientsAreNotStranded`, from the same invariant: nor does such a pump ever poll in
  the flush loop or wait for the state mutex, which is the other way for `stop` to hang.
- `SweepFindsNothing`: `close_all` ends with a sweep of the map for "anything that never
  delivered a Close" (`ws.cpp:199-201`). When it gets there every connection has been
  joined, and the map is empty on every path.

### `LiveFeedProofs`

For any dashboards and sessions, and any capacity of each of the queues
(`LiveFeedAssumption`). A frame passes four places on its way: the subscription upstream,
the wire, the session's queue in the hub, its pipe. Each step moves one frame from
one place to the next, so what is kept of each place is how it joins its neighbours.

- `TypeCorrect` (`TypeOK`), together with what keeps the places apart (`Inv`): the buffer
  upstream holds the newest blocks, a session without a handler or a dashboard is empty, a
  handler whose dashboard has left finds its socket closed, and no two dashboards share a
  session.
- `NeverGoesBack` (`NeverRewinds`), an action property: the blocks in each place ascend, and
  those in a place are before those in the next one upstream (`OrderInv`). That is why
  a reconnect is harmless: the new connection starts behind everything under way. Most
  steps add nothing to any place (`AddsNothing`) and need no more than that.
- `GapsExplained` (`GapsAreExplained`): read a notice as so many blocks known of, and a block
  as the next one. Then from the last block a dashboard has, the frames in its pipe, its
  queue and the wire lead exactly to the last block that storage-core has sent or told of
  (`Accounts`, `GapInv`). A claim about a session lapses when the hub drops a frame of it or
  the feed reconnects, and these are the two cases the property excepts.
- `FeedIsSubscription` (`UsesSubscriptions`), an action property and an invariant in one: as
  long as a connection lasts, each step is one of `Subscriptions` or leaves it alone, and
  without a connection there is nothing of it. What is on the wire must be known for this:
  nothing, a block, or the one notice that belongs to it and the block (`WireOK`).

### `LedgerActivityProofs`

For any requests, devices, sensors, events and bounds (`ActivityAssumption`), and a `None`
that is neither a block nor a camera's record (`NoneIsNothing`):

- `CursorStaysInside` (`NeverPastTheEnd`). That the cursor covers what is before it is not
  inductive: what keeps it so is that every request under way, whose answer will move
  the cursor to wherever that answer ended, asked from a place that was covered
  (`RequestFits`), and that its blocks are the ledger's from there on (`AnswerFits`).
  Both stay true however often others move the cursor, as the ledger only grows and
  `last_seen` only moves forward (`Grows`).
- `NothingIsSkipped` (`NothingSkipped`) and `HistoryRight` (`HistoryIsRight`). For the charts
  and the cameras the cursor is not enough: a slow answer moves it back while the charts
  stay ahead of it. The invariant (`EntriesInv`) therefore has a frontier of its own: for
  some `n` the cache is what reading the first `n` blocks makes it (`ReadUpTo`), and
  neither the cursor nor the beginning of an answer under way is past `n`. Consuming an
  answer goes round the loop of `_consume` block by block (`PieceRead`): a block
  already read, or the next, leaves the cache up to the same place or one further
  (`NextBlockRead`), since a reading either ends its chart, pushing out none but older ones
  (`ChartGrows`), or is passed over for one with a later timestamp (`OneReading`).
- `TypeCorrect` (`TypeOK`), across replaced ledgers too, where only what every loop keeps
  is known (`CacheOK`).
- `SeenNeverMovesBack`, an action property, across replaced ledgers too.
- `SliceIsRange`, about `BlockRange`: `GET /blocks` answers 200 exactly if both parameters
  can be read and the chain has a block between them, and then with each such block, once
  and in order.
- `GreatestExists`, which they rest on: a finite set of numbers has a greatest element.
  It follows from the well-foundedness of inclusion on finite sets, and stands in for
  an induction (`UpToTheLast`), also where it is to be shown that the recursive function
  of the loop exists (`LoopExists`).

### Only model-checked

Liveness (`EveryPostAnswered`, on which the liveness of `ImplementsDurableLog` rests,
`ShutdownProceeds`, `StopTakesEffect`, `WriterNeverBlocks`, `CatchesUp`,
`DisconnectDeregisters`, `StopReturns`, `CursorComesBack`, `NewestGetsThrough` and
`AllComeBack`, and the fairness part of `ImplementsBoundedQueue`): the prover has no rules
for fairness and `ENABLED`.

## Where the code and its documents disagree

1. **A signal during startup can be lost** (`MCShutdown_lost`, `server.cpp:263`).
   `include/server.hpp:59-62` promises that `stop()` may be called at any point and
   says that otherwise "a signal racing startup would be dropped and the process
   would run on forever". Between `attach()` and httplib's setting `is_running_`
   that is what happens: httplib's `stop` does nothing, nobody asks again, and `main` stays
   in `accept`.
2. **A crash can tear the ledger file** (`MCLedger_torn`, `storage.cpp:27`).
   IOT-54 has it that "the ledger file is never left torn", ADR 0002 that the chain
   "survives restarts". A process that dies within or between the two pieces of a
   line leaves a file that the next one refuses, or on whose last line the next one
   appends.
3. **A client that vanishes can end the server** (`MCWsServer_vanish`, `ws.cpp:123`).
   When the pump's own send finds the client gone, IXWebSocket runs the close
   callback on the pump, and `on_close` joins the pump.

4. **Reading the last block again is not harmless** (`MCLedgerActivity_reread`,
   `activity.py:199`). `activity.py:79-80` says it is, since `_consume` keeps the
   greatest timestamp. A reading with its sensor's latest timestamp is appended to the
   history again, so every request that finds nothing new in the ledger adds a copy of
   the last reading, and enough of them push the older readings out.

5. **A dashboard can miss blocks without being told** (`MCLiveFeed_silent`, `hub.py:37`).
   `main.py:53-54` passes lag notices through since "a dashboard that silently missed
   blocks would show a stale chart that looks live". The hub's own queue drops blocks,
   and lag notices among them, into a count that nobody reads; and what is published
   while `BlockFeed` reconnects is in no subscription and in no count.

Others show up in the models without a text that promises otherwise, or outside them, so
that no run is kept for them:

- A client that closes its connection in order can end the server as well, and so can a slow
  one. When the client's CLOSE frame is answered while a block is being sent to it, the
  socket is closed under the pump. Its send fails, in CLOSING without consequence; but
  `sendData` then flushes, finds the socket closed and sets CLOSED itself
  (`IXWebSocketTransport.cpp:936-941`, `1271-1275`), and `on_close` joins the pump on the pump. With
  `All({"leave"})` for the worlds of `MCWsServer_vanish` TLC shows it.
- In the same place, when the connection's thread is the first to set CLOSED: it joins the pump
  inside `setReadyState`, holding the mutex that the pump's flush waits for. Neither thread ends,
  and `stop` does not return. Nor does it for a connection that is in its handshake while `stop`
  closes the others. `StopReturns` and `DisconnectDeregisters` leave out slow, vanishing and
  late clients and except the pump that is stranded (`Stranded`), and are violated if they
  do not. With `stop` the whole process stays: the queue is not closed and the writer not
  joined, which is why `ShutdownProceeds` and `StopTakesEffect` stop at `ws.stop()` and go
  on from its return.
- With `"alloc"` in `Faults`, `ChainSound` is violated: a block that is on disk and not in
  memory gets a second successor-to-be with the same index, and the file no longer
  verifies when it is loaded again. An append that is answered with 500 may be found in
  the chain after a restart, which `DurableLog` allows.
- `App.tsx:71-78` tells fetched and streamed readings apart by the text of their timestamp.
  storage-core writes `Z` (`block.hpp:68-75`), which the stream passes on; `/readings`
  returns the parsed time (`main.py:339-350`), which FastAPI writes with `+00:00`. Where it
  does, a reading that came both ways is shown twice. FastAPI is not in the repository.
- `blockStream.ts:38-40` says that the chart cannot hold more readings than `/readings`
  would return; `App.tsx:75-78` adds the stream's 500 to those.

## Not modelled

- Power loss: nothing is fsynced, so that a flush is as much as the code does. A
  `Crash` is the death of the process; what reached the kernel stays.
- The C++ library's second attempt to write a buffer it could not write when the
  stream is closed. Files that cannot be opened or whose size cannot be read.
- Exceptions that leave `run()` while the writer thread is joinable
  (`main.cpp:74-108`), for which `NothingLeftBehind` does not speak.
- httplib's fixed pool of worker threads: `Ledger` gives every request its thread.
- TLS, compression, pings and framing in IXWebSocket, and its client side.
- The configuration, log formatting, the presentation code of the dashboard, tools
  and deployment, and the auditor, which is a stub.
- In `LedgerActivity`: the parsing of timestamps, the active window, and the lookups
  that only read the cache, with the order and trimming of `GET /readings`.
- In `LiveFeed`: `RegistryEnricher` and its cache, which add to a frame and drop none;
  `lastSeen` of the stream; the merge of fetched and streamed readings (`App.tsx`); time,
  and so back-off and jitter; frames that cannot be parsed. In development, React's
  StrictMode runs the hook's effect twice, and the close event of the first socket clears
  the connected flag of the second; the model has the single run of a production build.
- The REST API over the registry: queries without a state of their own. The dashboard's
  other hooks (`useDevices`, `useSensorPanel`, `useUrlQuery`), which abort a request before
  they start the next one.

## Plan

In this order; all but the last are done.

1. `WriteQueue`, `BoundedQueue` with the refinement and its proofs.
2. `Chain`, `Ledger`, `DurableLog`.
3. `Broadcast`. 4. `Shutdown`. 5. `WsServer`.
6. `LedgerActivity`: concurrent refreshes around one cursor.
7. `LiveFeed`: reconnects, lag notices, the browsers' queues.
8. `BlockRange`, and proofs about the read routes.
9. Proofs about `WsServer` for any number of clients and about `LiveFeed` for any
   dashboards and capacities.
10. Proofs of `TypeOK`, `NothingSkipped` and `HistoryIsRight` of `LedgerActivity`.
11. Proof that `Ledger` implements `DurableLog`, step by step.
12. Proofs of `Shutdown`; `Ledger` upon `BoundedQueue`; `Subscriptions` between `Broadcast`
    and `LiveFeed`.
13. httplib's worker pool against the queue; exceptions that leave `run()` while the writer
    thread is joinable; filters and sorting of `GET /devices`.
