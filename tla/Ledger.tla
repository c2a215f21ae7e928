------------------------------- MODULE Ledger -------------------------------
(***************************************************************************)
(* The write path of storage-core, from POST /events to the ledger file    *)
(* and back, through crashes and restarts: the request handlers            *)
(* (server.cpp), the write queue (as its specification BoundedQueue has    *)
(* it) and the writer thread (writer.cpp), the append-only NDJSON file     *)
(* (storage.cpp), the in-memory chain (chain.cpp), the live feed's view of *)
(* it, and the boot and shutdown sequence of main.cpp.                     *)
(*                                                                         *)
(* Every request is one POST by one client and carries one event, so the   *)
(* request stands for its event.  A client's knowledge of its answer       *)
(* (status, answer) is not the server's state and survives a crash.        *)
(***************************************************************************)
EXTENDS Integers, Sequences, SequencesExt, Chain

CONSTANTS
    Requests,    \* the POSTs that are ever made
    Timestamps,  \* the readings of now_rfc3339()
    Capacity,    \* of the write queue
    Faults,      \* which faults a behaviour may show, see FaultKinds
    NoRequest, NoBlock

FaultKinds == {"crash",  \* the process dies between any two steps
               "full",   \* a write to the file fails (disk full, I/O error)
               "alloc"}  \* std::bad_alloc once a block is on disk

ASSUME LedgerAssumption ==
    /\ Capacity \in Nat \ {0}
    /\ Timestamps # {}
    /\ Faults \subseteq FaultKinds
    /\ NoRequest \notin Requests
    /\ GenesisEvent \notin Requests

VARIABLES
    lines,    \* the ledger file: what is on each line, in order
    open,     \* its last line has no newline yet
    phase,    \* the process: down, or how far main() has come
    chain,    \* state.chain
    queue,    \* the write queue
    closed,   \* whether it is closed
    step,     \* where the thread that appends is: the writer, or main() in boot
    current,  \* the request the writer has popped
    created,  \* the block being appended
    badbit,   \* the append stream is in a failed state, which is sticky
    feed,     \* the blocks published to the live feed since boot
    status,   \* status[r]: how far the client of r is
    answer    \* answer[r]: the block in the 201 response to r

disk == <<lines, open>>
server == <<phase, chain, queue, closed, step, current, created, badbit, feed>>
clients == <<status, answer>>
vars == <<disk, server, clients>>

Phases == {"down",
           "booting",   \* a fresh boot is writing genesis
           "up",        \* serving
           "stopping",  \* httplib accepts no more, its handlers finish
           "closing"}   \* the queue is closed, main() joins the writer

Steps == {"off",      \* no thread appends
          "pop",      \* waiting on the queue
          "build",    \* request popped, block not computed
          "body",     \* block computed, its line not written
          "newline",  \* the JSON is written, the newline is not
          "push",     \* on disk, not in the chain
          "publish",  \* in the chain, not published
          "reply",    \* published, promise not fulfilled
          "done"}     \* the queue is closed and drained: the loop has ended

Pending == {"pushing",   \* in WriteQueue::push
            "waiting"}   \* in result.get()

Answered == {"created",  \* 201
             "rejected", \* 400: malformed event
             "failed",   \* 500: the writer threw
             "refused",  \* 500: server is shutting down
             "lost"}     \* the connection died with the server

Statuses == {"new"} \cup Pending \cup Answered

-----------------------------------------------------------------------------
(* The ledger file.  append_block writes a block's JSON, then a newline, and *)
(* flushes: nothing else ever writes, so a piece of text that is not        *)
(* followed by its newline has the next one written right behind it.        *)

\* A block's JSON of which only part reached the file: no block, whatever the part.
Torn == [torn |-> TRUE]

\* Everything that stands in the file, whichever line it is on.
Written == UNION {ToSet(lines[i]) : i \in DOMAIN lines}

\* mutant: the file is opened without std::ios::app, and each block truncates it
WriteTruncating(piece) == lines' = <<<<piece>>>> /\ open' = TRUE

\* What the file becomes when piece is written at its end.
WritePiece(piece) ==
    /\ lines' = IF open
                THEN [lines EXCEPT ![Len(lines)] = Append(@, piece)]
                ELSE Append(lines, <<piece>>)
    /\ open' = TRUE

WriteNothing == UNCHANGED disk

\* A line parses when it is the JSON of one block; the last needs no newline.
ParsesAsBlock(line) == Len(line) = 1 /\ line[1] # Torn

Loadable == \A i \in DOMAIN lines : ParsesAsBlock(lines[i])

LoadedButLast ==  \* mutant
    [i \in 1..(IF Len(lines) > 1 THEN Len(lines) - 1 ELSE 1) |-> lines[i][1]]

Loaded == [i \in 1..Len(lines) |-> lines[i][1]]

-----------------------------------------------------------------------------
\* The blocks that can exist; what their hashes are is ChainValid's business.
IsBlock(b) ==
    /\ DOMAIN b = {"index", "timestamp", "event", "prev_hash", "hash"}
    /\ b.index \in Nat
    /\ b.timestamp \in Timestamps
    /\ b.event \in Requests \cup {GenesisEvent}

IsBlockSeq(s) == s \in Seq({b \in ToSet(s) : IsBlock(b)})

TypeOK ==
    /\ lines \in Seq(Seq({x \in Written : x = Torn \/ IsBlock(x)}) \ {<<>>})
    /\ open \in BOOLEAN
    /\ phase \in Phases
    /\ IsBlockSeq(chain)
    /\ queue \in Seq(Requests)
    /\ Len(queue) <= Capacity
    /\ closed \in BOOLEAN
    /\ step \in Steps
    /\ current \in Requests \cup {NoRequest}
    /\ created # NoBlock => IsBlock(created)
    /\ badbit \in BOOLEAN
    /\ IsBlockSeq(feed)
    /\ status \in [Requests -> Statuses]
    /\ DOMAIN answer = Requests
    /\ \A r \in Requests : answer[r] # NoBlock => IsBlock(answer[r])

Init ==
    /\ lines = <<>> /\ open = FALSE
    /\ phase = "down" /\ step = "off"
    /\ chain = <<>> /\ queue = <<>> /\ closed = FALSE /\ feed = <<>>
    /\ current = NoRequest /\ created = NoBlock /\ badbit = FALSE
    /\ status = [r \in Requests |-> "new"]
    /\ answer = [r \in Requests |-> NoBlock]

-----------------------------------------------------------------------------
(* Boot: load_chain, open_append and, on a fresh file, the genesis block.   *)

BootFresh ==
    /\ phase = "down"
    /\ lines = <<>>
    /\ \E ts \in Timestamps :
          /\ chain' = <<genesis(ts)>>
          /\ created' = genesis(ts)
    /\ phase' = "booting"
    /\ step' = "body"
    /\ UNCHANGED <<disk, queue, closed, current, badbit, feed, clients>>

BootReload ==
    /\ phase = "down"
    /\ lines # <<>>
    /\ Loadable
    /\ chain' = Loaded
    /\ phase' = "up"
    /\ step' = "pop"
    /\ UNCHANGED <<disk, queue, closed, current, created, badbit, feed, clients>>

\* A malformed line: load_chain throws, the process exits before it serves.
BootFails ==
    /\ phase = "down"
    /\ ~Loadable
    /\ UNCHANGED vars

-----------------------------------------------------------------------------
(* The handlers of POST /events. *)

\* A worker may still find a request right after the stop, before listen() returns.
Post(r) ==
    /\ phase \in {"up", "stopping"}
    /\ status[r] = "new"
    /\ \E s \in {"pushing", "rejected"} : status' = [status EXCEPT ![r] = s]
    /\ UNCHANGED <<disk, server, answer>>

RoomOffByOne == Len(queue) <= Capacity  \* mutant

Room == Len(queue) < Capacity

\* WriteQueue::push, from its wait to its answer.
Push(r) ==
    /\ status[r] = "pushing"
    /\ closed \/ Room
    /\ queue' = IF closed THEN queue ELSE Append(queue, r)
    /\ status' = [status EXCEPT ![r] = IF closed THEN "refused" ELSE "waiting"]
    /\ UNCHANGED <<disk, phase, chain, closed, step, current, created, badbit,
                   feed, answer>>

-----------------------------------------------------------------------------
(* writer_loop *)

Pop ==
    /\ step = "pop"
    /\ queue # <<>>
    /\ current' = Head(queue)
    /\ queue' = Tail(queue)
    /\ step' = "build"
    /\ UNCHANGED <<disk, phase, chain, closed, created, badbit, feed, clients>>

EndUnnoticed == queue # <<>> /\ closed  \* mutant

EndOfQueue == queue = <<>> /\ closed

PopEnd ==
    /\ step = "pop"
    /\ EndOfQueue
    /\ step' = "done"
    /\ UNCHANGED <<disk, phase, chain, queue, closed, current, created, badbit,
                   feed, clients>>

IndexOfLatest == latest(chain).index  \* mutant

\* The index is the chain's size, not its last block's index plus one.
NextIndex == Len(chain)

BuildNext ==
    /\ step = "build"
    /\ \E ts \in Timestamps :
          created' = make_block(NextIndex, ts, current, latest(chain).hash)
    /\ step' = "body"
    /\ UNCHANGED <<disk, phase, chain, queue, closed, current, badbit, feed, clients>>

\* append_block, first half.
WriteBody ==
    /\ step = "body"
    /\ ~badbit
    /\ WritePiece(created)
    /\ step' = "newline"
    /\ UNCHANGED <<phase, chain, queue, closed, current, created, badbit, feed, clients>>

PublishUnpushed == "publish"  \* mutant

\* A block that is on disk goes into the chain next, and to the feed after that.
OncePersisted == "push"

\* append_block, second half: in boot, main() goes on to serve.
WriteNewline ==
    /\ step = "newline"
    /\ open' = FALSE
    /\ IF phase = "booting"
       THEN phase' = "up" /\ step' = "pop" /\ created' = NoBlock
       ELSE step' = OncePersisted /\ UNCHANGED <<phase, created>>
    /\ UNCHANGED <<lines, chain, queue, closed, current, badbit, feed, clients>>

PushPersisted ==
    /\ step = "push"
    /\ chain' = push_persisted(chain, created)
    /\ step' = "publish"
    /\ UNCHANGED <<disk, phase, queue, closed, current, created, badbit, feed, clients>>

Publish ==
    /\ step = "publish"
    /\ feed' = Append(feed, created)
    /\ step' = "reply"
    /\ UNCHANGED <<disk, phase, chain, queue, closed, current, created, badbit, clients>>

NextRequest ==
    /\ step' = "pop"
    /\ current' = NoRequest
    /\ created' = NoBlock

Reply ==
    /\ step = "reply"
    /\ status' = [status EXCEPT ![current] = "created"]
    /\ answer' = [answer EXCEPT ![current] = created]
    /\ NextRequest
    /\ UNCHANGED <<disk, phase, chain, queue, closed, badbit, feed>>

-----------------------------------------------------------------------------
(* Exceptions inside the loop: the handler gets a 500, the loop goes on.    *)

ThrowUnanswered == NextRequest /\ UNCHANGED status  \* mutant

Throw ==
    /\ status' = [status EXCEPT ![current] = "failed"]
    /\ NextRequest

\* What the process leaves behind when it is gone: the file.
Gone ==
    /\ phase' = "down" /\ step' = "off"
    /\ chain' = <<>> /\ queue' = <<>> /\ closed' = FALSE /\ feed' = <<>>
    /\ current' = NoRequest /\ created' = NoBlock /\ badbit' = FALSE

AppendErrorIgnored ==  \* mutant
    IF phase = "booting"
    THEN Gone /\ UNCHANGED clients
    ELSE step' = "push" /\ UNCHANGED <<phase, chain, queue, closed, feed, current, created, clients>>

\* append_block throws.  In boot that ends the process: main() catches it last.
AppendFails ==
    IF phase = "booting"
    THEN Gone /\ UNCHANGED clients
    ELSE Throw /\ UNCHANGED <<phase, chain, queue, closed, feed, answer>>

\* A write fails before, within or after the JSON.  The stream keeps its failed
\* state, since nothing ever clears it.
WriteFails ==
    /\ "full" \in Faults
    /\ \/ step = "body" /\ ~badbit /\ (WriteNothing \/ WritePiece(Torn))
       \/ step = "newline" /\ WriteNothing
    /\ AppendFails
    /\ phase # "booting" => badbit' = TRUE

\* The stream failed earlier: nothing reaches the file, append_block throws.
WriteOnBadStream ==
    /\ step = "body"
    /\ badbit
    /\ Throw
    /\ UNCHANGED <<disk, phase, chain, queue, closed, badbit, feed, answer>>

\* push_persisted throws before or after it has stored the block; nothing is undone.
AfterThrow == IF step = "push" THEN {chain, push_persisted(chain, created)} ELSE {chain}

\* The vector cannot grow, or the copy for the reply or for the subscribers
\* cannot be made: push_persisted or publish throws, the block stays on disk.
OutOfMemory ==
    /\ "alloc" \in Faults
    /\ step \in {"push", "publish"}
    /\ chain' \in AfterThrow
    /\ Throw
    /\ UNCHANGED <<disk, phase, queue, closed, badbit, feed, answer>>

-----------------------------------------------------------------------------
(* Shutdown, in the order of main(): serve() returns, ws.stop() returns,   *)
(* close, join, exit.                                                      *)

Stop ==
    /\ phase = "up"
    /\ phase' = "stopping"
    /\ UNCHANGED <<disk, chain, queue, closed, step, current, created, badbit,
                   feed, clients>>

HandlersNotAwaited == TRUE  \* mutant

\* httplib's listen() returns once every handler has finished.
HandlersDone == \A r \in Requests : status[r] \notin Pending

\* ws.stop(), which comes first, blocks for as long as it likes (see WsServer): it has
\* returned when this step is taken, and nothing says that it ever is.
CloseQueue ==
    /\ phase = "stopping"
    /\ HandlersDone
    /\ closed' = TRUE
    /\ phase' = "closing"
    /\ UNCHANGED <<disk, chain, queue, step, current, created, badbit, feed, clients>>

Exit ==
    /\ phase = "closing"
    /\ step = "done"
    /\ Gone
    /\ UNCHANGED <<disk, clients>>

\* The process dies.  A write it was in the middle of may be cut short.
Crash ==
    /\ "crash" \in Faults
    /\ phase # "down"
    /\ WriteNothing \/ (step = "body" /\ ~badbit /\ WritePiece(Torn))
    /\ Gone
    /\ status' = [r \in Requests |-> IF status[r] \in Pending THEN "lost" ELSE status[r]]
    /\ UNCHANGED answer

-----------------------------------------------------------------------------
Boot == BootFresh \/ BootReload \/ BootFails

WriterStep ==
    \/ Pop \/ PopEnd \/ BuildNext
    \/ WriteBody \/ WriteNewline \/ WriteFails \/ WriteOnBadStream
    \/ PushPersisted \/ Publish \/ Reply \/ OutOfMemory

Shutdown == CloseQueue \/ Exit

Next ==
    \/ Boot
    \/ \E r \in Requests : Post(r) \/ Push(r)
    \/ WriterStep
    \/ Stop
    \/ Shutdown
    \/ Crash

(***************************************************************************)
(* The writer thread, a handler inside push and main() joining the writer  *)
(* are runnable threads and get to run.  Nobody is obliged to post, to     *)
(* stop the process or to start it again, no fault has to happen, and      *)
(* ws.stop(), which main() waits for before CloseQueue, need not return.   *)
(***************************************************************************)
Fairness ==
    /\ WF_vars(WriterStep)
    /\ \A r \in Requests : WF_vars(Push(r))
    /\ WF_vars(Exit)

SafeSpec == Init /\ [][Next]_vars
Spec == SafeSpec /\ Fairness
-----------------------------------------------------------------------------
(* Properties.  Those marked (all faults) hold whatever FaultKinds allows;   *)
(* the others need that no allocation fails between file and chain.         *)

Running == phase # "down"

\* GET /verify finds nothing wrong with a ledger nobody altered, and a block's
\* index is its position, which is what GET /blocks slices by: at every moment of
\* every run, whatever failed or crashed before.
ChainSound ==
    /\ verify_chain(chain).valid
    /\ \A i \in DOMAIN chain : chain[i].index = i - 1

\* (all faults) A reader is never shown a block that is not in the file: the
\* writer persists before it publishes (only a fresh boot's genesis is in memory
\* first, and nobody is served then).
NothingServedUnpersisted ==
    phase \in {"up", "stopping", "closing"} => ToSet(chain) \subseteq Written

\* (all faults) A 201 is for ever: the block it carried is in the file, whole, and
\* in the chain of every process that comes up, however many crashes later.
AcknowledgedIsDurable ==
    \A r \in Requests : status[r] = "created" =>
        /\ answer[r].event = r
        /\ answer[r] \in Written
        /\ Running => answer[r] \in ToSet(chain)

\* (all faults) No two clients are told the same place in the ledger, and none is
\* given the place of genesis.
AcknowledgedIndicesDistinct ==
    \A r, q \in Requests :
        status[r] = "created" /\ status[q] = "created" /\ r # q =>
            /\ answer[r].index # answer[q].index
            /\ answer[r].index > 0

\* The live feed is a window of the chain that grows at its end: no block is
\* announced before GET /blocks has it, out of order, twice or not at all.
FeedFollowsChain ==
    Running => \E k \in 0..Len(chain) :
        /\ k + Len(feed) = IF step = "publish" THEN Len(chain) - 1 ELSE Len(chain)
        /\ feed = SubSeq(chain, k + 1, k + Len(feed))

\* Shutdown serves what it accepted: no client is turned away because the queue
\* was closed under it, and none is left waiting when the process is gone.
ShutdownServesAccepted ==
    \A r \in Requests :
        /\ status[r] # "refused"
        /\ ~Running => status[r] \notin Pending

\* (all faults) While a process lives its chain only grows at the end.
ChainAppendOnly == [][Running /\ Running' => IsPrefix(chain, chain')]_vars

\* (all faults) Every handler that got past validation answers its client, or
\* loses the connection with the process: the writer never strands a promise.
EveryPostAnswered ==
    \A r \in Requests : status[r] = "pushing" ~> status[r] \in Answered

\* (all faults) On the write path nothing holds a shutdown up: the handlers end, for
\* which listen() waits, and after queue.close() the writer drains what is left and ends,
\* for which main() waits.  Of ws.stop(), which comes in between, this says nothing.
ShutdownProceeds ==
    /\ phase = "stopping" ~> (HandlersDone \/ ~Running)
    /\ phase = "closing" ~> ~Running

\* ADR 0002 persists the chain "so it survives restarts", and IOT-54 has it that
\* "the ledger file is never left torn": once a client has been told 201, a process
\* that is started again loads the file its predecessor left.
AcknowledgedSurvivesRestart ==
    (~Running /\ \E r \in Requests : status[r] = "created") => Loadable

(* The write queue, as it is specified for itself.                          *)

Queue == INSTANCE BoundedQueue WITH
    Producers <- Requests,
    Consumers <- {"writer"},
    Items <- Requests,
    NoItem <- NoRequest,
    offer <- [r \in Requests |-> IF status[r] = "pushing" THEN r ELSE NoRequest],
    asking <- IF step = "pop" THEN {"writer"} ELSE {},
    got <- [c \in {"writer"} |-> current]

\* (all faults) Every process uses its queue as BoundedQueue, which WriteQueue
\* implements, has it: it starts with a new one, and whatever throws, stops or fails,
\* a handler has one push under way and the writer one request in hand, it asks for
\* the next only when it has let go of that, it ends only when it was told the end, and
\* no item gets in, gets out or goes missing in any other way.
UsesBoundedQueue ==
    /\ [](~Running => Queue!Init)
    /\ [][Running' => Queue!Next \/ UNCHANGED Queue!qvars]_vars

(* What clients may rely on, as a specification of its own.                 *)

\* A line's pieces in order, with the torn ones left out.
Whole(line) == FlattenSeq([i \in DOMAIN line |-> IF line[i] = Torn THEN <<>> ELSE <<line[i]>>])

\* Every block of the file in order.
Entries == FlattenSeq([i \in DOMAIN lines |-> Whole(lines[i])])

Log == INSTANCE DurableLog WITH
    GenesisEntry <- GenesisEvent,
    log <- [i \in 1..Len(Entries) |-> Entries[i].event],
    outcome <- [r \in Requests |->
                   IF status[r] \in Pending THEN "pending"
                   ELSE IF status[r] \in {"new", "created"} THEN status[r]
                   ELSE "unknown"]

\* (all faults) The ledger implements DurableLog.
ImplementsDurableLog == Log!Spec
=============================================================================
