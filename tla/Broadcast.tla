------------------------------ MODULE Broadcast ------------------------------
(***************************************************************************)
(* The live feed inside storage-core (src/broadcast.cpp): the Broadcaster, *)
(* which the writer thread calls for every appended block, one bounded     *)
(* drop-oldest Subscription per client, and the pump thread that drains it *)
(* (pump_loop in src/ws.cpp).                                              *)
(*                                                                         *)
(* Blocks are numbered in the order they are published.  The Broadcaster's *)
(* mutex is held across a whole publish or close_all (task.op is not       *)
(* "idle"); a Subscription's mutex protects single steps.  notify_one and  *)
(* notify_all follow their critical section as a step of their own.        *)
(***************************************************************************)
EXTENDS Naturals, Sequences

CONSTANTS
    Subscribers,  \* the clients that ever connect, each once
    Stalled,      \* those whose pump may stall for ever, wherever it is
    Capacity,     \* of a Subscription's buffer
    MaxBlocks,    \* bound on the blocks published, for TLC
    None

ASSUME BroadcastAssumption ==
    /\ Stalled \subseteq Subscribers
    /\ Capacity \in Nat \ {0}
    /\ MaxBlocks \in Nat
    /\ None \notin Subscribers

VARIABLES
    published,    \* how many blocks have been published
    subscribers_, \* the Broadcaster's weak pointers; each client has one at most
    task,         \* what the holder of the Broadcaster's mutex is doing
    ended,        \* close_all has been called
    buffer_, lagged_, closed_,  \* each Subscription's fields
    alive,        \* the Subscription has an owner: its weak pointers can be locked
    closing,      \* Subscriptions closed by their connection, notify_all to come
    pc,           \* each client's pump thread
    item,         \* item[s]: what s's last next() returned
    last          \* last[s]: the last block s knows the fate of

vars == <<published, subscribers_, task, ended, buffer_, lagged_, closed_, alive,
          closing, pc, item, last>>

PC == {"new",      \* not subscribed
       "idle",     \* between two calls of next()
       "lock",     \* in next(), about to evaluate its predicate
       "waiting",  \* in next(), in the wait set
       "done"}     \* pump_loop has returned

Task == [op : {"idle", "publish", "close"}, rest : SUBSET Subscribers,
         wake : Subscribers \cup {None}]

TypeOK ==
    /\ published \in 0..MaxBlocks
    /\ subscribers_ \subseteq Subscribers
    /\ task \in Task
    /\ ended \in BOOLEAN
    /\ buffer_ \in [Subscribers -> Seq(Nat)]
    /\ \A s \in Subscribers : Len(buffer_[s]) <= Capacity
    /\ lagged_ \in [Subscribers -> Nat]
    /\ closed_ \in [Subscribers -> BOOLEAN]
    /\ alive \in [Subscribers -> BOOLEAN]
    /\ closing \subseteq Subscribers
    /\ pc \in [Subscribers -> PC]
    /\ item \in [Subscribers -> [block : Nat, lagged : Nat]]
    /\ last \in [Subscribers -> Nat]

Idle == [op |-> "idle", rest |-> {}, wake |-> None]

NoItem == [block |-> 0, lagged |-> 0]

Init ==
    /\ published = 0
    /\ subscribers_ = {}
    /\ task = Idle
    /\ ended = FALSE
    /\ buffer_ = [s \in Subscribers |-> <<>>]
    /\ lagged_ = [s \in Subscribers |-> 0]
    /\ closed_ = [s \in Subscribers |-> FALSE]
    /\ alive = [s \in Subscribers |-> FALSE]
    /\ closing = {}
    /\ pc = [s \in Subscribers |-> "new"]
    /\ item = [s \in Subscribers |-> NoItem]
    /\ last = [s \in Subscribers |-> 0]

subscription == <<buffer_, lagged_, closed_>>
client == <<pc, item, last>>

-----------------------------------------------------------------------------
(* Broadcaster *)

\* main() stops the WebSocket server before close_all, so nobody subscribes
\* afterwards.  A new subscriber is owed the blocks published from now on.
Subscribe(s) ==
    /\ pc[s] = "new"
    /\ task.op = "idle"
    /\ ~ended
    /\ subscribers_' = {x \in subscribers_ : alive[x]} \cup {s}
    /\ alive' = [alive EXCEPT ![s] = TRUE]
    /\ pc' = [pc EXCEPT ![s] = "idle"]
    /\ last' = [last EXCEPT ![s] = published]
    /\ UNCHANGED <<published, task, ended, subscription, closing, item>>

Publish ==
    /\ task.op = "idle"
    /\ ~ended
    /\ published < MaxBlocks
    /\ published' = published + 1
    /\ task' = [op |-> "publish", rest |-> subscribers_, wake |-> None]
    /\ UNCHANGED <<subscribers_, ended, subscription, alive, closing, client>>

CloseAll ==
    /\ task.op = "idle"
    /\ ~ended
    /\ ended' = TRUE
    /\ task' = [op |-> "close", rest |-> subscribers_, wake |-> None]
    /\ UNCHANGED <<published, subscribers_, subscription, alive, closing, client>>

\* The loop is at s.  It goes through the list in order; any order will do here.
At(op, s) == task.op = op /\ task.wake = None /\ s \in task.rest

Advance(s, w) == task' = [task EXCEPT !.rest = @ \ {s}, !.wake = w]

\* The client dropped its handle: publish() erases the entry.
SkipExpired(s) ==
    /\ At("publish", s) \/ At("close", s)
    /\ ~alive[s]
    /\ subscribers_' = IF task.op = "publish" THEN subscribers_ \ {s} ELSE subscribers_
    /\ Advance(s, None)
    /\ UNCHANGED <<published, ended, subscription, alive, closing, client>>

PushToClosed(s) ==
    /\ At("publish", s)
    /\ alive[s] /\ closed_[s]
    /\ Advance(s, None)
    /\ UNCHANGED <<published, subscribers_, ended, subscription, alive, closing, client>>

FullOffByOne(s) == Len(buffer_[s]) > Capacity  \* mutant

Full(s) == Len(buffer_[s]) >= Capacity

DropOldest(s) == IF Full(s) THEN Tail(buffer_[s]) ELSE buffer_[s]

LagNotCounted(s) == lagged_[s]  \* mutant

Lag(s) == IF Full(s) THEN lagged_[s] + 1 ELSE lagged_[s]

MayPushIfRoom(s) == alive[s] /\ ~closed_[s] /\ ~Full(s)  \* mutant

MayPushIfAlive(s) == alive[s]  \* mutant

MayPush(s) == alive[s] /\ ~closed_[s]

Push(s) ==
    /\ At("publish", s)
    /\ MayPush(s)
    /\ buffer_' = [buffer_ EXCEPT ![s] = Append(DropOldest(s), published)]
    /\ lagged_' = [lagged_ EXCEPT ![s] = Lag(s)]
    /\ Advance(s, s)
    /\ UNCHANGED <<published, subscribers_, ended, closed_, alive, closing, client>>

CloseWithoutNotify(s) ==  \* mutant
    /\ At("close", s)
    /\ alive[s]
    /\ closed_' = [closed_ EXCEPT ![s] = TRUE]
    /\ Advance(s, None)
    /\ UNCHANGED <<published, subscribers_, ended, buffer_, lagged_, alive, closing, client>>

CloseNext(s) ==
    /\ At("close", s)
    /\ alive[s]
    /\ closed_' = [closed_ EXCEPT ![s] = TRUE]
    /\ Advance(s, s)
    /\ UNCHANGED <<published, subscribers_, ended, buffer_, lagged_, alive, closing, client>>

WakeNobody(s) == pc' = pc  \* mutant

\* One pump waits on a Subscription at most, so notify_one wakes all there is.
Wake(s) == pc' = [pc EXCEPT ![s] = IF @ = "waiting" THEN "lock" ELSE @]

Notify(s) ==
    /\ task.wake = s
    /\ Wake(s)
    /\ task' = [task EXCEPT !.wake = None]
    /\ UNCHANGED <<published, subscribers_, ended, subscription, alive, closing,
                   item, last>>

Finish ==
    /\ task.op # "idle" /\ task.rest = {} /\ task.wake = None
    /\ subscribers_' = IF task.op = "close" THEN {} ELSE subscribers_
    /\ task' = Idle
    /\ UNCHANGED <<published, ended, subscription, alive, closing, client>>

-----------------------------------------------------------------------------
(* Subscription::close, called for one connection by WsServer::on_close; a   *)
(* Subscription that is closed already changes no more.                     *)

Close(s) ==
    /\ alive[s] /\ ~closed_[s]
    /\ closed_' = [closed_ EXCEPT ![s] = TRUE]
    /\ closing' = closing \cup {s}
    /\ UNCHANGED <<published, subscribers_, task, ended, buffer_, lagged_, alive, client>>

CloseNotify(s) ==
    /\ s \in closing
    /\ Wake(s)
    /\ closing' = closing \ {s}
    /\ UNCHANGED <<published, subscribers_, task, ended, subscription, alive, item, last>>

-----------------------------------------------------------------------------
(* Subscription::next and the pump around it. *)

CallNext(s) ==
    /\ pc[s] = "idle"
    /\ pc' = [pc EXCEPT ![s] = "lock"]
    /\ UNCHANGED <<published, subscribers_, task, ended, subscription, alive, closing,
                   item, last>>

NextWait(s) ==
    /\ pc[s] = "lock"
    /\ ~closed_[s] /\ buffer_[s] = <<>>
    /\ pc' = [pc EXCEPT ![s] = "waiting"]
    /\ UNCHANGED <<published, subscribers_, task, ended, subscription, alive, closing,
                   item, last>>

NextItem(s) ==
    /\ pc[s] = "lock"
    /\ buffer_[s] # <<>>
    /\ item' = [item EXCEPT ![s] = [block |-> Head(buffer_[s]), lagged |-> lagged_[s]]]
    /\ last' = [last EXCEPT ![s] = Head(buffer_[s])]
    /\ buffer_' = [buffer_ EXCEPT ![s] = Tail(@)]
    /\ lagged_' = [lagged_ EXCEPT ![s] = 0]
    /\ pc' = [pc EXCEPT ![s] = "idle"]
    /\ UNCHANGED <<published, subscribers_, task, ended, closed_, alive, closing>>

NextEnd(s) ==
    /\ pc[s] = "lock"
    /\ closed_[s] /\ buffer_[s] = <<>>
    /\ pc' = [pc EXCEPT ![s] = "done"]
    /\ UNCHANGED <<published, subscribers_, task, ended, subscription, alive, closing,
                   item, last>>

SpuriousWake(s) ==
    /\ pc[s] = "waiting"
    /\ Wake(s)
    /\ UNCHANGED <<published, subscribers_, task, ended, subscription, alive, closing,
                   item, last>>

\* The socket is gone when there is something to send: pump_loop breaks off, whatever
\* is still buffered.
Leave(s) ==
    /\ pc[s] = "idle"
    /\ item[s] # NoItem
    /\ pc' = [pc EXCEPT ![s] = "done"]
    /\ UNCHANGED <<published, subscribers_, task, ended, subscription, alive, closing,
                   item, last>>

\* on_close has closed the Subscription and joined the pump: the last owner goes.
Drop(s) ==
    /\ pc[s] = "done"
    /\ alive[s] /\ closed_[s] /\ s \notin closing
    /\ alive' = [alive EXCEPT ![s] = FALSE]
    /\ UNCHANGED <<published, subscribers_, task, ended, subscription, closing, client>>

-----------------------------------------------------------------------------
TaskStep ==
    \/ Finish
    \/ \E s \in Subscribers :
          SkipExpired(s) \/ PushToClosed(s) \/ Push(s) \/ CloseNext(s) \/ Notify(s)

PumpStep(s) == CallNext(s) \/ NextWait(s) \/ NextItem(s) \/ NextEnd(s)

ConnectionStep(s) == Subscribe(s) \/ Close(s) \/ Leave(s) \/ Drop(s)

Next ==
    \/ Publish
    \/ CloseAll
    \/ TaskStep
    \/ \E s \in Subscribers :
          ConnectionStep(s) \/ CloseNotify(s) \/ PumpStep(s) \/ SpuriousWake(s)

SafeSpec == Init /\ [][Next]_vars

(***************************************************************************)
(* The writer (or main, in close_all) inside the loop, a pump that is not  *)
(* waiting and a connection thread about to notify are runnable threads.   *)
(* A client that stops reading stalls its pump, which sends to it.         *)
(***************************************************************************)
Fairness ==
    /\ WF_vars(TaskStep)
    /\ \A s \in Subscribers : WF_vars(CloseNotify(s))
    /\ \A s \in Subscribers \ Stalled : WF_vars(PumpStep(s))

Spec == SafeSpec /\ Fairness

-----------------------------------------------------------------------------
(* Properties *)

Subscribed(s) == pc[s] # "new"

\* s is still to be served by the publish under way.
Owed(s) == IF task.op = "publish" /\ s \in task.rest THEN 1 ELSE 0

\* The books balance: what a client has been told of, what is counted as dropped
\* and what is buffered are consecutive blocks that end at the newest one
\* published.  No block is lost without being counted, none is counted and also
\* delivered, and the count stands for the blocks right before the buffered ones.
LagExact ==
    \A s \in Subscribers : Subscribed(s) =>
        /\ \A i \in DOMAIN buffer_[s] : buffer_[s][i] = last[s] + lagged_[s] + i
        /\ alive[s] /\ ~closed_[s] =>
              last[s] + lagged_[s] + Len(buffer_[s]) + Owed(s) = published

\* What a client sees: each block it gets is the one after the last it knew of and
\* the gap it is told about in the same delivery.
GapAnnounced ==
    [][\A s \in Subscribers : item'[s] # item[s] =>
          item'[s].block = last[s] + item'[s].lagged + 1]_vars

\* A pump that sleeps while there is something for it is about to be woken.
NoLostWakeup ==
    \A s \in Subscribers :
        pc[s] = "waiting" /\ (buffer_[s] # <<>> \/ closed_[s]) =>
            task.wake = s \/ s \in closing

\* The writer never waits for a subscriber: publish (and close_all) returns even if
\* some client never reads again.
WriterNeverBlocks == task.op # "idle" ~> task.op = "idle"

\* A client that keeps reading is brought up to date, or told that it is over; and after
\* close_all every pump that is not stalled comes to its end, and can be joined.
CatchesUp ==
    \A s \in Subscribers \ Stalled :
        /\ Subscribed(s) ~> (last[s] = published \/ pc[s] = "done")
        /\ (ended /\ Subscribed(s)) ~> pc[s] = "done"

(* What a client may rely on, as a specification of its own.                 *)

\* The pump has an item it has not sent, or is about to ask for its first.
Doing(s) ==
    IF pc[s] = "new" THEN "none"
    ELSE IF pc[s] = "done" THEN "gone"
    ELSE IF pc[s] = "idle" /\ item[s] # NoItem THEN "holding"
    ELSE "asking"

Subs == INSTANCE Subscriptions WITH
    Clients <- Subscribers,
    Nothing <- NoItem,
    known <- last,
    buffer <- buffer_,
    lagged <- lagged_,
    open <- {s \in Subscribers : Subscribed(s) /\ ~closed_[s]},
    client <- [s \in Subscribers |-> Doing(s)],
    got <- [s \in Subscribers |-> IF Doing(s) = "holding" THEN item[s] ELSE NoItem]

\* The Broadcaster, its loop over weak pointers and the pumps implement Subscriptions:
\* whoever comes, goes or stalls meanwhile, no client's Subscription loses, reorders or
\* miscounts a block, none that is closed takes in another, and none ends before it is
\* drained.
ImplementsSubscriptions == Subs!SafeSpec
==============================================================================
