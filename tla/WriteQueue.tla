----------------------------- MODULE WriteQueue -----------------------------
(***************************************************************************)
(* ledger::WriteQueue (src/storage-core/src/writer.cpp), thread by thread. *)
(*                                                                         *)
(* push, pop and close each run one critical section under mtx_ and then   *)
(* notify a condition variable AFTER releasing it.  A critical section is  *)
(* one atomic step here (mtx_ lets no two overlap, and a wait releases it  *)
(* in the same step that joins the wait set); the notification that        *)
(* follows is a step of its own, so that everything other threads can do   *)
(* in between does happen.  A waiting thread leaves its wait set when it   *)
(* is notified or spuriously, and evaluates its predicate again.           *)
(***************************************************************************)
EXTENDS Integers, Sequences, FiniteSets

CONSTANTS Producers, Consumers, Items, Capacity, NoItem,
          Closer  \* the thread that calls close: main()

ASSUME WriteQueueAssumption ==
    /\ Capacity \in Nat \ {0}
    /\ NoItem \notin Items
    /\ IsFiniteSet(Producers) /\ IsFiniteSet(Consumers)
    /\ Producers \cap Consumers = {}
    /\ Closer \notin Producers \cup Consumers

VARIABLES
    queue_,     \* the requests accepted and not yet popped
    closed_,    \* set by close, never cleared
    not_full_,  \* the threads waiting on the condition variable not_full_
    not_empty_, \* the threads waiting on the condition variable not_empty_
    pc,         \* where each thread is inside its call
    request,    \* request[p]: the item p is pushing
    popped      \* popped[c]: what c's last pop returned and c still has, NoItem for
                \* nullopt and during the next call

vars == <<queue_, closed_, not_full_, not_empty_, pc, request, popped>>

Threads == Producers \cup Consumers \cup {Closer}

PC == {"idle",     \* outside the queue
       "lock",     \* wants the mutex, to evaluate the predicate
       "waiting",  \* in a wait set, the mutex released
       "notify",   \* left the critical section, has yet to notify
       "notify2"}  \* close only: not_empty_ is notified, not_full_ is not

TypeOK ==
    /\ queue_ \in Seq(Items)
    /\ Len(queue_) <= Capacity
    /\ closed_ \in BOOLEAN
    /\ not_full_ \subseteq Producers
    /\ not_empty_ \subseteq Consumers
    /\ pc \in [Threads -> PC]
    /\ request \in [Producers -> Items \cup {NoItem}]
    /\ popped \in [Consumers -> Items \cup {NoItem}]

Init ==
    /\ queue_ = <<>>
    /\ closed_ = FALSE
    /\ not_full_ = {}
    /\ not_empty_ = {}
    /\ pc = [t \in Threads |-> "idle"]
    /\ request = [p \in Producers |-> NoItem]
    /\ popped = [c \in Consumers |-> NoItem]

-----------------------------------------------------------------------------
(* The wait predicates, and the two kinds of notification.  A thread that   *)
(* is woken wants the mutex back; notify_one on an empty wait set is lost.  *)

HasRoomOffByOne == Len(queue_) <= Capacity  \* mutant

HasRoom == Len(queue_) < Capacity

MayPush == closed_ \/ HasRoom

MayPop == closed_ \/ queue_ # <<>>

GoTo(ts, label) == pc' = [t \in Threads |-> IF t \in ts THEN label ELSE pc[t]]

\* t moves to its next label and one thread w of the wait set, if any, wakes.
NotifyOne(t, label, waiters, w) ==
    /\ IF waiters = {} THEN w = t ELSE w \in waiters
    /\ pc' = [[pc EXCEPT ![w] = "lock"] EXCEPT ![t] = label]

\* t moves to its next label and every thread of the wait set wakes.
NotifyAll(t, label, waiters) ==
    pc' = [s \in Threads |-> IF s = t THEN label
                             ELSE IF s \in waiters THEN "lock" ELSE pc[s]]

-----------------------------------------------------------------------------
(* push *)

CallPush(p, i) ==
    /\ pc[p] = "idle"
    /\ GoTo({p}, "lock")
    /\ request' = [request EXCEPT ![p] = i]
    /\ UNCHANGED <<queue_, closed_, not_full_, not_empty_, popped>>

PushWait(p) ==
    /\ pc[p] = "lock"
    /\ ~MayPush
    /\ not_full_' = not_full_ \cup {p}
    /\ GoTo({p}, "waiting")
    /\ UNCHANGED <<queue_, closed_, not_empty_, request, popped>>

\* Refused: the request is still the caller's, which drops it.
PushRefused(p) ==
    /\ pc[p] = "lock"
    /\ closed_
    /\ GoTo({p}, "idle")
    /\ request' = [request EXCEPT ![p] = NoItem]
    /\ UNCHANGED <<queue_, closed_, not_full_, not_empty_, popped>>

PushAccepted(p) ==
    /\ pc[p] = "lock"
    /\ MayPush
    /\ ~closed_
    /\ queue_' = Append(queue_, request[p])
    /\ request' = [request EXCEPT ![p] = NoItem]
    /\ GoTo({p}, "notify")
    /\ UNCHANGED <<closed_, not_full_, not_empty_, popped>>

PushNotify(p) ==
    /\ pc[p] = "notify"
    /\ \E w \in Threads :
          /\ NotifyOne(p, "idle", not_empty_, w)
          /\ not_empty_' = not_empty_ \ {w}
    /\ UNCHANGED <<queue_, closed_, not_full_, request, popped>>

-----------------------------------------------------------------------------
(* pop *)

\* What the last call returned has gone out of scope.
CallPop(c) ==
    /\ pc[c] = "idle"
    /\ GoTo({c}, "lock")
    /\ popped' = [popped EXCEPT ![c] = NoItem]
    /\ UNCHANGED <<queue_, closed_, not_full_, not_empty_, request>>

PopWait(c) ==
    /\ pc[c] = "lock"
    /\ ~MayPop
    /\ not_empty_' = not_empty_ \cup {c}
    /\ GoTo({c}, "waiting")
    /\ UNCHANGED <<queue_, closed_, not_full_, request, popped>>

\* The queue is tested before closed_: what was accepted is drained first.
Drained == queue_ = <<>>

PopEnd(c) ==
    /\ pc[c] = "lock"
    /\ MayPop
    /\ Drained
    /\ popped' = [popped EXCEPT ![c] = NoItem]
    /\ GoTo({c}, "idle")
    /\ UNCHANGED <<queue_, closed_, not_full_, not_empty_, request>>

PopItem(c) ==
    /\ pc[c] = "lock"
    /\ MayPop
    /\ ~Drained
    /\ popped' = [popped EXCEPT ![c] = Head(queue_)]
    /\ queue_' = Tail(queue_)
    /\ GoTo({c}, "notify")
    /\ UNCHANGED <<closed_, not_full_, not_empty_, request>>

PopWithoutNotify(c) ==  \* mutant
    /\ pc[c] = "notify"
    /\ GoTo({c}, "idle")
    /\ UNCHANGED <<queue_, closed_, not_full_, not_empty_, request, popped>>

PopNotify(c) ==
    /\ pc[c] = "notify"
    /\ \E w \in Threads :
          /\ NotifyOne(c, "idle", not_full_, w)
          /\ not_full_' = not_full_ \ {w}
    /\ UNCHANGED <<queue_, closed_, not_empty_, request, popped>>

-----------------------------------------------------------------------------
(* close *)

Close(t) ==
    /\ pc[t] = "idle"
    /\ closed_' = TRUE
    /\ GoTo({t}, "notify")
    /\ UNCHANGED <<queue_, not_full_, not_empty_, request, popped>>

CloseNotifyEmpty(t) ==
    /\ pc[t] = "notify"
    /\ NotifyAll(t, "notify2", not_empty_)
    /\ not_empty_' = {}
    /\ UNCHANGED <<queue_, closed_, not_full_, request, popped>>

CloseNotifyOne(t) ==  \* mutant
    /\ pc[t] = "notify2"
    /\ \E w \in Threads :
          /\ NotifyOne(t, "idle", not_full_, w)
          /\ not_full_' = not_full_ \ {w}
    /\ UNCHANGED <<queue_, closed_, not_empty_, request, popped>>

CloseNotifyFull(t) ==
    /\ pc[t] = "notify2"
    /\ NotifyAll(t, "idle", not_full_)
    /\ not_full_' = {}
    /\ UNCHANGED <<queue_, closed_, not_empty_, request, popped>>

-----------------------------------------------------------------------------
\* A condition variable may wake a waiter for no reason at all.
SpuriousWake(t) ==
    /\ t \in not_full_ \cup not_empty_
    /\ not_full_' = not_full_ \ {t}
    /\ not_empty_' = not_empty_ \ {t}
    /\ GoTo({t}, "lock")
    /\ UNCHANGED <<queue_, closed_, request, popped>>

\* What a thread does by itself once it is inside a call.
PushStep(p) == PushWait(p) \/ PushRefused(p) \/ PushAccepted(p) \/ PushNotify(p)
PopStep(c) == PopWait(c) \/ PopEnd(c) \/ PopItem(c) \/ PopNotify(c)
CloseStep(t) == CloseNotifyEmpty(t) \/ CloseNotifyFull(t)

Next ==
    \/ \E p \in Producers : PushStep(p) \/ \E i \in Items : CallPush(p, i)
    \/ \E c \in Consumers : CallPop(c) \/ PopStep(c)
    \/ Close(Closer)
    \/ CloseStep(Closer)
    \/ \E t \in Producers \cup Consumers : SpuriousWake(t)

SafeSpec == Init /\ [][Next]_vars

(***************************************************************************)
(* A thread inside a call that is not waiting is runnable, and the         *)
(* operating system runs it eventually.  Nobody is obliged to start a      *)
(* call, and no spurious wake-up is promised.                              *)
(***************************************************************************)
Fairness ==
    /\ \A p \in Producers : WF_vars(PushStep(p))
    /\ \A c \in Consumers : WF_vars(PopStep(c))
    /\ WF_vars(CloseStep(Closer))

Spec == SafeSpec /\ Fairness
-----------------------------------------------------------------------------
(* Properties *)

Notifying(ts) == {t \in ts : pc[t] = "notify"}
Locking(ts) == {t \in ts : pc[t] = "lock"}

\* No wake-up is lost.  A push that found the queue full is parked until a pop
\* notifies not_full_, one waiter per pop: as long as pushers are parked, every
\* free slot is matched by a pop that still has to notify or by a pusher that
\* is already on its way to the mutex.  Likewise every queued item while poppers
\* are parked.  A closed queue parks nobody whom close() is not about to wake.
NoLostWakeup ==
    /\ ~closed_ /\ not_full_ # {} =>
          Capacity - Len(queue_) <=
             Cardinality(Notifying(Consumers)) + Cardinality(Locking(Producers))
    /\ ~closed_ /\ not_empty_ # {} =>
          Len(queue_) <=
             Cardinality(Notifying(Producers)) + Cardinality(Locking(Consumers))
    /\ closed_ /\ not_empty_ # {} => pc[Closer] = "notify"
    /\ closed_ /\ not_full_ # {} => pc[Closer] \in {"notify", "notify2"}

\* The queue as coded implements the atomic queue of BoundedQueue: requests
\* leave in the order they were accepted, none is lost or handed out twice, a
\* refused push leaves no trace, the end is reported only after the drain, room or an
\* item somebody waits for is used in the end, and closing it releases every thread
\* blocked on it, so that main() can join the writer and no handler hangs.
Abstract == INSTANCE BoundedQueue WITH
    queue <- queue_,
    closed <- closed_,
    offer <- request,
    asking <- {c \in Consumers : pc[c] \in {"lock", "waiting"}},
    got <- popped

ImplementsBoundedQueue == Abstract!Spec
=============================================================================
