---------------------------- MODULE BoundedQueue ----------------------------
(***************************************************************************)
(* What the write queue of storage-core promises its callers, with no      *)
(* mutex, condition variable or wake-up in sight (include/writer.hpp,      *)
(* lines 28-66).  A call of push or pop is pending from the moment it is   *)
(* made until one atomic step answers it:                                  *)
(*                                                                         *)
(*   push  is accepted while the queue is open and has room, refused once  *)
(*         it is closed, and waits otherwise;                              *)
(*   pop   hands out the oldest item while there is one, reports the end   *)
(*         once the queue is closed and drained, and waits otherwise;      *)
(*   close is final.                                                       *)
(*                                                                         *)
(* WriteQueue.tla, the queue as it is coded, implements this module.       *)
(***************************************************************************)
EXTENDS Naturals, Sequences

CONSTANTS
    Producers,  \* threads that call push: the handlers of POST /events
    Consumers,  \* threads that call pop: the one writer thread in storage-core
    Items,      \* the write requests that travel through the queue
    Capacity,   \* how many requests the queue holds
    NoItem      \* stands for "no request"

VARIABLES
    queue,   \* accepted and not yet handed out, oldest first
    closed,  \* no further push is accepted
    offer,   \* offer[p]: the item of p's pending push, NoItem if there is none
    asking,  \* the consumers with a pending pop
    got      \* got[c]: what c's last pop returned and c still has, NoItem for the end

qvars == <<queue, closed, offer, asking, got>>

QueueTypeOK ==
    /\ queue \in Seq(Items)
    /\ closed \in BOOLEAN
    /\ offer \in [Producers -> Items \cup {NoItem}]
    /\ asking \subseteq Consumers
    /\ got \in [Consumers -> Items \cup {NoItem}]

Init ==
    /\ queue = <<>>
    /\ closed = FALSE
    /\ offer = [p \in Producers |-> NoItem]
    /\ asking = {}
    /\ got = [c \in Consumers |-> NoItem]

CallPush(p, i) ==
    /\ offer[p] = NoItem
    /\ offer' = [offer EXCEPT ![p] = i]
    /\ UNCHANGED <<queue, closed, asking, got>>

Accept(p) ==
    /\ offer[p] # NoItem
    /\ ~closed
    /\ Len(queue) < Capacity
    /\ queue' = Append(queue, offer[p])
    /\ offer' = [offer EXCEPT ![p] = NoItem]
    /\ UNCHANGED <<closed, asking, got>>

Refuse(p) ==
    /\ offer[p] # NoItem
    /\ closed
    /\ offer' = [offer EXCEPT ![p] = NoItem]
    /\ UNCHANGED <<queue, closed, asking, got>>

\* Whoever asks for the next item has let go of the last: the loop's variable goes
\* out of scope before pop is called again.
CallPop(c) ==
    /\ c \notin asking
    /\ asking' = asking \cup {c}
    /\ got' = [got EXCEPT ![c] = NoItem]
    /\ UNCHANGED <<queue, closed, offer>>

HandOut(c) ==
    /\ c \in asking
    /\ queue # <<>>
    /\ got' = [got EXCEPT ![c] = Head(queue)]
    /\ queue' = Tail(queue)
    /\ asking' = asking \ {c}
    /\ UNCHANGED <<closed, offer>>

ReportEnd(c) ==
    /\ c \in asking
    /\ queue = <<>>
    /\ closed
    /\ got' = [got EXCEPT ![c] = NoItem]
    /\ asking' = asking \ {c}
    /\ UNCHANGED <<queue, closed, offer>>

Close ==
    /\ closed' = TRUE
    /\ UNCHANGED <<queue, offer, asking, got>>

Next ==
    \/ \E p \in Producers :
          \/ \E i \in Items : CallPush(p, i)
          \/ Accept(p)
          \/ Refuse(p)
    \/ \E c \in Consumers : CallPop(c) \/ HandOut(c) \/ ReportEnd(c)
    \/ Close

SafeSpec == Init /\ [][Next]_qvars

(***************************************************************************)
(* Which producer gets a free slot, and which consumer an item, is left    *)
(* open (a thread that arrives may overtake one that was woken), but room  *)
(* is never left unused while somebody wants it, and once the queue is     *)
(* closed every pending call is answered.                                  *)
(***************************************************************************)
Progress ==
    /\ WF_qvars(\E p \in Producers : Accept(p))
    /\ \A p \in Producers : WF_qvars(Refuse(p))
    /\ WF_qvars(\E c \in Consumers : HandOut(c))
    /\ \A c \in Consumers : WF_qvars(ReportEnd(c))

Spec == SafeSpec /\ Progress
=============================================================================
