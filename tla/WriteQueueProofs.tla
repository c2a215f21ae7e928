-------------------------- MODULE WriteQueueProofs --------------------------
(***************************************************************************)
(* Theorems about WriteQueue, for any number of threads, any items and any *)
(* capacity: its type invariant, that it implements BoundedQueue, and that *)
(* it loses no wake-up.                                                    *)
(***************************************************************************)
EXTENDS WriteQueue, FiniteSetTheorems, TLAPS

\* The labels agree with the wait sets and with who is pushing what: a thread is in
\* a wait set exactly while it is at "waiting", and a producer holds a request
\* exactly while its push is pending.
LabelsOK ==
    /\ \A p \in Producers :
          /\ p \in not_full_ <=> pc[p] = "waiting"
          /\ request[p] # NoItem <=> pc[p] \in {"lock", "waiting"}
          /\ pc[p] # "notify2"
    /\ \A c \in Consumers :
          /\ c \in not_empty_ <=> pc[c] = "waiting"
          /\ pc[c] # "notify2"
    /\ pc[Closer] \in {"idle", "notify", "notify2"}

IInv == TypeOK /\ LabelsOK

\* The initial state.
LEMMA InitIInv == Init => IInv
<1> SUFFICES ASSUME Init
             PROVE  IInv
  OBVIOUS
<1>1. queue_ \in Seq(Items) /\ Len(queue_) <= Capacity
  BY WriteQueueAssumption DEF Init
<1>2. TypeOK
  BY <1>1 DEF Init, TypeOK, Threads, PC
<1>3. LabelsOK
  BY DEF Init, LabelsOK, Threads
<1> QED
  BY <1>2, <1>3 DEF IInv

\* What each action does to the parts of IInv; one step per action.
LEMMA NextIInv == IInv /\ [Next]_vars => IInv'
<1> SUFFICES ASSUME IInv, [Next]_vars
             PROVE  IInv'
  OBVIOUS
<1> USE WriteQueueAssumption DEF IInv, TypeOK, LabelsOK, Threads, PC
<1>1. ASSUME NEW p \in Producers, NEW i \in Items, CallPush(p, i)
      PROVE  IInv'
  BY <1>1 DEF CallPush, GoTo
<1>2. ASSUME NEW p \in Producers, PushWait(p)
      PROVE  IInv'
  BY <1>2 DEF PushWait, GoTo
<1>3. ASSUME NEW p \in Producers, PushRefused(p)
      PROVE  IInv'
  BY <1>3 DEF PushRefused, GoTo
<1>4. ASSUME NEW p \in Producers, PushAccepted(p)
      PROVE  IInv'
  <2>1. request[p] \in Items
    BY <1>4 DEF PushAccepted
  <2>2. queue_' \in Seq(Items) /\ Len(queue_') <= Capacity
    BY <1>4, <2>1 DEF PushAccepted, MayPush, HasRoom
  <2> QED
    BY <1>4, <2>2 DEF PushAccepted, GoTo
<1>5. ASSUME NEW p \in Producers, PushNotify(p)
      PROVE  IInv'
  BY <1>5 DEF PushNotify, NotifyOne
<1>6. ASSUME NEW c \in Consumers, CallPop(c)
      PROVE  IInv'
  BY <1>6 DEF CallPop, GoTo
<1>7. ASSUME NEW c \in Consumers, PopWait(c)
      PROVE  IInv'
  BY <1>7 DEF PopWait, GoTo
<1>8. ASSUME NEW c \in Consumers, PopEnd(c)
      PROVE  IInv'
  BY <1>8 DEF PopEnd, GoTo
<1>9. ASSUME NEW c \in Consumers, PopItem(c)
      PROVE  IInv'
  <2>1. queue_ # <<>>
    BY <1>9 DEF PopItem, Drained
  <2>2. /\ Head(queue_) \in Items
        /\ queue_' \in Seq(Items)
        /\ Len(queue_') <= Capacity
    BY <1>9, <2>1 DEF PopItem
  <2> QED
    BY <1>9, <2>2 DEF PopItem, GoTo
<1>10. ASSUME NEW c \in Consumers, PopNotify(c)
       PROVE  IInv'
  BY <1>10 DEF PopNotify, NotifyOne
<1>11. ASSUME Close(Closer)
       PROVE  IInv'
  BY <1>11 DEF Close, GoTo
<1>12. ASSUME CloseNotifyEmpty(Closer)
       PROVE  IInv'
  BY <1>12 DEF CloseNotifyEmpty, NotifyAll
<1>13. ASSUME CloseNotifyFull(Closer)
       PROVE  IInv'
  BY <1>13 DEF CloseNotifyFull, NotifyAll
<1>14. ASSUME NEW t \in Producers \cup Consumers, SpuriousWake(t)
       PROVE  IInv'
  BY <1>14 DEF SpuriousWake, GoTo
<1>15. ASSUME UNCHANGED vars
       PROVE  IInv'
  BY <1>15 DEF vars
<1> QED
  BY <1>1, <1>2, <1>3, <1>4, <1>5, <1>6, <1>7, <1>8, <1>9, <1>10, <1>11, <1>12,
     <1>13, <1>14, <1>15 DEF Next, PushStep, PopStep, CloseStep

\* The queue never exceeds its capacity, and its fields stay in their types.
THEOREM TypeCorrect == SafeSpec => []TypeOK
<1>1. Init => IInv
  BY InitIInv
<1>2. IInv /\ [Next]_vars => IInv'
  BY NextIInv
<1>3. IInv => TypeOK
  BY DEF IInv
<1> QED
  BY <1>1, <1>2, <1>3, PTL DEF SafeSpec
-----------------------------------------------------------------------------
(* The queue as coded implements the atomic queue.  Critical sections map to *)
(* the abstract steps; waiting, waking and notifying are invisible.          *)

Asking == {c \in Consumers : pc[c] \in {"lock", "waiting"}}

\* Initial states map to initial states.
LEMMA InitRefines == Init => Abstract!Init
<1> SUFFICES ASSUME Init
             PROVE  Abstract!Init
  OBVIOUS
<1>1. Asking = {}
  BY DEF Init, Asking, Threads
<1> QED
  BY <1>1 DEF Init, Abstract!Init, Asking

\* A thread that moves without entering or leaving the labels of a pending pop
\* leaves the abstract queue as it was.
LEMMA StutterRefines ==
    ASSUME UNCHANGED <<queue_, closed_, request, popped>>,
           Asking' = Asking
    PROVE  UNCHANGED Abstract!qvars
  BY DEF Abstract!qvars, Asking

\* Every step maps to a step of the bounded queue or to none.
LEMMA NextRefines == IInv /\ [Next]_vars => [Abstract!Next]_(Abstract!qvars)
<1> SUFFICES ASSUME IInv, [Next]_vars
             PROVE  [Abstract!Next]_(Abstract!qvars)
  OBVIOUS
<1> USE WriteQueueAssumption DEF IInv, TypeOK, LabelsOK, Threads, PC
<1>1. ASSUME NEW p \in Producers, NEW i \in Items, CallPush(p, i)
      PROVE  Abstract!CallPush(p, i)
  <2>1. Asking' = Asking
    BY <1>1 DEF CallPush, GoTo, Asking
  <2> QED
    BY <1>1, <2>1 DEF CallPush, Abstract!CallPush, Asking
<1>2. ASSUME NEW p \in Producers, PushWait(p)
      PROVE  UNCHANGED Abstract!qvars
  <2>1. Asking' = Asking
    BY <1>2 DEF PushWait, GoTo, Asking
  <2> QED
    BY <1>2, <2>1, StutterRefines DEF PushWait
<1>3. ASSUME NEW p \in Producers, PushRefused(p)
      PROVE  Abstract!Refuse(p)
  <2>1. Asking' = Asking
    BY <1>3 DEF PushRefused, GoTo, Asking
  <2> QED
    BY <1>3, <2>1 DEF PushRefused, Abstract!Refuse, Asking
<1>4. ASSUME NEW p \in Producers, PushAccepted(p)
      PROVE  Abstract!Accept(p)
  <2>1. Asking' = Asking
    BY <1>4 DEF PushAccepted, GoTo, Asking
  <2> QED
    BY <1>4, <2>1 DEF PushAccepted, MayPush, HasRoom, Abstract!Accept, Asking
<1>5. ASSUME NEW p \in Producers, PushNotify(p)
      PROVE  UNCHANGED Abstract!qvars
  <2>1. Asking' = Asking
    BY <1>5 DEF PushNotify, NotifyOne, Asking
  <2> QED
    BY <1>5, <2>1, StutterRefines DEF PushNotify
<1>6. ASSUME NEW c \in Consumers, CallPop(c)
      PROVE  Abstract!CallPop(c)
  <2>1. c \notin Asking /\ Asking' = Asking \cup {c}
    BY <1>6 DEF CallPop, GoTo, Asking
  <2> QED
    BY <1>6, <2>1 DEF CallPop, Abstract!CallPop, Asking
<1>7. ASSUME NEW c \in Consumers, PopWait(c)
      PROVE  UNCHANGED Abstract!qvars
  <2>1. Asking' = Asking
    BY <1>7 DEF PopWait, GoTo, Asking
  <2> QED
    BY <1>7, <2>1, StutterRefines DEF PopWait
<1>8. ASSUME NEW c \in Consumers, PopEnd(c)
      PROVE  Abstract!ReportEnd(c)
  <2>1. c \in Asking /\ Asking' = Asking \ {c}
    BY <1>8 DEF PopEnd, GoTo, Asking
  <2>2. queue_ = <<>> /\ closed_
    BY <1>8 DEF PopEnd, MayPop, Drained
  <2> QED
    BY <1>8, <2>1, <2>2 DEF PopEnd, Abstract!ReportEnd, Asking
<1>9. ASSUME NEW c \in Consumers, PopItem(c)
      PROVE  Abstract!HandOut(c)
  <2>1. c \in Asking /\ Asking' = Asking \ {c}
    BY <1>9 DEF PopItem, GoTo, Asking
  <2> QED
    BY <1>9, <2>1 DEF PopItem, Drained, Abstract!HandOut, Asking
<1>10. ASSUME NEW c \in Consumers, PopNotify(c)
       PROVE  UNCHANGED Abstract!qvars
  <2>1. Asking' = Asking
    BY <1>10 DEF PopNotify, NotifyOne, Asking
  <2> QED
    BY <1>10, <2>1, StutterRefines DEF PopNotify
<1>11. ASSUME Close(Closer)
       PROVE  Abstract!Close
  <2>1. Asking' = Asking
    BY <1>11 DEF Close, GoTo, Asking
  <2> QED
    BY <1>11, <2>1 DEF Close, Abstract!Close, Asking
<1>12. ASSUME CloseStep(Closer)
       PROVE  UNCHANGED Abstract!qvars
  <2>1. Asking' = Asking
    BY <1>12 DEF CloseStep, CloseNotifyEmpty, CloseNotifyFull, NotifyAll, Asking
  <2> QED
    BY <1>12, <2>1, StutterRefines DEF CloseStep, CloseNotifyEmpty, CloseNotifyFull
<1>13. ASSUME NEW t \in Producers \cup Consumers, SpuriousWake(t)
       PROVE  UNCHANGED Abstract!qvars
  <2>1. Asking' = Asking
    BY <1>13 DEF SpuriousWake, GoTo, Asking
  <2> QED
    BY <1>13, <2>1, StutterRefines DEF SpuriousWake
<1>14. ASSUME UNCHANGED vars
       PROVE  UNCHANGED Abstract!qvars
  BY <1>14 DEF vars, Abstract!qvars
<1> QED
  BY <1>1, <1>2, <1>3, <1>4, <1>5, <1>6, <1>7, <1>8, <1>9, <1>10, <1>11, <1>12,
     <1>13, <1>14 DEF Next, PushStep, PopStep, CloseStep, Abstract!Next

\* Every behaviour of the coded queue, seen through its fields and the calls that
\* are pending, is one of the atomic queue: FIFO, nothing lost, nothing handed out
\* twice, refusals and the end only after close().
THEOREM RefinesBoundedQueue == SafeSpec => Abstract!SafeSpec
<1>1. Init => IInv /\ Abstract!Init
  BY InitIInv, InitRefines
<1>2. IInv /\ [Next]_vars => IInv'
  BY NextIInv
<1>3. IInv /\ [Next]_vars => [Abstract!Next]_(Abstract!qvars)
  BY NextRefines
<1> QED
  BY <1>1, <1>2, <1>3, PTL DEF SafeSpec, Abstract!SafeSpec
-----------------------------------------------------------------------------
(* No wake-up is lost.  The argument counts: an action that frees a slot adds *)
(* a pop that will notify, one that uses a notification adds a pusher on its  *)
(* way, and a pusher that is done has used its slot.                          *)

\* The sets that are counted are finite.
LEMMA CountsFinite ==
    \A ts \in {Producers, Consumers} :
       /\ IsFiniteSet(Notifying(ts)) /\ Cardinality(Notifying(ts)) \in Nat
       /\ IsFiniteSet(Locking(ts)) /\ Cardinality(Locking(ts)) \in Nat
<1> TAKE ts \in {Producers, Consumers}
<1>1. IsFiniteSet(ts)
  BY WriteQueueAssumption
<1>2. Notifying(ts) \in SUBSET ts /\ Locking(ts) \in SUBSET ts
  BY DEF Notifying, Locking
<1>3. IsFiniteSet(Notifying(ts)) /\ IsFiniteSet(Locking(ts))
  BY <1>1, <1>2, FS_Subset
<1> QED
  BY <1>3, FS_CardinalityType

\* A set with one element more.
LEMMA OneMore ==
    ASSUME NEW S, NEW x, IsFiniteSet(S), x \notin S
    PROVE  Cardinality(S \cup {x}) = Cardinality(S) + 1
  BY FS_AddElement

\* A set with one element less.
LEMMA OneLess ==
    ASSUME NEW S, NEW x, IsFiniteSet(S), x \in S
    PROVE  Cardinality(S \ {x}) = Cardinality(S) - 1 /\ Cardinality(S \ {x}) \in Nat
  BY FS_RemoveElement, FS_CardinalityType

\* No step leaves a waiter uncovered.
LEMMA NextNoLostWakeup == IInv /\ IInv' /\ NoLostWakeup /\ [Next]_vars => NoLostWakeup'
<1> SUFFICES ASSUME IInv, IInv', NoLostWakeup, [Next]_vars
             PROVE  NoLostWakeup'
  OBVIOUS
<1> DEFINE popsOwing == Notifying(Consumers)
           pushesOwing == Notifying(Producers)
           pushersComing == Locking(Producers)
           poppersComing == Locking(Consumers)
<1>a. /\ IsFiniteSet(popsOwing) /\ Cardinality(popsOwing) \in Nat
      /\ IsFiniteSet(pushesOwing) /\ Cardinality(pushesOwing) \in Nat
      /\ IsFiniteSet(pushersComing) /\ Cardinality(pushersComing) \in Nat
      /\ IsFiniteSet(poppersComing) /\ Cardinality(poppersComing) \in Nat
  BY CountsFinite
<1>b. Capacity \in Nat /\ Len(queue_) \in Nat
  BY WriteQueueAssumption DEF IInv, TypeOK
<1> USE WriteQueueAssumption, <1>b DEF IInv, TypeOK, LabelsOK, Threads, PC, NoLostWakeup
<1>1. ASSUME NEW p \in Producers, NEW i \in Items, CallPush(p, i)
      PROVE  NoLostWakeup'
  <2>1. /\ popsOwing' = popsOwing /\ pushesOwing' = pushesOwing
        /\ poppersComing' = poppersComing
        /\ pushersComing' = pushersComing \cup {p} /\ p \notin pushersComing
    BY <1>1 DEF CallPush, GoTo, Notifying, Locking
  <2>2. Cardinality(pushersComing') = Cardinality(pushersComing) + 1
    BY <2>1, <1>a, OneMore
  <2> QED
    BY <1>1, <2>1, <2>2, <1>a DEF CallPush, GoTo
<1>2. ASSUME NEW p \in Producers, PushWait(p)
      PROVE  NoLostWakeup'
  <2>1. /\ popsOwing' = popsOwing /\ pushesOwing' = pushesOwing
        /\ poppersComing' = poppersComing
        /\ pushersComing' = pushersComing \ {p} /\ p \in pushersComing
    BY <1>2 DEF PushWait, GoTo, Notifying, Locking
  <2>2. Cardinality(pushersComing') \in Nat
    BY <2>1, <1>a, OneLess
  <2>3. /\ Capacity - Len(queue_) <= 0
        /\ UNCHANGED <<closed_, queue_, not_empty_>> /\ ~closed_
    BY <1>2 DEF PushWait, MayPush, HasRoom
  <2> QED
    BY <2>1, <2>2, <2>3, <1>a
<1>3. ASSUME NEW p \in Producers, PushRefused(p)
      PROVE  NoLostWakeup'
  BY <1>3 DEF PushRefused, GoTo
<1>4. ASSUME NEW p \in Producers, PushAccepted(p)
      PROVE  NoLostWakeup'
  <2>1. /\ popsOwing' = popsOwing /\ poppersComing' = poppersComing
        /\ pushesOwing' = pushesOwing \cup {p} /\ p \notin pushesOwing
        /\ pushersComing' = pushersComing \ {p} /\ p \in pushersComing
    BY <1>4 DEF PushAccepted, GoTo, Notifying, Locking
  <2>2. /\ Cardinality(pushersComing') = Cardinality(pushersComing) - 1
        /\ Cardinality(pushesOwing') = Cardinality(pushesOwing) + 1
    <3>1. Cardinality(pushersComing') = Cardinality(pushersComing) - 1
      BY <2>1, <1>a, OneLess
    <3>2. Cardinality(pushesOwing') = Cardinality(pushesOwing) + 1
      BY <2>1, <1>a, OneMore
    <3> QED
      BY <3>1, <3>2
  <2>3. Len(queue_') = Len(queue_) + 1
    <3>1. pc[p] = "lock" /\ queue_' = Append(queue_, request[p])
      BY <1>4 DEF PushAccepted
    <3>2. request[p] \in Items
      BY <3>1
    <3> QED
      BY <3>1, <3>2
  <2>4. ~closed_ /\ UNCHANGED <<closed_, not_empty_, not_full_>>
    BY <1>4 DEF PushAccepted
  <2> QED
    BY <2>1, <2>2, <2>3, <2>4, <1>a, SMTT(30)
<1>5. ASSUME NEW p \in Producers, PushNotify(p)
      PROVE  NoLostWakeup'
  <2> PICK w \in Threads : /\ NotifyOne(p, "idle", not_empty_, w)
                           /\ not_empty_' = not_empty_ \ {w}
    BY <1>5 DEF PushNotify
  <2>1. /\ popsOwing' = popsOwing /\ pushersComing' = pushersComing
        /\ pushesOwing' = pushesOwing \ {p} /\ p \in pushesOwing
    BY <1>5 DEF PushNotify, NotifyOne, Notifying, Locking
  <2>2. Cardinality(pushesOwing') = Cardinality(pushesOwing) - 1
    BY <2>1, <1>a, OneLess
  <2>3. CASE not_empty_ = {}
    <3>1. poppersComing' = poppersComing
      BY <1>5, <2>3 DEF PushNotify, NotifyOne, Notifying, Locking
    <3> QED
      BY <1>5, <2>1, <2>2, <2>3, <3>1, <1>a DEF PushNotify, NotifyOne
  <2>4. CASE not_empty_ # {}
    <3>1. poppersComing' = poppersComing \cup {w} /\ w \notin poppersComing
      BY <1>5, <2>4 DEF PushNotify, NotifyOne, Notifying, Locking
    <3>2. Cardinality(poppersComing') = Cardinality(poppersComing) + 1
      BY <3>1, <1>a, OneMore
    <3> QED
      BY <1>5, <2>1, <2>2, <2>4, <3>1, <3>2, <1>a DEF PushNotify, NotifyOne
  <2> QED
    BY <2>3, <2>4
<1>6. ASSUME NEW c \in Consumers, CallPop(c)
      PROVE  NoLostWakeup'
  <2>1. /\ popsOwing' = popsOwing /\ pushesOwing' = pushesOwing
        /\ pushersComing' = pushersComing
        /\ poppersComing' = poppersComing \cup {c} /\ c \notin poppersComing
    BY <1>6 DEF CallPop, GoTo, Notifying, Locking
  <2>2. Cardinality(poppersComing') = Cardinality(poppersComing) + 1
    BY <2>1, <1>a, OneMore
  <2> QED
    BY <1>6, <2>1, <2>2, <1>a DEF CallPop, GoTo
<1>7. ASSUME NEW c \in Consumers, PopWait(c)
      PROVE  NoLostWakeup'
  <2>1. /\ popsOwing' = popsOwing /\ pushesOwing' = pushesOwing
        /\ pushersComing' = pushersComing
        /\ poppersComing' = poppersComing \ {c} /\ c \in poppersComing
    BY <1>7 DEF PopWait, GoTo, Notifying, Locking
  <2>2. Cardinality(poppersComing') \in Nat
    BY <2>1, <1>a, OneLess
  <2>3. /\ Len(queue_) = 0
        /\ UNCHANGED <<closed_, queue_, not_full_>> /\ ~closed_
    BY <1>7 DEF PopWait, MayPop
  <2> QED
    BY <2>1, <2>2, <2>3, <1>a
<1>8. ASSUME NEW c \in Consumers, PopEnd(c)
      PROVE  NoLostWakeup'
  BY <1>8 DEF PopEnd, MayPop, Drained, GoTo
<1>9. ASSUME NEW c \in Consumers, PopItem(c)
      PROVE  NoLostWakeup'
  <2>1. /\ pushesOwing' = pushesOwing /\ pushersComing' = pushersComing
        /\ popsOwing' = popsOwing \cup {c} /\ c \notin popsOwing
        /\ poppersComing' = poppersComing \ {c} /\ c \in poppersComing
    BY <1>9 DEF PopItem, GoTo, Notifying, Locking
  <2>2. /\ Cardinality(popsOwing') = Cardinality(popsOwing) + 1
        /\ Cardinality(poppersComing') = Cardinality(poppersComing) - 1
    BY <2>1, <1>a, OneLess, OneMore
  <2>3. Len(queue_') = Len(queue_) - 1
    BY <1>9 DEF PopItem, Drained
  <2> QED
    BY <1>9, <2>1, <2>2, <2>3, <1>a DEF PopItem, GoTo
<1>10. ASSUME NEW c \in Consumers, PopNotify(c)
       PROVE  NoLostWakeup'
  <2> PICK w \in Threads : /\ NotifyOne(c, "idle", not_full_, w)
                           /\ not_full_' = not_full_ \ {w}
    BY <1>10 DEF PopNotify
  <2>1. /\ pushesOwing' = pushesOwing /\ poppersComing' = poppersComing
        /\ popsOwing' = popsOwing \ {c} /\ c \in popsOwing
    BY <1>10 DEF PopNotify, NotifyOne, Notifying, Locking
  <2>2. Cardinality(popsOwing') = Cardinality(popsOwing) - 1
    BY <2>1, <1>a, OneLess
  <2>3. CASE not_full_ = {}
    <3>1. pushersComing' = pushersComing
      BY <1>10, <2>3 DEF PopNotify, NotifyOne, Notifying, Locking
    <3> QED
      BY <1>10, <2>1, <2>2, <2>3, <3>1, <1>a DEF PopNotify, NotifyOne
  <2>4. CASE not_full_ # {}
    <3>1. pushersComing' = pushersComing \cup {w} /\ w \notin pushersComing
      BY <1>10, <2>4 DEF PopNotify, NotifyOne, Notifying, Locking
    <3>2. Cardinality(pushersComing') = Cardinality(pushersComing) + 1
      BY <3>1, <1>a, OneMore
    <3> QED
      BY <1>10, <2>1, <2>2, <2>4, <3>1, <3>2, <1>a DEF PopNotify, NotifyOne
  <2> QED
    BY <2>3, <2>4
<1>11. ASSUME Close(Closer)
       PROVE  NoLostWakeup'
  BY <1>11 DEF Close, GoTo
<1>12. ASSUME CloseNotifyEmpty(Closer)
       PROVE  NoLostWakeup'
  <2>1. popsOwing' = popsOwing /\ pushersComing' = pushersComing
    BY <1>12 DEF CloseNotifyEmpty, NotifyAll, Notifying, Locking
  <2> QED
    BY <1>12, <2>1, <1>a DEF CloseNotifyEmpty, NotifyAll
<1>13. ASSUME CloseNotifyFull(Closer)
       PROVE  NoLostWakeup'
  <2>1. pushesOwing' = pushesOwing /\ poppersComing' = poppersComing
    BY <1>13 DEF CloseNotifyFull, NotifyAll, Notifying, Locking
  <2> QED
    BY <1>13, <2>1, <1>a DEF CloseNotifyFull, NotifyAll
<1>14. ASSUME NEW p \in Producers, SpuriousWake(p)
       PROVE  NoLostWakeup'
  <2>1. /\ popsOwing' = popsOwing /\ pushesOwing' = pushesOwing
        /\ poppersComing' = poppersComing
        /\ pushersComing' = pushersComing \cup {p} /\ p \notin pushersComing
    BY <1>14 DEF SpuriousWake, GoTo, Notifying, Locking
  <2>2. Cardinality(pushersComing') = Cardinality(pushersComing) + 1
    BY <2>1, <1>a, OneMore
  <2> QED
    BY <1>14, <2>1, <2>2, <1>a DEF SpuriousWake, GoTo
<1>15. ASSUME NEW c \in Consumers, SpuriousWake(c)
       PROVE  NoLostWakeup'
  <2>1. /\ popsOwing' = popsOwing /\ pushesOwing' = pushesOwing
        /\ pushersComing' = pushersComing
        /\ poppersComing' = poppersComing \cup {c} /\ c \notin poppersComing
    BY <1>15 DEF SpuriousWake, GoTo, Notifying, Locking
  <2>2. Cardinality(poppersComing') = Cardinality(poppersComing) + 1
    BY <2>1, <1>a, OneMore
  <2> QED
    BY <1>15, <2>1, <2>2, <1>a DEF SpuriousWake, GoTo
<1>16. ASSUME UNCHANGED vars
       PROVE  NoLostWakeup'
  BY <1>16 DEF vars, Notifying, Locking
<1> QED
  BY <1>1, <1>2, <1>3, <1>4, <1>5, <1>6, <1>7, <1>8, <1>9, <1>10, <1>11, <1>12,
     <1>13, <1>14, <1>15, <1>16 DEF Next, PushStep, PopStep, CloseStep

\* Whatever the number of threads and the capacity, no free slot and no item is ever
\* left with its waiters asleep and nobody about to wake one, and close() wakes all.
THEOREM WakeupsCorrect == SafeSpec => []NoLostWakeup
<1>1. Init => IInv /\ NoLostWakeup
  BY InitIInv DEF Init, NoLostWakeup
<1>2. IInv /\ [Next]_vars => IInv'
  BY NextIInv
<1>3. IInv /\ IInv' /\ NoLostWakeup /\ [Next]_vars => NoLostWakeup'
  BY NextNoLostWakeup
<1> QED
  BY <1>1, <1>2, <1>3, PTL DEF SafeSpec
=============================================================================
