--------------------------- MODULE BroadcastProofs ---------------------------
(***************************************************************************)
(* Theorems about Broadcast, for any set of subscribers and any capacity:  *)
(* types, the books of what each client missed, what it is told, and that  *)
(* no pump sleeps through a block.                                         *)
(***************************************************************************)
EXTENDS Broadcast, TLAPS

\* The Broadcaster's list and loop against the subscriptions.  Somebody who has not
\* subscribed owns nothing; whoever can still be pushed to is in the list as long as
\* publishing goes on.
ListOK ==
    /\ \A s \in Subscribers : pc[s] = "new" =>
          /\ ~alive[s] /\ ~closed_[s]
          /\ buffer_[s] = <<>> /\ lagged_[s] = 0
    /\ ~ended => \A s \in Subscribers : alive[s] => s \in subscribers_
    /\ task.op = "publish" => ~ended
    /\ task.op = "close" => ended
    /\ task.op = "idle" => task.wake = None

IInv == TypeOK /\ ListOK /\ LagExact

\* The initial state.
LEMMA InitIInv == Init => IInv
<1> SUFFICES ASSUME Init
             PROVE  IInv
  OBVIOUS
<1>1. TypeOK
  <2>1. /\ <<>> \in Seq(Nat) /\ Len(<<>>) <= Capacity
        /\ NoItem \in [block : Nat, lagged : Nat]
        /\ Idle \in Task
        /\ "new" \in PC
        /\ published \in 0..MaxBlocks
    BY BroadcastAssumption DEF Init, Task, Idle, PC, NoItem
  <2> QED
    BY <2>1 DEF Init, TypeOK
<1>2. ListOK
  BY DEF Init, ListOK, Idle
<1>3. LagExact
  BY DEF Init, LagExact, Subscribed
<1> QED
  BY <1>1, <1>2, <1>3 DEF IInv

\* Types are kept.
LEMMA NextTypeOK == TypeOK /\ [Next]_vars => TypeOK'
<1> SUFFICES ASSUME TypeOK, [Next]_vars
             PROVE  TypeOK'
  OBVIOUS
<1> USE BroadcastAssumption DEF TypeOK, Task, PC, subscription, client
<1>1. ASSUME Publish
      PROVE  TypeOK'
  BY <1>1 DEF Publish
<1>2. ASSUME CloseAll
      PROVE  TypeOK'
  BY <1>2 DEF CloseAll
<1>3. ASSUME Finish
      PROVE  TypeOK'
  BY <1>3 DEF Finish, Idle
<1>4. ASSUME NEW s \in Subscribers, SkipExpired(s)
      PROVE  TypeOK'
  BY <1>4 DEF SkipExpired, Advance
<1>5. ASSUME NEW s \in Subscribers, PushToClosed(s)
      PROVE  TypeOK'
  BY <1>5 DEF PushToClosed, Advance
<1>6. ASSUME NEW s \in Subscribers, Push(s)
      PROVE  TypeOK'
  <2>1. DropOldest(s) \in Seq(Nat) /\ Len(DropOldest(s)) < Capacity
    BY DEF DropOldest, Full
  <2>2. /\ Append(DropOldest(s), published) \in Seq(Nat)
        /\ Len(Append(DropOldest(s), published)) <= Capacity
    BY <2>1
  <2>3. Lag(s) \in Nat
    BY DEF Lag
  <2> HIDE DEF DropOldest, Lag
  <2> QED
    BY <1>6, <2>2, <2>3 DEF Push, Advance
<1>7. ASSUME NEW s \in Subscribers, CloseNext(s)
      PROVE  TypeOK'
  BY <1>7 DEF CloseNext, Advance
<1>8. ASSUME NEW s \in Subscribers, Notify(s)
      PROVE  TypeOK'
  BY <1>8 DEF Notify, Wake
<1>9. ASSUME NEW s \in Subscribers, Subscribe(s)
      PROVE  TypeOK'
  BY <1>9, SMTT(60) DEF Subscribe
<1>10. ASSUME NEW s \in Subscribers, Close(s) \/ CloseNotify(s)
       PROVE  TypeOK'
  BY <1>10, ZenonT(60) DEF Close, CloseNotify, Wake
<1>11. ASSUME NEW s \in Subscribers, Leave(s) \/ Drop(s)
       PROVE  TypeOK'
  <2>1. CASE Leave(s)
    BY <2>1 DEF Leave
  <2>2. CASE Drop(s)
    BY <2>2 DEF Drop
  <2> QED
    BY <1>11, <2>1, <2>2
<1>12. ASSUME NEW s \in Subscribers, NextItem(s)
       PROVE  TypeOK'
  <2>1. /\ Head(buffer_[s]) \in Nat
        /\ Tail(buffer_[s]) \in Seq(Nat)
        /\ Len(Tail(buffer_[s])) <= Capacity
    BY <1>12, SMTT(60) DEF NextItem
  <2> QED
    BY <1>12, <2>1 DEF NextItem
<1>13. ASSUME NEW s \in Subscribers,
              CallNext(s) \/ NextWait(s) \/ NextEnd(s) \/ SpuriousWake(s)
       PROVE  TypeOK'
  BY <1>13 DEF CallNext, NextWait, NextEnd, SpuriousWake, Wake
<1>14. ASSUME UNCHANGED vars
       PROVE  TypeOK'
  BY <1>14 DEF vars
<1> QED
  BY <1>1, <1>2, <1>3, <1>4, <1>5, <1>6, <1>7, <1>8, <1>9, <1>10, <1>11, <1>12,
     <1>13, <1>14 DEF Next, TaskStep, ConnectionStep, PumpStep

\* The list of subscriptions stays consistent.
LEMMA NextListOK == TypeOK /\ ListOK /\ [Next]_vars => ListOK'
<1> SUFFICES ASSUME TypeOK, ListOK, [Next]_vars
             PROVE  ListOK'
  OBVIOUS
<1> USE DEF TypeOK, Task, PC, ListOK, subscription, client
<1>1. ASSUME Publish
      PROVE  ListOK'
  BY <1>1 DEF Publish
<1>2. ASSUME CloseAll
      PROVE  ListOK'
  BY <1>2 DEF CloseAll
<1>3. ASSUME Finish
      PROVE  ListOK'
  BY <1>3 DEF Finish, Idle
<1>4. ASSUME NEW s \in Subscribers, SkipExpired(s)
      PROVE  ListOK'
  BY <1>4 DEF SkipExpired, At, Advance
<1>5. ASSUME NEW s \in Subscribers, PushToClosed(s)
      PROVE  ListOK'
  BY <1>5 DEF PushToClosed, At, Advance
<1>6. ASSUME NEW s \in Subscribers, Push(s)
      PROVE  ListOK'
  BY <1>6 DEF Push, MayPush, At, Advance
<1>7. ASSUME NEW s \in Subscribers, CloseNext(s)
      PROVE  ListOK'
  BY <1>7 DEF CloseNext, At, Advance
<1>8. ASSUME NEW s \in Subscribers, Notify(s)
      PROVE  ListOK'
  BY <1>8 DEF Notify, Wake
<1>9. ASSUME NEW s \in Subscribers, Subscribe(s)
      PROVE  ListOK'
  BY <1>9 DEF Subscribe
<1>10. ASSUME NEW s \in Subscribers, Close(s) \/ CloseNotify(s)
       PROVE  ListOK'
  <2>1. CASE Close(s)
    BY <2>1 DEF Close
  <2>2. CASE CloseNotify(s)
    BY <2>2 DEF CloseNotify, Wake
  <2> QED
    BY <1>10, <2>1, <2>2
<1>11. ASSUME NEW s \in Subscribers, Leave(s) \/ Drop(s)
       PROVE  ListOK'
  <2>1. CASE Leave(s)
    BY <2>1 DEF Leave
  <2>2. CASE Drop(s)
    BY <2>2 DEF Drop
  <2> QED
    BY <1>11, <2>1, <2>2
<1>12. ASSUME NEW s \in Subscribers, PumpStep(s) \/ SpuriousWake(s)
       PROVE  ListOK'
  <2>1. CASE CallNext(s)
    BY <2>1 DEF CallNext
  <2>2. CASE NextWait(s)
    BY <2>2 DEF NextWait
  <2>3. CASE NextItem(s)
    BY <2>3 DEF NextItem
  <2>4. CASE NextEnd(s)
    BY <2>4 DEF NextEnd
  <2>5. CASE SpuriousWake(s)
    BY <2>5 DEF SpuriousWake, Wake
  <2> QED
    BY <1>12, <2>1, <2>2, <2>3, <2>4, <2>5 DEF PumpStep
<1>13. ASSUME UNCHANGED vars
       PROVE  ListOK'
  BY <1>13 DEF vars
<1> QED
  BY <1>1, <1>2, <1>3, <1>4, <1>5, <1>6, <1>7, <1>8, <1>9, <1>10, <1>11, <1>12,
     <1>13 DEF Next, TaskStep, ConnectionStep

\* A buffer of consecutive blocks stays one when its oldest goes and when the next
\* one comes.
Consecutive(q, k) == \A i \in DOMAIN q : q[i] = k + i

\* Consecutive numbers without the first.
LEMMA TailConsecutive ==
    ASSUME NEW q \in Seq(Nat), q # <<>>, NEW k \in Nat, Consecutive(q, k)
    PROVE  /\ Head(q) = k + 1
           /\ Tail(q) \in Seq(Nat)
           /\ k + 1 + Len(Tail(q)) = k + Len(q)
           /\ Consecutive(Tail(q), k + 1)
<1>1. /\ Len(q) \in Nat /\ Len(q) > 0
      /\ DOMAIN q = 1..Len(q)
      /\ Head(q) = q[1]
  OBVIOUS
<1>2. /\ Tail(q) \in Seq(Nat)
      /\ Len(Tail(q)) = Len(q) - 1
      /\ DOMAIN Tail(q) = 1..(Len(q) - 1)
      /\ \A i \in 1..(Len(q) - 1) : Tail(q)[i] = q[i + 1]
  OBVIOUS
<1> QED
  BY <1>1, <1>2 DEF Consecutive

\* Consecutive numbers with the oldest dropped for a new one.
LEMMA DropConsecutive ==
    ASSUME NEW q \in Seq(Nat), q # <<>>, NEW a \in Nat, NEW b \in Nat,
           Consecutive(q, a + b)
    PROVE  /\ b + 1 \in Nat
           /\ Tail(q) \in Seq(Nat)
           /\ a + (b + 1) + Len(Tail(q)) = a + b + Len(q)
           /\ Consecutive(Tail(q), a + (b + 1))
<1>1. /\ a + b \in Nat /\ b + 1 \in Nat
      /\ a + (b + 1) = a + b + 1
  OBVIOUS
<1> QED
  BY <1>1, TailConsecutive, Zenon

\* Consecutive numbers with the next one behind them.
LEMMA AppendConsecutive ==
    ASSUME NEW q \in Seq(Nat), NEW k \in Nat, Consecutive(q, k),
           NEW e \in Nat, e = k + Len(q) + 1
    PROVE  /\ Append(q, e) \in Seq(Nat)
           /\ Len(Append(q, e)) = Len(q) + 1
           /\ Consecutive(Append(q, e), k)
<1>1. /\ Len(q) \in Nat
      /\ DOMAIN q = 1..Len(q)
      /\ Append(q, e) \in Seq(Nat)
      /\ Len(Append(q, e)) = Len(q) + 1
      /\ DOMAIN Append(q, e) = 1..(Len(q) + 1)
      /\ \A i \in 1..Len(q) : Append(q, e)[i] = q[i]
      /\ Append(q, e)[Len(q) + 1] = e
  OBVIOUS
<1> QED
  BY <1>1 DEF Consecutive

\* Of one subscriber: what LagExact says of it.
Books(s) ==
    Subscribed(s) =>
        /\ Consecutive(buffer_[s], last[s] + lagged_[s])
        /\ alive[s] /\ ~closed_[s] =>
              last[s] + lagged_[s] + Len(buffer_[s]) + Owed(s) = published

\* A step that leaves a subscriber's fields alone, and whether it is owed a block,
\* leaves its books in order; closing it or dropping it can only ask less of them.
LEMMA BooksUntouched ==
    ASSUME NEW s \in Subscribers, Books(s),
           UNCHANGED <<buffer_[s], lagged_[s], last[s], published>>,
           Owed(s)' = Owed(s),
           Subscribed(s)' => Subscribed(s),
           alive'[s] /\ ~closed_'[s] => alive[s] /\ ~closed_[s]
    PROVE  Books(s)'
  BY DEF Books

\* Every step keeps the books balanced.
LEMMA NextLagExact == IInv /\ [Next]_vars => LagExact'
<1> SUFFICES ASSUME IInv, [Next]_vars, NEW x \in Subscribers
             PROVE  Books(x)'
  BY DEF LagExact, Books, Consecutive
<1>b. Books(x)
  BY DEF IInv, LagExact, Books, Consecutive
<1> USE DEF IInv, TypeOK, Task, PC, ListOK, subscription, client
<1>1. ASSUME Publish
      PROVE  Books(x)'
  <2>1. Owed(x) = 0 /\ published' = published + 1
    BY <1>1 DEF Publish, Owed
  <2>2. alive[x] => Owed(x)' = 1
    BY <1>1 DEF Publish, Owed
  <2> QED
    BY <1>1, <1>b, <2>1, <2>2 DEF Publish, Books, Subscribed
<1>2. ASSUME CloseAll
      PROVE  Books(x)'
  <2>1. Owed(x)' = Owed(x)
    BY <1>2 DEF CloseAll, Owed
  <2> QED
    BY <1>2, <1>b, <2>1, BooksUntouched DEF CloseAll, Subscribed
<1>3. ASSUME Finish
      PROVE  Books(x)'
  <2>1. Owed(x)' = Owed(x)
    BY <1>3 DEF Finish, Owed, Idle
  <2> QED
    BY <1>3, <1>b, <2>1, BooksUntouched DEF Finish, Subscribed
<1>4. ASSUME NEW s \in Subscribers, SkipExpired(s)
      PROVE  Books(x)'
  <2>1. CASE x = s
    BY <1>4, <1>b, <2>1 DEF SkipExpired, Books, Subscribed
  <2>2. CASE x # s
    <3>1. Owed(x)' = Owed(x)
      BY <1>4, <2>2 DEF SkipExpired, Advance, Owed
    <3> QED
      BY <1>4, <1>b, <3>1, BooksUntouched DEF SkipExpired, Subscribed
  <2> QED
    BY <2>1, <2>2
<1>5. ASSUME NEW s \in Subscribers, PushToClosed(s)
      PROVE  Books(x)'
  <2>1. CASE x = s
    BY <1>5, <1>b, <2>1 DEF PushToClosed, Books, Subscribed
  <2>2. CASE x # s
    <3>1. Owed(x)' = Owed(x)
      BY <1>5, <2>2 DEF PushToClosed, Advance, Owed
    <3> QED
      BY <1>5, <1>b, <3>1, BooksUntouched DEF PushToClosed, Subscribed
  <2> QED
    BY <2>1, <2>2
<1>6. ASSUME NEW s \in Subscribers, Push(s)
      PROVE  Books(x)'
  <2>1. CASE x = s
    <3>1. Owed(s) = 1 /\ Owed(s)' = 0
      BY <1>6 DEF Push, At, Advance, Owed
    <3>2. /\ alive[s] /\ ~closed_[s] /\ Subscribed(s)
          /\ UNCHANGED <<last, published>>
          /\ lagged_'[s] = Lag(s)
          /\ buffer_'[s] = Append(DropOldest(s), published)
      BY <1>6 DEF Push, MayPush, Subscribed
    <3>3. last[s] + lagged_[s] + Len(buffer_[s]) + 1 = published
      BY <1>b, <2>1, <3>1, <3>2 DEF Books
    <3>4. /\ buffer_[s] \in Seq(Nat)
          /\ last[s] \in Nat /\ lagged_[s] \in Nat /\ published \in Nat
          /\ Consecutive(buffer_[s], last[s] + lagged_[s])
      BY <1>b, <2>1, <3>2 DEF Books
    <3>5. /\ DropOldest(s) \in Seq(Nat)
          /\ Lag(s) \in Nat
          /\ last[s] + Lag(s) + Len(DropOldest(s)) + 1 = published
          /\ Consecutive(DropOldest(s), last[s] + Lag(s))
      <4>1. CASE Full(s)
        <5>1. buffer_[s] # <<>>
          BY <4>1, BroadcastAssumption DEF Full
        <5>2. DropOldest(s) = Tail(buffer_[s]) /\ Lag(s) = lagged_[s] + 1
          BY <4>1 DEF DropOldest, Lag
        <5>3. /\ lagged_[s] + 1 \in Nat
              /\ Tail(buffer_[s]) \in Seq(Nat)
              /\ last[s] + (lagged_[s] + 1) + Len(Tail(buffer_[s]))
                    = last[s] + lagged_[s] + Len(buffer_[s])
              /\ Consecutive(Tail(buffer_[s]), last[s] + (lagged_[s] + 1))
          BY <3>4, <5>1, DropConsecutive, Zenon
        <5> QED
          BY <3>3, <5>2, <5>3, Zenon
      <4>2. CASE ~Full(s)
        BY <3>3, <3>4, <4>2 DEF DropOldest, Lag
      <4> QED
        BY <4>1, <4>2
    <3> HIDE DEF DropOldest, Lag, TypeOK, ListOK, IInv, Task, PC
    <3>6. /\ Len(Append(DropOldest(s), published)) = Len(DropOldest(s)) + 1
          /\ Consecutive(Append(DropOldest(s), published), last[s] + Lag(s))
      <4>1. /\ last[s] + Lag(s) \in Nat
            /\ Len(DropOldest(s)) \in Nat
            /\ published = (last[s] + Lag(s)) + Len(DropOldest(s)) + 1
        BY <3>4, <3>5
      <4> QED
        BY <4>1, <3>4, <3>5, AppendConsecutive
    <3>7. last[s] + Lag(s) + Len(Append(DropOldest(s), published)) + 0 = published
      BY <3>4, <3>5, <3>6
    <3> QED
      BY <2>1, <3>1, <3>2, <3>6, <3>7 DEF Books
  <2>2. CASE x # s
    <3>1. Owed(x)' = Owed(x)
      BY <1>6, <2>2 DEF Push, Advance, Owed
    <3> QED
      BY <1>6, <1>b, <2>2, <3>1, BooksUntouched DEF Push, Subscribed
  <2> QED
    BY <2>1, <2>2
<1>7. ASSUME NEW s \in Subscribers, CloseNext(s)
      PROVE  Books(x)'
  <2>1. Owed(x)' = Owed(x)
    BY <1>7 DEF CloseNext, At, Advance, Owed
  <2> QED
    BY <1>7, <1>b, <2>1, BooksUntouched DEF CloseNext, Subscribed
<1>8. ASSUME NEW s \in Subscribers, Notify(s)
      PROVE  Books(x)'
  <2>1. Owed(x)' = Owed(x)
    BY <1>8 DEF Notify, Owed
  <2> QED
    BY <1>8, <1>b, <2>1, BooksUntouched DEF Notify, Wake, Subscribed
<1>9. ASSUME NEW s \in Subscribers, Subscribe(s)
      PROVE  Books(x)'
  <2>1. Owed(x)' = Owed(x) /\ Owed(x) = 0
    BY <1>9 DEF Subscribe, Owed
  <2>2. CASE x = s
    <3>1. /\ buffer_'[s] = <<>> /\ lagged_'[s] = 0
          /\ last'[s] = published /\ published' = published
          /\ published \in Nat
      BY <1>9 DEF Subscribe
    <3>2. Consecutive(<<>>, published + 0)
      BY DEF Consecutive
    <3> QED
      BY <2>1, <2>2, <3>1, <3>2 DEF Books
  <2>3. CASE x # s
    BY <1>9, <1>b, <2>1, <2>3, BooksUntouched DEF Subscribe, Subscribed
  <2> QED
    BY <2>2, <2>3
<1>10. ASSUME NEW s \in Subscribers, Close(s) \/ CloseNotify(s)
       PROVE  Books(x)'
  <2>1. Owed(x)' = Owed(x)
    BY <1>10 DEF Close, CloseNotify, Owed
  <2>2. CASE Close(s)
    BY <2>2, <1>b, <2>1, BooksUntouched DEF Close, Subscribed
  <2>3. CASE CloseNotify(s)
    BY <2>3, <1>b, <2>1, BooksUntouched DEF CloseNotify, Wake, Subscribed
  <2> QED
    BY <1>10, <2>2, <2>3
<1>11. ASSUME NEW s \in Subscribers, Leave(s) \/ Drop(s)
       PROVE  Books(x)'
  <2>1. Owed(x)' = Owed(x)
    BY <1>11 DEF Leave, Drop, Owed
  <2>2. CASE Leave(s)
    BY <2>2, <1>b, <2>1, BooksUntouched DEF Leave, Subscribed
  <2>3. CASE Drop(s)
    BY <2>3, <1>b, <2>1, BooksUntouched DEF Drop, Subscribed
  <2> QED
    BY <1>11, <2>2, <2>3
<1>12. ASSUME NEW s \in Subscribers, NextItem(s)
       PROVE  Books(x)'
  <2>1. Owed(x)' = Owed(x)
    BY <1>12 DEF NextItem, Owed
  <2>2. CASE x = s
    <3>1. Subscribed(s) /\ buffer_[s] # <<>>
      BY <1>12 DEF NextItem, Subscribed
    <3>2. /\ last[s] \in Nat /\ lagged_[s] \in Nat /\ buffer_[s] \in Seq(Nat)
          /\ Consecutive(buffer_[s], last[s] + lagged_[s])
          /\ last[s] + lagged_[s] \in Nat
      BY <1>b, <2>2, <3>1 DEF Books
    <3>3. /\ Head(buffer_[s]) = last[s] + lagged_[s] + 1
          /\ last[s] + lagged_[s] + 1 + Len(Tail(buffer_[s]))
                = last[s] + lagged_[s] + Len(buffer_[s])
          /\ Consecutive(Tail(buffer_[s]), last[s] + lagged_[s] + 1)
      BY <3>1, <3>2, TailConsecutive, Zenon
    <3>4. /\ buffer_'[s] = Tail(buffer_[s])
          /\ last'[s] = Head(buffer_[s]) /\ lagged_'[s] = 0
          /\ UNCHANGED <<published, alive, closed_>>
      BY <1>12 DEF NextItem
    <3>5. last[s] + lagged_[s] + 1 + 0 = last[s] + lagged_[s] + 1
      BY <3>2
    <3>6. Consecutive(buffer_'[s], last'[s] + lagged_'[s])
      BY <3>3, <3>4, <3>5, Zenon
    <3>7. ASSUME alive'[s], ~closed_'[s]
          PROVE  last'[s] + lagged_'[s] + Len(buffer_'[s]) + Owed(s)' = published'
      <4>1. last[s] + lagged_[s] + Len(buffer_[s]) + Owed(s) = published
        BY <1>b, <2>2, <3>1, <3>4, <3>7 DEF Books
      <4>2. Owed(s)' = Owed(s)
        BY <2>1, <2>2
      <4>3. last'[s] + lagged_'[s] + Len(buffer_'[s])
               = last[s] + lagged_[s] + Len(buffer_[s])
        BY <3>3, <3>4, <3>5, Zenon
      <4> QED
        BY <3>4, <4>1, <4>2, <4>3, Zenon
    <3> QED
      BY <2>2, <3>6, <3>7 DEF Books
  <2>3. CASE x # s
    BY <1>12, <1>b, <2>1, <2>3, BooksUntouched DEF NextItem, Subscribed
  <2> QED
    BY <2>2, <2>3
<1>13. ASSUME NEW s \in Subscribers,
              CallNext(s) \/ NextWait(s) \/ NextEnd(s) \/ SpuriousWake(s)
       PROVE  Books(x)'
  <2>1. Owed(x)' = Owed(x)
    BY <1>13 DEF CallNext, NextWait, NextEnd, SpuriousWake, Owed
  <2>2. Subscribed(x)' => Subscribed(x)
    BY <1>13 DEF CallNext, NextWait, NextEnd, SpuriousWake, Wake, Subscribed
  <2>3. UNCHANGED <<buffer_, lagged_, closed_, last, published, alive>>
    BY <1>13 DEF CallNext, NextWait, NextEnd, SpuriousWake
  <2> QED
    BY <1>b, <2>1, <2>2, <2>3, BooksUntouched
<1>14. ASSUME UNCHANGED vars
       PROVE  Books(x)'
  BY <1>14, <1>b DEF vars, Books, Subscribed, Owed
<1> QED
  BY <1>1, <1>2, <1>3, <1>4, <1>5, <1>6, <1>7, <1>8, <1>9, <1>10, <1>11, <1>12,
     <1>13, <1>14 DEF Next, TaskStep, ConnectionStep, PumpStep

\* All parts of the invariant together.
LEMMA NextIInv == IInv /\ [Next]_vars => IInv'
  BY NextTypeOK, NextListOK, NextLagExact DEF IInv

-----------------------------------------------------------------------------
(* Theorems *)

\* Every field keeps its type, and no subscription buffers more than its capacity.
THEOREM TypeCorrect == SafeSpec => []TypeOK
<1>1. IInv => TypeOK
  BY DEF IInv
<1> QED
  BY <1>1, InitIInv, NextIInv, PTL DEF SafeSpec

\* Whatever a client's pace, what it has been told of, what is counted as dropped for
\* it and what is buffered for it are consecutive blocks up to the newest.
THEOREM BooksBalance == SafeSpec => []LagExact
<1>1. IInv => LagExact
  BY DEF IInv
<1> QED
  BY <1>1, InitIInv, NextIInv, PTL DEF SafeSpec

\* A delivery announces what was missed before it.
LEMMA StepAnnouncesGap ==
    IInv /\ [Next]_vars =>
        \A s \in Subscribers : item'[s] # item[s] =>
            item'[s].block = last[s] + item'[s].lagged + 1
<1> SUFFICES ASSUME IInv, [Next]_vars, NEW x \in Subscribers, item'[x] # item[x]
             PROVE  item'[x].block = last[x] + item'[x].lagged + 1
  OBVIOUS
<1>1. PICK s \in Subscribers : NextItem(s)
  BY DEF Next, TaskStep, ConnectionStep, PumpStep, vars, client, Publish, CloseAll,
         Finish, SkipExpired, PushToClosed, Push, CloseNext, Notify, Subscribe, Close,
         CloseNotify, Leave, Drop, CallNext, NextWait, NextEnd, SpuriousWake
<1>2. s = x
  BY <1>1 DEF NextItem, IInv, TypeOK
<1>3. /\ buffer_[x] # <<>> /\ buffer_[x] \in Seq(Nat)
      /\ last[x] + lagged_[x] \in Nat
      /\ Consecutive(buffer_[x], last[x] + lagged_[x])
  <2>1. Books(x)
    BY DEF IInv, LagExact, Books, Consecutive
  <2> QED
    BY <1>1, <1>2, <2>1 DEF NextItem, Subscribed, IInv, TypeOK, Books
<1>4. Head(buffer_[x]) = last[x] + lagged_[x] + 1
  BY <1>3, TailConsecutive
<1>5. item'[x] = [block |-> Head(buffer_[x]), lagged |-> lagged_[x]]
  BY <1>1, <1>2 DEF NextItem, IInv, TypeOK
<1> QED
  BY <1>4, <1>5

\* No client is handed a block without being told, with it, of every block it missed
\* since the one before.
THEOREM GapsAnnounced == SafeSpec => GapAnnounced
<1>1. IInv /\ [Next]_vars =>
         [\A s \in Subscribers : item'[s] # item[s] =>
             item'[s].block = last[s] + item'[s].lagged + 1]_vars
  BY StepAnnouncesGap
<1> QED
  BY <1>1, InitIInv, NextIInv, PTL DEF SafeSpec, GapAnnounced

\* At first nobody sleeps.
LEMMA InitNoLostWakeup == Init => NoLostWakeup
  BY DEF Init, NoLostWakeup

\* No step leaves a sleeper without a wakeup on its way.
LEMMA NextNoLostWakeup == IInv /\ NoLostWakeup /\ [Next]_vars => NoLostWakeup'
<1> SUFFICES ASSUME IInv, NoLostWakeup, [Next]_vars, NEW x \in Subscribers,
                    pc'[x] = "waiting", buffer_'[x] # <<>> \/ closed_'[x]
             PROVE  task'.wake = x \/ x \in closing'
  BY DEF NoLostWakeup
<1> USE DEF IInv, TypeOK, Task, PC, NoLostWakeup, subscription, client
<1>1. CASE Publish
  BY <1>1, BroadcastAssumption DEF Publish, ListOK
<1>2. CASE CloseAll
  BY <1>2, BroadcastAssumption DEF CloseAll, ListOK
<1>3. CASE Finish
  BY <1>3, BroadcastAssumption DEF Finish
<1>4. ASSUME NEW s \in Subscribers, SkipExpired(s)
      PROVE  task'.wake = x \/ x \in closing'
  BY <1>4, BroadcastAssumption DEF SkipExpired, At
<1>5. ASSUME NEW s \in Subscribers, PushToClosed(s)
      PROVE  task'.wake = x \/ x \in closing'
  BY <1>5, BroadcastAssumption DEF PushToClosed, At
<1>6. ASSUME NEW s \in Subscribers, Push(s)
      PROVE  task'.wake = x \/ x \in closing'
  BY <1>6, BroadcastAssumption DEF Push, At, Advance
<1>7. ASSUME NEW s \in Subscribers, CloseNext(s)
      PROVE  task'.wake = x \/ x \in closing'
  BY <1>7, BroadcastAssumption DEF CloseNext, At, Advance
<1>8. ASSUME NEW s \in Subscribers, Notify(s)
      PROVE  task'.wake = x \/ x \in closing'
  BY <1>8 DEF Notify, Wake
<1>9. ASSUME NEW s \in Subscribers, Subscribe(s) \/ Leave(s) \/ Drop(s)
      PROVE  task'.wake = x \/ x \in closing'
  BY <1>9 DEF Subscribe, Leave, Drop
<1>10. ASSUME NEW s \in Subscribers, Close(s)
       PROVE  task'.wake = x \/ x \in closing'
  BY <1>10 DEF Close
<1>11. ASSUME NEW s \in Subscribers, CloseNotify(s)
       PROVE  task'.wake = x \/ x \in closing'
  BY <1>11 DEF CloseNotify, Wake
<1>12. ASSUME NEW s \in Subscribers, PumpStep(s)
       PROVE  task'.wake = x \/ x \in closing'
  BY <1>12 DEF PumpStep, CallNext, NextWait, NextItem, NextEnd
<1>13. ASSUME NEW s \in Subscribers, SpuriousWake(s)
       PROVE  task'.wake = x \/ x \in closing'
  BY <1>13 DEF SpuriousWake, Wake
<1>14. CASE UNCHANGED vars
  BY <1>14 DEF vars
<1> QED
  BY <1>1, <1>2, <1>3, <1>4, <1>5, <1>6, <1>7, <1>8, <1>9, <1>10, <1>11, <1>12,
     <1>13, <1>14 DEF Next, TaskStep, ConnectionStep

\* A pump that sleeps while there is a block for it, or an end, is about to be woken.
THEOREM WakeupsCorrect == SafeSpec => []NoLostWakeup
<1>1. Init => NoLostWakeup
  BY InitNoLostWakeup
<1>2. IInv /\ NoLostWakeup /\ [Next]_vars => NoLostWakeup'
  BY NextNoLostWakeup
<1> QED
  BY <1>1, <1>2, InitIInv, NextIInv, PTL DEF SafeSpec
-----------------------------------------------------------------------------
(* What a client may rely on: the Broadcaster implements Subscriptions.      *)

\* Nobody holds a block before the first was handed to it.
NoneAtFirst == \A s \in Subscribers : pc[s] = "new" => item[s] = NoItem

LEMMA NoneAtFirstStep == TypeOK /\ NoneAtFirst /\ [Next]_vars => NoneAtFirst'
<1> SUFFICES ASSUME TypeOK, NoneAtFirst, [Next]_vars, NEW x \in Subscribers, pc'[x] = "new"
             PROVE  pc[x] = "new" /\ item'[x] = item[x]
  BY DEF NoneAtFirst
<1> USE DEF TypeOK, client
<1>1. CASE Publish \/ CloseAll \/ Finish
  BY <1>1 DEF Publish, CloseAll, Finish
<1>2. ASSUME NEW s \in Subscribers, SkipExpired(s) \/ PushToClosed(s) \/ Push(s) \/ CloseNext(s)
      PROVE  pc[x] = "new" /\ item'[x] = item[x]
  BY <1>2 DEF SkipExpired, PushToClosed, Push, CloseNext
<1>3. ASSUME NEW s \in Subscribers, Notify(s) \/ CloseNotify(s) \/ SpuriousWake(s)
      PROVE  pc[x] = "new" /\ item'[x] = item[x]
  BY <1>3 DEF Notify, CloseNotify, SpuriousWake, Wake
<1>4. ASSUME NEW s \in Subscribers, Subscribe(s) \/ Leave(s)
      PROVE  pc[x] = "new" /\ item'[x] = item[x]
  BY <1>4 DEF Subscribe, Leave
<1>5. ASSUME NEW s \in Subscribers, Close(s) \/ Drop(s)
      PROVE  pc[x] = "new" /\ item'[x] = item[x]
  BY <1>5 DEF Close, Drop
<1>6. ASSUME NEW s \in Subscribers, CallNext(s) \/ NextWait(s) \/ NextEnd(s)
      PROVE  pc[x] = "new" /\ item'[x] = item[x]
  BY <1>6 DEF CallNext, NextWait, NextEnd
<1>7. ASSUME NEW s \in Subscribers, NextItem(s)
      PROVE  pc[x] = "new" /\ item'[x] = item[x]
  BY <1>7 DEF NextItem
<1>8. CASE UNCHANGED vars
  BY <1>8 DEF vars
<1> QED
  BY <1>1, <1>2, <1>3, <1>4, <1>5, <1>6, <1>7, <1>8 DEF Next, TaskStep, ConnectionStep, PumpStep

\* The Subscriptions as the INSTANCE has them.
Open == {s \in Subscribers : Subscribed(s) /\ ~closed_[s]}

Does == [s \in Subscribers |-> Doing(s)]

Got(s) == IF Doing(s) = "holding" THEN item[s] ELSE NoItem

Holds == [s \in Subscribers |-> Got(s)]

\* What a step shows of a client whose pump, item or Subscription it changes.
LEMMA OneClient ==
    ASSUME NEW s \in Subscribers,
           \A q \in Subscribers \ {s} :
              pc'[q] = pc[q] /\ item'[q] = item[q] /\ closed_'[q] = closed_[q]
    PROVE  /\ Does' = [Does EXCEPT ![s] = Doing(s)']
           /\ Holds' = [Holds EXCEPT ![s] = Got(s)']
           /\ (s \in Open') /\ s \notin Open => Open' = Open \cup {s}
           /\ (s \in Open' <=> s \in Open) => Open' = Open
<1>1. \A q \in Subscribers \ {s} : /\ Doing(q)' = Doing(q)
                                   /\ Got(q)' = Got(q)
                                   /\ q \in Open' <=> q \in Open
  BY DEF Doing, Got, Open, Subscribed
<1>2. Does' = [q \in Subscribers |-> IF q = s THEN Doing(s)' ELSE Does[q]]
  BY <1>1 DEF Does
<1>3. Holds' = [q \in Subscribers |-> IF q = s THEN Got(s)' ELSE Holds[q]]
  BY <1>1 DEF Holds
<1>4. Does' = [Does EXCEPT ![s] = Doing(s)']
  BY <1>2 DEF Does
<1>5. Holds' = [Holds EXCEPT ![s] = Got(s)']
  BY <1>3 DEF Holds
<1>6. Open \subseteq Subscribers /\ Open' \subseteq Subscribers
  BY DEF Open
<1>7. \A q : q # s => (q \in Open' <=> q \in Open)
  BY <1>1, <1>6
<1> QED
  BY <1>4, <1>5, <1>7

\* The steps of Subscriptions in these terms.
LEMMA SubscribeIs ==
    ASSUME NEW s \in Subscribers, Does[s] = "none", Does' = [Does EXCEPT ![s] = "asking"],
           Open' = Open \cup {s}, last'[s] \in Nat, last' = [last EXCEPT ![s] = last'[s]],
           UNCHANGED <<buffer_, lagged_, Holds>>
    PROVE  Subs!Next
<1>1. Subs!Subscribe(s)
  BY Zenon DEF Subs!Subscribe, Does, Open, Holds, Got
<1> QED
  BY <1>1, Zenon DEF Subs!Next

LEMMA TakeInIs ==
    ASSUME NEW s \in Subscribers, s \in Open, Len(buffer_[s]) < Capacity,
           buffer_' = [buffer_ EXCEPT ![s] = Append(@, last[s] + lagged_[s] + Len(buffer_[s]) + 1)],
           UNCHANGED <<last, lagged_, Open, Does, Holds>>
    PROVE  Subs!Next
<1>1. Subs!TakeIn(s)
  BY Zenon DEF Subs!TakeIn, Subs!Newest, Does, Open, Holds, Got
<1> QED
  BY <1>1, Zenon DEF Subs!Next

LEMMA LoseOldestIs ==
    ASSUME NEW s \in Subscribers, s \in Open, Len(buffer_[s]) = Capacity,
           buffer_' = [buffer_ EXCEPT
              ![s] = Append(Tail(@), last[s] + lagged_[s] + Len(buffer_[s]) + 1)],
           lagged_' = [lagged_ EXCEPT ![s] = @ + 1],
           UNCHANGED <<last, Open, Does, Holds>>
    PROVE  Subs!Next
<1>1. Subs!LoseOldest(s)
  BY Zenon DEF Subs!LoseOldest, Subs!Newest, Does, Open, Holds, Got
<1> QED
  BY <1>1, Zenon DEF Subs!Next

LEMMA HandOutIs ==
    ASSUME NEW s \in Subscribers, Does[s] = "asking", buffer_[s] # <<>>,
           Holds' = [Holds EXCEPT
              ![s] = [block |-> last[s] + lagged_[s] + 1, lagged |-> lagged_[s]]],
           last' = [last EXCEPT ![s] = @ + lagged_[s] + 1],
           buffer_' = [buffer_ EXCEPT ![s] = Tail(@)],
           lagged_' = [lagged_ EXCEPT ![s] = 0],
           Does' = [Does EXCEPT ![s] = "holding"], Open' = Open
    PROVE  Subs!Next
<1>1. Subs!HandOut(s)
  BY Zenon DEF Subs!HandOut, Does, Open, Holds, Got
<1> QED
  BY <1>1, Zenon DEF Subs!Next

LEMMA AskAgainIs ==
    ASSUME NEW s \in Subscribers, Does[s] = "holding", Does' = [Does EXCEPT ![s] = "asking"],
           Holds' = [Holds EXCEPT ![s] = NoItem], UNCHANGED <<last, buffer_, lagged_, Open>>
    PROVE  Subs!Next
<1>1. Subs!AskAgain(s)
  BY Zenon DEF Subs!AskAgain, Does, Open, Holds, Got
<1> QED
  BY <1>1, Zenon DEF Subs!Next

LEMMA GiveUpIs ==
    ASSUME NEW s \in Subscribers, Does[s] = "holding", Does' = [Does EXCEPT ![s] = "gone"],
           Holds' = [Holds EXCEPT ![s] = NoItem], UNCHANGED <<last, buffer_, lagged_, Open>>
    PROVE  Subs!Next
<1>1. Subs!GiveUp(s)
  BY Zenon DEF Subs!GiveUp, Does, Open, Holds, Got
<1> QED
  BY <1>1, Zenon DEF Subs!Next

LEMMA CloseIs ==
    ASSUME NEW s \in Subscribers, Open' = Open \ {s},
           UNCHANGED <<last, buffer_, lagged_, Does, Holds>>
    PROVE  Subs!Next
<1>1. Subs!Close(s)
  BY Zenon DEF Subs!Close, Does, Open, Holds, Got
<1> QED
  BY <1>1, Zenon DEF Subs!Next

LEMMA ReportEndIs ==
    ASSUME NEW s \in Subscribers, Does[s] = "asking", s \notin Open, buffer_[s] = <<>>,
           Does' = [Does EXCEPT ![s] = "gone"],
           UNCHANGED <<last, buffer_, lagged_, Open, Holds>>
    PROVE  Subs!Next
<1>1. Subs!ReportEnd(s)
  BY Zenon DEF Subs!ReportEnd, Does, Open, Holds, Got
<1> QED
  BY <1>1, Zenon DEF Subs!Next

Unseen == UNCHANGED <<last, buffer_, lagged_, Open, Does, Holds>>

\* A step that no client can tell: the pump may only move inside next().
LEMMA NotSeen ==
    ASSUME UNCHANGED <<last, buffer_, lagged_, closed_, item>>,
           \A s \in Subscribers : pc'[s] = pc[s] \/ {pc[s], pc'[s]} \subseteq {"lock", "waiting"}
    PROVE  Unseen
<1>1. \A s \in Subscribers : /\ Doing(s)' = Doing(s)
                             /\ Subscribed(s)' <=> Subscribed(s)
  BY DEF Doing, Subscribed
<1>2. \A s \in Subscribers : Got(s)' = Got(s)
  BY <1>1 DEF Got
<1> QED
  BY <1>1, <1>2 DEF Unseen, Open, Does, Holds

\* The next block published goes to the end of an open Subscription.
LEMMA PushSeen ==
    ASSUME IInv, NEW s \in Subscribers, Push(s)
    PROVE  Subs!Next
<1> USE DEF IInv, TypeOK
<1>1. /\ alive[s] /\ ~closed_[s] /\ Subscribed(s)
      /\ UNCHANGED <<last, closed_, item, pc>>
  BY DEF Push, MayPush, ListOK, Subscribed, client
<1>2. s \in Open /\ UNCHANGED <<Open, Does, Holds>>
  BY <1>1 DEF Open, Does, Holds, Got, Doing, Subscribed
<1>3. Owed(s) = 1
  BY DEF Push, At, Owed
<1>4. /\ buffer_[s] \in Seq(Nat) /\ Len(buffer_[s]) \in Nat /\ Len(buffer_[s]) <= Capacity
      /\ last[s] \in Nat /\ lagged_[s] \in Nat /\ published \in Nat /\ Capacity \in Nat
  BY BroadcastAssumption
<1>5. published = last[s] + lagged_[s] + Len(buffer_[s]) + 1
  BY <1>1, <1>3, <1>4 DEF LagExact
<1>6. /\ buffer_' = [buffer_ EXCEPT ![s] = Append(DropOldest(s), published)]
      /\ lagged_' = [lagged_ EXCEPT ![s] = Lag(s)]
  BY DEF Push
<1>7. CASE Full(s)
  <2>1. Len(buffer_[s]) = Capacity
    BY <1>4, <1>7 DEF Full
  <2>2. buffer_' = [buffer_ EXCEPT ![s] = Append(Tail(@), last[s] + lagged_[s] + Len(buffer_[s]) + 1)]
    BY <1>5, <1>6, <1>7, Zenon DEF DropOldest
  <2>3. lagged_' = [lagged_ EXCEPT ![s] = @ + 1]
    BY <1>6, <1>7, Zenon DEF Lag
  <2> QED
    BY <1>1, <1>2, <2>1, <2>2, <2>3, LoseOldestIs
<1>8. CASE ~Full(s)
  <2>1. Len(buffer_[s]) < Capacity
    BY <1>4, <1>8 DEF Full
  <2>2. buffer_' = [buffer_ EXCEPT ![s] = Append(@, last[s] + lagged_[s] + Len(buffer_[s]) + 1)]
    BY <1>5, <1>6, <1>8, Zenon DEF DropOldest
  <2>3. lagged_' = [lagged_ EXCEPT ![s] = @]
    BY <1>6, <1>8, Zenon DEF Lag
  <2>4. lagged_' = lagged_
    BY <2>3
  <2> QED
    BY <1>1, <1>2, <2>1, <2>2, <2>4, TakeInIs
<1> QED
  BY <1>7, <1>8

\* The pump is handed the oldest block there is.
LEMMA NextItemSeen ==
    ASSUME IInv, NEW s \in Subscribers, NextItem(s)
    PROVE  Subs!Next
<1> USE DEF IInv, TypeOK
<1>1. /\ pc[s] = "lock" /\ buffer_[s] # <<>> /\ UNCHANGED closed_
      /\ pc' = [pc EXCEPT ![s] = "idle"]
      /\ item' = [item EXCEPT ![s] = [block |-> Head(buffer_[s]), lagged |-> lagged_[s]]]
      /\ last' = [last EXCEPT ![s] = Head(buffer_[s])]
      /\ buffer_' = [buffer_ EXCEPT ![s] = Tail(@)]
      /\ lagged_' = [lagged_ EXCEPT ![s] = 0]
  BY DEF NextItem
<1>2. last[s] \in Nat /\ lagged_[s] \in Nat /\ buffer_[s] \in Seq(Nat)
  OBVIOUS
<1>3. Head(buffer_[s]) = last[s] + lagged_[s] + 1
  <2>1. \A i \in DOMAIN buffer_[s] : buffer_[s][i] = last[s] + lagged_[s] + i
    BY <1>1 DEF LagExact, Subscribed
  <2>2. 1 \in DOMAIN buffer_[s] /\ Head(buffer_[s]) = buffer_[s][1]
    BY <1>1, <1>2
  <2> QED
    BY <2>1, <2>2
<1>4. last' = [last EXCEPT ![s] = @ + lagged_[s] + 1]
  BY <1>1, <1>3
<1> DEFINE new == [block |-> last[s] + lagged_[s] + 1, lagged |-> lagged_[s]]
<1>5. item'[s] = new /\ new # NoItem
  <2>1. new.block # NoItem.block
    BY <1>2 DEF NoItem
  <2>2. item' = [item EXCEPT ![s] = new]
    BY <1>1, <1>3
  <2> QED
    BY <2>1, <2>2
<1> HIDE DEF new
<1>6. pc'[s] = "idle"
  BY <1>1
<1>7. Doing(s) = "asking" /\ Doing(s)' = "holding" /\ Got(s)' = new
  BY <1>1, <1>5, <1>6 DEF Doing, Got
<1>8. /\ Does' = [Does EXCEPT ![s] = "holding"]
      /\ Holds' = [Holds EXCEPT ![s] = new]
      /\ Open' = Open
  <2>1. \A q \in Subscribers \ {s} :
           pc'[q] = pc[q] /\ item'[q] = item[q] /\ closed_'[q] = closed_[q]
    BY <1>1
  <2>2. s \in Open' <=> s \in Open
    BY <1>1, <1>6 DEF Open, Subscribed
  <2>3. Does' = [Does EXCEPT ![s] = Doing(s)'] /\ Holds' = [Holds EXCEPT ![s] = Got(s)']
    BY <2>1, OneClient
  <2>4. Open' = Open
    BY <2>1, <2>2, OneClient
  <2> QED
    BY <1>7, <2>3, <2>4
<1>9. Does[s] = "asking"
  BY <1>7 DEF Does
<1> QED
  BY <1>1, <1>4, <1>8, <1>9, HandOutIs DEF new

\* Every step of the feed is one of its clients' Subscriptions, or none.
LEMMA SubscriptionsStep ==
    ASSUME IInv, NoneAtFirst, [Next]_vars
    PROVE  Subs!Next \/ Unseen
<1> USE DEF IInv, TypeOK
<1>1. CASE Publish \/ CloseAll \/ Finish \/ UNCHANGED vars
  BY <1>1, NotSeen DEF Publish, CloseAll, Finish, vars, subscription, client
<1>2. ASSUME NEW s \in Subscribers, SkipExpired(s) \/ PushToClosed(s) \/ Drop(s)
      PROVE  Unseen
  BY <1>2, NotSeen DEF SkipExpired, PushToClosed, Drop, subscription, client
<1>3. ASSUME NEW s \in Subscribers, Notify(s) \/ CloseNotify(s) \/ SpuriousWake(s)
      PROVE  Unseen
  <2>1. Wake(s) /\ UNCHANGED <<last, buffer_, lagged_, closed_, item>>
    BY <1>3 DEF Notify, CloseNotify, SpuriousWake, subscription
  <2>2. \A q \in Subscribers : pc'[q] = pc[q] \/ {pc[q], pc'[q]} \subseteq {"lock", "waiting"}
    BY <2>1 DEF Wake
  <2> QED
    BY <2>1, <2>2, NotSeen
<1>4. ASSUME NEW s \in Subscribers, NextWait(s)
      PROVE  Unseen
  BY <1>4, NotSeen DEF NextWait, subscription
<1>5. ASSUME NEW s \in Subscribers, Push(s)
      PROVE  Subs!Next
  BY <1>5, PushSeen
<1>6. ASSUME NEW s \in Subscribers, NextItem(s)
      PROVE  Subs!Next
  BY <1>6, NextItemSeen
<1>7. ASSUME NEW s \in Subscribers, Close(s) \/ CloseNext(s)
      PROVE  Subs!Next
  <2>1. /\ closed_' = [closed_ EXCEPT ![s] = TRUE]
        /\ UNCHANGED <<last, buffer_, lagged_, item, pc>>
    BY <1>7 DEF Close, CloseNext, client
  <2>2. Open' = Open \ {s}
    BY <2>1 DEF Open, Subscribed
  <2>3. UNCHANGED <<Does, Holds>>
    BY <2>1 DEF Does, Holds, Got, Doing
  <2> QED
    BY <2>1, <2>2, <2>3, CloseIs
<1>8. ASSUME NEW s \in Subscribers, Subscribe(s)
      PROVE  Subs!Next
  <2>1. /\ pc[s] = "new" /\ pc' = [pc EXCEPT ![s] = "idle"]
        /\ last' = [last EXCEPT ![s] = published]
        /\ UNCHANGED <<buffer_, lagged_, closed_, item>>
    BY <1>8 DEF Subscribe, subscription
  <2>2. item[s] = NoItem /\ ~closed_[s]
    BY <2>1 DEF NoneAtFirst, ListOK
  <2>3. \A q \in Subscribers \ {s} :
           pc'[q] = pc[q] /\ item'[q] = item[q] /\ closed_'[q] = closed_[q]
    BY <2>1
  <2>4. pc'[s] = "idle" /\ last'[s] = published /\ published \in Nat
    BY <2>1, BroadcastAssumption
  <2>5. /\ Doing(s) = "none" /\ Doing(s)' = "asking" /\ Got(s) = NoItem /\ Got(s)' = NoItem
        /\ (s \in Open') /\ s \notin Open
    BY <2>1, <2>2, <2>4 DEF Doing, Got, Open, Subscribed
  <2>6. /\ Does' = [Does EXCEPT ![s] = "asking"]
        /\ Holds' = [Holds EXCEPT ![s] = NoItem]
        /\ Open' = Open \cup {s}
    BY <2>3, <2>5, OneClient
  <2>7. Does[s] = "none" /\ Holds' = Holds
    BY <2>5, <2>6 DEF Does, Holds
  <2>8. last' = [last EXCEPT ![s] = last'[s]]
    BY <2>1, <2>4
  <2> QED
    BY <2>1, <2>4, <2>6, <2>7, <2>8, SubscribeIs
<1>9. ASSUME NEW s \in Subscribers, CallNext(s)
      PROVE  Subs!Next \/ Unseen
  <2>1. /\ pc[s] = "idle" /\ pc' = [pc EXCEPT ![s] = "lock"]
        /\ UNCHANGED <<last, buffer_, lagged_, closed_, item>>
    BY <1>9 DEF CallNext, subscription
  <2>2. pc'[s] = "lock" /\ \A q \in Subscribers \ {s} :
           pc'[q] = pc[q] /\ item'[q] = item[q] /\ closed_'[q] = closed_[q]
    BY <2>1
  <2>3. Doing(s)' = "asking" /\ Got(s)' = NoItem /\ (s \in Open' <=> s \in Open)
    BY <2>1, <2>2 DEF Doing, Got, Open, Subscribed
  <2>4. Does' = [Does EXCEPT ![s] = "asking"] /\ Holds' = [Holds EXCEPT ![s] = NoItem]
    BY <2>2, <2>3, OneClient
  <2>5. Open' = Open
    BY <2>2, <2>3, OneClient
  <2>6. CASE item[s] # NoItem
    <3>1. Does[s] = "holding"
      BY <2>1, <2>6 DEF Does, Doing
    <3> QED
      BY <2>1, <2>4, <2>5, <3>1, AskAgainIs
  <2>7. CASE item[s] = NoItem
    <3>1. Doing(s) = "asking" /\ Got(s) = NoItem
      BY <2>1, <2>7 DEF Doing, Got
    <3>2. Does' = Does /\ Holds' = Holds
      BY <2>4, <3>1 DEF Does, Holds
    <3> QED
      BY <2>1, <2>5, <3>2 DEF Unseen
  <2> QED
    BY <2>6, <2>7
<1>10. ASSUME NEW s \in Subscribers, Leave(s) \/ NextEnd(s)
       PROVE  Subs!Next
  <2>1. /\ pc' = [pc EXCEPT ![s] = "done"]
        /\ UNCHANGED <<last, buffer_, lagged_, closed_, item>>
        /\ \/ pc[s] = "idle" /\ item[s] # NoItem
           \/ pc[s] = "lock" /\ closed_[s] /\ buffer_[s] = <<>>
    BY <1>10 DEF Leave, NextEnd, subscription
  <2>2. pc'[s] = "done" /\ \A q \in Subscribers \ {s} :
           pc'[q] = pc[q] /\ item'[q] = item[q] /\ closed_'[q] = closed_[q]
    BY <2>1
  <2>3. Doing(s)' = "gone" /\ Got(s)' = NoItem /\ (s \in Open' <=> s \in Open)
    BY <2>1, <2>2 DEF Doing, Got, Open, Subscribed
  <2>4. Does' = [Does EXCEPT ![s] = "gone"] /\ Holds' = [Holds EXCEPT ![s] = NoItem]
    BY <2>2, <2>3, OneClient
  <2>5. Open' = Open
    BY <2>2, <2>3, OneClient
  <2>6. CASE pc[s] = "idle" /\ item[s] # NoItem
    <3>1. Does[s] = "holding"
      BY <2>6 DEF Does, Doing
    <3> QED
      BY <2>1, <2>4, <2>5, <3>1, GiveUpIs
  <2>7. CASE pc[s] = "lock" /\ closed_[s] /\ buffer_[s] = <<>>
    <3>1. Doing(s) = "asking" /\ Got(s) = NoItem /\ s \notin Open
      BY <2>7 DEF Doing, Got, Open
    <3>2. Does[s] = "asking" /\ Holds' = Holds
      BY <2>4, <3>1 DEF Does, Holds
    <3> QED
      BY <2>1, <2>4, <2>5, <2>7, <3>1, <3>2, ReportEndIs
  <2> QED
    BY <2>1, <2>6, <2>7
<1> QED
  BY <1>1, <1>2, <1>3, <1>4, <1>5, <1>6, <1>7, <1>8, <1>9, <1>10
  DEF Next, TaskStep, ConnectionStep, PumpStep

\* The loop over weak pointers, the two levels of locks and the pumps amount, for each
\* client, to a Subscription of its own: a queue that takes in every block published from
\* the subscription on, loses only its oldest, tells how many with the block that follows,
\* takes in nothing once it is closed, and ends only when it is drained.
THEOREM FeedImplementsSubscriptions == SafeSpec => ImplementsSubscriptions
<1>1. Init => NoneAtFirst
  BY DEF Init, NoneAtFirst
<1>2. IInv /\ NoneAtFirst /\ [Next]_vars => NoneAtFirst'
  BY NoneAtFirstStep DEF IInv
<1>3. Init => Subs!Init
  <2> SUFFICES ASSUME Init PROVE Subs!Init
    OBVIOUS
  <2>1. \A s \in Subscribers : pc[s] = "new" /\ ~Subscribed(s) /\ Doing(s) = "none"
    BY DEF Init, Subscribed, Doing
  <2>2. Open = {} /\ Does = [s \in Subscribers |-> "none"]
        /\ Holds = [s \in Subscribers |-> NoItem]
    BY <2>1 DEF Open, Does, Holds, Got
  <2>3. /\ last = [s \in Subscribers |-> 0] /\ buffer_ = [s \in Subscribers |-> <<>>]
        /\ lagged_ = [s \in Subscribers |-> 0]
    BY DEF Init
  <2> QED
    BY <2>2, <2>3, Zenon DEF Subs!Init, Open, Does, Holds, Got
<1>4. IInv /\ NoneAtFirst /\ [Next]_vars => [Subs!Next]_(Subs!subvars)
  BY SubscriptionsStep DEF Unseen, Open, Does, Holds, Got, Subs!subvars
<1> QED
  BY <1>1, <1>2, <1>3, <1>4, InitIInv, NextIInv, PTL
  DEF SafeSpec, ImplementsSubscriptions, Subs!SafeSpec
=============================================================================
