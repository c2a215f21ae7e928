---------------------------- MODULE LiveFeedProofs ----------------------------
(***************************************************************************)
(* What LiveFeed guarantees for any number of dashboards and sessions and  *)
(* for queues of any capacity, whatever breaks: no dashboard goes back in  *)
(* the ledger, and as long as the hub drops nothing and the feed is the    *)
(* same, what it was not told of is nothing.                               *)
(*                                                                         *)
(* A frame passes four places on its way, the Subscription upstream, the   *)
(* wire, a session's queue and its pipe, and each step moves one frame to  *)
(* the next.  The invariants therefore say what all the frames between the *)
(* ledger and a dashboard amount to, and of each place only how it joins   *)
(* the next.                                                               *)
(***************************************************************************)
EXTENDS LiveFeed, SequenceTheorems, TLAPS

-----------------------------------------------------------------------------
(* What keeps the places together *)

\* storage-core buffers the newest blocks and has counted what it dropped since.
UpstreamInv ==
    feed = "connected" =>
        /\ upstream.lagged + Len(upstream.buffer) <= published
        /\ \A i \in 1..Len(upstream.buffer) :
              upstream.buffer[i] = published - Len(upstream.buffer) + i

\* A session without a handler, and one without a dashboard, hold nothing, and a
\* handler whose dashboard has left it finds its socket closed.
SessionInv ==
    \A s \in Sessions :
        /\ joined[s] <= connects
        /\ handler[s] # "none" /\ s \notin closed => s \in InUse
        /\ handler[s] # "subscribed" => queue[s] = <<>>
        /\ handler[s] = "accepted" => pipe[s] = <<>>
        /\ s \notin InUse => pipe[s] = <<>>

\* Each dashboard has a session of its own, and has heard nothing before it subscribes.
TabInv ==
    /\ \A t, u \in Tabs : socket[t] = socket[u] /\ socket[t] # None => t = u
    /\ \A t \in Tabs : socket[t] = None => account[t] = Fresh
    /\ \A t \in Tabs, s \in Sessions :
          socket[t] = s /\ handler[s] = "accepted" => account[t] = Fresh

Inv == TypeOK /\ UpstreamInv /\ SessionInv /\ TabInv

-----------------------------------------------------------------------------
(* Order *)

\* The blocks among some frames.
Indices(q) == {q[i].index : i \in {j \in DOMAIN q : q[j].type = "block"}}

Rising(q) ==
    \A i, j \in DOMAIN q :
        i < j /\ q[i].type = "block" /\ q[j].type = "block" => q[i].index < q[j].index

Before(S, T) == \A x \in S, y \in T : x < y

\* What has not left storage-core's connection.
Coming == Indices(wire) \cup ToSet(upstream.buffer)

WireOrder ==
    /\ Rising(wire)
    /\ Before(Indices(wire), ToSet(upstream.buffer))
    /\ Indices(wire) \subseteq 1..published

SessionOrder(s) ==
    /\ Rising(pipe[s]) /\ Rising(queue[s])
    /\ Before(Indices(pipe[s]), Indices(queue[s]))
    /\ Before(Indices(pipe[s]) \cup Indices(queue[s]), Coming)
    /\ Indices(pipe[s]) \cup Indices(queue[s]) \subseteq 1..published

TabOrder(t) ==
    /\ Latest(t) <= published
    /\ Before({Latest(t)}, Coming)
    /\ \A s \in Sessions :
          socket[t] = s => Before({Latest(t)}, Indices(pipe[s]) \cup Indices(queue[s]))

OrderInv ==
    /\ WireOrder
    /\ \A s \in Sessions : SessionOrder(s)
    /\ \A t \in Tabs : TabOrder(t)

-----------------------------------------------------------------------------
(* Gaps *)

\* Who knows of all blocks up to p, knows of all up to e once it has received q.
Accounts(q, p, e) ==
    \E n \in [0..Len(q) -> Nat] :
        /\ n[0] = p /\ n[Len(q)] = e
        /\ \A i \in 1..Len(q) :
              \/ q[i].type = "block" /\ q[i].index = n[i] /\ n[i] = n[i - 1] + 1
              \/ q[i].type = "lagged" /\ n[i] = n[i - 1] + q[i].dropped

\* The last block that storage-core has sent, or told to be dropped.
Sent == published - upstream.lagged - Len(upstream.buffer)

WireAccounts(w) == feed = "connected" => Accounts(wire, w, Sent)

\* Sessions of which nothing was dropped since the feed's connection was made.
Followed(s) == s \in Subscribed /\ dropped[s] = 0 /\ connects = joined[s]

\* t knows of the blocks up to p: those it got, and those it was told of since.
Knows(t, p) == account[t].last # 0 => p = account[t].last + account[t].told

TabAccounts(t, s) ==
    /\ account[t].silent = 0
    /\ \E p, m, w \in Nat :
          /\ Knows(t, p)
          /\ Accounts(pipe[s], p, m) /\ Accounts(queue[s], m, w) /\ WireAccounts(w)

GapInv ==
    /\ \E w \in Nat : WireAccounts(w)
    /\ \A t \in Tabs, s \in Sessions : socket[t] = s /\ Followed(s) => TabAccounts(t, s)

-----------------------------------------------------------------------------
(* Queues of frames *)

\* The block of a frame, if it is one.
Own(f) == IF f.type = "block" THEN {f.index} ELSE {}

\* A frame is a block of the ledger or a notice.
LEMMA FrameIs ==
    ASSUME NEW f \in Frame
    PROVE  /\ \/ f.type = "block" /\ f.index \in Blocks
              \/ f.type = "lagged" /\ f.dropped \in 1..MaxBlocks
           /\ Own(f) \subseteq Blocks
<1>1. CASE f \in [type : {"block"}, index : Blocks]
  BY <1>1 DEF Own
<1>2. CASE f \in [type : {"lagged"}, dropped : 1..MaxBlocks]
  BY <1>2 DEF Own
<1> QED BY <1>1, <1>2 DEF Frame

\* The head and the tail of a queue, by position.
LEMMA HeadAndTail ==
    ASSUME NEW S, NEW q \in Seq(S), q # <<>>
    PROVE  /\ Head(q) \in S /\ Head(q) = q[1] /\ Tail(q) \in Seq(S)
           /\ Len(q) \in Nat /\ Len(q) >= 1 /\ Len(Tail(q)) = Len(q) - 1
           /\ \A i \in 1..(Len(q) - 1) : Tail(q)[i] = q[i + 1]
  OBVIOUS

\* A longer queue, by position.
LEMMA AppendIs ==
    ASSUME NEW S, NEW q \in Seq(S), NEW f \in S
    PROVE  /\ Append(q, f) \in Seq(S) /\ Append(q, f) # <<>>
           /\ Len(q) \in Nat /\ Len(Append(q, f)) = Len(q) + 1
           /\ \A i \in 1..Len(q) : Append(q, f)[i] = q[i]
           /\ Append(q, f)[Len(q) + 1] = f
  OBVIOUS

\* Blocks in a queue are blocks of the ledger, and none is in an empty one.
LEMMA IndicesAre ==
    ASSUME NEW q \in Seq(Frame)
    PROVE  Indices(q) \subseteq Blocks
  BY FrameIs DEF Indices

LEMMA NoIndices == Indices(<<>>) = {} /\ Rising(<<>>)
  BY DEF Indices, Rising

\* Taking the head from a queue.
LEMMA TakeHead ==
    ASSUME NEW q \in Seq(Frame), q # <<>>
    PROVE  /\ Indices(q) = Own(Head(q)) \cup Indices(Tail(q))
           /\ Rising(q) => Rising(Tail(q)) /\ Before(Own(Head(q)), Indices(Tail(q)))
<1> DEFINE r == Tail(q)
<1>1. /\ Head(q) = q[1] /\ Len(q) \in Nat /\ Len(q) >= 1
      /\ DOMAIN q = 1..Len(q) /\ DOMAIN r = 1..(Len(q) - 1)
      /\ \A i \in 1..(Len(q) - 1) : r[i] = q[i + 1]
  BY HeadAndTail
<1> HIDE DEF r
<1>2. Indices(q) \subseteq Own(Head(q)) \cup Indices(r)
  <2> SUFFICES ASSUME NEW i \in 1..Len(q), q[i].type = "block", i # 1
               PROVE  q[i].index \in Indices(r)
    BY <1>1 DEF Indices, Own
  <2>1. i - 1 \in 1..(Len(q) - 1) /\ r[i - 1] = q[i]
    BY <1>1
  <2> QED BY <1>1, <2>1 DEF Indices
<1>3. Own(Head(q)) \cup Indices(r) \subseteq Indices(q)
  <2>1. Own(Head(q)) \subseteq Indices(q)
    BY <1>1 DEF Indices, Own
  <2>2. ASSUME NEW i \in 1..(Len(q) - 1), r[i].type = "block"
        PROVE  r[i].index \in Indices(q)
    <3>1. i + 1 \in 1..Len(q) /\ r[i] = q[i + 1]
      BY <1>1
    <3> QED BY <1>1, <2>2, <3>1 DEF Indices
  <2> QED BY <1>1, <2>1, <2>2 DEF Indices
<1>4. ASSUME Rising(q) PROVE Rising(r)
  <2> SUFFICES ASSUME NEW i \in 1..(Len(q) - 1), NEW j \in 1..(Len(q) - 1), i < j,
                      r[i].type = "block", r[j].type = "block"
               PROVE  r[i].index < r[j].index
    BY <1>1 DEF Rising
  <2>1. /\ i + 1 \in 1..Len(q) /\ r[i] = q[i + 1]
        /\ j + 1 \in 1..Len(q) /\ r[j] = q[j + 1]
        /\ i + 1 < j + 1
    BY <1>1
  <2> QED BY <1>1, <1>4, <2>1 DEF Rising
<1>5. ASSUME Rising(q) PROVE Before(Own(Head(q)), Indices(r))
  <2> SUFFICES ASSUME q[1].type = "block",
                      NEW i \in 1..(Len(q) - 1), r[i].type = "block"
               PROVE  q[1].index < r[i].index
    BY <1>1 DEF Before, Own, Indices
  <2>1. i + 1 \in 1..Len(q) /\ r[i] = q[i + 1] /\ 1 \in 1..Len(q) /\ 1 < i + 1
    BY <1>1
  <2> QED BY <1>1, <1>5, <2>1 DEF Rising
<1> QED BY <1>2, <1>3, <1>4, <1>5 DEF r

\* Appending a frame to a queue.
LEMMA AddFrame ==
    ASSUME NEW q \in Seq(Frame), NEW f \in Frame
    PROVE  /\ Indices(Append(q, f)) = Indices(q) \cup Own(f)
           /\ Rising(q) /\ Before(Indices(q), Own(f)) => Rising(Append(q, f))
<1> DEFINE r == Append(q, f)
<1>1. /\ Len(q) \in Nat /\ DOMAIN q = 1..Len(q) /\ DOMAIN r = 1..(Len(q) + 1)
      /\ \A i \in 1..Len(q) : r[i] = q[i]
      /\ r[Len(q) + 1] = f
  BY AppendIs
<1> HIDE DEF r
<1>2. \A i \in 1..(Len(q) + 1) : i \in 1..Len(q) \/ i = Len(q) + 1
  BY <1>1
<1>3. Indices(r) = Indices(q) \cup Own(f)
  <2>1. Indices(r) \subseteq Indices(q) \cup Own(f)
    BY <1>1, <1>2 DEF Indices, Own
  <2>2. Indices(q) \subseteq Indices(r)
    BY <1>1 DEF Indices
  <2>3. Own(f) \subseteq Indices(r)
    BY <1>1 DEF Indices, Own
  <2> QED BY <2>1, <2>2, <2>3
<1>4. ASSUME Rising(q), Before(Indices(q), Own(f)) PROVE Rising(r)
  <2> SUFFICES ASSUME NEW i \in 1..(Len(q) + 1), NEW j \in 1..(Len(q) + 1), i < j,
                      r[i].type = "block", r[j].type = "block"
               PROVE  r[i].index < r[j].index
    BY <1>1 DEF Rising
  <2>1. i \in 1..Len(q)
    BY <1>1
  <2>2. CASE j \in 1..Len(q)
    BY <1>1, <1>4, <2>1, <2>2 DEF Rising
  <2>3. CASE j = Len(q) + 1
    <3>1. q[i].index \in Indices(q) /\ f.index \in Own(f)
      BY <1>1, <2>1, <2>3 DEF Indices, Own
    <3> QED BY <1>1, <1>4, <2>1, <2>3, <3>1 DEF Before
  <2> QED BY <1>2, <2>2, <2>3
<1> QED BY <1>3, <1>4 DEF r

\* What one frame adds to what is known.
Tells(f, p, e) ==
    \/ f.type = "block" /\ f.index = e /\ e = p + 1
    \/ f.type = "lagged" /\ e = p + f.dropped

\* Nothing tells nothing.
LEMMA NothingTold ==
    ASSUME NEW p \in Nat, NEW e \in Nat
    PROVE  Accounts(<<>>, p, e) <=> p = e
<1>1. ASSUME p = e PROVE Accounts(<<>>, p, e)
  <2> DEFINE n == [i \in 0..0 |-> p]
  <2>1. Len(<<>>) = 0 /\ n \in [0..0 -> Nat] /\ n[0] = p /\ n[0] = e
    BY <1>1
  <2> HIDE DEF n
  <2>2. \A i \in 1..Len(<<>>) : FALSE
    BY <2>1
  <2> QED BY <2>1, <2>2 DEF Accounts
<1>2. ASSUME Accounts(<<>>, p, e) PROVE p = e
  BY <1>2 DEF Accounts
<1> QED BY <1>1, <1>2

\* The head of a queue tells something, and the tail the rest.
LEMMA HeadTells ==
    ASSUME NEW q \in Seq(Frame), q # <<>>, NEW p \in Nat, NEW e \in Nat,
           Accounts(q, p, e)
    PROVE  \E m \in Nat : Tells(Head(q), p, m) /\ Accounts(Tail(q), m, e)
<1> DEFINE r == Tail(q)
<1>1. /\ Head(q) = q[1] /\ Len(q) \in Nat /\ Len(q) >= 1 /\ Len(r) = Len(q) - 1
      /\ \A i \in 1..(Len(q) - 1) : r[i] = q[i + 1]
  BY HeadAndTail
<1>2. PICK n \in [0..Len(q) -> Nat] :
          /\ n[0] = p /\ n[Len(q)] = e
          /\ \A i \in 1..Len(q) : Tells(q[i], n[i - 1], n[i])
  BY DEF Accounts, Tells
<1> HIDE DEF r
<1> DEFINE k == [i \in 0..Len(r) |-> n[i + 1]]
<1>3. k \in [0..Len(r) -> Nat]
  BY <1>1
<1>4. k[0] = n[1] /\ k[Len(r)] = e
  BY <1>1, <1>2
<1>5. ASSUME NEW i \in 1..Len(r)
      PROVE  Tells(r[i], k[i - 1], k[i])
  <2>1. i + 1 \in 1..Len(q) /\ k[i - 1] = n[(i + 1) - 1] /\ k[i] = n[i + 1] /\ r[i] = q[i + 1]
    BY <1>1
  <2> QED BY <1>2, <2>1
<1> HIDE DEF k
<1>6. Accounts(r, n[1], e)
  BY <1>3, <1>4, <1>5 DEF Accounts, Tells
<1>7. n[1] \in Nat /\ Tells(q[1], p, n[1])
  BY <1>1, <1>2
<1> QED BY <1>1, <1>6, <1>7 DEF r

\* One frame more tells so much more.
LEMMA MoreTold ==
    ASSUME NEW q \in Seq(Frame), NEW f \in Frame,
           NEW p \in Nat, NEW m \in Nat, NEW e \in Nat,
           Accounts(q, p, m), Tells(f, m, e)
    PROVE  Accounts(Append(q, f), p, e)
<1> DEFINE r == Append(q, f)
<1>1. /\ Len(q) \in Nat /\ Len(r) = Len(q) + 1
      /\ \A i \in 1..Len(q) : r[i] = q[i]
      /\ r[Len(q) + 1] = f
  BY AppendIs
<1>2. PICK n \in [0..Len(q) -> Nat] :
          /\ n[0] = p /\ n[Len(q)] = m
          /\ \A i \in 1..Len(q) : Tells(q[i], n[i - 1], n[i])
  BY DEF Accounts, Tells
<1> HIDE DEF r
<1> DEFINE k == [i \in 0..Len(r) |-> IF i = Len(r) THEN e ELSE n[i]]
<1>3. k \in [0..Len(r) -> Nat] /\ k[0] = p /\ k[Len(r)] = e
  BY <1>1, <1>2
<1>4. ASSUME NEW i \in 1..Len(r)
      PROVE  Tells(r[i], k[i - 1], k[i])
  <2>1. CASE i \in 1..Len(q)
    <3>1. k[i - 1] = n[i - 1] /\ k[i] = n[i] /\ r[i] = q[i]
      BY <1>1, <2>1
    <3> QED BY <1>2, <2>1, <3>1
  <2>2. CASE i = Len(q) + 1
    <3>1. k[i - 1] = m /\ k[i] = e /\ r[i] = f
      BY <1>1, <1>2, <2>2
    <3> QED BY <3>1
  <2> QED BY <1>1, <2>1, <2>2
<1> HIDE DEF k
<1>5. Accounts(r, p, e)
  BY <1>3, <1>4 DEF Accounts, Tells
<1> QED BY <1>5 DEF r

-----------------------------------------------------------------------------
(* Types, and what keeps the places together *)

\* The bounds are positive numbers.
LEMMA Bounds ==
    /\ MaxSessions \in Nat \ {0} /\ UpCapacity \in Nat \ {0} /\ QueueCapacity \in Nat \ {0}
    /\ Room \in Nat \ {0} /\ MaxReadings \in Nat \ {0} /\ MaxBlocks \in Nat
    /\ None \notin Sessions /\ Stalled \subseteq Tabs
  BY LiveFeedAssumption

LEMMA InvInit == Init => Inv
<1> SUFFICES ASSUME Init
             PROVE  Inv
  OBVIOUS
<1>1. PICK w \in Worlds :
         breaks = w.breaks /\ tab = [t \in Tabs |-> IF t \in w.tabs THEN "opening" ELSE "left"]
  BY DEF Init
<1>2. breaks \in Nat
  BY <1>1, LiveFeedAssumption
<1>3. TypeOK
  BY <1>1, <1>2, Bounds DEF Init, TypeOK, NoUpstream, Fresh
<1>4. UpstreamInv /\ SessionInv /\ TabInv
  BY <1>3, Bounds DEF Init, UpstreamInv, SessionInv, TabInv, InUse
<1> QED BY <1>3, <1>4 DEF Inv

\* A Subscription with room takes a block, and a full one loses its oldest for it.
LEMMA PushIs ==
    ASSUME NEW b \in Blocks, NEW l \in Nat, NEW q \in Seq(Blocks), Len(q) <= UpCapacity,
           l + Len(q) < b,
           \A i \in 1..Len(q) : q[i] = b - 1 - Len(q) + i,
           NEW sub, sub = Push([buffer |-> q, lagged |-> l], b)
    PROVE  /\ sub \in [buffer : Seq(Blocks), lagged : Nat]
           /\ Len(sub.buffer) <= UpCapacity
           /\ sub.lagged + Len(sub.buffer) = l + Len(q) + 1
           /\ \A i \in 1..Len(sub.buffer) : sub.buffer[i] = b - Len(sub.buffer) + i
           /\ ToSet(sub.buffer) \subseteq ToSet(q) \cup {b}
<1>0. b \in Nat /\ Len(q) \in Nat /\ UpCapacity \in Nat \ {0}
  BY Bounds DEF Blocks
<1>1. CASE Len(q) >= UpCapacity
  <2> DEFINE r == Tail(q)
             a == Append(r, b)
  <2>1. q # <<>> /\ r \in Seq(Blocks) /\ Len(r) = Len(q) - 1
        /\ \A i \in 1..(Len(q) - 1) : r[i] = q[i + 1]
    BY <1>0, <1>1, HeadAndTail
  <2> HIDE DEF r
  <2>2. /\ a \in Seq(Blocks) /\ Len(a) = Len(q)
        /\ \A i \in 1..(Len(q) - 1) : a[i] = r[i]
        /\ a[Len(q)] = b
    BY <1>0, <2>1, AppendIs
  <2>3. sub = [buffer |-> a, lagged |-> l + 1]
    BY <1>1 DEF Push, r
  <2> HIDE DEF a
  <2>4. ASSUME NEW i \in 1..Len(q)
        PROVE  a[i] = b - Len(q) + i /\ a[i] \in ToSet(q) \cup {b}
    <3>1. CASE i = Len(q)
      BY <1>0, <2>2, <3>1
    <3>2. CASE i \in 1..(Len(q) - 1)
      <4>1. a[i] = q[i + 1] /\ i + 1 \in 1..Len(q)
        BY <1>0, <2>1, <2>2, <3>2
      <4> QED BY <1>0, <4>1 DEF ToSet
    <3> QED BY <1>0, <3>1, <3>2
  <2>5. ToSet(a) \subseteq ToSet(q) \cup {b}
    BY <2>2, <2>4 DEF ToSet
  <2>6. sub.buffer = a /\ sub.lagged = l + 1
    BY <2>3
  <2>7. sub \in [buffer : Seq(Blocks), lagged : Nat]
    BY <2>2, <2>3
  <2>8. Len(sub.buffer) = Len(q)
    BY <2>2, <2>6
  <2>9. sub.lagged + Len(sub.buffer) = l + Len(q) + 1
    BY <1>0, <2>6, <2>8
  <2>10. \A i \in 1..Len(sub.buffer) : sub.buffer[i] = b - Len(sub.buffer) + i
    BY <2>4, <2>6, <2>8
  <2>11. /\ Len(sub.buffer) <= UpCapacity
         /\ sub.lagged + Len(sub.buffer) = l + Len(q) + 1
         /\ \A i \in 1..Len(sub.buffer) : sub.buffer[i] = b - Len(sub.buffer) + i
         /\ ToSet(sub.buffer) \subseteq ToSet(q) \cup {b}
    BY <2>5, <2>6, <2>8, <2>9, <2>10
  <2> QED BY <2>7, <2>11
<1>2. CASE ~(Len(q) >= UpCapacity)
  <2> DEFINE a == Append(q, b)
  <2>1. /\ a \in Seq(Blocks) /\ Len(a) = Len(q) + 1
        /\ \A i \in 1..Len(q) : a[i] = q[i]
        /\ a[Len(q) + 1] = b
    BY <1>0, AppendIs
  <2>2. sub = [buffer |-> a, lagged |-> l]
    BY <1>2 DEF Push
  <2> HIDE DEF a
  <2>3. ASSUME NEW i \in 1..(Len(q) + 1)
        PROVE  a[i] = b - (Len(q) + 1) + i /\ a[i] \in ToSet(q) \cup {b}
    <3>1. CASE i = Len(q) + 1
      BY <1>0, <2>1, <3>1
    <3>2. CASE i \in 1..Len(q)
      <4>1. a[i] = q[i] /\ q[i] = b - 1 - Len(q) + i
        BY <2>1, <3>2
      <4>2. a[i] \in ToSet(q)
        BY <3>2, <4>1 DEF ToSet
      <4>3. b - 1 - Len(q) + i = b - (Len(q) + 1) + i
        BY <1>0
      <4> QED BY <4>1, <4>2, <4>3
    <3> QED BY <1>0, <3>1, <3>2
  <2>4. ToSet(a) \subseteq ToSet(q) \cup {b}
    BY <2>1, <2>3 DEF ToSet
  <2>5. sub.buffer = a /\ sub.lagged = l
    BY <2>2
  <2>6. sub \in [buffer : Seq(Blocks), lagged : Nat]
    BY <2>1, <2>2
  <2>7. Len(sub.buffer) = Len(q) + 1
    BY <2>1, <2>5
  <2>8. sub.lagged + Len(sub.buffer) = l + Len(q) + 1 /\ Len(q) + 1 <= UpCapacity
    BY <1>0, <1>2, <2>5, <2>7
  <2>9. \A i \in 1..Len(sub.buffer) : sub.buffer[i] = b - Len(sub.buffer) + i
    BY <2>3, <2>5, <2>7
  <2> QED BY <2>4, <2>5, <2>6, <2>7, <2>8, <2>9
<1> QED BY <1>1, <1>2

\* Publish, for a feed that is connected.
LEMMA PublishUpstream ==
    ASSUME TypeOK, UpstreamInv, Publish, feed = "connected"
    PROVE  /\ upstream' \in [buffer : Seq(Blocks), lagged : 0..MaxBlocks]
           /\ Len(upstream'.buffer) <= UpCapacity
           /\ upstream'.lagged + Len(upstream'.buffer)
                  = upstream.lagged + Len(upstream.buffer) + 1
           /\ UpstreamInv'
           /\ ToSet(upstream'.buffer) \subseteq ToSet(upstream.buffer) \cup {published'}
<1>1. /\ published \in Nat /\ published < MaxBlocks /\ published' = published + 1
      /\ published' \in Blocks /\ MaxBlocks \in Nat
  BY Bounds DEF TypeOK, Publish, Blocks
<1>2. /\ upstream = [buffer |-> upstream.buffer, lagged |-> upstream.lagged]
      /\ upstream.buffer \in Seq(Blocks) /\ upstream.lagged \in Nat
      /\ Len(upstream.buffer) \in Nat /\ Len(upstream.buffer) <= UpCapacity
  BY DEF TypeOK
<1>3. /\ upstream.lagged + Len(upstream.buffer) <= published
      /\ \A i \in 1..Len(upstream.buffer) :
            upstream.buffer[i] = published - Len(upstream.buffer) + i
  BY DEF UpstreamInv
<1>4. upstream.lagged + Len(upstream.buffer) < published'
  BY <1>1, <1>2, <1>3
<1>5. \A i \in 1..Len(upstream.buffer) :
         upstream.buffer[i] = published' - 1 - Len(upstream.buffer) + i
  BY <1>1, <1>2, <1>3
<1>6. upstream' = Push([buffer |-> upstream.buffer, lagged |-> upstream.lagged], published')
  BY <1>2 DEF Publish
<1>7. /\ upstream' \in [buffer : Seq(Blocks), lagged : Nat]
      /\ Len(upstream'.buffer) <= UpCapacity
      /\ upstream'.lagged + Len(upstream'.buffer) = upstream.lagged + Len(upstream.buffer) + 1
      /\ \A i \in 1..Len(upstream'.buffer) :
            upstream'.buffer[i] = published' - Len(upstream'.buffer) + i
      /\ ToSet(upstream'.buffer) \subseteq ToSet(upstream.buffer) \cup {published'}
  BY <1>1, <1>2, <1>4, <1>5, <1>6, PushIs
<1>8. Len(upstream'.buffer) \in Nat
  BY <1>7
<1>9. upstream'.lagged \in 0..MaxBlocks /\ upstream'.lagged + Len(upstream'.buffer) <= published'
  BY <1>1, <1>2, <1>3, <1>7, <1>8
<1>10. UpstreamInv'
  BY <1>7, <1>9 DEF UpstreamInv
<1>11. upstream' \in [buffer : Seq(Blocks), lagged : 0..MaxBlocks]
  BY <1>7, <1>9
<1> QED BY <1>7, <1>10, <1>11

\* What SendUpstream takes from the Subscription, and what it puts on the wire.
LEMMA SentUpstream ==
    ASSUME TypeOK, UpstreamInv, SendUpstream
    PROVE  LET q == upstream.buffer
               notice == [type |-> "lagged", dropped |-> upstream.lagged]
               block == [type |-> "block", index |-> Head(q)]
           IN  /\ feed = "connected" /\ wire = <<>>
               /\ q \in Seq(Blocks) /\ q # <<>> /\ Head(q) = Sent + upstream.lagged + 1
               /\ block \in Frame
               /\ \/ upstream.lagged = 0 /\ wire' = Append(<<>>, block)
                  \/ /\ upstream.lagged > 0 /\ notice \in Frame
                     /\ wire' = Append(Append(<<>>, notice), block)
               /\ upstream' = [buffer |-> Tail(q), lagged |-> 0]
               /\ Tail(q) \in Seq(Blocks) /\ Len(Tail(q)) <= UpCapacity
               /\ Sent' = Head(q)
               /\ UpstreamInv'
<1> DEFINE q == upstream.buffer
           l == upstream.lagged
           notice == [type |-> "lagged", dropped |-> l]
           block == [type |-> "block", index |-> Head(q)]
<1>1. /\ q \in Seq(Blocks) /\ q # <<>> /\ l \in 0..MaxBlocks /\ l \in Nat /\ wire = <<>>
      /\ published \in Nat /\ published' = published /\ feed' = feed
      /\ upstream' = [buffer |-> Tail(q), lagged |-> 0]
  BY Bounds DEF TypeOK, SendUpstream
<1>2. feed = "connected"
  BY <1>1 DEF TypeOK, NoUpstream
<1>3. /\ Head(q) \in Blocks /\ Head(q) = q[1] /\ Tail(q) \in Seq(Blocks)
      /\ Len(q) \in Nat /\ Len(q) >= 1 /\ Len(Tail(q)) = Len(q) - 1
      /\ \A i \in 1..(Len(q) - 1) : Tail(q)[i] = q[i + 1]
  BY <1>1, HeadAndTail
<1>4. /\ l + Len(q) <= published
      /\ \A i \in 1..Len(q) : q[i] = published - Len(q) + i
  BY <1>2 DEF UpstreamInv
<1>5. Head(q) = published - Len(q) + 1 /\ Head(q) = Sent + l + 1
  <2>1. 1 \in 1..Len(q)
    BY <1>3
  <2>2. Head(q) = published - Len(q) + 1
    BY <1>3, <1>4, <2>1
  <2>3. published \in Nat /\ l \in Nat /\ Len(q) \in Nat
    BY <1>1, <1>3
  <2>4. Sent = published - l - Len(q)
    BY DEF Sent
  <2>5. \A x, y, z \in Nat : x - z + 1 = (x - y - z) + y + 1
    OBVIOUS
  <2> QED BY <2>2, <2>3, <2>4, <2>5
<1>6. block \in Frame
  BY <1>3 DEF Frame
<1>7. \/ l = 0 /\ wire' = Append(<<>>, block)
      \/ l > 0 /\ notice \in Frame /\ wire' = Append(Append(<<>>, notice), block)
  <2>1. CASE l = 0
    BY <1>1, <2>1 DEF SendUpstream, LagNotice
  <2>2. CASE l > 0
    <3>1. l \in 1..MaxBlocks
      BY <1>1, <2>2
    <3>2. notice \in Frame
      BY <3>1 DEF Frame
    <3>3. Append(<<>>, notice) = <<notice>>
      OBVIOUS
    <3>4. wire' = Append(<<notice>>, block)
      BY <1>1, <2>2 DEF SendUpstream, LagNotice
    <3> QED BY <2>2, <3>2, <3>3, <3>4
  <2> QED BY <1>1, <2>1, <2>2
<1>8. Sent' = Head(q)
  BY <1>1, <1>3, <1>5 DEF Sent
<1>9. ASSUME NEW i \in 1..(Len(q) - 1)
      PROVE  Tail(q)[i] = published - (Len(q) - 1) + i
  <2>1. i + 1 \in 1..Len(q) /\ Tail(q)[i] = q[i + 1]
    BY <1>3
  <2>2. q[i + 1] = published - Len(q) + (i + 1)
    BY <1>4, <2>1
  <2>3. published \in Nat /\ Len(q) \in Nat
    BY <1>1, <1>3
  <2>4. published - Len(q) + (i + 1) = published - (Len(q) - 1) + i
    BY <2>3
  <2> QED BY <2>1, <2>2, <2>4
<1>10. UpstreamInv'
  <2>1. upstream'.buffer = Tail(q) /\ upstream'.lagged = 0
    BY <1>1
  <2>2. Len(upstream'.buffer) = Len(q) - 1 /\ 0 + (Len(q) - 1) <= published
    BY <1>1, <1>3, <1>4, <2>1
  <2> QED BY <1>1, <1>9, <2>1, <2>2 DEF UpstreamInv
<1>11. Len(Tail(q)) <= UpCapacity
  BY <1>1, <1>3, Bounds DEF TypeOK
<1> QED BY <1>1, <1>2, <1>3, <1>5, <1>6, <1>7, <1>8, <1>10, <1>11

\* The hub's queue keeps its newest frames, with the new one at its end.
LEMMA PutIs ==
    ASSUME NEW s \in Sessions, NEW f \in Frame,
           queue[s] \in Seq(Frame), Len(queue[s]) <= QueueCapacity
    PROVE  /\ Put(s, f) \in Seq(Frame) /\ Len(Put(s, f)) <= QueueCapacity
           /\ Put(s, f) = IF Len(queue[s]) >= QueueCapacity
                          THEN Append(Tail(queue[s]), f)
                          ELSE Append(queue[s], f)
           /\ Len(queue[s]) >= QueueCapacity => queue[s] # <<>>
<1>1. Len(queue[s]) \in Nat /\ QueueCapacity \in Nat \ {0}
  BY Bounds
<1>2. CASE Len(queue[s]) >= QueueCapacity
  <2>1. queue[s] # <<>>
    BY <1>1, <1>2
  <2>2. Tail(queue[s]) \in Seq(Frame) /\ Len(Tail(queue[s])) = Len(queue[s]) - 1
    BY <2>1, HeadAndTail
  <2>3. /\ Append(Tail(queue[s]), f) \in Seq(Frame)
        /\ Len(Append(Tail(queue[s]), f)) = Len(Tail(queue[s])) + 1
    BY <2>2, AppendIs
  <2> QED BY <1>1, <1>2, <2>1, <2>2, <2>3 DEF Put
<1>3. CASE ~(Len(queue[s]) >= QueueCapacity)
  <2>1. /\ Append(queue[s], f) \in Seq(Frame)
        /\ Len(Append(queue[s], f)) = Len(queue[s]) + 1
    BY AppendIs
  <2> QED BY <1>1, <1>3, <2>1 DEF Put
<1> QED BY <1>2, <1>3

\* However many readings a dashboard keeps, the newest is among them.
LEMMA WithReadingIs ==
    ASSUME NEW r \in Seq(Blocks), NEW b \in Blocks
    PROVE  /\ WithReading(r, b) \in Seq(Blocks)
           /\ WithReading(r, b) # <<>>
           /\ Last(WithReading(r, b)) = b
<1> DEFINE k == Len(r) + 2 - MaxReadings
           m == Max({1, k})
           n == Len(r) + 1
           a == Append(r, b)
<1>1. Len(r) \in Nat /\ MaxReadings \in Nat \ {0}
  BY Bounds
<1>2. a \in Seq(Blocks) /\ Len(a) = n /\ a[n] = b
  BY AppendIs
<1>3. m \in 1..n
  <2>1. k \in Int /\ k <= n /\ n \in Nat /\ 1 <= n
    BY <1>1
  <2> HIDE DEF k, n
  <2>2. \E x \in {1, k} : \A y \in {1, k} : x >= y
    BY <2>1
  <2>3. m \in {1, k} /\ m >= 1
    BY <2>1, <2>2 DEF Max
  <2> QED BY <2>1, <2>3
<1>4. WithReading(r, b) = SubSeq(a, m, n)
  BY DEF WithReading
<1> HIDE DEF m, a
<1>5. n \in Nat /\ m \in Int /\ \A i \in m..n : a[i] \in Blocks
  BY <1>1, <1>2, <1>3
<1> HIDE DEF n
<1>6. /\ SubSeq(a, m, n) \in Seq(Blocks)
      /\ Len(SubSeq(a, m, n)) = n - m + 1
      /\ \A i \in 1..(n - m + 1) : SubSeq(a, m, n)[i] = a[m + i - 1]
  BY <1>3, <1>5, SubSeqProperties
<1>7. n - m + 1 \in 1..(n - m + 1) /\ m + (n - m + 1) - 1 = n
  BY <1>3, <1>5
<1>8. SubSeq(a, m, n)[n - m + 1] = b /\ n - m + 1 # 0
  BY <1>2, <1>6, <1>7
<1>9. SubSeq(a, m, n) # <<>>
  BY <1>6, <1>8
<1> QED BY <1>4, <1>6, <1>8, <1>9 DEF Last

\* Sessions are in use by dashboards, and by one each.
LEMMA InUseIs ==
    ASSUME TypeOK
    PROVE  /\ InUse \subseteq Sessions
           /\ \A t \in Tabs : socket[t] # None => socket[t] \in InUse
           /\ \A s \in InUse : \E t \in Tabs : socket[t] = s
  BY DEF TypeOK, InUse

\* A queue of frames that is emptied is no longer than before.
LEMMA Emptied ==
    ASSUME NEW f \in [Sessions -> Seq(Frame)], NEW n \in Nat,
           \A r \in Sessions : Len(f[r]) <= n,
           NEW s \in Sessions, NEW g, g = [f EXCEPT ![s] = <<>>]
    PROVE  g \in [Sessions -> Seq(Frame)] /\ \A r \in Sessions : Len(g[r]) <= n
<1>1. <<>> \in Seq(Frame) /\ Len(<<>>) = 0
  OBVIOUS
<1>2. g \in [Sessions -> Seq(Frame)]
  BY <1>1
<1>3. ASSUME NEW r \in Sessions PROVE Len(g[r]) <= n
  <2>1. CASE r = s
    BY <1>1, <2>1
  <2>2. CASE r # s
    BY <2>2
  <2> QED BY <2>1, <2>2
<1> QED BY <1>2, <1>3

\* A dashboard that gives up its socket takes that session out of use.
LEMMA GivenUp ==
    ASSUME TypeOK, TabInv, NEW t \in Tabs, socket[t] # None,
           socket' = [socket EXCEPT ![t] = None],
           account' = [account EXCEPT ![t] = Fresh], handler' = handler
    PROVE  /\ socket' \in [Tabs -> Sessions \cup {None}]
           /\ account' \in [Tabs -> [last : 0..MaxBlocks, told : Nat, silent : Int]]
           /\ InUse' = InUse \ {socket[t]}
           /\ TabInv'
<1>1. /\ socket \in [Tabs -> Sessions \cup {None}]
      /\ account \in [Tabs -> [last : 0..MaxBlocks, told : Nat, silent : Int]]
  BY DEF TypeOK
<1>2. socket' \in [Tabs -> Sessions \cup {None}]
  BY <1>1
<1>3. Fresh \in [last : 0..MaxBlocks, told : Nat, silent : Int]
  BY Bounds DEF Fresh
<1>4. /\ account' \in [Tabs -> [last : 0..MaxBlocks, told : Nat, silent : Int]]
      /\ account'[t] = Fresh /\ \A u \in Tabs \ {t} : account'[u] = account[u]
  BY <1>1, <1>3
<1>5. socket'[t] = None /\ \A u \in Tabs \ {t} : socket'[u] = socket[u] /\ socket[u] # socket[t]
  BY <1>1 DEF TabInv
<1>6. InUse' = InUse \ {socket[t]}
  BY <1>5 DEF InUse
<1>7. \A u, v \in Tabs : socket'[u] = socket'[v] /\ socket'[u] # None => u = v
  BY <1>5 DEF TabInv
<1>8. \A u \in Tabs : socket'[u] = None => account'[u] = Fresh
  BY <1>4, <1>5 DEF TabInv
<1>9. \A u \in Tabs, s \in Sessions :
         socket'[u] = s /\ handler'[s] = "accepted" => account'[u] = Fresh
  BY <1>4, <1>5 DEF TabInv
<1> QED BY <1>2, <1>4, <1>6, <1>7, <1>8, <1>9 DEF TabInv

\* The frame that Receive takes, and what follows it.
LEMMA Received ==
    ASSUME Inv, NEW t \in Tabs, Receive(t)
    PROVE  LET s == socket[t]
               f == Head(pipe[s])
           IN  /\ s \in Sessions /\ handler[s] # "accepted"
               /\ pipe[s] \in Seq(Frame) /\ pipe[s] # <<>> /\ f \in Frame
               /\ Tail(pipe[s]) \in Seq(Frame) /\ Len(Tail(pipe[s])) <= Room
               /\ pipe' = [pipe EXCEPT ![s] = Tail(pipe[s])]
<1>1. socket[t] \in Sessions /\ pipe[socket[t]] # <<>>
  BY DEF Inv, TypeOK, Receive
<1>2. pipe[socket[t]] \in Seq(Frame) /\ Len(pipe[socket[t]]) <= Room
  BY <1>1 DEF Inv, TypeOK
<1>3. /\ Head(pipe[socket[t]]) \in Frame /\ Tail(pipe[socket[t]]) \in Seq(Frame)
      /\ Len(pipe[socket[t]]) \in Nat
      /\ Len(Tail(pipe[socket[t]])) = Len(pipe[socket[t]]) - 1
  BY <1>1, <1>2, HeadAndTail
<1>4. handler[socket[t]] # "accepted"
  BY <1>1 DEF Inv, SessionInv
<1>5. pipe' = [pipe EXCEPT ![socket[t]] = Tail(pipe[socket[t]])]
  BY DEF Receive
<1> QED BY <1>1, <1>2, <1>3, <1>4, <1>5, Bounds

\* Every step keeps the places together.
LEMMA InvNext == Inv /\ [Next]_vars => Inv'
<1> SUFFICES ASSUME Inv, [Next]_vars
             PROVE  Inv'
  OBVIOUS
<1> USE DEF Inv
<1>1. CASE Publish
  <2>1. TypeOK'
    <3>1. CASE feed = "connected"
      <4>1. /\ upstream' \in [buffer : Seq(Blocks), lagged : 0..MaxBlocks]
            /\ Len(upstream'.buffer) <= UpCapacity
        BY <1>1, <3>1, PublishUpstream
      <4> QED BY <1>1, <3>1, <4>1, Bounds, SMTT(60) DEF TypeOK, Publish, hub, browser
    <3>2. CASE feed # "connected"
      BY <1>1, <3>2, Bounds DEF TypeOK, Publish, hub, browser
    <3> QED BY <3>1, <3>2
  <2>2. UpstreamInv'
    <3>1. CASE feed = "connected"
      BY <1>1, <3>1, PublishUpstream
    <3>2. CASE feed # "connected"
      BY <1>1, <3>2 DEF UpstreamInv, Publish
    <3> QED BY <3>1, <3>2
  <2>3. SessionInv' /\ TabInv'
    BY <1>1 DEF SessionInv, TabInv, Publish, hub, browser, InUse
  <2> QED BY <2>1, <2>2, <2>3
<1>2. CASE SendUpstream
  <2> DEFINE notice == [type |-> "lagged", dropped |-> upstream.lagged]
             block == [type |-> "block", index |-> Head(upstream.buffer)]
  <2>1. /\ feed = "connected" /\ block \in Frame
        /\ \/ wire' = Append(<<>>, block)
           \/ notice \in Frame /\ wire' = Append(Append(<<>>, notice), block)
        /\ upstream' = [buffer |-> Tail(upstream.buffer), lagged |-> 0]
        /\ Tail(upstream.buffer) \in Seq(Blocks) /\ Len(Tail(upstream.buffer)) <= UpCapacity
        /\ UpstreamInv'
    BY <1>2, SentUpstream
  <2> HIDE DEF notice, block
  <2>2. wire' \in Seq(Frame)
    <3>1. <<>> \in Seq(Frame)
      OBVIOUS
    <3>2. CASE wire' = Append(<<>>, block)
      BY <2>1, <3>1, <3>2, AppendIs
    <3>3. CASE notice \in Frame /\ wire' = Append(Append(<<>>, notice), block)
      <4>1. Append(<<>>, notice) \in Seq(Frame)
        BY <3>1, <3>3, AppendIs
      <4> QED BY <2>1, <3>3, <4>1, AppendIs
    <3> QED BY <2>1, <3>2, <3>3
  <2>3. TypeOK'
    BY SMTT(30), <1>2, <2>1, <2>2, Bounds DEF TypeOK, SendUpstream, hub, browser
  <2>4. SessionInv' /\ TabInv'
    BY <1>2 DEF SessionInv, TabInv, SendUpstream, hub, browser, InUse
  <2> QED BY <2>1, <2>3, <2>4
<1>3. CASE Retry
  <2>1. TypeOK' /\ UpstreamInv'
    BY <1>3 DEF TypeOK, UpstreamInv, Retry, hub, browser
  <2>2. SessionInv' /\ TabInv'
    BY <1>3 DEF SessionInv, TabInv, Retry, hub, browser, InUse
  <2> QED BY <2>1, <2>2
<1>4. CASE Dispatch
  <2> DEFINE f == Head(wire)
  <2>1. /\ feed = "connected" /\ f \in Frame /\ Tail(wire) \in Seq(Frame)
        /\ wire' = Tail(wire) /\ UNCHANGED <<published, feed, connects, upstream, breaks,
                                             handler, joined, pipe, closed, browser>>
    BY <1>4, HeadAndTail DEF TypeOK, Dispatch
  <2>2. queue' = [s \in Sessions |-> IF s \in Subscribed THEN Put(s, f) ELSE queue[s]]
    BY <1>4 DEF Dispatch, Recipients
  <2>3. dropped' \in [Sessions -> Nat]
    <3>1. \A s \in Sessions : dropped[s] \in Nat
      BY DEF TypeOK
    <3> QED BY <1>4, <3>1 DEF Dispatch
  <2>4. ASSUME NEW s \in Sessions
        PROVE  /\ queue'[s] \in Seq(Frame) /\ Len(queue'[s]) <= QueueCapacity
               /\ s \notin Subscribed => queue'[s] = queue[s]
    <3>1. queue[s] \in Seq(Frame) /\ Len(queue[s]) <= QueueCapacity
      BY DEF TypeOK
    <3>2. Put(s, f) \in Seq(Frame) /\ Len(Put(s, f)) <= QueueCapacity
      BY <2>1, <3>1, PutIs
    <3> QED BY <2>2, <3>1, <3>2
  <2>5. TypeOK'
    <3>1. queue' \in [Sessions -> Seq(Frame)]
      BY <2>2, <2>4
    <3> QED BY <2>1, <2>3, <2>4, <3>1 DEF TypeOK, browser
  <2>6. SessionInv'
    <3> SUFFICES ASSUME NEW s \in Sessions, handler[s] # "subscribed"
                 PROVE  queue'[s] = <<>>
      BY <2>1 DEF SessionInv, InUse, browser
    <3> QED BY <2>4 DEF SessionInv, Subscribed
  <2>7. UpstreamInv' /\ TabInv'
    BY <2>1 DEF UpstreamInv, TabInv, browser
  <2> QED BY <2>5, <2>6, <2>7
<1>5. CASE Connect
  <2>1. TypeOK' /\ UpstreamInv'
    BY <1>5 DEF TypeOK, UpstreamInv, Connect, NoUpstream, hub, browser
  <2>2. SessionInv' /\ TabInv'
    BY <1>5 DEF TypeOK, SessionInv, TabInv, Connect, hub, browser, InUse
  <2> QED BY <2>1, <2>2
<1>6. CASE ConnectFails
  <2>1. TypeOK' /\ UpstreamInv'
    BY <1>6 DEF TypeOK, UpstreamInv, ConnectFails, hub, browser
  <2>2. SessionInv' /\ TabInv'
    BY <1>6 DEF SessionInv, TabInv, ConnectFails, hub, browser, InUse
  <2> QED BY <2>1, <2>2
<1>7. CASE FeedBreaks
  <2>1. TypeOK' /\ UpstreamInv'
    BY SMTT(30), <1>7, Bounds DEF TypeOK, UpstreamInv, FeedBreaks, Break, NoUpstream, hub, browser
  <2>2. SessionInv' /\ TabInv'
    BY <1>7 DEF SessionInv, TabInv, FeedBreaks, hub, browser, InUse
  <2> QED BY <2>1, <2>2
<1>8. ASSUME NEW s \in Sessions, Subscribe(s)
      PROVE  Inv'
  <2>1. TypeOK' /\ UpstreamInv'
    BY <1>8 DEF TypeOK, UpstreamInv, Subscribe, upside, browser
  <2>2. SessionInv' /\ TabInv'
    BY <1>8 DEF TypeOK, SessionInv, TabInv, Subscribe, upside, browser, InUse
  <2> QED BY <2>1, <2>2
<1>9. ASSUME NEW s \in Sessions, SendFrame(s)
      PROVE  Inv'
  <2>1. /\ queue[s] \in Seq(Frame) /\ queue[s] # <<>> /\ Len(queue[s]) <= QueueCapacity
        /\ pipe[s] \in Seq(Frame) /\ Len(pipe[s]) < Room
        /\ handler[s] = "subscribed" /\ s \in InUse
    BY <1>9 DEF TypeOK, SessionInv, SendFrame
  <2>2. /\ Head(queue[s]) \in Frame /\ Tail(queue[s]) \in Seq(Frame)
        /\ Len(queue[s]) \in Nat /\ Len(Tail(queue[s])) = Len(queue[s]) - 1
    BY <2>1, HeadAndTail
  <2>3. /\ Append(pipe[s], Head(queue[s])) \in Seq(Frame)
        /\ Len(pipe[s]) \in Nat /\ Len(Append(pipe[s], Head(queue[s]))) = Len(pipe[s]) + 1
    BY <2>1, <2>2, AppendIs
  <2>4. Len(Tail(queue[s])) <= QueueCapacity /\ Len(Append(pipe[s], Head(queue[s]))) <= Room
    BY <2>1, <2>2, <2>3, Bounds
  <2>5. /\ pipe' = [pipe EXCEPT ![s] = Append(pipe[s], Head(queue[s]))]
        /\ queue' = [queue EXCEPT ![s] = Tail(queue[s])]
        /\ UNCHANGED <<upside, breaks, handler, dropped, joined, closed, browser>>
    BY <1>9 DEF SendFrame
  <2>6. TypeOK'
    BY <2>2, <2>3, <2>4, <2>5 DEF TypeOK, upside, browser
  <2>7. SessionInv'
    <3>1. InUse' = InUse /\ UNCHANGED <<handler, joined, connects, closed>>
      BY <2>5 DEF InUse, upside, browser
    <3>2. /\ handler[s] = "subscribed" /\ s \in InUse
          /\ \A r \in Sessions \ {s} : queue'[r] = queue[r] /\ pipe'[r] = pipe[r]
      BY <2>1, <2>5 DEF TypeOK
    <3> QED BY <3>1, <3>2 DEF SessionInv
  <2>8. UpstreamInv' /\ TabInv'
    BY <2>5 DEF UpstreamInv, TabInv, upside, browser
  <2> QED BY <2>6, <2>7, <2>8
<1>10. ASSUME NEW s \in Sessions, EndSession(s)
       PROVE  Inv'
  <2>1. TypeOK'
    <3>1. /\ queue' = [queue EXCEPT ![s] = <<>>] /\ pipe' = [pipe EXCEPT ![s] = <<>>]
          /\ handler' = [handler EXCEPT ![s] = "none"]
          /\ dropped' = [dropped EXCEPT ![s] = 0] /\ joined' = [joined EXCEPT ![s] = 0]
          /\ closed' \subseteq closed /\ UNCHANGED <<upside, breaks, browser>>
      BY <1>10 DEF EndSession
    <3>2. queue' \in [Sessions -> Seq(Frame)] /\ \A r \in Sessions : Len(queue'[r]) <= QueueCapacity
      BY <3>1, Emptied, Bounds DEF TypeOK
    <3>3. pipe' \in [Sessions -> Seq(Frame)] /\ \A r \in Sessions : Len(pipe'[r]) <= Room
      BY <3>1, Emptied, Bounds DEF TypeOK
    <3> QED BY <3>1, <3>2, <3>3 DEF TypeOK, upside, browser
  <2>2. SessionInv'
    BY SMTT(30), <1>10 DEF TypeOK, SessionInv, EndSession, InUse, upside, browser
  <2>3. UpstreamInv' /\ TabInv'
    BY <1>10 DEF TypeOK, UpstreamInv, TabInv, EndSession, upside, browser
  <2> QED BY <2>1, <2>2, <2>3
<1>11. CASE BackendRestarts
  <2>1. InUse \subseteq Sessions
    BY InUseIs
  <2>2. TypeOK'
    BY <1>11, <2>1, Bounds DEF TypeOK, BackendRestarts, Break, NoUpstream, browser
  <2>3. SessionInv'
    BY <1>11 DEF SessionInv, BackendRestarts, InUse, browser
  <2>4. UpstreamInv' /\ TabInv'
    BY <1>11 DEF UpstreamInv, TabInv, BackendRestarts, browser
  <2> QED BY <2>2, <2>3, <2>4
<1>12. ASSUME NEW t \in Tabs, OpenAgain(t)
       PROVE  Inv'
  <2>1. TypeOK' /\ UpstreamInv'
    BY <1>12 DEF TypeOK, UpstreamInv, OpenAgain, upside, hub
  <2>2. SessionInv' /\ TabInv'
    BY <1>12 DEF SessionInv, TabInv, OpenAgain, InUse, upside, hub
  <2> QED BY <2>1, <2>2
<1>13. ASSUME NEW t \in Tabs, Receive(t)
       PROVE  Inv'
  <2> DEFINE s == socket[t]
             f == Head(pipe[s])
  <2>1. /\ s \in Sessions /\ handler[s] # "accepted" /\ pipe[s] # <<>> /\ f \in Frame
        /\ Tail(pipe[s]) \in Seq(Frame) /\ Len(Tail(pipe[s])) <= Room
        /\ pipe' = [pipe EXCEPT ![s] = Tail(pipe[s])]
    BY <1>13, Received
  <2>2. UNCHANGED <<upside, breaks, hub, closed, tab, socket>>
    BY <1>13 DEF Receive
  <2>3. /\ stream' \in [Tabs -> [connected : BOOLEAN, dropped : Nat, readings : Seq(Blocks)]]
        /\ account' \in [Tabs -> [last : 0..MaxBlocks, told : Nat, silent : Int]]
        /\ \A u \in Tabs \ {t} : account'[u] = account[u]
    <3>1. CASE f.type = "lagged"
      <4>1. f.dropped \in Nat /\ Lagged(t, f.dropped)
        BY <1>13, <2>1, <3>1, FrameIs, Bounds DEF Receive
      <4>2. /\ stream \in [Tabs -> [connected : BOOLEAN, dropped : Nat, readings : Seq(Blocks)]]
            /\ account \in [Tabs -> [last : 0..MaxBlocks, told : Nat, silent : Int]]
        BY DEF TypeOK
      <4>3. stream[t].dropped + f.dropped \in Nat /\ account[t].told + f.dropped \in Nat
        BY <4>1, <4>2
      <4>4. /\ stream' = [stream EXCEPT ![t].dropped = stream[t].dropped + f.dropped]
            /\ account' = [account EXCEPT ![t].told = account[t].told + f.dropped]
        BY <4>1 DEF Lagged
      <4>5. stream' \in [Tabs -> [connected : BOOLEAN, dropped : Nat, readings : Seq(Blocks)]]
        BY <4>2, <4>3, <4>4
      <4>6. /\ account' \in [Tabs -> [last : 0..MaxBlocks, told : Nat, silent : Int]]
            /\ \A u \in Tabs \ {t} : account'[u] = account[u]
        BY <4>2, <4>3, <4>4
      <4> QED BY <4>5, <4>6
    <3>2. CASE f.type # "lagged"
      <4> DEFINE a == account[t]
                 missed == IF a.last = 0 THEN 0 ELSE f.index - a.last - 1 - a.told
      <4>1. f.index \in Blocks /\ f.index \in 0..MaxBlocks /\ Block(t, f.index)
        BY <1>13, <2>1, <3>2, FrameIs, Bounds DEF Receive, Blocks
      <4>2. a \in [last : 0..MaxBlocks, told : Nat, silent : Int]
            /\ stream[t].readings \in Seq(Blocks)
        BY DEF TypeOK
      <4>3. missed \in Int /\ a.silent + missed \in Int
        BY <4>1, <4>2, Bounds
      <4>4. account' = [account EXCEPT ![t] =
                          [last |-> f.index, told |-> 0, silent |-> a.silent + missed]]
        BY <4>1 DEF Block
      <4>5. WithReading(stream[t].readings, f.index) \in Seq(Blocks)
        BY <4>1, <4>2, WithReadingIs
      <4>6. stream' = [stream EXCEPT ![t].readings = WithReading(stream[t].readings, f.index)]
        BY <4>1 DEF Block
      <4> HIDE DEF a, missed
      <4> QED BY ZenonT(60), <4>1, <4>3, <4>4, <4>5, <4>6 DEF TypeOK
    <3> QED BY <3>1, <3>2
  <2>4. TypeOK'
    BY <2>1, <2>2, <2>3 DEF TypeOK, upside, hub
  <2>5. SessionInv'
    <3>1. InUse' = InUse /\ UNCHANGED <<handler, joined, connects, closed, queue>>
      BY <2>2 DEF InUse, upside, hub
    <3>2. s \in InUse
      BY <2>1, InUseIs, Bounds
    <3>3. \A r \in Sessions \ {s} : pipe'[r] = pipe[r]
      BY <2>1 DEF TypeOK
    <3> QED BY <2>1, <3>1, <3>2, <3>3 DEF SessionInv
  <2>6. TabInv'
    BY <2>1, <2>2, <2>3, Bounds DEF TypeOK, TabInv, hub
  <2>7. UpstreamInv'
    BY <2>2 DEF UpstreamInv, upside
  <2> QED BY <2>4, <2>5, <2>6, <2>7
<1>14. ASSUME NEW t \in Tabs, OnClose(t)
       PROVE  Inv'
  <2>1. socket[t] \in Sessions /\ socket[t] # None
    BY <1>14, Bounds DEF TypeOK, OnClose
  <2>2. /\ tab' = [tab EXCEPT ![t] = "waiting"]
        /\ stream' = [stream EXCEPT ![t].connected = FALSE]
        /\ pipe' = [pipe EXCEPT ![socket[t]] = <<>>]
        /\ socket' = [socket EXCEPT ![t] = None]
        /\ account' = [account EXCEPT ![t] = Fresh]
        /\ closed' \subseteq closed /\ UNCHANGED <<upside, breaks, hub>>
    BY <1>14 DEF OnClose
  <2>3. /\ socket' \in [Tabs -> Sessions \cup {None}]
        /\ account' \in [Tabs -> [last : 0..MaxBlocks, told : Nat, silent : Int]]
        /\ InUse' = InUse \ {socket[t]} /\ TabInv'
    BY <2>1, <2>2, GivenUp DEF hub
  <2>4. TypeOK'
    <3>1. pipe' \in [Sessions -> Seq(Frame)] /\ \A r \in Sessions : Len(pipe'[r]) <= Room
      BY <2>1, <2>2, Emptied, Bounds DEF TypeOK
    <3>2. stream' \in [Tabs -> [connected : BOOLEAN, dropped : Nat, readings : Seq(Blocks)]]
      BY <2>2, ZenonT(60) DEF TypeOK
    <3>3. tab' \in [Tabs -> {"waiting", "opening", "open", "left"}]
          /\ \A u \in Tabs : tab'[u] = "open" <=> socket'[u] # None
      BY <2>2 DEF TypeOK
    <3> QED BY <2>2, <2>3, <3>1, <3>2, <3>3 DEF TypeOK, upside, hub
  <2>5. SessionInv'
    BY <1>14, <2>1, <2>3 DEF TypeOK, SessionInv, OnClose, upside, hub
  <2>6. UpstreamInv'
    BY <2>2 DEF UpstreamInv, upside
  <2> QED BY <2>3, <2>4, <2>5, <2>6
<1>15. ASSUME NEW t \in Tabs, Accept(t)
       PROVE  Inv'
  <2>1. PICK s \in Unused :
           handler' = [handler EXCEPT ![s] = "accepted"] /\ socket' = [socket EXCEPT ![t] = s]
    BY <1>15 DEF Accept
  <2>2. s \in Sessions /\ s \notin InUse /\ handler[s] = "none"
    BY DEF Unused
  <2>3. /\ tab[t] = "opening" /\ tab' = [tab EXCEPT ![t] = "open"]
        /\ stream' = [stream EXCEPT ![t].connected = TRUE]
        /\ UNCHANGED <<upside, breaks, queue, dropped, joined, pipe, closed, account>>
    BY <1>15 DEF Accept
  <2>4. socket[t] = None
    BY <2>3 DEF TypeOK
  <2>5. TypeOK'
    BY <2>1, <2>2, <2>3, Bounds, ZenonT(60) DEF TypeOK, upside
  <2>6. InUse' = InUse \cup {s}
    BY <2>1, <2>2, <2>4, Bounds, ZenonT(60) DEF TypeOK, InUse
  <2>7. SessionInv'
    BY <2>1, <2>2, <2>3, <2>6 DEF TypeOK, SessionInv, upside
  <2>8. TabInv'
    <3>1. /\ socket'[t] = s /\ s # None
          /\ \A u \in Tabs \ {t} : socket'[u] = socket[u] /\ socket[u] # s
      <4>1. s # None /\ \A u \in Tabs : socket[u] # s
        BY <2>2, InUseIs, Bounds
      <4> QED BY <2>1, <4>1 DEF TypeOK
    <3>2. handler'[s] = "accepted" /\ \A r \in Sessions \ {s} : handler'[r] = handler[r]
      BY <2>1, <2>2 DEF TypeOK
    <3>3. account' = account /\ account[t] = Fresh
      BY <2>3, <2>4 DEF TabInv
    <3>4. \A u, v \in Tabs : socket'[u] = socket'[v] /\ socket'[u] # None => u = v
      BY <3>1 DEF TabInv
    <3>5. \A u \in Tabs : socket'[u] = None => account'[u] = Fresh
      BY <3>1, <3>3 DEF TabInv
    <3>6. \A u \in Tabs, r \in Sessions :
             socket'[u] = r /\ handler'[r] = "accepted" => account'[u] = Fresh
      BY <3>1, <3>2, <3>3 DEF TabInv
    <3> QED BY <3>4, <3>5, <3>6 DEF TabInv
  <2>9. UpstreamInv'
    BY <2>3 DEF UpstreamInv, upside
  <2> QED BY <2>5, <2>7, <2>8, <2>9
<1>16. ASSUME NEW t \in Tabs, OpenFails(t)
       PROVE  Inv'
  <2>1. TypeOK' /\ UpstreamInv'
    BY <1>16 DEF TypeOK, UpstreamInv, OpenFails, upside, hub
  <2>2. SessionInv' /\ TabInv'
    BY <1>16 DEF SessionInv, TabInv, OpenFails, InUse, upside, hub
  <2> QED BY <2>1, <2>2
<1>17. ASSUME NEW t \in Tabs, SocketBreaks(t)
       PROVE  Inv'
  <2>1. TypeOK' /\ UpstreamInv'
    <3>1. socket[t] \in Sessions
      BY <1>17 DEF TypeOK, SocketBreaks
    <3> QED BY <1>17, <3>1, SMTT(60)
            DEF TypeOK, UpstreamInv, SocketBreaks, Break, upside, hub, browser
  <2>2. SessionInv' /\ TabInv'
    BY <1>17 DEF SessionInv, TabInv, SocketBreaks, InUse, upside, hub, browser
  <2> QED BY <2>1, <2>2
<1>18. ASSUME NEW t \in Tabs, Leave(t)
       PROVE  Inv'
  <2>1. CASE tab[t] = "open"
    <3>1. socket[t] \in Sessions /\ socket[t] # None
      BY <2>1, Bounds DEF TypeOK
    <3>2. /\ tab' = [tab EXCEPT ![t] = "left"]
          /\ stream' = [stream EXCEPT ![t].connected = FALSE]
          /\ pipe' = [pipe EXCEPT ![socket[t]] = <<>>]
          /\ socket' = [socket EXCEPT ![t] = None]
          /\ account' = [account EXCEPT ![t] = Fresh]
          /\ closed' \subseteq closed \cup {socket[t]} /\ UNCHANGED <<upside, breaks, hub>>
      BY <1>18, <2>1 DEF Leave
    <3>3. /\ socket' \in [Tabs -> Sessions \cup {None}]
          /\ account' \in [Tabs -> [last : 0..MaxBlocks, told : Nat, silent : Int]]
          /\ InUse' = InUse \ {socket[t]} /\ TabInv'
      BY <3>1, <3>2, GivenUp DEF hub
    <3>4. TypeOK'
      <4>1. pipe' \in [Sessions -> Seq(Frame)] /\ \A r \in Sessions : Len(pipe'[r]) <= Room
        BY <3>1, <3>2, Emptied, Bounds DEF TypeOK
      <4>2. stream' \in [Tabs -> [connected : BOOLEAN, dropped : Nat, readings : Seq(Blocks)]]
        BY ZenonT(60), <3>2 DEF TypeOK
      <4>3. tab' \in [Tabs -> {"waiting", "opening", "open", "left"}]
            /\ \A u \in Tabs : tab'[u] = "open" <=> socket'[u] # None
        BY <3>2 DEF TypeOK
      <4> QED BY <3>1, <3>2, <3>3, <4>1, <4>2, <4>3 DEF TypeOK, upside, hub
    <3>5. SessionInv'
      BY ZenonT(60), <1>18, <2>1, <3>1, <3>3 DEF TypeOK, SessionInv, Leave, upside, hub
    <3>6. UpstreamInv'
      BY <3>2 DEF UpstreamInv, upside
    <3> QED BY <3>3, <3>4, <3>5, <3>6
  <2>2. CASE tab[t] # "open"
    <3>1. TypeOK' /\ UpstreamInv'
      BY <1>18, <2>2 DEF TypeOK, UpstreamInv, Leave, upside, hub
    <3>2. SessionInv' /\ TabInv'
      BY <1>18, <2>2 DEF SessionInv, TabInv, Leave, InUse, upside, hub
    <3> QED BY <3>1, <3>2
  <2> QED BY <2>1, <2>2
<1>19. CASE UNCHANGED vars
  BY SMTT(30), <1>19 DEF TypeOK, UpstreamInv, SessionInv, TabInv, InUse, vars, upside, hub, browser
<1> QED BY <1>1, <1>2, <1>3, <1>4, <1>5, <1>6, <1>7, <1>8, <1>9, <1>10, <1>11, <1>12,
           <1>13, <1>14, <1>15, <1>16, <1>17, <1>18, <1>19
        DEF Next, FeedStep, SessionStep, TabStep

-----------------------------------------------------------------------------
(* No dashboard goes back *)

LEMMA OrderInit == Init => OrderInv
<1> SUFFICES ASSUME Init
             PROVE  OrderInv
  OBVIOUS
<1>1. Indices(<<>>) = {} /\ Rising(<<>>) /\ ToSet(<<>>) = {}
  BY NoIndices DEF ToSet
<1>2. WireOrder /\ Coming = {}
  BY <1>1 DEF Init, WireOrder, Coming, NoUpstream, Before
<1>3. ASSUME NEW s \in Sessions PROVE SessionOrder(s)
  <2>1. pipe[s] = <<>> /\ queue[s] = <<>>
    BY DEF Init
  <2> QED BY <1>1, <1>2, <2>1 DEF SessionOrder, Before
<1>4. ASSUME NEW t \in Tabs PROVE TabOrder(t)
  <2>1. Latest(t) = 0 /\ published = 0 /\ socket[t] = None
    BY DEF Init, Latest
  <2> QED BY <1>2, <2>1, Bounds DEF TabOrder, Before
<1> QED BY <1>2, <1>3, <1>4 DEF OrderInv

\* A step that adds nothing to any queue, and gives dashboards only sessions that
\* hold nothing.
AddsNothing ==
    /\ published' = published
    /\ \A s \in Sessions : pipe'[s] \in {pipe[s], <<>>}
    /\ \A s \in Sessions : queue'[s] \in {queue[s], <<>>}
    /\ \A t \in Tabs : stream'[t].readings = stream[t].readings
    /\ \A t \in Tabs, s \in Sessions :
          socket'[t] = s => socket[t] = s \/ (pipe'[s] = <<>> /\ queue'[s] = <<>>)

\* It keeps the order if nothing new is coming either.
LEMMA NothingAdded ==
    ASSUME OrderInv, WireOrder', Coming' \subseteq Coming, AddsNothing
    PROVE  /\ OrderInv'
           /\ \A t \in Tabs : stream'[t].readings = stream[t].readings
<1>0. /\ published' = published
      /\ \A s \in Sessions : pipe'[s] \in {pipe[s], <<>>} /\ queue'[s] \in {queue[s], <<>>}
      /\ \A t \in Tabs : stream'[t].readings = stream[t].readings
      /\ \A t \in Tabs, s \in Sessions :
            socket'[t] = s => socket[t] = s \/ (pipe'[s] = <<>> /\ queue'[s] = <<>>)
  BY DEF AddsNothing
<1>1. ASSUME NEW s \in Sessions
      PROVE  /\ Indices(pipe'[s]) \subseteq Indices(pipe[s])
             /\ Indices(queue'[s]) \subseteq Indices(queue[s])
             /\ SessionOrder(s)'
  <2>1. /\ Indices(pipe'[s]) \subseteq Indices(pipe[s])
        /\ Indices(queue'[s]) \subseteq Indices(queue[s])
    BY <1>0, NoIndices
  <2>2. Rising(pipe'[s]) /\ Rising(queue'[s])
    BY <1>0, NoIndices DEF OrderInv, SessionOrder
  <2>3. /\ Before(Indices(pipe'[s]), Indices(queue'[s]))
        /\ Before(Indices(pipe'[s]) \cup Indices(queue'[s]), Coming')
        /\ Indices(pipe'[s]) \cup Indices(queue'[s]) \subseteq 1..published'
    BY <1>0, <2>1 DEF OrderInv, SessionOrder, Before
  <2> QED BY <2>1, <2>2, <2>3 DEF SessionOrder
<1>2. ASSUME NEW t \in Tabs
      PROVE  TabOrder(t)'
  <2>1. Latest(t)' = Latest(t)
    BY <1>0 DEF Latest
  <2>2. Latest(t) <= published /\ Before({Latest(t)}, Coming')
    BY <1>0 DEF OrderInv, TabOrder, Before
  <2>3. ASSUME NEW s \in Sessions, socket'[t] = s
        PROVE  Before({Latest(t)}, Indices(pipe'[s]) \cup Indices(queue'[s]))
    <3>1. CASE socket[t] = s
      BY <1>1, <3>1 DEF OrderInv, TabOrder, Before
    <3>2. CASE pipe'[s] = <<>> /\ queue'[s] = <<>>
      BY <3>2, NoIndices DEF Before
    <3> QED BY <1>0, <2>3, <3>1, <3>2
  <2> QED BY <1>0, <2>1, <2>2, <2>3 DEF TabOrder
<1> QED BY <1>0, <1>1, <1>2 DEF OrderInv

LEMMA LatestIs ==
    ASSUME TypeOK, NEW t \in Tabs
    PROVE  Latest(t) \in Nat
<1>1. stream[t].readings \in Seq(Blocks)
  BY DEF TypeOK
<1>2. stream[t].readings # <<>> => Last(stream[t].readings) \in Blocks
  BY <1>1 DEF Last
<1> QED BY <1>2 DEF Latest, Blocks

\* The next block is newer than all there are.
LEMMA PublishOrder == Inv /\ OrderInv /\ Publish => OrderInv'
<1> SUFFICES ASSUME Inv, OrderInv, Publish
             PROVE  OrderInv'
  OBVIOUS
<1>1. /\ published \in Nat /\ published' = published + 1
      /\ UNCHANGED <<feed, connects, wire, queue, pipe, socket, stream>>
  BY DEF Inv, TypeOK, Publish, hub, browser
<1>2. ToSet(upstream'.buffer) \subseteq ToSet(upstream.buffer) \cup {published'}
  <2>1. CASE feed = "connected"
    BY <2>1, PublishUpstream DEF Inv
  <2>2. CASE feed # "connected"
    BY <2>2 DEF Publish
  <2> QED BY <2>1, <2>2
<1>3. Coming' \subseteq Coming \cup {published'}
  BY <1>1, <1>2 DEF Coming
<1>4. 1..published \subseteq 1..published' /\ \A x \in 1..published : x < published'
  BY <1>1
<1>5. WireOrder'
  BY <1>1, <1>2, <1>4 DEF OrderInv, WireOrder, Before
<1>6. ASSUME NEW s \in Sessions
      PROVE  SessionOrder(s)'
  BY <1>1, <1>3, <1>4 DEF OrderInv, SessionOrder, Before
<1>7. ASSUME NEW t \in Tabs
      PROVE  TabOrder(t)'
  <2>1. Latest(t)' = Latest(t) /\ Latest(t) \in Nat
    BY <1>1, LatestIs DEF Inv, Latest
  <2>2. Latest(t) <= published' /\ Latest(t) < published'
    <3>1. Latest(t) <= published
      BY DEF OrderInv, TabOrder
    <3> QED BY <1>1, <2>1, <3>1
  <2> QED BY <1>1, <1>3, <2>1, <2>2 DEF OrderInv, TabOrder, Before
<1> QED BY <1>5, <1>6, <1>7 DEF OrderInv

\* The frame that Dispatch takes from the wire is older than all that is still coming,
\* and newer than all in the sessions it goes to.
LEMMA DispatchOrder == Inv /\ OrderInv /\ Dispatch => OrderInv'
<1> SUFFICES ASSUME Inv, OrderInv, Dispatch
             PROVE  OrderInv'
  OBVIOUS
<1> DEFINE f == Head(wire)
<1>1. /\ wire \in Seq(Frame) /\ wire # <<>> /\ f \in Frame /\ Tail(wire) \in Seq(Frame)
      /\ wire' = Tail(wire) /\ UNCHANGED <<published, upstream, pipe, socket, stream>>
      /\ queue' = [s \in Sessions |-> IF s \in Subscribed THEN Put(s, f) ELSE queue[s]]
  BY HeadAndTail DEF Inv, TypeOK, Dispatch, Recipients, browser
<1> HIDE DEF f
<1>2. /\ Indices(wire) = Own(f) \cup Indices(wire')
      /\ Rising(wire') /\ Before(Own(f), Indices(wire'))
  BY <1>1, TakeHead DEF OrderInv, WireOrder, f
<1>3. Coming = Own(f) \cup Coming' /\ Before(Own(f), Coming')
  BY <1>1, <1>2 DEF Coming, OrderInv, WireOrder, Before
<1>4. WireOrder' /\ Own(f) \subseteq 1..published
  BY <1>1, <1>2 DEF OrderInv, WireOrder, Before
<1>5. ASSUME NEW s \in Sessions
      PROVE  /\ Indices(queue'[s]) \subseteq Indices(queue[s]) \cup Own(f)
             /\ Rising(queue'[s])
  <2>1. /\ queue[s] \in Seq(Frame) /\ Len(queue[s]) <= QueueCapacity
        /\ Rising(queue[s]) /\ Before(Indices(queue[s]), Own(f))
    BY <1>3 DEF Inv, TypeOK, OrderInv, SessionOrder, Before
  <2>2. CASE s \in Subscribed /\ Len(queue[s]) >= QueueCapacity
    <3> DEFINE r == Tail(queue[s])
    <3>1. queue[s] # <<>> /\ queue'[s] = Append(r, f)
      BY <1>1, <2>1, <2>2, PutIs
    <3>2. r \in Seq(Frame)
      BY <2>1, <3>1, HeadAndTail
    <3>3. Rising(r) /\ Indices(r) \subseteq Indices(queue[s])
      BY <2>1, <3>1, TakeHead
    <3> HIDE DEF r
    <3>4. Before(Indices(r), Own(f))
      BY <2>1, <3>3 DEF Before
    <3> QED BY <1>1, <3>1, <3>2, <3>3, <3>4, AddFrame
  <2>3. CASE s \in Subscribed /\ ~(Len(queue[s]) >= QueueCapacity)
    <3>1. queue'[s] = Append(queue[s], f)
      BY <1>1, <2>1, <2>3, PutIs
    <3> QED BY <1>1, <2>1, <3>1, AddFrame
  <2>4. CASE s \notin Subscribed
    BY <1>1, <2>1, <2>4
  <2> QED BY <2>2, <2>3, <2>4
<1>6. ASSUME NEW s \in Sessions
      PROVE  SessionOrder(s)'
  BY <1>1, <1>3, <1>4, <1>5 DEF OrderInv, SessionOrder, Before
<1>7. ASSUME NEW t \in Tabs
      PROVE  TabOrder(t)'
  <2>1. Latest(t)' = Latest(t)
    BY <1>1 DEF Latest
  <2> QED BY <1>1, <1>3, <1>5, <2>1 DEF OrderInv, TabOrder, Before
<1> QED BY <1>4, <1>6, <1>7 DEF OrderInv

\* What SendFrame moves stays between the same frames.
LEMMA SendFrameOrder ==
    ASSUME Inv, OrderInv, NEW s \in Sessions, SendFrame(s)
    PROVE  OrderInv'
<1> DEFINE f == Head(queue[s])
<1>1. /\ queue[s] \in Seq(Frame) /\ queue[s] # <<>> /\ pipe[s] \in Seq(Frame)
      /\ f \in Frame
      /\ UNCHANGED <<published, wire, upstream, socket, stream>>
  BY HeadAndTail DEF Inv, TypeOK, SendFrame, upside, browser
<1>2. /\ queue'[s] = Tail(queue[s]) /\ pipe'[s] = Append(pipe[s], f)
      /\ \A r \in Sessions \ {s} : queue'[r] = queue[r] /\ pipe'[r] = pipe[r]
  BY DEF Inv, TypeOK, SendFrame
<1> HIDE DEF f
<1>3. SessionOrder(s)
  BY DEF OrderInv
<1>4. /\ Indices(queue[s]) = Own(f) \cup Indices(queue'[s])
      /\ Rising(queue'[s]) /\ Before(Own(f), Indices(queue'[s]))
  BY <1>1, <1>2, <1>3, TakeHead DEF SessionOrder, f
<1>5. Indices(pipe'[s]) = Indices(pipe[s]) \cup Own(f) /\ Rising(pipe'[s])
  BY <1>1, <1>2, <1>3, <1>4, AddFrame DEF SessionOrder, Before
<1>6. WireOrder' /\ Coming' = Coming
  BY <1>1 DEF OrderInv, WireOrder, Coming
<1>7. SessionOrder(s)'
  BY <1>1, <1>3, <1>4, <1>5, <1>6 DEF SessionOrder, Before
<1>8. ASSUME NEW r \in Sessions \ {s}
      PROVE  SessionOrder(r)'
  BY <1>1, <1>2, <1>6 DEF OrderInv, SessionOrder
<1>9. \A r \in Sessions :
         Indices(pipe'[r]) \cup Indices(queue'[r]) = Indices(pipe[r]) \cup Indices(queue[r])
  BY <1>2, <1>4, <1>5
<1>10. ASSUME NEW t \in Tabs
       PROVE  TabOrder(t)'
  <2>1. Latest(t)' = Latest(t)
    BY <1>1 DEF Latest
  <2> QED BY <1>1, <1>6, <1>9, <2>1 DEF OrderInv, TabOrder
<1> QED BY <1>6, <1>7, <1>8, <1>10 DEF OrderInv

\* A dashboard receives what is newer than all it has, and older than all that is to come.
LEMMA ReceiveOrder ==
    ASSUME Inv, OrderInv, NEW t \in Tabs, Receive(t)
    PROVE  /\ OrderInv'
           /\ \A u \in Tabs : stream'[u].readings # stream[u].readings => Latest(u)' > Latest(u)
<1> DEFINE s == socket[t]
           f == Head(pipe[s])
<1>1. /\ s \in Sessions /\ pipe[s] \in Seq(Frame) /\ pipe[s] # <<>> /\ f \in Frame
      /\ pipe' = [pipe EXCEPT ![s] = Tail(pipe[s])]
      /\ UNCHANGED <<published, wire, upstream, queue, socket>>
  BY Received DEF Receive, upside, hub
<1>2. /\ pipe'[s] = Tail(pipe[s])
      /\ \A r \in Sessions \ {s} : pipe'[r] = pipe[r]
  BY <1>1 DEF Inv, TypeOK
<1>3. SessionOrder(s) /\ TabOrder(t)
  BY <1>1 DEF OrderInv
<1> HIDE DEF f
<1>4. /\ Indices(pipe[s]) = Own(f) \cup Indices(pipe'[s])
      /\ Rising(pipe'[s]) /\ Before(Own(f), Indices(pipe'[s]))
  BY <1>1, <1>2, <1>3, TakeHead DEF SessionOrder, f
<1>5. WireOrder' /\ Coming' = Coming
  BY <1>1 DEF OrderInv, WireOrder, Coming
<1>6. ASSUME NEW r \in Sessions
      PROVE  SessionOrder(r)' /\ Indices(pipe'[r]) \subseteq Indices(pipe[r])
  <2>1. CASE r = s
    BY <1>1, <1>3, <1>4, <1>5, <2>1 DEF SessionOrder, Before
  <2>2. CASE r # s
    BY <1>1, <1>2, <1>5, <2>2 DEF OrderInv, SessionOrder
  <2> QED BY <2>1, <2>2
<1>7. \A u \in Tabs \ {t} : stream'[u] = stream[u]
  BY DEF Inv, TypeOK, Receive, Lagged, Block
<1>8. ASSUME NEW u \in Tabs, stream'[u].readings = stream[u].readings
      PROVE  TabOrder(u)'
  <2>1. Latest(u)' = Latest(u)
    BY <1>8 DEF Latest
  <2> QED BY <1>1, <1>5, <1>6, <2>1 DEF OrderInv, TabOrder, Before
<1>9. CASE f.type = "lagged"
  <2>1. stream'[t].readings = stream[t].readings
    BY <1>9 DEF Inv, TypeOK, Receive, Lagged, f
  <2>2. \A u \in Tabs : stream'[u].readings = stream[u].readings
    BY <1>7, <2>1
  <2> QED BY <1>5, <1>6, <1>8, <2>2 DEF OrderInv
<1>10. CASE f.type # "lagged"
  <2>1. f.type = "block" /\ f.index \in Blocks /\ Own(f) = {f.index}
    BY <1>1, <1>10, FrameIs DEF Own
  <2>2. stream'[t].readings = WithReading(stream[t].readings, f.index)
    BY <1>10 DEF Inv, TypeOK, Receive, Block, f
  <2>3. stream[t].readings \in Seq(Blocks)
    BY DEF Inv, TypeOK
  <2>4. Latest(t)' = f.index
    BY <2>1, <2>2, <2>3, WithReadingIs DEF Latest
  <2>5. f.index \in 1..published /\ Latest(t) < f.index
    BY <1>1, <1>3, <1>4, <2>1 DEF SessionOrder, TabOrder, Before
  <2>6. Before({f.index}, Coming)
    BY <1>3, <1>4, <2>1 DEF SessionOrder, Before
  <2>7. Before({f.index}, Indices(pipe'[s]) \cup Indices(queue[s]))
    BY <1>3, <1>4, <2>1 DEF SessionOrder, Before
  <2>8. f.index <= published
    BY <2>5 DEF Inv, TypeOK
  <2>9. TabOrder(t)'
    BY <1>1, <1>5, <2>4, <2>6, <2>7, <2>8 DEF TabOrder
  <2>10. Latest(t)' > Latest(t)
    <3>1. Latest(t) \in Nat /\ f.index \in Nat
      BY <2>1, LatestIs DEF Inv, Blocks
    <3> QED BY <2>4, <2>5, <3>1
  <2> QED BY <1>5, <1>6, <1>7, <1>8, <2>9, <2>10 DEF OrderInv
<1> QED BY <1>9, <1>10

\* Every step keeps the order, and takes no dashboard back.
LEMMA OrderNext ==
    ASSUME Inv, OrderInv, [Next]_vars
    PROVE  /\ OrderInv'
           /\ \A t \in Tabs : stream'[t].readings # stream[t].readings => Latest(t)' > Latest(t)
<1> DEFINE Same == \A t \in Tabs : stream'[t].readings = stream[t].readings
<1>1. CASE Publish
  <2>1. Same
    BY <1>1 DEF Publish, browser
  <2> QED BY <1>1, <2>1, PublishOrder
<1>2. CASE SendUpstream
  <2> DEFINE q == upstream.buffer
             notice == [type |-> "lagged", dropped |-> upstream.lagged]
             block == [type |-> "block", index |-> Head(q)]
  <2>1. /\ feed = "connected" /\ wire = <<>> /\ q \in Seq(Blocks) /\ q # <<>> /\ block \in Frame
        /\ \/ wire' = Append(<<>>, block)
           \/ notice \in Frame /\ wire' = Append(Append(<<>>, notice), block)
        /\ upstream' = [buffer |-> Tail(q), lagged |-> 0]
    BY <1>2, SentUpstream DEF Inv
  <2>2. /\ Own(notice) = {} /\ Own(block) = {Head(q)}
        /\ Indices(<<>>) = {} /\ Rising(<<>>) /\ <<>> \in Seq(Frame)
    BY NoIndices DEF Own
  <2>3. Head(q) = q[1] /\ Len(q) \in Nat /\ Len(q) >= 1
        /\ Len(Tail(q)) = Len(q) - 1 /\ \A i \in 1..(Len(q) - 1) : Tail(q)[i] = q[i + 1]
    BY <2>1, HeadAndTail
  <2>4. \A i \in 1..Len(q) : q[i] = published - Len(q) + i
    BY <2>1 DEF Inv, UpstreamInv
  <2> HIDE DEF notice, block
  <2>5. Indices(wire') = {Head(q)} /\ Rising(wire')
    <3>1. CASE wire' = Append(<<>>, block)
      BY <2>1, <2>2, <3>1, AddFrame DEF Before
    <3>2. CASE notice \in Frame /\ wire' = Append(Append(<<>>, notice), block)
      <4>1. /\ Append(<<>>, notice) \in Seq(Frame)
            /\ Indices(Append(<<>>, notice)) = {} /\ Rising(Append(<<>>, notice))
        BY <2>2, <3>2, AppendIs, AddFrame DEF Before
      <4> QED BY <2>1, <2>2, <3>2, <4>1, AddFrame DEF Before
    <3> QED BY <2>1, <3>1, <3>2
  <2>6. ToSet(q) = {Head(q)} \cup ToSet(Tail(q))
    <3>1. \A i \in 1..Len(q) : i = 1 \/ (i - 1 \in 1..(Len(q) - 1) /\ q[i] = Tail(q)[i - 1])
      BY <2>3
    <3>2. \A i \in 1..(Len(q) - 1) : i + 1 \in 1..Len(q)
      BY <2>3
    <3>3. 1 \in 1..Len(q) /\ DOMAIN q = 1..Len(q) /\ DOMAIN Tail(q) = 1..(Len(q) - 1)
      BY <2>1, <2>3
    <3>4. ToSet(q) = {q[i] : i \in 1..Len(q)}
          /\ ToSet(Tail(q)) = {Tail(q)[i] : i \in 1..(Len(q) - 1)}
      BY <3>3 DEF ToSet
    <3>5. ToSet(q) \subseteq {Head(q)} \cup ToSet(Tail(q))
      BY <2>3, <3>1, <3>4, ZenonT(60)
    <3>6. Head(q) \in ToSet(q) /\ ToSet(Tail(q)) \subseteq ToSet(q)
      BY <2>3, <3>2, <3>3, <3>4
    <3> QED BY <3>5, <3>6
  <2>7. Before({Head(q)}, ToSet(Tail(q))) /\ Head(q) \in 1..published
    <3>1. published \in Nat /\ upstream.lagged \in Nat /\ upstream.lagged + Len(q) <= published
      BY <2>1, Bounds DEF Inv, TypeOK, UpstreamInv
    <3>2. Head(q) = published - Len(q) + 1
      <4>1. 1 \in 1..Len(q)
        BY <2>3
      <4> QED BY <2>3, <2>4, <4>1
    <3>3. ASSUME NEW i \in 1..(Len(q) - 1)
          PROVE  Head(q) < Tail(q)[i]
      <4>1. i + 1 \in 1..Len(q) /\ Tail(q)[i] = q[i + 1]
        BY <2>3
      <4>2. Tail(q)[i] = published - Len(q) + (i + 1)
        BY <2>4, <4>1
      <4>3. \A x, y \in Nat : x - y + 1 < x - y + (i + 1)
        OBVIOUS
      <4> QED BY <2>3, <3>1, <3>2, <4>2, <4>3
    <3>4. DOMAIN Tail(q) = 1..(Len(q) - 1)
      BY <2>1, <2>3
    <3>5. published - Len(q) + 1 \in 1..published
      <4>1. \A x, y, z \in Nat : z + y <= x /\ y >= 1 => x - y + 1 \in 1..x
        OBVIOUS
      <4> QED BY <2>3, <3>1, <4>1
    <3> QED BY <3>2, <3>3, <3>4, <3>5 DEF ToSet, Before
  <2>8. published' = published /\ UNCHANGED <<queue, pipe, socket, stream>>
    BY <1>2 DEF SendUpstream, hub, browser
  <2>9. upstream'.buffer = Tail(q)
    BY <2>1
  <2>10. Coming' \subseteq Coming
    BY <2>5, <2>6, <2>9 DEF Coming
  <2>11. WireOrder'
    BY <2>5, <2>7, <2>8, <2>9 DEF WireOrder
  <2>12. AddsNothing
    BY <2>8 DEF AddsNothing
  <2> QED BY <2>10, <2>11, <2>12, NothingAdded
<1>3. CASE Dispatch
  <2>1. Same
    BY <1>3 DEF Dispatch, browser
  <2> QED BY <1>3, <2>1, DispatchOrder
<1>4. ASSUME NEW s \in Sessions, SendFrame(s)
      PROVE  OrderInv' /\ Same
  <2>1. Same
    BY <1>4 DEF SendFrame, browser
  <2> QED BY <1>4, <2>1, SendFrameOrder
<1>5. ASSUME NEW t \in Tabs, Receive(t)
      PROVE  /\ OrderInv'
             /\ \A u \in Tabs :
                   stream'[u].readings # stream[u].readings => Latest(u)' > Latest(u)
  BY <1>5, ReceiveOrder
\* Of the other steps none adds to a queue.
<1>6. CASE Retry \/ Connect \/ ConnectFails \/ UNCHANGED vars
  <2>1. UNCHANGED <<published, upstream, wire, queue, pipe, socket, stream>>
    BY <1>6 DEF Retry, Connect, ConnectFails, vars, upside, hub, browser
  <2>2. WireOrder' /\ Coming' = Coming
    BY <2>1 DEF OrderInv, WireOrder, Coming
  <2>3. AddsNothing
    BY <2>1 DEF AddsNothing
  <2> QED BY <2>2, <2>3, NothingAdded
<1>7. CASE FeedBreaks \/ BackendRestarts
  <2>1. /\ upstream'.buffer = <<>> /\ wire' = <<>> /\ UNCHANGED <<published, pipe, socket, stream>>
        /\ \A s \in Sessions : queue'[s] \in {queue[s], <<>>}
    BY <1>7 DEF FeedBreaks, BackendRestarts, NoUpstream, hub, browser
  <2>2. WireOrder' /\ Coming' = {}
    BY <2>1, NoIndices DEF WireOrder, Coming, Before, ToSet
  <2>3. AddsNothing
    BY <2>1 DEF AddsNothing
  <2> QED BY <2>2, <2>3, NothingAdded
<1>8. ASSUME NEW s \in Sessions, Subscribe(s) \/ EndSession(s)
      PROVE  OrderInv' /\ Same
  <2>1. /\ UNCHANGED <<published, upstream, wire, socket, stream>>
        /\ \A r \in Sessions : queue'[r] \in {queue[r], <<>>} /\ pipe'[r] \in {pipe[r], <<>>}
    BY <1>8 DEF Inv, TypeOK, Subscribe, EndSession, upside, browser
  <2>2. WireOrder' /\ Coming' = Coming
    BY <2>1 DEF OrderInv, WireOrder, Coming
  <2>3. AddsNothing
    BY <2>1 DEF AddsNothing
  <2> QED BY <2>2, <2>3, NothingAdded
<1>9. ASSUME NEW t \in Tabs,
             OpenAgain(t) \/ OnClose(t) \/ OpenFails(t) \/ SocketBreaks(t) \/ Leave(t)
      PROVE  OrderInv' /\ Same
  <2>1. UNCHANGED <<published, upstream, wire, queue>>
    BY <1>9 DEF OpenAgain, OnClose, OpenFails, SocketBreaks, Leave, upside, hub
  <2>2. \A s \in Sessions : pipe'[s] \in {pipe[s], <<>>}
    BY <1>9 DEF Inv, TypeOK, OpenAgain, OnClose, OpenFails, SocketBreaks, Leave
  <2>3. Same
    <3>1. CASE OnClose(t) \/ Leave(t)
      <4>1. \/ stream' = stream
            \/ stream' = [stream EXCEPT ![t].connected = FALSE]
        BY <3>1 DEF OnClose, Leave
      <4>2. stream \in [Tabs -> [connected : BOOLEAN, dropped : Nat, readings : Seq(Blocks)]]
        BY DEF Inv, TypeOK
      <4> QED BY <4>1, <4>2
    <3>2. CASE OpenAgain(t) \/ OpenFails(t) \/ SocketBreaks(t)
      BY <3>2 DEF OpenAgain, OpenFails, SocketBreaks, browser
    <3> QED BY <1>9, <3>1, <3>2
  <2>4. \A u \in Tabs : socket'[u] \in {socket[u], None}
    BY <1>9 DEF Inv, TypeOK, OpenAgain, OnClose, OpenFails, SocketBreaks, Leave, browser
  <2>5. WireOrder' /\ Coming' = Coming
    BY <2>1 DEF OrderInv, WireOrder, Coming
  <2>6. \A u \in Tabs, s \in Sessions : socket'[u] = s => socket[u] = s
    BY <2>4, Bounds
  <2>7. AddsNothing
    BY <2>1, <2>2, <2>3, <2>6 DEF AddsNothing
  <2> QED BY <2>5, <2>7, NothingAdded
<1>10. ASSUME NEW t \in Tabs, Accept(t)
       PROVE  OrderInv' /\ Same
  <2>1. PICK s \in Unused : socket' = [socket EXCEPT ![t] = s]
    BY <1>10 DEF Accept
  <2>2. s \in Sessions /\ pipe[s] = <<>> /\ queue[s] = <<>>
    BY DEF Unused, Inv, SessionInv
  <2>3. UNCHANGED <<published, upstream, wire, queue, pipe>> /\ Same
    BY <1>10 DEF Accept, Inv, TypeOK, upside
  <2>4. WireOrder' /\ Coming' = Coming
    BY <2>3 DEF OrderInv, WireOrder, Coming
  <2>5. \A u \in Tabs, r \in Sessions :
           socket'[u] = r => socket[u] = r \/ (pipe'[r] = <<>> /\ queue'[r] = <<>>)
    BY <2>1, <2>2, <2>3 DEF Inv, TypeOK
  <2>6. AddsNothing
    BY <2>3, <2>5 DEF AddsNothing
  <2> QED BY <2>4, <2>6, NothingAdded
<1> HIDE DEF Same
<1> QED BY <1>1, <1>2, <1>3, <1>4, <1>5, <1>6, <1>7, <1>8, <1>9, <1>10
        DEF Next, FeedStep, SessionStep, TabStep, Same

-----------------------------------------------------------------------------
(* Every gap is explained *)

LEMMA GapInit == Init => GapInv
<1> SUFFICES ASSUME Init
             PROVE  GapInv
  OBVIOUS
<1>1. feed # "connected" /\ \A s \in Sessions : s \notin Subscribed
  BY DEF Init, Subscribed
<1> QED BY <1>1 DEF GapInv, WireAccounts, Followed

\* A step that changes neither what is known nor how it joins.
KeepsAccounts ==
    /\ \A w \in Nat : WireAccounts(w) => WireAccounts(w)'
    /\ \A t \in Tabs, s \in Sessions :
          socket'[t] = s /\ Followed(s)' =>
              /\ socket[t] = s /\ Followed(s)
              /\ account'[t] = account[t] /\ pipe'[s] = pipe[s] /\ queue'[s] = queue[s]

LEMMA AccountsKept ==
    ASSUME GapInv, KeepsAccounts
    PROVE  GapInv'
<1>1. \E w \in Nat : WireAccounts(w)'
  BY DEF GapInv, KeepsAccounts
<1>2. ASSUME NEW t \in Tabs, NEW s \in Sessions, socket'[t] = s, Followed(s)'
      PROVE  TabAccounts(t, s)'
  <2>1. /\ socket[t] = s /\ Followed(s)
        /\ account'[t] = account[t] /\ pipe'[s] = pipe[s] /\ queue'[s] = queue[s]
    BY <1>2 DEF KeepsAccounts
  <2>2. TabAccounts(t, s)
    BY <2>1 DEF GapInv
  <2>3. PICK p \in Nat, m \in Nat, w \in Nat :
           /\ Knows(t, p)
           /\ Accounts(pipe[s], p, m) /\ Accounts(queue[s], m, w) /\ WireAccounts(w)
    BY <2>2 DEF TabAccounts
  <2>4. account'[t].silent = 0
    BY <2>1, <2>2 DEF TabAccounts
  <2>5. Knows(t, p)' /\ WireAccounts(w)'
    BY <2>1, <2>3 DEF Knows, KeepsAccounts
  <2>6. Accounts(pipe'[s], p, m) /\ Accounts(queue'[s], m, w)
    BY <2>1, <2>3
  <2> QED BY <2>4, <2>5, <2>6 DEF TabAccounts
<1> QED BY <1>1, <1>2 DEF GapInv

\* Publishing adds to what storage-core holds, or to what it has counted as dropped, but
\* not to what it has sent.
LEMMA PublishGap == Inv /\ GapInv /\ Publish => GapInv'
<1> SUFFICES ASSUME Inv, GapInv, Publish
             PROVE  GapInv'
  OBVIOUS
<1>1. UNCHANGED <<feed, connects, wire, handler, queue, dropped, joined, pipe, socket, account>>
  BY DEF Publish, hub, browser
<1>2. CASE feed = "connected"
  <2>1. /\ upstream' \in [buffer : Seq(Blocks), lagged : 0..MaxBlocks]
        /\ upstream'.lagged + Len(upstream'.buffer) = upstream.lagged + Len(upstream.buffer) + 1
    BY <1>2, PublishUpstream DEF Inv
  <2>2. /\ published \in Nat /\ published' = published + 1
        /\ upstream.lagged \in Nat /\ Len(upstream.buffer) \in Nat
    BY Bounds DEF Inv, TypeOK, Publish
  <2>3. upstream'.lagged \in Nat /\ Len(upstream'.buffer) \in Nat
    BY <2>1, Bounds
  <2>4. \A a, b, c, d, n \in Nat : c + d = a + b + 1 => (n + 1) - c - d = n - a - b
    OBVIOUS
  <2>5. Sent' = Sent
    BY <2>1, <2>2, <2>3, <2>4, SMTT(60) DEF Sent
  <2>6. KeepsAccounts
    BY <1>1, <2>5 DEF KeepsAccounts, WireAccounts, Followed, Subscribed
  <2> QED BY <2>6, AccountsKept
<1>3. CASE feed # "connected"
  <2>1. KeepsAccounts
    BY <1>1, <1>3 DEF KeepsAccounts, WireAccounts, Followed, Subscribed
  <2> QED BY <2>1, AccountsKept
<1> QED BY <1>2, <1>3

\* The notice and the block that are sent together tell of all between the last block
\* sent and this one.
LEMMA SendUpstreamGap == Inv /\ GapInv /\ SendUpstream => GapInv'
<1> SUFFICES ASSUME Inv, GapInv, SendUpstream
             PROVE  GapInv'
  OBVIOUS
<1> DEFINE q == upstream.buffer
           l == upstream.lagged
           notice == [type |-> "lagged", dropped |-> l]
           block == [type |-> "block", index |-> Head(q)]
<1>1. /\ feed = "connected" /\ wire = <<>> /\ Head(q) = Sent + l + 1 /\ block \in Frame
      /\ \/ l = 0 /\ wire' = Append(<<>>, block)
         \/ /\ l > 0 /\ notice \in Frame
            /\ wire' = Append(Append(<<>>, notice), block)
      /\ Sent' = Head(q)
  BY SentUpstream DEF Inv
<1>2. Sent \in Nat /\ l \in Nat /\ <<>> \in Seq(Frame)
  <2>1. /\ published \in Nat /\ l \in Nat /\ Len(q) \in Nat /\ l + Len(q) <= published
    BY <1>1, Bounds DEF Inv, TypeOK, UpstreamInv
  <2>2. \A a, b, n \in Nat : a + b <= n => n - a - b \in Nat
    OBVIOUS
  <2> QED BY <2>1, <2>2 DEF Sent
<1>3. block.type = "block" /\ block.index = Head(q) /\ notice.type = "lagged" /\ notice.dropped = l
  OBVIOUS
<1> HIDE DEF notice, block, l, q
<1>4. Head(q) \in Nat /\ Sent + l \in Nat /\ Accounts(<<>>, Sent, Sent)
  BY <1>1, <1>2, NothingTold
<1>5. Accounts(wire', Sent, Sent')
  <2>1. CASE l = 0 /\ wire' = Append(<<>>, block)
    <3>1. Tells(block, Sent, Head(q))
      BY <1>1, <1>2, <1>3, <2>1 DEF Tells
    <3> QED BY <1>1, <1>2, <1>4, <2>1, <3>1, MoreTold
  <2>2. CASE notice \in Frame /\ wire' = Append(Append(<<>>, notice), block)
    <3>1. Tells(notice, Sent, Sent + l) /\ Tells(block, Sent + l, Head(q))
      BY <1>1, <1>2, <1>3 DEF Tells
    <3>2. Append(<<>>, notice) \in Seq(Frame) /\ Accounts(Append(<<>>, notice), Sent, Sent + l)
      BY <1>2, <1>4, <2>2, <3>1, AppendIs, MoreTold
    <3> QED BY <1>1, <1>2, <1>4, <2>2, <3>1, <3>2, MoreTold
  <2> QED BY <1>1, <2>1, <2>2
<1>6. ASSUME NEW w \in Nat, WireAccounts(w)
      PROVE  WireAccounts(w)'
  <2>1. w = Sent
    BY <1>1, <1>2, <1>6, NothingTold DEF WireAccounts
  <2> QED BY <1>5, <2>1 DEF WireAccounts
<1>7. KeepsAccounts
  BY <1>6 DEF KeepsAccounts, Followed, Subscribed, SendUpstream, hub, browser
<1> QED BY <1>7, AccountsKept

\* Every session of which nothing is dropped gets what the wire loses.
LEMMA DispatchGap == Inv /\ GapInv /\ Dispatch => GapInv'
<1> SUFFICES ASSUME Inv, GapInv, Dispatch
             PROVE  GapInv'
  OBVIOUS
<1> DEFINE f == Head(wire)
<1>1. /\ feed = "connected" /\ wire \in Seq(Frame) /\ wire # <<>> /\ f \in Frame
      /\ wire' = Tail(wire)
      /\ UNCHANGED <<published, feed, connects, upstream, handler, joined, pipe, socket, account>>
      /\ queue' = [s \in Sessions |-> IF s \in Subscribed THEN Put(s, f) ELSE queue[s]]
  BY HeadAndTail DEF Inv, TypeOK, Dispatch, Recipients, browser
<1>2. \A s \in Sessions :
         dropped'[s] = dropped[s] + IF s \in Subscribed /\ Len(queue[s]) >= QueueCapacity
                                    THEN 1 ELSE 0
  BY DEF Dispatch, Recipients, Subscribed
<1>3. Sent' = Sent /\ Sent \in Nat
  <2>1. /\ published \in Nat /\ upstream.lagged \in Nat /\ Len(upstream.buffer) \in Nat
        /\ upstream.lagged + Len(upstream.buffer) <= published
    BY <1>1, Bounds DEF Inv, TypeOK, UpstreamInv
  <2>2. \A a, b, n \in Nat : a + b <= n => n - a - b \in Nat
    OBVIOUS
  <2> QED BY <1>1, <2>1, <2>2 DEF Sent
<1>4. ASSUME NEW w \in Nat, WireAccounts(w)
      PROVE  \E v \in Nat : Tells(f, w, v) /\ WireAccounts(v)'
  <2>1. Accounts(wire, w, Sent)
    BY <1>1, <1>4 DEF WireAccounts
  <2>2. PICK v \in Nat : Tells(Head(wire), w, v) /\ Accounts(Tail(wire), v, Sent)
    BY <1>1, <1>3, <2>1, HeadTells
  <2> QED BY <1>1, <1>3, <2>2 DEF WireAccounts
<1> HIDE DEF f
<1>5. \E w \in Nat : WireAccounts(w)'
  BY <1>4 DEF GapInv
<1>6. ASSUME NEW t \in Tabs, NEW s \in Sessions, socket'[t] = s, Followed(s)'
      PROVE  TabAccounts(t, s)'
  <2>1. queue[s] \in Seq(Frame) /\ Len(queue[s]) <= QueueCapacity /\ dropped[s] \in Nat
    BY DEF Inv, TypeOK
  <2>2. s \in Subscribed /\ dropped'[s] = 0
    BY <1>1, <1>6 DEF Followed, Subscribed
  <2>3. dropped[s] = 0 /\ ~(Len(queue[s]) >= QueueCapacity)
    BY <1>2, <2>1, <2>2
  <2>4. socket[t] = s /\ Followed(s) /\ queue'[s] = Append(queue[s], f)
    BY <1>1, <1>6, <2>1, <2>2, <2>3, PutIs DEF Followed
  <2>5. TabAccounts(t, s)
    BY <2>4 DEF GapInv
  <2>6. PICK p \in Nat, m \in Nat, w \in Nat :
           /\ Knows(t, p)
           /\ Accounts(pipe[s], p, m) /\ Accounts(queue[s], m, w) /\ WireAccounts(w)
    BY <2>5 DEF TabAccounts
  <2>7. PICK v \in Nat : Tells(f, w, v) /\ WireAccounts(v)'
    BY <1>4, <2>6
  <2>8. Accounts(queue'[s], m, v)
    BY <1>1, <2>1, <2>4, <2>6, <2>7, MoreTold
  <2>9. Knows(t, p)' /\ account'[t].silent = 0 /\ Accounts(pipe'[s], p, m)
    BY <1>1, <2>5, <2>6 DEF Knows, TabAccounts
  <2> QED BY <2>7, <2>8, <2>9 DEF TabAccounts
<1> QED BY <1>5, <1>6 DEF GapInv

\* A new connection starts after all there is, and what was told before it counts no more.
LEMMA ConnectGap == Inv /\ GapInv /\ Connect => GapInv'
<1> SUFFICES ASSUME Inv, GapInv, Connect
             PROVE  GapInv'
  OBVIOUS
<1>1. /\ feed = "connecting" /\ upstream = NoUpstream /\ wire = <<>>
      /\ published \in Nat /\ connects \in Nat /\ connects' = connects + 1
      /\ UNCHANGED <<published, upstream, wire, joined>>
  BY Bounds DEF Inv, TypeOK, Connect, hub
<1>2. Sent' = published
  BY <1>1 DEF Sent, NoUpstream
<1>3. WireAccounts(published)'
  BY <1>1, <1>2, NothingTold DEF WireAccounts
<1>4. \A s \in Sessions : ~Followed(s)'
  <2> SUFFICES ASSUME NEW s \in Sessions
               PROVE  connects' # joined'[s]
    BY DEF Followed
  <2>1. joined[s] \in Nat /\ joined[s] <= connects
    BY DEF Inv, TypeOK, SessionInv
  <2> QED BY <1>1, <2>1
<1> QED BY <1>1, <1>3, <1>4 DEF GapInv

\* Who subscribes has heard nothing yet.
LEMMA SubscribeGap ==
    ASSUME Inv, GapInv, NEW r \in Sessions, Subscribe(r)
    PROVE  GapInv'
<1>1. /\ handler[r] = "accepted"
      /\ UNCHANGED <<published, feed, connects, upstream, wire, queue, dropped, pipe, socket,
                     account>>
      /\ \A s \in Sessions \ {r} : handler'[s] = handler[s] /\ joined'[s] = joined[s]
  BY DEF Inv, TypeOK, Subscribe, upside, browser
<1>2. \A w \in Nat : WireAccounts(w) <=> WireAccounts(w)'
  BY <1>1 DEF WireAccounts, Sent
<1>3. ASSUME NEW t \in Tabs, NEW s \in Sessions, socket'[t] = s, Followed(s)'
      PROVE  TabAccounts(t, s)'
  <2>1. CASE s = r
    <3>1. account[t] = Fresh /\ pipe[s] = <<>> /\ queue[s] = <<>>
      BY <1>1, <1>3, <2>1 DEF Inv, TabInv, SessionInv
    <3>2. PICK w \in Nat : WireAccounts(w)
      BY DEF GapInv
    <3>3. account'[t].silent = 0 /\ Knows(t, w)'
      BY <1>1, <3>1 DEF Fresh, Knows
    <3>4. Accounts(pipe'[s], w, w) /\ Accounts(queue'[s], w, w)
      BY <1>1, <3>1, NothingTold
    <3> QED BY <1>2, <3>2, <3>3, <3>4 DEF TabAccounts
  <2>2. CASE s # r
    <3>1. TabAccounts(t, s)
      BY <1>1, <1>3, <2>2 DEF GapInv, Followed, Subscribed
    <3> QED BY <1>1, <1>2, <3>1 DEF TabAccounts, Knows
  <2> QED BY <2>1, <2>2
<1> QED BY <1>2, <1>3 DEF GapInv

\* What the queue loses, the pipe gets.
LEMMA SendFrameGap ==
    ASSUME Inv, GapInv, NEW r \in Sessions, SendFrame(r)
    PROVE  GapInv'
<1> DEFINE f == Head(queue[r])
<1>1. /\ queue[r] \in Seq(Frame) /\ queue[r] # <<>> /\ pipe[r] \in Seq(Frame) /\ f \in Frame
      /\ UNCHANGED <<published, feed, connects, upstream, wire, handler, dropped, joined,
                     socket, account>>
  BY HeadAndTail DEF Inv, TypeOK, SendFrame, upside, browser
<1>2. /\ queue'[r] = Tail(queue[r]) /\ pipe'[r] = Append(pipe[r], f)
      /\ \A s \in Sessions \ {r} : queue'[s] = queue[s] /\ pipe'[s] = pipe[s]
  BY DEF Inv, TypeOK, SendFrame
<1>3. \A w \in Nat : WireAccounts(w) <=> WireAccounts(w)'
  BY <1>1 DEF WireAccounts, Sent
<1> HIDE DEF f
<1>4. ASSUME NEW t \in Tabs, NEW s \in Sessions, socket'[t] = s, Followed(s)'
      PROVE  TabAccounts(t, s)'
  <2>1. TabAccounts(t, s)
    BY <1>1, <1>4 DEF GapInv, Followed, Subscribed
  <2>2. PICK p \in Nat, m \in Nat, w \in Nat :
           /\ Knows(t, p)
           /\ Accounts(pipe[s], p, m) /\ Accounts(queue[s], m, w) /\ WireAccounts(w)
    BY <2>1 DEF TabAccounts
  <2>3. Knows(t, p)' /\ account'[t].silent = 0 /\ WireAccounts(w)'
    BY <1>1, <1>3, <2>1, <2>2 DEF Knows, TabAccounts
  <2>4. \E v \in Nat : Accounts(pipe'[s], p, v) /\ Accounts(queue'[s], v, w)
    <3>1. CASE s = r
      <4>1. PICK v \in Nat : Tells(f, m, v) /\ Accounts(Tail(queue[r]), v, w)
        BY <1>1, <2>2, <3>1, HeadTells DEF f
      <4>2. Accounts(Append(pipe[r], f), p, v)
        BY <1>1, <2>2, <3>1, <4>1, MoreTold
      <4> QED BY <1>2, <3>1, <4>1, <4>2
    <3>2. CASE s # r
      BY <1>2, <2>2, <3>2
    <3> QED BY <3>1, <3>2
  <2> QED BY <2>3, <2>4 DEF TabAccounts
<1>5. \E w \in Nat : WireAccounts(w)'
  BY <1>3 DEF GapInv
<1> QED BY <1>4, <1>5 DEF GapInv

\* What the pipe loses, the dashboard knows: nothing lies between a block and the last
\* one, but what it was told of.
LEMMA ReceiveGap ==
    ASSUME Inv, GapInv, NEW u \in Tabs, Receive(u)
    PROVE  GapInv'
<1> DEFINE r == socket[u]
           f == Head(pipe[r])
<1>1. /\ r \in Sessions /\ pipe[r] \in Seq(Frame) /\ pipe[r] # <<>> /\ f \in Frame
      /\ pipe' = [pipe EXCEPT ![r] = Tail(pipe[r])]
      /\ UNCHANGED <<published, feed, connects, upstream, wire, handler, queue, dropped,
                     joined, socket>>
  BY Received DEF Receive, upside, hub
<1>2. /\ pipe'[r] = Tail(pipe[r])
      /\ \A s \in Sessions \ {r} : pipe'[s] = pipe[s]
      /\ \A t \in Tabs \ {u} : socket[t] # r /\ account'[t] = account[t]
  <2>1. \A t \in Tabs \ {u} : socket[t] # r
    BY <1>1, Bounds DEF Inv, TabInv
  <2>2. \A t \in Tabs \ {u} : account'[t] = account[t]
    BY DEF Inv, TypeOK, Receive, Lagged, Block
  <2> QED BY <1>1, <2>1, <2>2 DEF Inv, TypeOK
<1>3. \A w \in Nat : WireAccounts(w) <=> WireAccounts(w)'
  BY <1>1 DEF WireAccounts, Sent
<1>4. \E w \in Nat : WireAccounts(w)'
  BY <1>3 DEF GapInv
<1> HIDE DEF f
<1>5. ASSUME NEW t \in Tabs, NEW s \in Sessions, socket'[t] = s, Followed(s)'
      PROVE  TabAccounts(t, s)'
  <2>1. TabAccounts(t, s) /\ socket[t] = s
    BY <1>1, <1>5 DEF GapInv, Followed, Subscribed
  <2>2. CASE t # u
    <3>1. account'[t] = account[t] /\ pipe'[s] = pipe[s] /\ queue'[s] = queue[s]
      BY <1>1, <1>2, <2>1, <2>2
    <3> QED BY <1>3, <2>1, <3>1 DEF TabAccounts, Knows
  <2>3. CASE t = u
    <3> DEFINE a == account[t]
    <3>1. PICK p \in Nat, m \in Nat, w \in Nat :
             /\ Knows(t, p)
             /\ Accounts(pipe[s], p, m) /\ Accounts(queue[s], m, w) /\ WireAccounts(w)
      BY <2>1 DEF TabAccounts
    <3>2. PICK v \in Nat : Tells(f, p, v) /\ Accounts(Tail(pipe[s]), v, m)
      BY <1>1, <2>1, <2>3, <3>1, HeadTells DEF f
    <3>3. a \in [last : 0..MaxBlocks, told : Nat, silent : Int] /\ a.silent = 0
      BY <2>1 DEF Inv, TypeOK, TabAccounts
    <3>4. a.last \in Nat /\ a.told \in Nat /\ a.silent = 0 /\ (a.last # 0 => p = a.last + a.told)
      BY <3>1, <3>3, Bounds DEF Knows
    <3>5. account'[t].silent = 0 /\ Knows(t, v)'
      <4>1. CASE f.type = "lagged"
        <5>1. account' = [account EXCEPT ![t].told = a.told + f.dropped] /\ f.dropped \in Nat
          BY <1>1, <2>3, <4>1, FrameIs, Bounds, SMTT(60) DEF Receive, Lagged, f
        <5>2. /\ account'[t].last = a.last /\ account'[t].silent = a.silent
              /\ account'[t].told = a.told + f.dropped
          BY <5>1 DEF Inv, TypeOK
        <5>3. v = p + f.dropped
          BY <3>2, <4>1 DEF Tells
        <5>4. a.last # 0 => v = a.last + (a.told + f.dropped)
          BY <3>4, <5>1, <5>3
        <5> HIDE DEF a
        <5> QED BY <3>4, <5>2, <5>4 DEF Knows
      <4>2. CASE f.type # "lagged"
        <5> DEFINE missed == IF a.last = 0 THEN 0 ELSE f.index - a.last - 1 - a.told
        <5>1. account' = [account EXCEPT ![t] =
                            [last |-> f.index, told |-> 0, silent |-> a.silent + missed]]
          BY <2>3, <4>2 DEF Receive, Block, f
        <5>2. /\ account'[t].last = f.index /\ account'[t].told = 0
              /\ account'[t].silent = a.silent + missed
          BY <5>1 DEF Inv, TypeOK
        <5>3. f.index = v /\ v = p + 1
          BY <3>2, <4>2 DEF Tells
        <5>4. missed = 0
          BY <3>4, <5>3
        <5> HIDE DEF a, missed
        <5> QED BY <3>4, <5>2, <5>3, <5>4 DEF Knows
      <4> QED BY <4>1, <4>2
    <3>6. Accounts(pipe'[s], v, m) /\ Accounts(queue'[s], m, w) /\ WireAccounts(w)'
      BY <1>1, <1>2, <1>3, <2>1, <2>3, <3>1, <3>2
    <3> QED BY <3>5, <3>6 DEF TabAccounts
  <2> QED BY <2>2, <2>3
<1> QED BY <1>4, <1>5 DEF GapInv

LEMMA GapNext == Inv /\ GapInv /\ [Next]_vars => GapInv'
<1> SUFFICES ASSUME Inv, GapInv, [Next]_vars
             PROVE  GapInv'
  OBVIOUS
<1>1. CASE ConnectFails \/ Retry \/ FeedBreaks
  <2>1. feed' # "connected" /\ UNCHANGED <<handler, connects, queue, dropped, joined, pipe,
                                          socket, account>>
    BY <1>1 DEF ConnectFails, Retry, FeedBreaks, hub, browser
  <2>2. KeepsAccounts
    BY <2>1 DEF KeepsAccounts, WireAccounts, Followed, Subscribed
  <2> QED BY <2>2, AccountsKept
<1>2. CASE BackendRestarts
  <2>1. feed' # "connected" /\ \A s \in Sessions : handler'[s] # "subscribed"
    BY <1>2 DEF BackendRestarts
  <2>2. KeepsAccounts
    BY <2>1 DEF KeepsAccounts, WireAccounts, Followed, Subscribed
  <2> QED BY <2>2, AccountsKept
<1>3. ASSUME NEW r \in Sessions, EndSession(r)
      PROVE  GapInv'
  <2>1. /\ handler'[r] # "subscribed"
        /\ UNCHANGED <<published, feed, connects, upstream, wire, socket, account>>
        /\ \A s \in Sessions \ {r} :
              /\ handler'[s] = handler[s] /\ dropped'[s] = dropped[s] /\ joined'[s] = joined[s]
              /\ queue'[s] = queue[s] /\ pipe'[s] = pipe[s]
    BY <1>3 DEF Inv, TypeOK, EndSession, upside, browser
  <2>2. \A w \in Nat : WireAccounts(w) <=> WireAccounts(w)'
    BY <2>1 DEF WireAccounts, Sent
  <2>3. \A s \in Sessions : Followed(s)' => s # r /\ Followed(s)
    BY <2>1 DEF Followed, Subscribed
  <2>4. KeepsAccounts
    BY <2>1, <2>2, <2>3 DEF KeepsAccounts
  <2> QED BY <2>4, AccountsKept
<1>4. ASSUME NEW u \in Tabs, Accept(u)
      PROVE  GapInv'
  <2>1. PICK r \in Unused :
           handler' = [handler EXCEPT ![r] = "accepted"] /\ socket' = [socket EXCEPT ![u] = r]
    BY <1>4 DEF Accept
  <2>2. UNCHANGED <<published, feed, connects, upstream, wire, queue, dropped, joined, pipe,
                    account>>
    BY <1>4 DEF Accept, upside
  <2>3. /\ r \in Sessions /\ handler'[r] = "accepted" /\ socket'[u] = r
        /\ \A s \in Sessions \ {r} : handler'[s] = handler[s]
        /\ \A t \in Tabs \ {u} : socket'[t] = socket[t]
    BY <2>1 DEF Unused, Inv, TypeOK
  <2>4. \A w \in Nat : WireAccounts(w) <=> WireAccounts(w)'
    BY <2>2 DEF WireAccounts, Sent
  <2>5. \A s \in Sessions : Followed(s)' => s # r /\ Followed(s)
    BY <2>2, <2>3 DEF Followed, Subscribed
  <2>6. KeepsAccounts
    BY <2>2, <2>3, <2>4, <2>5 DEF KeepsAccounts
  <2> QED BY <2>6, AccountsKept
<1>5. ASSUME NEW u \in Tabs, OnClose(u) \/ Leave(u)
      PROVE  GapInv'
  <2>1. UNCHANGED <<published, feed, connects, upstream, wire, handler, queue, dropped, joined>>
    BY <1>5 DEF OnClose, Leave, upside, hub
  <2>2. \/ UNCHANGED <<pipe, socket, account>>
        \/ /\ pipe' = [pipe EXCEPT ![socket[u]] = <<>>]
           /\ socket' = [socket EXCEPT ![u] = None]
           /\ account' = [account EXCEPT ![u] = Fresh]
    BY <1>5 DEF OnClose, Leave
  <2>3. ASSUME NEW t \in Tabs, NEW s \in Sessions, socket'[t] = s
        PROVE  socket[t] = s /\ account'[t] = account[t] /\ pipe'[s] = pipe[s]
    <3>1. CASE UNCHANGED <<pipe, socket, account>>
      BY <2>3, <3>1
    <3>2. CASE /\ pipe' = [pipe EXCEPT ![socket[u]] = <<>>]
               /\ socket' = [socket EXCEPT ![u] = None]
               /\ account' = [account EXCEPT ![u] = Fresh]
      <4>1. t # u /\ socket[t] = s
        BY <2>3, <3>2, Bounds DEF Inv, TypeOK
      <4>2. socket[u] # s
        BY <4>1, Bounds DEF Inv, TabInv
      <4> QED BY <3>2, <4>1, <4>2 DEF Inv, TypeOK
    <3> QED BY <2>2, <3>1, <3>2
  <2>4. \A w \in Nat : WireAccounts(w) <=> WireAccounts(w)'
    BY <2>1 DEF WireAccounts, Sent
  <2>5. KeepsAccounts
    BY <2>1, <2>3, <2>4 DEF KeepsAccounts, Followed, Subscribed
  <2> QED BY <2>5, AccountsKept
<1>6. CASE (\E t \in Tabs : OpenAgain(t) \/ OpenFails(t) \/ SocketBreaks(t)) \/ UNCHANGED vars
  <2>1. UNCHANGED <<published, feed, connects, upstream, wire, handler, queue, dropped, joined,
                    pipe, socket, account>>
    BY <1>6 DEF OpenAgain, OpenFails, SocketBreaks, vars, upside, hub, browser
  <2>2. KeepsAccounts
    BY <2>1 DEF KeepsAccounts, WireAccounts, Sent, Followed, Subscribed
  <2> QED BY <2>2, AccountsKept
<1> QED BY <1>1, <1>2, <1>3, <1>4, <1>5, <1>6, PublishGap, SendUpstreamGap, DispatchGap,
           ConnectGap, SubscribeGap, SendFrameGap, ReceiveGap
        DEF Next, FeedStep, SessionStep, TabStep

-----------------------------------------------------------------------------
(* Theorems *)

LEMMA AlwaysInv == SafeSpec => []Inv
  BY InvInit, InvNext, PTL DEF SafeSpec

\* Types, for any number of dashboards and sessions and any capacities: no queue between
\* the ledger and a dashboard is ever longer than it may be, a feed without a connection
\* holds nothing, and exactly the dashboards that are open have a session.
THEOREM TypeCorrect == SafeSpec => []TypeOK
<1>1. Inv => TypeOK
  BY DEF Inv
<1> QED BY <1>1, AlwaysInv, PTL

\* As long as the hub has dropped none of a browser's frames and the feed's connection is
\* the one it subscribed under, the notices add up to exactly the blocks its dashboard did
\* not get: nothing is missed in silence, whatever storage-core dropped and in
\* whatever order frames and notices passed the four places.
THEOREM GapsExplained == SafeSpec => []GapsAreExplained
<1>1. SafeSpec => []GapInv
  BY AlwaysInv, GapInit, GapNext, PTL DEF SafeSpec
<1>2. ASSUME Inv, GapInv
      PROVE  GapsAreExplained
  <2> SUFFICES ASSUME NEW t \in Tabs, socket[t] \in Subscribed, dropped[socket[t]] = 0,
                      connects = joined[socket[t]]
               PROVE  account[t].silent = 0
    BY DEF GapsAreExplained
  <2>1. socket[t] \in Sessions /\ Followed(socket[t])
    BY DEF Followed, Subscribed
  <2> QED BY <1>2, <2>1 DEF GapInv, TabAccounts
<1> QED BY <1>1, <1>2, AlwaysInv, PTL

\* A dashboard never gets a block twice or after a later one, through whichever sockets,
\* feeds and backends they came, with any number of sessions and any capacities.
THEOREM NeverGoesBack == SafeSpec => NeverRewinds
<1> DEFINE Forward == \A t \in Tabs :
                         stream'[t].readings # stream[t].readings => Latest(t)' > Latest(t)
<1>1. Inv /\ OrderInv /\ [Next]_vars => OrderInv' /\ Forward
  BY OrderNext
<1>2. SafeSpec => [](Inv /\ OrderInv)
  BY <1>1, AlwaysInv, OrderInit, PTL DEF SafeSpec
<1>3. Inv /\ OrderInv /\ [Next]_vars => [Forward]_vars
  BY <1>1
<1> QED BY <1>2, <1>3, PTL DEF SafeSpec, NeverRewinds
-----------------------------------------------------------------------------
(* The Subscription of the upstream connection is one as Subscriptions has it. *)

\* The pump sends a block, and before it a notice if there is something to notice.
WireOK ==
    \/ wire = <<>>
    \/ Len(wire) = 1 /\ wire[1].type = "block"
    \/ Len(wire) = 2 /\ wire[1].type = "lagged" /\ wire[2].type = "block"

LEMMA NotEmpty ==
    ASSUME NEW S, NEW q \in Seq(S), Len(q) = 1
    PROVE  q # <<>>
  OBVIOUS

\* What is left of the wire when its first frame is dispatched.
LEMMA WireTaken ==
    ASSUME Inv, WireOK, wire # <<>>
    PROVE  /\ Head(wire) = wire[1] /\ wire \in Seq(Frame)
           /\ Len(wire) = 1 => Tail(wire) = <<>>
           /\ Len(wire) = 2 => /\ Tail(wire) # <<>> /\ Len(Tail(wire)) = 1
                               /\ Tail(wire)[1] = wire[2]
<1>1. wire \in Seq(Frame)
  BY DEF Inv, TypeOK
<1>2. /\ Head(wire) = wire[1] /\ Tail(wire) \in Seq(Frame) /\ Len(wire) \in Nat
      /\ Len(Tail(wire)) = Len(wire) - 1
      /\ \A i \in 1..(Len(wire) - 1) : Tail(wire)[i] = wire[i + 1]
  BY <1>1, HeadAndTail
<1>3. ASSUME Len(wire) = 1
      PROVE  Tail(wire) = <<>>
  <2>1. Len(Tail(wire)) = 0
    BY <1>2, <1>3
  <2>2. Tail(wire) # <<>> => Len(Tail(wire)) \in Nat \ {0}
    BY <1>2, EmptySeq
  <2> QED BY <2>1, <2>2
<1>4. ASSUME Len(wire) = 2
      PROVE  Tail(wire) # <<>> /\ Len(Tail(wire)) = 1 /\ Tail(wire)[1] = wire[2]
  <2>1. Len(Tail(wire)) = 1 /\ 1 \in 1..(Len(wire) - 1)
    BY <1>2, <1>4
  <2>2. Tail(wire)[1] = wire[2]
    BY <1>2, <2>1
  <2>3. Tail(wire) # <<>>
    BY <1>2, <2>1, NotEmpty
  <2> QED BY <2>1, <2>2, <2>3
<1> QED BY <1>1, <1>2, <1>3, <1>4

\* What SendUpstream puts on the wire, frame by frame.
LEMMA WireSent ==
    ASSUME Inv, SendUpstream
    PROVE  /\ WireOK' /\ wire' # <<>> /\ Last(wire').index = Head(upstream.buffer)
           /\ Len(wire') = 2 => Head(wire').dropped = upstream.lagged
           /\ Len(wire') # 2 => upstream.lagged = 0
<1> DEFINE notice == [type |-> "lagged", dropped |-> upstream.lagged]
           block == [type |-> "block", index |-> Head(upstream.buffer)]
<1>1. \/ upstream.lagged = 0 /\ wire' = Append(<<>>, block)
      \/ wire' = Append(Append(<<>>, notice), block)
  BY SentUpstream DEF Inv
<1>2. block.type = "block" /\ block.index = Head(upstream.buffer)
      /\ notice.type = "lagged" /\ notice.dropped = upstream.lagged
  OBVIOUS
<1> HIDE DEF notice, block
<1>3. CASE upstream.lagged = 0 /\ wire' = Append(<<>>, block)
  <2>1. wire' = <<block>>
    BY <1>3
  <2> QED BY <1>2, <1>3, <2>1 DEF WireOK, Last
<1>4. CASE wire' = Append(Append(<<>>, notice), block)
  <2>1. notice \in {notice, block} /\ block \in {notice, block} /\ <<>> \in Seq({notice, block})
    BY EmptySeq
  <2>2. /\ Append(<<>>, notice) \in Seq({notice, block})
        /\ Len(Append(<<>>, notice)) = 1 /\ Append(<<>>, notice)[1] = notice
    BY <2>1, AppendIs
  <2>3. Len(wire') = 2 /\ wire'[1] = notice /\ wire'[2] = block /\ wire' # <<>>
    BY <1>4, <2>1, <2>2, AppendIs
  <2>4. Head(wire') = notice
    BY <1>4, <2>1, <2>2, <2>3, AppendIs, HeadAndTail
  <2>5. Last(wire') = block
    BY <2>3 DEF Last
  <2>6. WireOK'
    BY <1>2, <2>3 DEF WireOK
  <2>7. Head(wire').dropped = upstream.lagged /\ Last(wire').index = Head(upstream.buffer)
    BY <1>2, <2>4, <2>5
  <2> QED BY <2>3, <2>6, <2>7
<1> QED BY <1>1, <1>3, <1>4

LEMMA WireOKStep ==
    ASSUME Inv, WireOK, [Next]_vars
    PROVE  WireOK'
<1>1. CASE SendUpstream
  BY <1>1, WireSent
<1>2. CASE Dispatch
  <2>1. wire # <<>> /\ wire' = Tail(wire)
    BY <1>2 DEF Dispatch
  <2> QED BY <2>1, WireTaken DEF WireOK
<1>3. CASE FeedBreaks \/ BackendRestarts
  BY <1>3 DEF FeedBreaks, BackendRestarts, WireOK
<1>4. CASE UNCHANGED wire
  BY <1>4 DEF WireOK
<1>5. ASSUME NEW t \in Tabs, TabStep(t) \/ Accept(t) \/ OpenFails(t) \/ SocketBreaks(t) \/ Leave(t)
      PROVE  UNCHANGED wire
  BY <1>5 DEF TabStep, OpenAgain, Receive, OnClose, Accept, OpenFails, SocketBreaks, Leave, upside
<1>6. ASSUME NEW s \in Sessions, SessionStep(s)
      PROVE  UNCHANGED wire
  BY <1>6 DEF SessionStep, Subscribe, SendFrame, EndSession, upside
<1>7. CASE Publish \/ Connect \/ ConnectFails \/ Retry \/ UNCHANGED vars
  BY <1>4, <1>7 DEF Publish, Connect, ConnectFails, Retry, vars, upside
<1> QED BY <1>1, <1>2, <1>3, <1>4, <1>5, <1>6, <1>7 DEF Next, FeedStep

\* The Subscription as the INSTANCE has it.
SubKnown == [c \in {"feed"} |-> IF feed = "connected"
                                THEN published - upstream.lagged - Len(upstream.buffer)
                                ELSE 0]
SubBuffer == [c \in {"feed"} |-> upstream.buffer]
SubLagged == [c \in {"feed"} |-> upstream.lagged]
SubOpen == IF feed = "connected" THEN {"feed"} ELSE {}
SubDoes == [c \in {"feed"} |-> IF feed # "connected" THEN "none"
                               ELSE IF wire = <<>> THEN "asking" ELSE "holding"]
SubGot == [c \in {"feed"} |-> IF wire = <<>> THEN None ELSE InHand]

\* Its steps in these terms.
LEMMA SubscribeIs ==
    ASSUME SubDoes["feed"] = "none", SubDoes' = [SubDoes EXCEPT !["feed"] = "asking"],
           SubOpen' = SubOpen \cup {"feed"},
           SubKnown'["feed"] \in Nat, SubKnown' = [SubKnown EXCEPT !["feed"] = SubKnown'["feed"]],
           UNCHANGED <<SubBuffer, SubLagged, SubGot>>
    PROVE  Subs!Next
<1>1. Subs!Subscribe("feed")
  BY Zenon DEF Subs!Subscribe, SubKnown, SubBuffer, SubLagged, SubOpen, SubDoes, SubGot
<1> QED BY <1>1, Zenon DEF Subs!Next

LEMMA TakeInIs ==
    ASSUME "feed" \in SubOpen, Len(SubBuffer["feed"]) < UpCapacity,
           SubBuffer' = [SubBuffer EXCEPT !["feed"] =
              Append(@, SubKnown["feed"] + SubLagged["feed"] + Len(SubBuffer["feed"]) + 1)],
           UNCHANGED <<SubKnown, SubLagged, SubOpen, SubDoes, SubGot>>
    PROVE  Subs!Next
<1>1. Subs!TakeIn("feed")
  BY Zenon DEF Subs!TakeIn, Subs!Newest, SubKnown, SubBuffer, SubLagged, SubOpen, SubDoes, SubGot
<1> QED BY <1>1, Zenon DEF Subs!Next

LEMMA LoseOldestIs ==
    ASSUME "feed" \in SubOpen, Len(SubBuffer["feed"]) = UpCapacity,
           SubBuffer' = [SubBuffer EXCEPT !["feed"] =
              Append(Tail(@), SubKnown["feed"] + SubLagged["feed"] + Len(SubBuffer["feed"]) + 1)],
           SubLagged' = [SubLagged EXCEPT !["feed"] = @ + 1],
           UNCHANGED <<SubKnown, SubOpen, SubDoes, SubGot>>
    PROVE  Subs!Next
<1>1. Subs!LoseOldest("feed")
  BY Zenon DEF Subs!LoseOldest, Subs!Newest, SubKnown, SubBuffer, SubLagged, SubOpen, SubDoes, SubGot
<1> QED BY <1>1, Zenon DEF Subs!Next

LEMMA HandOutIs ==
    ASSUME SubDoes["feed"] = "asking", SubBuffer["feed"] # <<>>,
           SubGot' = [SubGot EXCEPT !["feed"] =
              [block |-> SubKnown["feed"] + SubLagged["feed"] + 1, lagged |-> SubLagged["feed"]]],
           SubKnown' = [SubKnown EXCEPT !["feed"] = @ + SubLagged["feed"] + 1],
           SubBuffer' = [SubBuffer EXCEPT !["feed"] = Tail(@)],
           SubLagged' = [SubLagged EXCEPT !["feed"] = 0],
           SubDoes' = [SubDoes EXCEPT !["feed"] = "holding"], SubOpen' = SubOpen
    PROVE  Subs!Next
<1>1. Subs!HandOut("feed")
  BY Zenon DEF Subs!HandOut, SubKnown, SubBuffer, SubLagged, SubOpen, SubDoes, SubGot
<1> QED BY <1>1, Zenon DEF Subs!Next

LEMMA PassOnLagIs ==
    ASSUME SubDoes["feed"] = "holding", SubGot["feed"].lagged > 0,
           SubGot' = [SubGot EXCEPT !["feed"] = [block |-> @.block, lagged |-> 0]],
           UNCHANGED <<SubKnown, SubBuffer, SubLagged, SubOpen, SubDoes>>
    PROVE  Subs!Next
<1>1. Subs!PassOnLag("feed")
  BY Zenon DEF Subs!PassOnLag, SubKnown, SubBuffer, SubLagged, SubOpen, SubDoes, SubGot
<1> QED BY <1>1, Zenon DEF Subs!Next

LEMMA AskAgainIs ==
    ASSUME SubDoes["feed"] = "holding", SubDoes' = [SubDoes EXCEPT !["feed"] = "asking"],
           SubGot' = [SubGot EXCEPT !["feed"] = None],
           UNCHANGED <<SubKnown, SubBuffer, SubLagged, SubOpen>>
    PROVE  Subs!Next
<1>1. Subs!AskAgain("feed")
  BY Zenon DEF Subs!AskAgain, SubKnown, SubBuffer, SubLagged, SubOpen, SubDoes, SubGot
<1> QED BY <1>1, Zenon DEF Subs!Next
\* A function of the one Subscription.
Of(x) == [c \in {"feed"} |-> x]

LEMMA OfFeed ==
    ASSUME NEW x, NEW y
    PROVE  Of(x)["feed"] = x /\ [Of(x) EXCEPT !["feed"] = y] = Of(y)
  BY DEF Of

\* Its state while the connection is there.
LEMMA Connected ==
    ASSUME feed = "connected"
    PROVE  /\ SubKnown = Of(Sent) /\ SubOpen = {"feed"}
           /\ SubBuffer = Of(upstream.buffer) /\ SubLagged = Of(upstream.lagged)
           /\ wire = <<>> => SubDoes = Of("asking") /\ SubGot = Of(None)
           /\ wire # <<>> => SubDoes = Of("holding") /\ SubGot = Of(InHand)
<1>1. SubKnown = Of(Sent)
  BY Zenon DEF SubKnown, Of, Sent
<1>2. SubBuffer = Of(upstream.buffer) /\ SubLagged = Of(upstream.lagged)
  BY Zenon DEF SubBuffer, SubLagged, Of
<1>3. ASSUME wire = <<>>
      PROVE  SubDoes = Of("asking") /\ SubGot = Of(None)
  BY <1>3, Zenon DEF SubDoes, SubGot, Of
<1>4. ASSUME wire # <<>>
      PROVE  SubDoes = Of("holding") /\ SubGot = Of(InHand)
  BY <1>4, Zenon DEF SubDoes, SubGot, Of
<1> QED BY <1>1, <1>2, <1>3, <1>4 DEF SubOpen

LEMMA ConnectedNext ==
    ASSUME feed' = "connected"
    PROVE  /\ SubKnown' = Of(Sent') /\ SubOpen' = {"feed"}
           /\ SubBuffer' = Of(upstream'.buffer) /\ SubLagged' = Of(upstream'.lagged)
           /\ wire' = <<>> => SubDoes' = Of("asking") /\ SubGot' = Of(None)
           /\ wire' # <<>> => SubDoes' = Of("holding") /\ SubGot' = Of(InHand')
<1>1. SubKnown' = Of(Sent')
  BY Zenon DEF SubKnown, Of, Sent
<1>2. SubBuffer' = Of(upstream'.buffer) /\ SubLagged' = Of(upstream'.lagged)
  BY Zenon DEF SubBuffer, SubLagged, Of
<1>3. ASSUME wire' = <<>>
      PROVE  SubDoes' = Of("asking") /\ SubGot' = Of(None)
  BY <1>3, Zenon DEF SubDoes, SubGot, Of
<1>4. ASSUME wire' # <<>>
      PROVE  SubDoes' = Of("holding") /\ SubGot' = Of(InHand')
  BY <1>4, Zenon DEF SubDoes, SubGot, Of
<1> QED BY <1>1, <1>2, <1>3, <1>4 DEF SubOpen

\* Between connections there is none.
LEMMA Unconnected ==
    ASSUME Inv, feed # "connected"
    PROVE  /\ SubKnown = Of(0) /\ SubOpen = {} /\ SubBuffer = Of(<<>>) /\ SubLagged = Of(0)
           /\ SubDoes = Of("none") /\ SubGot = Of(None)
<1>1. wire = <<>> /\ upstream.buffer = <<>> /\ upstream.lagged = 0
  BY DEF Inv, TypeOK, NoUpstream
<1>2. SubKnown = Of(0) /\ SubOpen = {} /\ SubDoes = Of("none")
  BY Zenon DEF SubKnown, SubOpen, SubDoes, Of
<1>3. SubBuffer = Of(<<>>) /\ SubLagged = Of(0) /\ SubGot = Of(None)
  BY <1>1, Zenon DEF SubBuffer, SubLagged, SubGot, Of
<1> QED BY <1>2, <1>3

LEMMA ConnectUses ==
    ASSUME Inv, Connect
    PROVE  Subs!Next
<1>1. /\ feed # "connected" /\ feed' = "connected"
      /\ wire' = wire /\ upstream' = upstream /\ published' = published
      /\ wire = <<>> /\ upstream.buffer = <<>> /\ upstream.lagged = 0 /\ published \in Nat
  BY Bounds DEF Connect, Inv, TypeOK, NoUpstream
<1>2. Sent' \in Nat
  <2>1. Sent' = published - 0 - Len(<<>>)
    BY <1>1 DEF Sent
  <2>2. Len(<<>>) = 0
    BY EmptySeq
  <2> QED BY <1>1, <2>1, <2>2
<1>3. /\ SubKnown' = Of(Sent') /\ SubOpen' = {"feed"} /\ SubBuffer' = Of(<<>>)
      /\ SubLagged' = Of(0) /\ SubDoes' = Of("asking") /\ SubGot' = Of(None)
  BY <1>1, ConnectedNext
<1>4. /\ SubKnown = Of(0) /\ SubOpen = {} /\ SubBuffer = Of(<<>>) /\ SubLagged = Of(0)
      /\ SubDoes = Of("none") /\ SubGot = Of(None)
  BY <1>1, Unconnected
<1>5. SubDoes["feed"] = "none" /\ SubDoes' = [SubDoes EXCEPT !["feed"] = "asking"]
  BY <1>3, <1>4, OfFeed, Zenon
<1>6. SubKnown'["feed"] \in Nat /\ SubKnown' = [SubKnown EXCEPT !["feed"] = SubKnown'["feed"]]
  <2>1. SubKnown'["feed"] = Sent'
    BY <1>3, OfFeed, Zenon
  <2>2. [SubKnown EXCEPT !["feed"] = Sent'] = Of(Sent')
    BY <1>4, OfFeed, Zenon
  <2> QED BY <1>2, <1>3, <2>1, <2>2, Zenon
<1>7. SubOpen' = SubOpen \cup {"feed"}
  BY <1>3, <1>4
<1>8. UNCHANGED <<SubBuffer, SubLagged, SubGot>>
  BY <1>3, <1>4
<1> QED BY <1>5, <1>6, <1>7, <1>8, SubscribeIs

LEMMA PublishUses ==
    ASSUME Inv, Publish, feed' = "connected"
    PROVE  Subs!Next
<1> DEFINE q == upstream.buffer
           l == upstream.lagged
<1>1. /\ feed = "connected" /\ wire' = wire /\ published' = published + 1
      /\ published \in Nat /\ upstream' = Push(upstream, published')
      /\ q \in Seq(Blocks) /\ l \in Nat /\ Len(q) \in Nat /\ Len(q) <= UpCapacity
      /\ upstream \in [buffer : Seq(Blocks), lagged : 0..MaxBlocks]
  BY Bounds DEF Publish, Inv, TypeOK
<1>2. /\ upstream'.lagged \in Nat /\ Len(upstream'.buffer) \in Nat
      /\ upstream'.lagged + Len(upstream'.buffer) = l + Len(q) + 1
  <2>1. /\ upstream' \in [buffer : Seq(Blocks), lagged : 0..MaxBlocks]
        /\ upstream'.lagged + Len(upstream'.buffer) = l + Len(q) + 1
    BY <1>1, PublishUpstream, Zenon DEF Inv
  <2>2. upstream'.buffer \in Seq(Blocks) /\ upstream'.lagged \in 0..MaxBlocks
    BY <2>1
  <2>3. Len(upstream'.buffer) \in Nat /\ upstream'.lagged \in Nat
    BY Bounds, <2>2
  <2> QED BY <2>1, <2>3
<1>3. Sent' = Sent /\ Sent + l + Len(q) + 1 = published'
  <2>1. Sent = published - l - Len(q)
    BY DEF Sent
  <2>2. Sent' = published' - upstream'.lagged - Len(upstream'.buffer)
    BY DEF Sent
  <2> DEFINE k == Len(q)
             m == upstream'.lagged
             n == Len(upstream'.buffer)
  <2>3. /\ m \in Nat /\ n \in Nat /\ m + n = l + k + 1
        /\ published \in Nat /\ l \in Nat /\ k \in Nat /\ published' = published + 1
        /\ Sent = published - l - k /\ Sent' = published' - m - n
    BY <1>1, <1>2, <2>1, <2>2
  <2> SUFFICES Sent' = Sent /\ Sent + l + k + 1 = published'
    OBVIOUS
  <2> HIDE DEF k, l, m, n
  <2> QED BY <2>3
<1>4. /\ SubKnown = Of(Sent) /\ SubOpen = {"feed"} /\ SubBuffer = Of(q) /\ SubLagged = Of(l)
  BY <1>1, Connected
<1>5. /\ SubKnown' = Of(Sent') /\ SubOpen' = {"feed"}
      /\ SubBuffer' = Of(upstream'.buffer) /\ SubLagged' = Of(upstream'.lagged)
  BY ConnectedNext
<1>6. SubKnown["feed"] + SubLagged["feed"] + Len(SubBuffer["feed"]) + 1 = published'
      /\ Len(SubBuffer["feed"]) = Len(q)
  <2>1. SubKnown["feed"] = Sent /\ SubLagged["feed"] = l /\ SubBuffer["feed"] = q
    BY <1>4, OfFeed, Zenon
  <2> QED BY <1>3, <2>1
<1>7. UNCHANGED <<SubKnown, SubOpen, SubDoes, SubGot>>
  <2>1. feed' = feed
    BY <1>1
  <2>2. UNCHANGED <<SubDoes, SubGot>>
    BY <1>1, <2>1, Zenon DEF SubDoes, SubGot, InHand
  <2> QED BY <1>3, <1>4, <1>5, <2>2
<1>8. CASE Len(q) < UpCapacity
  <2>1. upstream' = [upstream EXCEPT !.buffer = Append(q, published')]
    BY Bounds, <1>1, <1>8 DEF Push
  <2>2. upstream'.buffer = Append(q, published') /\ upstream'.lagged = l
    BY <1>1, <2>1
  <2>3. SubBuffer' = [SubBuffer EXCEPT !["feed"] = Append(@, published')]
    <3>1. SubBuffer["feed"] = q /\ [SubBuffer EXCEPT !["feed"] = Append(q, published')]
                                       = Of(Append(q, published'))
      BY <1>4, OfFeed, Zenon
    <3> QED BY <1>5, <2>2, <3>1
  <2>4. SubLagged' = SubLagged
    BY <1>4, <1>5, <2>2
  <2> QED BY <1>4, <1>6, <1>7, <1>8, <2>3, <2>4, TakeInIs
<1>9. CASE Len(q) = UpCapacity
  <2>1. upstream' = [buffer |-> Append(Tail(q), published'), lagged |-> l + 1]
    BY Bounds, <1>1, <1>9 DEF Push
  <2>2. upstream'.buffer = Append(Tail(q), published') /\ upstream'.lagged = l + 1
    BY <2>1
  <2>3. SubBuffer' = [SubBuffer EXCEPT !["feed"] = Append(Tail(@), published')]
    <3>1. SubBuffer["feed"] = q /\ [SubBuffer EXCEPT !["feed"] = Append(Tail(q), published')]
                                       = Of(Append(Tail(q), published'))
      BY <1>4, OfFeed, Zenon
    <3> QED BY <1>5, <2>2, <3>1
  <2>4. SubLagged' = [SubLagged EXCEPT !["feed"] = @ + 1]
    <3>1. SubLagged["feed"] = l /\ [SubLagged EXCEPT !["feed"] = l + 1] = Of(l + 1)
      BY <1>4, OfFeed, Zenon
    <3> QED BY <1>5, <2>2, <3>1
  <2> QED BY <1>4, <1>6, <1>7, <1>9, <2>3, <2>4, LoseOldestIs
<1> QED BY Bounds, <1>1, <1>8, <1>9

LEMMA SendUses ==
    ASSUME Inv, SendUpstream
    PROVE  Subs!Next
<1> DEFINE q == upstream.buffer
           l == upstream.lagged
<1>1. /\ feed = "connected" /\ wire = <<>> /\ q \in Seq(Blocks) /\ q # <<>> /\ l \in Nat
      /\ Head(q) = Sent + l + 1 /\ Sent' = Head(q)
      /\ upstream'.buffer = Tail(q) /\ upstream'.lagged = 0
  <2>1. upstream.lagged \in Nat
    BY Bounds DEF Inv, TypeOK
  <2>2. /\ feed = "connected" /\ wire = <<>> /\ q \in Seq(Blocks) /\ q # <<>>
        /\ Head(q) = Sent + l + 1 /\ Sent' = Head(q)
        /\ upstream' = [buffer |-> Tail(q), lagged |-> 0]
    BY SentUpstream, Zenon DEF Inv
  <2> QED BY <2>1, <2>2
<1>2. feed' = "connected"
  BY <1>1 DEF SendUpstream
<1>3. InHand' = [block |-> Head(q), lagged |-> l] /\ wire' # <<>>
  BY WireSent, Zenon DEF InHand
<1>4. /\ SubKnown = Of(Sent) /\ SubOpen = {"feed"} /\ SubBuffer = Of(q) /\ SubLagged = Of(l)
      /\ SubDoes = Of("asking") /\ SubGot = Of(None)
  BY <1>1, Connected
<1>5. /\ SubKnown' = Of(Head(q)) /\ SubOpen' = {"feed"} /\ SubBuffer' = Of(Tail(q))
      /\ SubLagged' = Of(0) /\ SubDoes' = Of("holding")
      /\ SubGot' = Of([block |-> Head(q), lagged |-> l])
  BY <1>1, <1>2, <1>3, ConnectedNext
<1>6. SubKnown["feed"] = Sent /\ SubLagged["feed"] = l /\ SubBuffer["feed"] = q
      /\ SubDoes["feed"] = "asking"
  BY <1>4, OfFeed, Zenon
<1>7. SubGot' = [SubGot EXCEPT !["feed"] = [block |-> Sent + l + 1, lagged |-> l]]
  <2>1. [SubGot EXCEPT !["feed"] = [block |-> Head(q), lagged |-> l]]
            = Of([block |-> Head(q), lagged |-> l])
    BY <1>4, OfFeed, Zenon
  <2> QED BY <1>1, <1>5, <2>1, Zenon
<1>8. SubKnown' = [SubKnown EXCEPT !["feed"] = @ + l + 1]
  <2>1. [SubKnown EXCEPT !["feed"] = Head(q)] = Of(Head(q))
    BY <1>4, OfFeed, Zenon
  <2> QED BY <1>1, <1>5, <1>6, <2>1
<1>9. SubBuffer' = [SubBuffer EXCEPT !["feed"] = Tail(@)]
  <2>1. [SubBuffer EXCEPT !["feed"] = Tail(q)] = Of(Tail(q))
    BY <1>4, OfFeed, Zenon
  <2> QED BY <1>5, <1>6, <2>1
<1>10. SubLagged' = [SubLagged EXCEPT !["feed"] = 0]
       /\ SubDoes' = [SubDoes EXCEPT !["feed"] = "holding"]
  BY <1>4, <1>5, OfFeed, Zenon
<1>11. SubOpen' = SubOpen /\ SubBuffer["feed"] # <<>>
  BY <1>1, <1>4, <1>5, <1>6
<1> HIDE DEF q, l
<1> QED BY <1>6, <1>7, <1>8, <1>9, <1>10, <1>11, HandOutIs

LEMMA DispatchUses ==
    ASSUME Inv, WireOK, Dispatch
    PROVE  Subs!Next
<1>1. /\ wire # <<>> /\ wire' = Tail(wire)
      /\ UNCHANGED <<feed, upstream, published>>
  BY DEF Dispatch
<1>2. feed = "connected" /\ feed' = "connected" /\ Sent' = Sent
  BY <1>1 DEF Inv, TypeOK, Sent
<1>3. /\ SubKnown = Of(Sent) /\ SubOpen = {"feed"}
      /\ SubBuffer = Of(upstream.buffer) /\ SubLagged = Of(upstream.lagged)
      /\ SubDoes = Of("holding") /\ SubGot = Of(InHand)
  BY <1>1, <1>2, Connected
<1>4. UNCHANGED <<SubKnown, SubBuffer, SubLagged, SubOpen>>
  BY <1>1, <1>2, <1>3, ConnectedNext
<1>5. SubDoes["feed"] = "holding" /\ SubGot["feed"] = InHand
  BY <1>3, OfFeed, Zenon
<1>6. CASE Len(wire) = 1
  <2>1. wire' = <<>>
    BY <1>1, <1>6, WireTaken
  <2>2. SubDoes' = Of("asking") /\ SubGot' = Of(None)
    BY <1>2, <2>1, ConnectedNext
  <2>3. SubDoes' = [SubDoes EXCEPT !["feed"] = "asking"] /\ SubGot' = [SubGot EXCEPT !["feed"] = None]
    BY <1>3, <2>2, OfFeed, Zenon
  <2> QED BY <1>4, <1>5, <2>3, AskAgainIs
<1>7. CASE Len(wire) = 2 /\ wire[1].type = "lagged"
  <2>1. /\ wire' # <<>> /\ Len(wire') = 1 /\ wire'[1] = wire[2] /\ Head(wire) = wire[1]
        /\ wire \in Seq(Frame)
    BY <1>1, <1>7, WireTaken
  <2>2. InHand = [block |-> wire[2].index, lagged |-> Head(wire).dropped]
    <3>1. Last(wire) = wire[2]
      BY <1>7 DEF Last
    <3> QED BY <1>7, <3>1, Zenon DEF InHand
  <2>3. InHand' = [block |-> wire[2].index, lagged |-> 0]
    <3>1. Last(wire') = wire[2]
      BY <2>1 DEF Last
    <3>2. Len(wire') # 2
      BY <2>1
    <3> QED BY <3>1, <3>2, Zenon DEF InHand
  <2>4. Head(wire).dropped > 0
    <3>1. wire[1] \in Frame
      BY <1>7, <2>1
    <3>2. wire[1].dropped \in 1..MaxBlocks
      BY <1>7, <3>1, FrameIs
    <3> QED BY Bounds, <2>1, <3>2
  <2>5. SubDoes' = SubDoes /\ SubGot' = Of(InHand')
    BY <1>2, <1>3, <2>1, ConnectedNext
  <2>6. SubGot["feed"].lagged > 0
    BY <1>5, <2>2, <2>4
  <2>7. SubGot' = [SubGot EXCEPT !["feed"] = [block |-> @.block, lagged |-> 0]]
    <3>1. SubGot["feed"].block = wire[2].index
      BY <1>5, <2>2
    <3>2. [SubGot EXCEPT !["feed"] = [block |-> wire[2].index, lagged |-> 0]]
              = Of([block |-> wire[2].index, lagged |-> 0])
      BY <1>3, OfFeed, Zenon
    <3> QED BY <2>3, <2>5, <3>1, <3>2, Zenon
  <2> QED BY <1>4, <1>5, <2>5, <2>6, <2>7, PassOnLagIs
<1> QED BY <1>1, <1>6, <1>7 DEF WireOK

\* Each step of the model is one of the Subscription or leaves it alone, but those that
\* end a connection.
LEMMA SubscriptionStep ==
    ASSUME Inv, WireOK, [Next]_vars, feed' = "connected"
    PROVE  Subs!Next \/ UNCHANGED <<SubKnown, SubBuffer, SubLagged, SubOpen, SubDoes, SubGot>>
<1>1. CASE Connect
  BY <1>1, ConnectUses
<1>2. CASE Publish
  BY <1>2, PublishUses
<1>3. CASE SendUpstream
  BY <1>3, SendUses
<1>4. CASE Dispatch
  BY <1>4, DispatchUses
<1>5. CASE ConnectFails \/ Retry \/ FeedBreaks \/ BackendRestarts
  BY <1>5 DEF ConnectFails, Retry, FeedBreaks, BackendRestarts
<1>6. CASE UNCHANGED upside
  <2>1. UNCHANGED <<published, feed, upstream, wire>>
    BY <1>6 DEF upside
  <2>2. UNCHANGED <<SubKnown, SubBuffer, SubLagged, SubOpen>>
    BY <2>1, Zenon DEF SubKnown, SubBuffer, SubLagged, SubOpen
  <2>3. UNCHANGED <<SubDoes, SubGot>>
    BY <2>1, Zenon DEF SubDoes, SubGot, InHand
  <2> QED BY <2>2, <2>3
<1>7. ASSUME NEW t \in Tabs, TabStep(t) \/ Accept(t) \/ OpenFails(t) \/ SocketBreaks(t) \/ Leave(t)
      PROVE  UNCHANGED upside
  BY <1>7 DEF TabStep, OpenAgain, Receive, OnClose, Accept, OpenFails, SocketBreaks, Leave
<1>8. ASSUME NEW s \in Sessions, SessionStep(s)
      PROVE  UNCHANGED upside
  BY <1>8 DEF SessionStep, Subscribe, SendFrame, EndSession
<1>9. CASE UNCHANGED vars
  BY <1>6, <1>9 DEF vars
<1> QED BY <1>1, <1>2, <1>3, <1>4, <1>5, <1>6, <1>7, <1>8, <1>9 DEF Next, FeedStep

LEMMA UnconnectedInit ==
    ASSUME Inv, feed # "connected"
    PROVE  Subs!Init
<1>1. /\ SubKnown = Of(0) /\ SubOpen = {} /\ SubBuffer = Of(<<>>) /\ SubLagged = Of(0)
      /\ SubDoes = Of("none") /\ SubGot = Of(None)
  BY Unconnected
<1> QED BY <1>1, Zenon DEF Subs!Init, SubKnown, SubOpen, SubBuffer, SubLagged, SubDoes, SubGot, Of

\* The promise that Broadcast is proved to keep is the one the feed is built on: on every
\* connection of BlockFeed, whatever its dashboards, their sessions and the network do,
\* what comes over it is what one Subscription hands out, and it says of each block it
\* lost before it goes on to the next.
THEOREM FeedIsSubscription == SafeSpec => UsesSubscriptions
<1>1. Init => WireOK
  BY DEF Init, WireOK
<1>2. Inv /\ WireOK /\ [Next]_vars => WireOK'
  BY WireOKStep
<1>3. Inv => (feed # "connected" => Subs!Init)
  BY UnconnectedInit
<1>4. Inv /\ WireOK /\ [Next]_vars
      => [feed' = "connected" => Subs!Next \/ UNCHANGED Subs!subvars]_vars
  <2> SUFFICES ASSUME Inv, WireOK, [Next]_vars, feed' = "connected"
               PROVE  Subs!Next \/ UNCHANGED Subs!subvars
    OBVIOUS
  <2>1. CASE Subs!Next
    BY <2>1
  <2>2. CASE UNCHANGED <<SubKnown, SubBuffer, SubLagged, SubOpen, SubDoes, SubGot>>
    BY <2>2, Zenon DEF SubKnown, SubBuffer, SubLagged, SubOpen, SubDoes, SubGot, Subs!subvars
  <2> QED BY <2>1, <2>2, SubscriptionStep
<1> QED BY <1>1, <1>2, <1>3, <1>4, AlwaysInv, PTL DEF SafeSpec, UsesSubscriptions
=============================================================================
