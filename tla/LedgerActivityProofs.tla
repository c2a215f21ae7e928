------------------------- MODULE LedgerActivityProofs -------------------------
(***************************************************************************)
(* What the cursor of LedgerActivity guarantees, for any number of         *)
(* requests, devices and blocks, as long as the ledger only grows: it is   *)
(* never past the end, and last_seen, the charts and the cameras take      *)
(* account of all before it.                                               *)
(*                                                                         *)
(* The difficulty is in the answers under way.  The invariant says of each *)
(* of them that it begins where the cache already takes account of what is *)
(* before, so that consuming it, at whatever time, leaves no hole.         *)
(*                                                                         *)
(* There are two invariants.  IInv is of the cursor, the requests and      *)
(* last_seen, which do not depend on the rest of the cache.  EntriesInv    *)
(* is of that rest: it is what reading the first n blocks makes it, for    *)
(* some n nothing under way begins after.  An answer is consumed by a      *)
(* loop, and the proof goes round it block by block.                       *)
(***************************************************************************)
EXTENDS LedgerActivity, SequenceTheorems, FiniteSetTheorems, TLAPS

-----------------------------------------------------------------------------
(* The maximum of a finite set of numbers *)

\* A finite set of natural numbers has an element none of its elements exceeds: of
\* the sets "elements greater than x" one is minimal under inclusion, and it is empty.
LEMMA GreatestExists ==
    ASSUME NEW S \in SUBSET Nat, IsFiniteSet(S), S # {}
    PROVE  \E x \in S : \A y \in S : x >= y
<1> DEFINE Above(x) == {y \in S : y > x}
           T == {Above(x) : x \in S}
           R == StrictSubsetOrdering(S)
<1>1. IsWellFoundedOn(R, FiniteSubsetsOf(S))
  BY FS_StrictSubsetOrderingWellFounded
<1>2. T \subseteq FiniteSubsetsOf(S)
  <2>1. \A x \in S : IsFiniteSet(Above(x))
    BY FS_Subset
  <2> QED BY <2>1 DEF FiniteSubsetsOf
<1>3. T # {}
  OBVIOUS
<1> HIDE DEF R, T
<1>4. PICK A \in T : \A B \in T : ~ (<<B, A>> \in R)
  BY <1>1, <1>2, <1>3, WFMin
<1>5. PICK x \in S : A = Above(x)
  BY <1>4 DEF T
<1>6. ASSUME NEW y \in S, y > x
      PROVE  FALSE
  <2>1. Above(y) \in T
    BY DEF T
  <2>2. Above(y) \subseteq Above(x)
    <3>1. SUFFICES ASSUME NEW z \in S, z > y
                   PROVE  z > x
      OBVIOUS
    <3>2. x \in Nat /\ y \in Nat /\ z \in Nat
      OBVIOUS
    <3> QED BY <1>6, <3>1, <3>2
  <2>3. y \in Above(x) /\ y \notin Above(y)
    BY <1>6
  <2>4. Above(y) \in SUBSET S /\ Above(x) \in SUBSET S
    OBVIOUS
  <2> HIDE DEF Above
  <2>5. <<Above(y), Above(x)>> \in R
    BY <2>2, <2>3, <2>4 DEF R, StrictSubsetOrdering
  <2> QED BY <1>4, <1>5, <2>1, <2>5
<1> QED BY <1>6

\* Max of a non-empty set of timestamps is one of them, and none exceeds it.
LEMMA MaxOfTimes ==
    ASSUME NEW n \in Nat, NEW S \in SUBSET (0..n), S # {}
    PROVE  Max(S) \in S /\ \A y \in S : Max(S) >= y
<1>1. IsFiniteSet(S)
  <2>1. IsFiniteSet(0..n)
    BY FS_Interval
  <2> QED BY <2>1, FS_Subset
<1>2. S \in SUBSET Nat
  OBVIOUS
<1>3. \E x \in S : \A y \in S : x >= y
  BY <1>1, <1>2, GreatestExists
<1> QED BY <1>3 DEF Max

-----------------------------------------------------------------------------
(* The inductive invariant *)

\* Requests in their stages, with answers made of blocks.
TypeInv ==
    /\ chain \in Seq(Block) /\ Len(chain) \in 1..MaxBlocks
    /\ resets \in 0..MaxResets
    /\ last_seen \in [Actors -> 0..MaxTime]
    /\ next_index \in Nat
    /\ reachable \in BOOLEAN
    /\ request \in [Requests -> Request]

\* The blocks of an answer are a piece of the ledger, up to its chain_length, that
\* follows on what last_seen takes account of.
AnswerFits(a) ==
    LET before == a.chain_length - Len(a.blocks)
    IN  /\ a.chain_length <= Len(chain)
        /\ before >= 0
        /\ \A j \in 1..Len(a.blocks) : a.blocks[j] = chain[before + j]
        /\ Covered(before)

RequestFits(q) ==
    /\ q.stage # "refused"
    /\ q.stage = "asked" => q.from < Len(chain) /\ Covered(q.from)
    /\ q.stage = "answered" => AnswerFits(q)

CursorInv ==
    resets = 0 =>
        /\ next_index <= Len(chain)
        /\ Covered(next_index)
        /\ \A r \in Requests : RequestFits(request[r])

IInv == TypeInv /\ CursorInv

-----------------------------------------------------------------------------
(* The pieces of a step *)

\* A block is what a ledger holds: its time is one, its actor has a last_seen or not.
LEMMA BlockFields ==
    ASSUME NEW b \in Block
    PROVE  b.at \in 1..MaxTime
  BY DEF Block, Times

\* An idle request fits, and the stages of requests are told apart by their fields.
LEMMA IdleFits ==
    /\ Idle \in Request
    /\ RequestFits(Idle)
    /\ RequestFits(Idle)'
  BY DEF Idle, Request, RequestFits

\* A request that waits for an answer knows where it asked from, one that has an
\* answer has blocks.
LEMMA RequestFields ==
    ASSUME NEW q \in Request
    PROVE  /\ q.stage = "asked" => q.from \in Nat
           /\ q.stage = "answered" => q.blocks \in Seq(Block) /\ q.chain_length \in Nat
  BY DEF Request

\* What is accounted for stays so as long as the blocks stay and last_seen grows.
LEMMA CoveredStays ==
    ASSUME NEW n \in Nat,
           \A i \in 1..n : chain'[i] = chain[i],
           \A i \in 1..n : chain[i] \in Block,
           last_seen \in [Actors -> 0..MaxTime],
           last_seen' \in [Actors -> 0..MaxTime],
           \A a \in Actors : last_seen'[a] >= last_seen[a],
           ActivityAssumption,
           Covered(n)
    PROVE  Covered(n)'
<1> SUFFICES ASSUME NEW i \in 1..n, chain'[i].event.actor \in Actors
             PROVE  last_seen'[chain'[i].event.actor] >= chain'[i].at
  BY DEF Covered
<1> DEFINE a == chain[i].event.actor
<1>1. chain'[i] = chain[i] /\ a \in Actors
  OBVIOUS
<1>2. last_seen[a] >= chain[i].at
  BY <1>1 DEF Covered
<1>3. last_seen[a] \in Int /\ last_seen'[a] \in Int
  BY <1>1 DEF ActivityAssumption
<1>4. chain[i].at \in Int
  BY BlockFields DEF ActivityAssumption
<1>5. last_seen'[a] >= last_seen[a]
  BY <1>1
<1> HIDE DEF a
<1>6. last_seen'[a] >= chain[i].at
  BY <1>2, <1>3, <1>4, <1>5
<1> QED BY <1>1, <1>6 DEF a

\* The ledger keeps its blocks and last_seen moves forward only.
Grows ==
    /\ Len(chain') >= Len(chain)
    /\ \A i \in 1..Len(chain) : chain'[i] = chain[i]
    /\ \A a \in Actors : last_seen'[a] >= last_seen[a]

\* What is accounted for of the ledger stays so.
LEMMA CoveredGrows ==
    ASSUME TypeInv, TypeInv', Grows, NEW n \in Nat, n <= Len(chain), Covered(n)
    PROVE  Covered(n)'
<1>1. Len(chain) \in Nat /\ \A i \in 1..n : i \in 1..Len(chain)
  BY LenProperties DEF TypeInv
<1>2. \A i \in 1..n : chain[i] \in Block
  BY <1>1, ElementOfSeq DEF TypeInv
<1>3. \A i \in 1..n : chain'[i] = chain[i]
  BY <1>1 DEF Grows
<1>4. /\ last_seen \in [Actors -> 0..MaxTime]
      /\ last_seen' \in [Actors -> 0..MaxTime]
      /\ \A a \in Actors : last_seen'[a] >= last_seen[a]
  BY DEF TypeInv, Grows
<1> QED BY <1>2, <1>3, <1>4, CoveredStays, ActivityAssumption

\* A request that a step leaves alone goes on to fit.
LEMMA FitsStays ==
    ASSUME TypeInv, TypeInv', Grows, NEW r \in Requests,
           request'[r] = request[r], RequestFits(request[r])
    PROVE  RequestFits(request[r])'
<1>1. /\ request[r] \in Request
      /\ Len(chain) \in Nat /\ Len(chain') \in Nat /\ Len(chain') >= Len(chain)
  BY LenProperties DEF TypeInv, Grows
<1>2. (request[r].stage # "refused")'
  BY DEF RequestFits
<1>3. ASSUME request[r].stage = "asked"
      PROVE  (request[r].from < Len(chain) /\ Covered(request[r].from))'
  <2>1. PICK m \in Nat : m = request[r].from
    BY <1>1, <1>3, RequestFields
  <2>2. m < Len(chain) /\ Covered(m)
    BY <1>3, <2>1 DEF RequestFits
  <2>3. Covered(m)'
    BY <1>1, <2>2, CoveredGrows
  <2>4. Covered(request[r].from)'
    BY <2>1, <2>3 DEF Covered
  <2>5. (request[r].from < Len(chain))'
    BY <1>1, <2>1, <2>2
  <2> QED BY <2>4, <2>5
<1>4. ASSUME request[r].stage = "answered"
      PROVE  AnswerFits(request[r])'
  <2>1. PICK blocks \in Seq(Block), total \in Nat :
            blocks = request[r].blocks /\ total = request[r].chain_length
    BY <1>1, <1>4, RequestFields
  <2>2. PICK m \in Int : m = total - Len(blocks)
    BY <2>1, LenProperties
  <2>3. /\ total <= Len(chain)
        /\ m >= 0
        /\ \A j \in 1..Len(blocks) : blocks[j] = chain[m + j]
        /\ Covered(m)
    BY <1>4, <2>1, <2>2 DEF RequestFits, AnswerFits
  <2>4. Len(blocks) \in Nat
    BY LenProperties
  <2>5. Covered(m)'
    BY <1>1, <2>2, <2>3, <2>4, CoveredGrows
  <2>6. \A j \in 1..Len(blocks) : blocks[j] = chain'[m + j]
    <3>1. SUFFICES ASSUME NEW j \in 1..Len(blocks)
                   PROVE  blocks[j] = chain'[m + j]
      OBVIOUS
    <3>2. m + j \in 1..Len(chain)
      BY <1>1, <2>2, <2>3, <2>4
    <3> QED BY <2>3, <3>2 DEF Grows
  <2>7. total <= Len(chain')
    BY <1>1, <2>3
  <2>8. /\ (request[r].chain_length <= Len(chain))'
        /\ (request[r].chain_length - Len(request[r].blocks) >= 0)'
        /\ (\A j \in 1..Len(request[r].blocks) :
              request[r].blocks[j]
                = chain[request[r].chain_length - Len(request[r].blocks) + j])'
    BY <2>1, <2>2, <2>3, <2>6, <2>7
  <2>9. Covered(request[r].chain_length - Len(request[r].blocks))'
    BY <2>1, <2>2, <2>5 DEF Covered
  <2> QED BY <2>8, <2>9 DEF AnswerFits
<1> QED BY <1>2, <1>3, <1>4 DEF RequestFits

\* What LastSeen makes of an answer: no earlier than before, nor than any of its blocks.
LEMMA SeenGrows ==
    ASSUME TypeInv, NEW blocks \in Seq(Block), NEW a \in Actors
    PROVE  /\ LastSeen(blocks, a) \in 0..MaxTime
           /\ LastSeen(blocks, a) >= last_seen[a]
           /\ \A j \in 1..Len(blocks) :
                 blocks[j].event.actor = a => LastSeen(blocks, a) >= blocks[j].at
<1> DEFINE S == {last_seen[a]} \cup TimesOf(blocks, a)
<1>1. \A j \in 1..Len(blocks) : blocks[j] \in Block
  BY ElementOfSeq
<1>2. DOMAIN blocks = 1..Len(blocks)
  BY LenProperties
<1>3. TimesOf(blocks, a) \subseteq 0..MaxTime
  <2>1. \A b \in ToSet(blocks) : b.at \in 1..MaxTime
    BY <1>1, <1>2, BlockFields DEF ToSet
  <2> QED BY <2>1 DEF TimesOf
<1>4. S \in SUBSET (0..MaxTime) /\ S # {} /\ last_seen[a] \in S
  BY <1>3 DEF TypeInv
<1>5. MaxTime \in Nat
  BY ActivityAssumption DEF ActivityAssumption
<1>6. Max(S) \in S /\ \A y \in S : Max(S) >= y
  <2> HIDE DEF S
  <2> QED BY <1>4, <1>5, MaxOfTimes
<1>7. \A j \in 1..Len(blocks) : blocks[j].event.actor = a => blocks[j].at \in S
  BY <1>2 DEF TimesOf, ToSet
<1>8. LastSeen(blocks, a) = Max(S)
  BY DEF LastSeen
<1> HIDE DEF S
<1> QED BY <1>4, <1>6, <1>7, <1>8

-----------------------------------------------------------------------------
(* The steps *)

LEMMA TypeInit == Init => TypeInv
<1> SUFFICES ASSUME Init
             PROVE  TypeInv
  OBVIOUS
<1>1. Genesis(0) \in Block
  BY ActivityAssumption DEF Genesis, Block, Times, ActivityAssumption
<1>2. chain \in Seq(Block) /\ Len(chain) \in 1..MaxBlocks
  BY <1>1, ActivityAssumption, BlockRangeAssumption DEF Init
<1>3. last_seen \in [Actors -> 0..MaxTime]
  BY ActivityAssumption DEF Init, NoTime, ActivityAssumption
<1>4. request \in [Requests -> Request]
  BY IdleFits DEF Init
<1>5. resets \in 0..MaxResets /\ next_index \in Nat /\ reachable \in BOOLEAN
  BY ActivityAssumption DEF Init, ActivityAssumption
<1> QED BY <1>2, <1>3, <1>4, <1>5 DEF TypeInv

\* A refresh asks without an end, and its beginning is a number: what is left of
\* GET /blocks is whether there is a block at that position.
LEMMA AnswerIs ==
    ASSUME NEW from \in Nat, Len(chain) \in 1..(MaxIndex + 1)
    PROVE  Answer(from) =
             IF from > Len(chain) - 1
             THEN [stage |-> "refused"]
             ELSE [stage |-> "answered", blocks |-> SubSeq(chain, from + 1, Len(chain)),
                   chain_length |-> Len(chain)]
<1> DEFINE reply == GetBlocks(chain, Digits(from), Absent)
<1>1. /\ Parses(Absent) /\ parse_index(Absent, MaxIndex) = MaxIndex
      /\ Parses(Digits(from)) <=> from <= MaxIndex
      /\ parse_index(Digits(from), 0) = from
  BY DEF Parses, parse_index, Absent, Digits
<1>2. /\ ~ (MaxIndex < Len(chain) - 1)
      /\ (Len(chain) - 1) + 1 = Len(chain)
  BY BlockRangeAssumption
<1>3. reply = IF from > Len(chain) - 1
              THEN [status |-> 400]
              ELSE [status |-> 200, blocks |-> SubSeq(chain, from + 1, Len(chain)),
                    chain_length |-> Len(chain)]
  <2>1. CASE from <= MaxIndex
    <3>1. reply = Slice(chain, from, MaxIndex)
      BY <1>1, <2>1 DEF GetBlocks
    <3>2. Slice(chain, from, MaxIndex) =
              IF from > Len(chain) - 1
              THEN [status |-> 400]
              ELSE [status |-> 200, blocks |-> SubSeq(chain, from + 1, Len(chain)),
                    chain_length |-> Len(chain)]
      <4> DEFINE last == Len(chain) - 1
                 to   == IF MaxIndex < last THEN MaxIndex ELSE last
      <4>1. to = last /\ last + 1 = Len(chain)
        BY <1>2
      <4>2. Slice(chain, from, MaxIndex) =
                IF from > to
                THEN [status |-> 400]
                ELSE [status |-> 200, blocks |-> SubSeq(chain, from + 1, to + 1),
                      chain_length |-> Len(chain)]
        BY DEF Slice
      <4> HIDE DEF to
      <4> QED BY <4>1, <4>2
    <3> QED BY <3>1, <3>2
  <2>2. CASE ~ (from <= MaxIndex)
    <3>1. from > Len(chain) - 1
      BY <2>2, BlockRangeAssumption
    <3> QED BY <1>1, <2>2, <3>1 DEF GetBlocks
  <2> QED BY <2>1, <2>2
<1> HIDE DEF reply
<1>4. Answer(from) = IF reply.status = 400
                     THEN [stage |-> "refused"]
                     ELSE [stage |-> "answered", blocks |-> reply.blocks,
                           chain_length |-> reply.chain_length]
  BY DEF Answer, reply
<1>5. CASE from > Len(chain) - 1
  <2>1. reply.status = 400
    BY <1>3, <1>5
  <2> QED BY <1>4, <1>5, <2>1
<1>6. CASE ~ (from > Len(chain) - 1)
  <2>1. /\ reply.status # 400
        /\ reply.blocks = SubSeq(chain, from + 1, Len(chain))
        /\ reply.chain_length = Len(chain)
    BY <1>3, <1>6
  <2> QED BY <1>4, <1>6, <2>1
<1> QED BY <1>5, <1>6

\* What storage-core answers is an answer.
LEMMA AnswerType ==
    ASSUME TypeInv, NEW from \in Nat
    PROVE  /\ Answer(from) \in Request
           /\ from < Len(chain) =>
                 /\ Answer(from).stage = "answered"
                 /\ Answer(from).chain_length = Len(chain)
                 /\ Len(Answer(from).blocks) = Len(chain) - from
                 /\ \A j \in 1..Len(Answer(from).blocks) :
                       Answer(from).blocks[j] = chain[from + j]
<1>1. chain \in Seq(Block) /\ Len(chain) \in Nat
  BY LenProperties DEF TypeInv
<1>a. Len(chain) \in 1..(MaxIndex + 1)
  BY <1>1, ActivityAssumption, BlockRangeAssumption DEF TypeInv
<1>2. CASE from > Len(chain) - 1
  <2>1. Answer(from) = [stage |-> "refused"]
    BY <1>2, <1>a, AnswerIs
  <2>2. Answer(from) \in Request
    BY <2>1 DEF Request
  <2> QED BY <1>1, <1>2, <2>2
<1>3. CASE ~ (from > Len(chain) - 1)
  <2> DEFINE piece == SubSeq(chain, from + 1, Len(chain))
  <2>1. \A i \in (from + 1)..Len(chain) : chain[i] \in Block
    <3>1. \A i \in (from + 1)..Len(chain) : i \in 1..Len(chain)
      BY <1>1
    <3> QED BY <1>1, <3>1, ElementOfSeq
  <2>2. /\ piece \in Seq(Block)
        /\ Len(piece) = IF from + 1 <= Len(chain) THEN Len(chain) - (from + 1) + 1 ELSE 0
        /\ \A i \in 1..(Len(chain) - (from + 1) + 1) : piece[i] = chain[(from + 1) + i - 1]
    BY <1>1, <2>1, SubSeqProperties
  <2>3. Answer(from) = [stage |-> "answered", blocks |-> piece,
                        chain_length |-> Len(chain)]
    BY <1>3, <1>a, AnswerIs
  <2> HIDE DEF piece
  <2>4. Len(piece) = Len(chain) - from
    BY <1>1, <1>3, <2>2
  <2>5. \A j \in 1..Len(piece) : piece[j] = chain[from + j]
    <3>1. SUFFICES ASSUME NEW j \in 1..Len(piece)
                   PROVE  piece[j] = chain[from + j]
      OBVIOUS
    <3>2. j \in 1..(Len(chain) - (from + 1) + 1) /\ (from + 1) + j - 1 = from + j
      BY <1>1, <2>4
    <3> QED BY <2>2, <3>2
  <2>6. Answer(from) \in Request
    BY <1>1, <2>2, <2>3 DEF Request
  <2> QED BY <2>3, <2>4, <2>5, <2>6
<1> QED BY <1>2, <1>3

LEMMA TypeStep == TypeInv /\ [Next]_vars => TypeInv'
<1> SUFFICES ASSUME TypeInv, [Next]_vars
             PROVE  TypeInv'
  OBVIOUS
<1>1. CASE AppendBlock
  <2>1. PICK e \in Events, t \in Times :
            chain' = Append(chain, [ledger |-> resets, index |-> Len(chain), at |-> t,
                                    event |-> e])
    BY <1>1 DEF AppendBlock
  <2> DEFINE b == [ledger |-> resets, index |-> Len(chain), at |-> t, event |-> e]
  <2>2. Len(chain) \in 0..(MaxBlocks - 1)
    BY <1>1, LenProperties, ActivityAssumption DEF AppendBlock, TypeInv, ActivityAssumption
  <2>3. e \in Event
    BY ActivityAssumption DEF ActivityAssumption
  <2>4. b \in Block
    BY <2>2, <2>3 DEF Block, TypeInv
  <2> HIDE DEF b
  <2>5. chain' \in Seq(Block) /\ Len(chain') = Len(chain) + 1
    BY <2>1, <2>4, AppendProperties DEF TypeInv, b
  <2>6. Len(chain) < MaxBlocks
    BY <1>1, ActivityAssumption, BlockRangeAssumption DEF AppendBlock, TypeInv
  <2>7. Len(chain') \in 1..MaxBlocks
    BY <2>5, <2>6, ActivityAssumption, BlockRangeAssumption DEF TypeInv
  <2> QED BY <1>1, <2>5, <2>7 DEF AppendBlock, TypeInv, cache
<1>2. CASE Reset
  <2>1. resets' \in 0..MaxResets
    BY <1>2, ActivityAssumption DEF Reset, TypeInv, ActivityAssumption
  <2>2. Genesis(resets') \in Block
    BY <2>1, ActivityAssumption DEF Genesis, Block, Times, ActivityAssumption
  <2>3. chain' \in Seq(Block) /\ Len(chain') \in 1..MaxBlocks
    BY <1>2, <2>2, ActivityAssumption, BlockRangeAssumption DEF Reset
  <2> QED BY <1>2, <2>1, <2>3 DEF Reset, TypeInv, cache
<1>3. ASSUME NEW r \in Requests, Ask(r)
      PROVE  TypeInv'
  <2>1. From \in Nat
    BY DEF From, TypeInv
  <2>2. [stage |-> "asked", from |-> From] \in Request
    BY <2>1 DEF Request
  <2>3. request' \in [Requests -> Request]
    BY <1>3, <2>2 DEF Ask, TypeInv
  <2> QED BY <1>3, <2>3 DEF Ask, TypeInv, cache
<1>4. ASSUME NEW r \in Requests, Serve(r)
      PROVE  TypeInv'
  <2>1. request[r].from \in Nat
    BY <1>4, RequestFields DEF Serve, TypeInv
  <2>2. Answer(request[r].from) \in Request
    BY <2>1, AnswerType
  <2>3. request' \in [Requests -> Request]
    BY <1>4, <2>2 DEF Serve, TypeInv
  <2> QED BY <1>4, <2>3 DEF Serve, TypeInv, cache
<1>5. ASSUME NEW r \in Requests, Succeed(r)
      PROVE  TypeInv'
  <2>1. request[r].blocks \in Seq(Block) /\ request[r].chain_length \in Nat
    BY <1>5, RequestFields DEF Succeed, TypeInv
  <2>2. \A a \in Actors : LastSeen(request[r].blocks, a) \in 0..MaxTime
    BY <2>1, SeenGrows
  <2>3. last_seen' \in [Actors -> 0..MaxTime]
    BY <1>5, <2>2 DEF Succeed, Consume
  <2>4. request' \in [Requests -> Request]
    BY <1>5, IdleFits DEF Succeed, TypeInv
  <2> QED BY <1>5, <2>1, <2>3, <2>4 DEF Succeed, TypeInv
<1>6. ASSUME NEW r \in Requests, Rewind(r) \/ GiveUp(r)
      PROVE  TypeInv'
  <2>1. request' \in [Requests -> Request]
    BY <1>6, IdleFits DEF Rewind, GiveUp, TypeInv
  <2>2. /\ chain' = chain /\ resets' = resets /\ last_seen' = last_seen
        /\ next_index' \in {next_index, 0}
    BY <1>6 DEF Rewind, GiveUp, cache
  <2>3. next_index' \in Nat
    BY <2>2 DEF TypeInv
  <2>4. reachable' \in BOOLEAN
    BY <1>6, Zenon DEF Rewind, GiveUp
  <2> QED BY <2>1, <2>2, <2>3, <2>4, Zenon DEF TypeInv
<1>7. CASE UNCHANGED vars
  BY <1>7 DEF vars, cache, TypeInv
<1> QED BY <1>1, <1>2, <1>3, <1>4, <1>5, <1>6, <1>7 DEF Next, Resume

\* A step that leaves chain and last_seen alone only adds to what there is.
LEMMA StillGrows ==
    ASSUME TypeInv, chain' = chain, last_seen' = last_seen
    PROVE  Grows
<1>1. Len(chain) \in Nat /\ \A a \in Actors : last_seen[a] \in Int
  BY LenProperties, ActivityAssumption DEF TypeInv, ActivityAssumption
<1> QED BY <1>1 DEF Grows

\* A request that becomes idle fits, and the others do if nothing else changes.
LEMMA OneFits ==
    ASSUME TypeInv, TypeInv', Grows, NEW r \in Requests,
           \A q \in Requests : RequestFits(request[q]),
           \A q \in Requests \ {r} : request'[q] = request[q],
           RequestFits(request[r])'
    PROVE  (\A q \in Requests : RequestFits(request[q]))'
<1>1. ASSUME NEW q \in Requests
      PROVE  RequestFits(request[q])'
  <2>1. CASE q = r
    BY <2>1
  <2>2. CASE q # r
    BY <2>2, FitsStays
  <2> QED BY <2>1, <2>2
<1> QED BY <1>1

\* A request that has just become idle fits.
LEMMA NowIdleFits ==
    ASSUME NEW r \in Requests, request'[r] = Idle
    PROVE  RequestFits(request[r])'
  BY DEF RequestFits, Idle

LEMMA CursorStep ==
    ASSUME IInv, TypeInv', [Next]_vars
    PROVE  CursorInv'
<1> SUFFICES ASSUME resets' = 0
             PROVE  /\ next_index' <= Len(chain')
                    /\ Covered(next_index)'
                    /\ (\A r \in Requests : RequestFits(request[r]))'
  BY DEF CursorInv
<1>0. /\ TypeInv
      /\ next_index \in Nat /\ Len(chain) \in Nat /\ Len(chain) >= 1
      /\ request \in [Requests -> Request]
  BY LenProperties DEF IInv, TypeInv
<1>a. resets = 0 => /\ next_index <= Len(chain)
                    /\ Covered(next_index)
                    /\ \A r \in Requests : RequestFits(request[r])
  BY DEF IInv, CursorInv
<1>b. ASSUME Grows, resets = 0, next_index' = next_index
      PROVE  next_index' <= Len(chain') /\ Covered(next_index)'
  <2>1. PICK n \in Nat : n = next_index
    BY <1>0
  <2>2. Covered(n)'
    BY <1>0, <1>a, <1>b, <2>1, CoveredGrows
  <2>3. Covered(next_index)'
    BY <1>b, <2>1, <2>2
  <2>4. Len(chain') \in Nat /\ Len(chain') >= Len(chain)
    BY <1>b, LenProperties DEF TypeInv, Grows
  <2> QED BY <1>0, <1>a, <1>b, <2>3, <2>4
<1>1. CASE AppendBlock
  <2>1. resets = 0 /\ next_index' = next_index /\ request' = request /\ last_seen' = last_seen
    BY <1>1 DEF AppendBlock, cache
  <2>2. PICK b : chain' = Append(chain, b)
    BY <1>1 DEF AppendBlock
  <2>3. Len(chain') = Len(chain) + 1 /\ \A i \in 1..Len(chain) : chain'[i] = chain[i]
    BY <1>0, <2>2 DEF TypeInv
  <2>4. \A a \in Actors : last_seen'[a] >= last_seen[a]
    <3>1. \A a \in Actors : last_seen[a] \in Int
      BY <1>0, ActivityAssumption DEF TypeInv, ActivityAssumption
    <3> QED BY <2>1, <3>1
  <2>5. Grows
    BY <1>0, <2>3, <2>4 DEF Grows
  <2>6. \A r \in Requests : RequestFits(request[r])'
    BY <1>0, <1>a, <2>1, <2>5, FitsStays
  <2> QED BY <1>b, <2>1, <2>5, <2>6
<1>2. CASE Reset
  BY <1>0, <1>2 DEF Reset, TypeInv
<1>3. ASSUME NEW r \in Requests, Ask(r)
      PROVE  /\ next_index' <= Len(chain')
             /\ Covered(next_index)'
             /\ (\A q \in Requests : RequestFits(request[q]))'
  <2>1. /\ resets = 0 /\ next_index' = next_index /\ chain' = chain /\ last_seen' = last_seen
        /\ request'[r] = [stage |-> "asked", from |-> From]
        /\ \A q \in Requests \ {r} : request'[q] = request[q]
    BY <1>0, <1>3 DEF Ask, cache
  <2>2. Grows
    BY <1>0, <2>1, StillGrows
  <2>3. From \in Nat /\ From < Len(chain) /\ From <= next_index
    BY <1>0, <1>a, <2>1 DEF From
  <2>4. Covered(From)
    BY <1>0, <1>a, <2>1, <2>3 DEF Covered
  <2>5. PICK n \in Nat : n = From
    BY <2>3
  <2>6. Covered(n)'
    BY <1>0, <2>2, <2>3, <2>4, <2>5, CoveredGrows
  <2>7. Covered(request[r].from)'
    BY <2>1, <2>5, <2>6
  <2>8. RequestFits(request[r])'
    BY <2>1, <2>3, <2>7 DEF RequestFits
  <2>9. (\A q \in Requests : RequestFits(request[q]))'
    BY <1>0, <1>a, <2>1, <2>2, <2>8, OneFits
  <2> QED BY <1>b, <2>1, <2>2, <2>9
<1>4. ASSUME NEW r \in Requests, Serve(r)
      PROVE  /\ next_index' <= Len(chain')
             /\ Covered(next_index)'
             /\ (\A q \in Requests : RequestFits(request[q]))'
  <2>1. /\ resets = 0 /\ next_index' = next_index /\ chain' = chain /\ last_seen' = last_seen
        /\ request[r].stage = "asked"
        /\ request'[r] = Answer(request[r].from)
        /\ \A q \in Requests \ {r} : request'[q] = request[q]
    BY <1>0, <1>4 DEF Serve, cache
  <2>2. Grows
    BY <1>0, <2>1, StillGrows
  <2>3. PICK n \in Nat : n = request[r].from
    BY <1>0, <2>1, RequestFields
  <2>4. n < Len(chain) /\ Covered(n)
    BY <1>a, <2>1, <2>3 DEF RequestFits
  <2>5. PICK a : a = Answer(n)
    OBVIOUS
  <2>6. /\ a.stage = "answered"
        /\ a.chain_length = Len(chain)
        /\ Len(a.blocks) = Len(chain) - n
        /\ \A j \in 1..Len(a.blocks) : a.blocks[j] = chain[n + j]
    BY <1>0, <2>4, <2>5, AnswerType
  <2>7. a.chain_length - Len(a.blocks) = n
    BY <1>0, <2>6
  <2>8. Covered(n)'
    BY <1>0, <2>2, <2>4, CoveredGrows
  <2>9. request'[r] = a
    BY <2>1, <2>3, <2>5
  <2>10. AnswerFits(request[r])'
    <3>1. Covered(request[r].chain_length - Len(request[r].blocks))'
      BY <2>7, <2>8, <2>9
    <3>2. (request[r].chain_length <= Len(chain))'
      BY <1>0, <2>1, <2>6, <2>9
    <3>3. (request[r].chain_length - Len(request[r].blocks) >= 0)'
      BY <2>7, <2>9
    <3>4. (\A j \in 1..Len(request[r].blocks) :
              request[r].blocks[j]
                = chain[request[r].chain_length - Len(request[r].blocks) + j])'
      BY <2>1, <2>6, <2>7, <2>9
    <3> QED BY <3>1, <3>2, <3>3, <3>4 DEF AnswerFits
  <2>11. RequestFits(request[r])'
    BY <2>6, <2>9, <2>10 DEF RequestFits
  <2>12. (\A q \in Requests : RequestFits(request[q]))'
    BY <1>0, <1>a, <2>1, <2>2, <2>11, OneFits
  <2> QED BY <1>b, <2>1, <2>2, <2>12
<1>5. ASSUME NEW r \in Requests, Succeed(r)
      PROVE  /\ next_index' <= Len(chain')
             /\ Covered(next_index)'
             /\ (\A q \in Requests : RequestFits(request[q]))'
  <2>1. /\ resets = 0 /\ chain' = chain
        /\ request[r].stage = "answered"
        /\ next_index' = request[r].chain_length
        /\ last_seen' = [a \in Actors |-> LastSeen(request[r].blocks, a)]
        /\ request'[r] = Idle
        /\ \A q \in Requests \ {r} : request'[q] = request[q]
    BY <1>0, <1>5 DEF Succeed, Consume
  <2>2. PICK blocks \in Seq(Block), total \in Nat :
            blocks = request[r].blocks /\ total = request[r].chain_length
    BY <1>0, <2>1, RequestFields
  <2>3. AnswerFits(request[r])
    BY <1>a, <2>1 DEF RequestFits
  <2>4. PICK m \in Int : m = total - Len(blocks)
    BY <2>2, LenProperties
  <2>5. /\ total <= Len(chain) /\ m >= 0
        /\ \A j \in 1..Len(blocks) : blocks[j] = chain[m + j]
        /\ Covered(m)
    BY <2>2, <2>3, <2>4 DEF AnswerFits
  <2>6. Len(blocks) \in Nat /\ \A j \in 1..Len(blocks) : blocks[j] \in Block
    BY LenProperties, ElementOfSeq
  <2>7. \A a \in Actors :
           /\ last_seen'[a] >= last_seen[a]
           /\ \A j \in 1..Len(blocks) :
                 blocks[j].event.actor = a => last_seen'[a] >= blocks[j].at
    BY <1>0, <2>1, <2>2, SeenGrows
  <2>8. Grows
    BY <1>0, <2>1, <2>7 DEF Grows
  <2>9. m \in Nat /\ m <= Len(chain) /\ total = m + Len(blocks)
    BY <1>0, <2>4, <2>5, <2>6
  <2>10. Covered(m)'
    BY <1>0, <2>5, <2>8, <2>9, CoveredGrows
  <2>11. ASSUME NEW i \in 1..total, chain'[i].event.actor \in Actors
         PROVE  last_seen'[chain'[i].event.actor] >= chain'[i].at
    <3>1. CASE i <= m
      <4>1. i \in 1..m
        BY <2>9, <3>1
      <4> QED BY <2>10, <2>11, <4>1 DEF Covered
    <3>2. CASE i > m
      <4>1. PICK j \in 1..Len(blocks) : i = m + j
        <5>1. i - m \in 1..Len(blocks) /\ i = m + (i - m)
          BY <2>6, <2>9, <3>2
        <5> QED BY <5>1
      <4>2. chain'[i] = blocks[j]
        BY <2>1, <2>5, <4>1
      <4> QED BY <2>7, <2>11, <4>2
    <3> QED BY <2>9, <3>1, <3>2
  <2>12. Covered(next_index)'
    BY <2>1, <2>2, <2>11 DEF Covered
  <2>13. (\A q \in Requests : RequestFits(request[q]))'
    BY <1>0, <1>a, <2>1, <2>8, NowIdleFits, OneFits
  <2>14. next_index' <= Len(chain')
    BY <2>1, <2>2, <2>5
  <2> QED BY <2>12, <2>13, <2>14
<1>6. ASSUME NEW r \in Requests, Rewind(r)
      PROVE  /\ next_index' <= Len(chain')
             /\ Covered(next_index)'
             /\ (\A q \in Requests : RequestFits(request[q]))'
  <2>1. resets = 0 /\ request[r].stage = "refused"
    BY <1>6 DEF Rewind
  <2> QED BY <1>a, <2>1 DEF RequestFits
<1>7. ASSUME NEW r \in Requests, GiveUp(r)
      PROVE  /\ next_index' <= Len(chain')
             /\ Covered(next_index)'
             /\ (\A q \in Requests : RequestFits(request[q]))'
  <2>1. /\ resets = 0 /\ next_index' = next_index /\ chain' = chain /\ last_seen' = last_seen
        /\ request'[r] = Idle
        /\ \A q \in Requests \ {r} : request'[q] = request[q]
    BY <1>0, <1>7 DEF GiveUp, cache
  <2>2. Grows
    BY <1>0, <2>1, StillGrows
  <2>3. (\A q \in Requests : RequestFits(request[q]))'
    BY <1>0, <1>a, <2>1, <2>2, NowIdleFits, OneFits
  <2> QED BY <1>b, <2>1, <2>2, <2>3
<1>8. CASE UNCHANGED vars
  <2>1. /\ resets = 0 /\ next_index' = next_index /\ chain' = chain /\ last_seen' = last_seen
        /\ request' = request
    BY <1>8 DEF vars, cache
  <2>2. Grows
    BY <1>0, <2>1, StillGrows
  <2>3. \A r \in Requests : RequestFits(request[r])'
    BY <1>0, <1>a, <2>1, <2>2, FitsStays
  <2> QED BY <1>b, <2>1, <2>2, <2>3
<1> QED BY <1>1, <1>2, <1>3, <1>4, <1>5, <1>6, <1>7, <1>8 DEF Next, Resume

LEMMA Invariance == SafeSpec => []IInv
<1>1. Init => IInv
  <2> SUFFICES ASSUME Init
               PROVE  IInv
    OBVIOUS
  <2>1. TypeInv
    BY TypeInit
  <2>2. next_index = 0 /\ \A r \in Requests : request[r] = Idle
    BY DEF Init
  <2>3. Covered(next_index) /\ next_index <= Len(chain)
    BY <2>1, <2>2, LenProperties DEF Covered, TypeInv
  <2>4. \A r \in Requests : RequestFits(request[r])
    BY <2>2, IdleFits
  <2> QED BY <2>1, <2>3, <2>4 DEF IInv, CursorInv
<1>2. IInv /\ [Next]_vars => IInv'
  BY TypeStep, CursorStep DEF IInv
<1> QED BY <1>1, <1>2, PTL DEF SafeSpec

-----------------------------------------------------------------------------
(* The cache of readings and camera events: what has to hold of it *)

Entry == [latest : Block \cup {None}, history : Seq(Block)]

\* A chart runs forward, is no longer than it may be, and ends with the latest reading.
ChartOK(e) ==
    /\ Len(e.history) <= HistoryLimit
    /\ \A i, j \in DOMAIN e.history : i < j => e.history[i].at <= e.history[j].at
    /\ e.latest = IF e.history = <<>> THEN None ELSE Last(e.history)

\* What _latest, _history and _camera may hold, whatever ledgers it was read from.
CacheOK(c) ==
    /\ c.readings \in [Keys -> Entry]
    /\ \A k \in Keys : ChartOK(c.readings[k])
    /\ c.camera \in [Keys -> Camera \cup {None}]

\* Of the first n blocks of ch, those that are readings of k have been read into e, and
\* the latest is one of them.
Charted(ch, e, k, n) ==
    /\ e.latest # None => \E j \in 1..n : IsReading(ch[j], k) /\ e.latest = ch[j]
    /\ \A i \in 1..n : IsReading(ch[i], k) =>
          /\ e.latest # None /\ e.latest.at >= ch[i].at
          /\ \/ ch[i] \in ToSet(e.history)
             \/ \E j \in 1..(i - 1) : IsReading(ch[j], k) /\ ch[j].at > ch[i].at
             \/ Len(e.history) = HistoryLimit /\ e.history[1].at >= ch[i].at

\* Likewise of the camera events.
Announced(ch, v, k, n) ==
    /\ v # None => \E j \in 1..n : IsCameraEvent(ch[j], k) /\ v.last = ch[j]
    /\ \A i \in 1..n : IsCameraEvent(ch[i], k) =>
          /\ v # None /\ v.last.at >= ch[i].at
          /\ \/ ch[i].event.url = None
             \/ v.stream_url # None
             \/ \E j \in 1..(i - 1) : IsCameraEvent(ch[j], k) /\ ch[j].at > ch[i].at

ReadUpTo(ch, c, n) ==
    \A k \in Keys : Charted(ch, c.readings[k], k, n) /\ Announced(ch, c.camera[k], k, n)

\* A request whose answer leaves no hole after the first n blocks.
Continues(q, n) ==
    /\ q.stage = "asked" => q.from <= n
    /\ q.stage = "answered" => q.chain_length - Len(q.blocks) <= n

Cache == [readings |-> readings, camera |-> camera]

CacheInv ==
    /\ CacheOK(Cache)
    /\ next_index <= MaxBlocks
    /\ \A r \in Requests :
          request[r].stage = "answered" => request[r].chain_length <= MaxBlocks

\* The cache is what reading the first n blocks makes it, for some n that neither the
\* cursor nor the beginning of an answer under way is past.
EntriesInv ==
    resets = 0 =>
        \E n \in 0..Len(chain) :
            /\ next_index <= n
            /\ \A r \in Requests : Continues(request[r], n)
            /\ ReadUpTo(chain, Cache, n)

-----------------------------------------------------------------------------
(* One block *)

\* A reading that is not passed over ends its chart.  What was in the chart stays, or
\* has been pushed out by readings that are not older.
LEMMA ChartGrows ==
    ASSUME NEW e \in Entry, ChartOK(e), NEW b \in Block, ~ OutOfOrder(e.latest, b),
           NEW c, c = ConsumeReading(e, b)
    PROVE  /\ c \in Entry /\ ChartOK(c) /\ c.latest = b /\ b \in ToSet(c.history)
           /\ \A x \in ToSet(e.history) :
                 \/ x \in ToSet(c.history)
                 \/ Len(c.history) = HistoryLimit /\ c.history[1].at >= x.at
           /\ Len(e.history) = HistoryLimit =>
                 /\ Len(c.history) = HistoryLimit
                 /\ c.history[1].at >= e.history[1].at
<1> DEFINE h == e.history
           L == Len(h)
           a == Append(h, b)
           B == Bounded(a)
<1>1. HistoryLimit \in Nat /\ HistoryLimit >= 1
  BY ActivityAssumption DEF ActivityAssumption
<1>2. h \in Seq(Block) /\ L \in Nat /\ L <= HistoryLimit /\ DOMAIN h = 1..L
  BY LenProperties DEF Entry, ChartOK
<1>3. /\ a \in Seq(Block) /\ Len(a) = L + 1 /\ a[L + 1] = b
      /\ \A i \in 1..L : a[i] = h[i]
  BY <1>2, AppendProperties
<1>4. \A i \in 1..(L + 1) : a[i] \in Block
  BY <1>3, ElementOfSeq
<1>5. \A i \in 1..(L + 1) : a[i].at \in Int
  <2>1. SUFFICES ASSUME NEW x \in Block
                 PROVE  x.at \in Int
    BY <1>4
  <2>2. x.at \in 1..MaxTime
    BY BlockFields, Zenon
  <2> QED BY <2>2
<1>6. ASSUME NEW i \in 1..L
      PROVE  h[i].at <= b.at
  <2>1. h # <<>> /\ L >= 1 /\ L \in 1..L
    BY <1>2, EmptySeq
  <2>2. e.latest = h[L]
    BY <2>1 DEF ChartOK, Last
  <2>3. h[L] \in Block /\ h[L] # None
    BY <1>2, <2>1, ElementOfSeq, NoneIsNothing
  <2>4. h[L].at <= b.at
    BY <2>1, <2>2, <2>3, <1>3, <1>5 DEF OutOfOrder
  <2>5. h[i].at <= h[L].at
    BY <1>2, <1>3, <1>5, <2>1, SMTT(60) DEF ChartOK
  <2> QED BY <1>3, <1>5, <2>1, <2>4, <2>5
<1>7. \A i, j \in 1..(L + 1) : i < j => a[i].at <= a[j].at
  <2>1. SUFFICES ASSUME NEW i \in 1..(L + 1), NEW j \in 1..(L + 1), i < j
                 PROVE  a[i].at <= a[j].at
    OBVIOUS
  <2>2. i \in 1..L
    BY <1>2, <2>1
  <2>3. CASE j \in 1..L
    BY <1>2, <1>3, <2>1, <2>2, <2>3 DEF ChartOK
  <2>4. CASE j = L + 1
    BY <1>3, <1>6, <2>2, <2>4
  <2> QED BY <1>2, <2>1, <2>3, <2>4
<1>8. c = [latest |-> b, history |-> B]
  BY DEF ConsumeReading
<1> HIDE DEF a, L, h, B
<1>9. CASE L + 1 <= HistoryLimit
  <2>1. B = a
    BY <1>1, <1>2, <1>3, <1>9 DEF B, Bounded
  <2>2. DOMAIN a = 1..(L + 1) /\ a # <<>> /\ Last(a) = b
    BY <1>2, <1>3, LenProperties, EmptySeq DEF Last
  <2>3. c \in Entry /\ c.latest = b /\ c.history = a
    BY <1>3, <1>8, <2>1 DEF Entry
  <2>4. ChartOK(c)
    BY <1>3, <1>7, <1>9, <2>2, <2>3 DEF ChartOK
  <2>5. b \in ToSet(a) /\ \A x \in ToSet(h) : x \in ToSet(a)
    <3>1. L + 1 \in 1..(L + 1) /\ \A i \in 1..L : i \in 1..(L + 1)
      BY <1>2
    <3> QED BY <1>2, <1>3, <2>2, <3>1 DEF ToSet
  <2>6. L # HistoryLimit
    BY <1>1, <1>2, <1>9
  <2>7. b \in ToSet(c.history) /\ \A x \in ToSet(e.history) : x \in ToSet(c.history)
    BY <2>3, <2>5, Zenon DEF h
  <2>8. Len(e.history) # HistoryLimit
    BY <2>6 DEF h, L
  <2> QED BY <2>3, <2>4, <2>7, <2>8
<1>10. CASE ~ (L + 1 <= HistoryLimit)
  <2>1. L = HistoryLimit /\ L >= 1 /\ B = Tail(a)
    BY <1>1, <1>2, <1>3, <1>10 DEF B, Bounded
  <2>2. /\ B \in Seq(Block) /\ Len(B) = L
        /\ \A i \in 1..L : B[i] = a[i + 1]
    <3>1. a # <<>> /\ Len(a) - 1 = L
      BY <1>2, <1>3, EmptySeq
    <3> QED BY <1>3, <2>1, <3>1, HeadTailProperties
  <2>3. DOMAIN B = 1..L /\ B # <<>> /\ Last(B) = b
    <3>1. L \in 1..L
      BY <1>2, <2>1
    <3> QED BY <1>3, <2>1, <2>2, <3>1, LenProperties, EmptySeq DEF Last
  <2>4. c \in Entry /\ c.latest = b /\ c.history = B
    BY <1>8, <2>2 DEF Entry
  <2>5. \A i, j \in 1..L : i < j => B[i].at <= B[j].at
    <3>1. SUFFICES ASSUME NEW i \in 1..L, NEW j \in 1..L, i < j
                   PROVE  B[i].at <= B[j].at
      OBVIOUS
    <3>2. i + 1 \in 1..(L + 1) /\ j + 1 \in 1..(L + 1) /\ i + 1 < j + 1
      BY <1>2, <3>1
    <3>3. a[i + 1].at <= a[j + 1].at
      BY <1>7, <3>2
    <3> QED BY <2>2, <3>3
  <2>6. ChartOK(c)
    BY <2>1, <2>2, <2>3, <2>4, <2>5 DEF ChartOK
  <2>7. b \in ToSet(B)
    <3>1. L \in 1..L /\ B[L] = b
      BY <1>2, <1>3, <2>1, <2>2
    <3> QED BY <2>3, <3>1 DEF ToSet
  <2>8. B[1].at >= h[1].at
    <3>1. 1 \in 1..(L + 1) /\ 2 \in 1..(L + 1) /\ 1 \in 1..L
      BY <1>2, <2>1
    <3>2. B[1] = a[2] /\ h[1] = a[1]
      BY <1>3, <2>2, <3>1
    <3>3. a[1].at <= a[2].at
      BY <1>7, <3>1
    <3> QED BY <1>5, <3>1, <3>2, <3>3
  <2>9. \A x \in ToSet(h) : x \in ToSet(B) \/ B[1].at >= x.at
    <3>1. SUFFICES ASSUME NEW i \in 1..L
                   PROVE  h[i] \in ToSet(B) \/ B[1].at >= h[i].at
      BY <1>2 DEF ToSet
    <3>2. CASE i = 1
      BY <2>8, <3>2
    <3>3. CASE i # 1
      <4>1. i - 1 \in 1..L /\ (i - 1) + 1 = i
        BY <1>2, <3>3
      <4>2. B[i - 1] = h[i]
        BY <1>3, <2>2, <4>1
      <4> QED BY <2>3, <4>1, <4>2 DEF ToSet
    <3> QED BY <3>2, <3>3
  <2> QED BY <2>1, <2>2, <2>4, <2>6, <2>7, <2>8, <2>9 DEF h
<1> QED BY <1>9, <1>10

\* What reading a block p does to the chart of k, where N blocks have been read then,
\* and n before: p is one of these, or the next.
LEMMA OneReading ==
    ASSUME NEW ch, NEW n \in Nat, NEW N \in Nat, n <= N, N <= n + 1,
           NEW p \in 1..N, N > n => p = N, \A i \in 1..N : ch[i] \in Block,
           NEW k, NEW e \in Entry, ChartOK(e), Charted(ch, e, k, n),
           NEW d, d = IF IsReading(ch[p], k) THEN ConsumeReading(e, ch[p]) ELSE e
    PROVE  Charted(ch, d, k, N)
<1>1. /\ \A i \in 1..n : i \in 1..N
      /\ \A i \in 1..N : i \notin 1..n => i = p /\ N = p /\ p = n + 1
  OBVIOUS
<1>2. /\ \A b \in Block : b.at \in Int
      /\ HistoryLimit \in Nat /\ HistoryLimit >= 1
  BY BlockFields, ActivityAssumption DEF ActivityAssumption
<1>3. ch[p] \in Block /\ p \in Nat
  OBVIOUS
<1>4. CASE IsReading(ch[p], k) /\ ~ OutOfOrder(e.latest, ch[p])
  <2>1. d = ConsumeReading(e, ch[p])
    BY <1>4
  <2>2. /\ d \in Entry /\ ChartOK(d) /\ d.latest = ch[p] /\ ch[p] \in ToSet(d.history)
        /\ \A x \in ToSet(e.history) :
              \/ x \in ToSet(d.history)
              \/ Len(d.history) = HistoryLimit /\ d.history[1].at >= x.at
        /\ Len(e.history) = HistoryLimit =>
              /\ Len(d.history) = HistoryLimit
              /\ d.history[1].at >= e.history[1].at
    BY <1>3, <1>4, <2>1, ChartGrows
  <2>3. d.latest # None
    BY <1>3, <2>2, NoneIsNothing
  <2>4. ASSUME NEW i \in 1..N, IsReading(ch[i], k), i \in 1..n
        PROVE  /\ d.latest.at >= ch[i].at
               /\ \/ ch[i] \in ToSet(d.history)
                  \/ \E j \in 1..(i - 1) : IsReading(ch[j], k) /\ ch[j].at > ch[i].at
                  \/ Len(d.history) = HistoryLimit /\ d.history[1].at >= ch[i].at
    <3>1. /\ e.latest # None /\ e.latest.at >= ch[i].at
          /\ \/ ch[i] \in ToSet(e.history)
             \/ \E j \in 1..(i - 1) : IsReading(ch[j], k) /\ ch[j].at > ch[i].at
             \/ Len(e.history) = HistoryLimit /\ e.history[1].at >= ch[i].at
      BY <2>4 DEF Charted
    <3>2. e.latest \in Block /\ ch[i] \in Block
      BY <3>1 DEF Entry
    <3>3. ~ (e.latest.at > ch[p].at)
      BY <1>4, <3>1 DEF OutOfOrder
    <3>4. d.latest.at >= ch[i].at
      BY <1>2, <1>3, <2>2, <3>1, <3>2, <3>3
    <3>5. CASE ch[i] \in ToSet(e.history)
      BY <2>2, <3>4, <3>5
    <3>6. CASE Len(e.history) = HistoryLimit /\ e.history[1].at >= ch[i].at
      <4>1. e.history[1] \in Block /\ d.history[1] \in Block
        <5>1. 1 \in 1..Len(e.history) /\ 1 \in 1..Len(d.history)
          BY <1>2, <2>2, <3>6
        <5> QED BY <2>2, <5>1, ElementOfSeq DEF Entry
      <4>2. d.history[1].at >= ch[i].at
        <5>1. /\ d.history[1].at \in Int /\ e.history[1].at \in Int /\ ch[i].at \in Int
              /\ d.history[1].at >= e.history[1].at /\ e.history[1].at >= ch[i].at
          BY <1>2, <2>2, <3>2, <3>6, <4>1
        <5> QED BY <5>1
      <4> QED BY <2>2, <3>4, <3>6, <4>2
    <3> QED BY <3>1, <3>4, <3>5, <3>6
  <2>5. ASSUME NEW i \in 1..N, i \notin 1..n
        PROVE  d.latest.at >= ch[i].at /\ ch[i] \in ToSet(d.history)
    BY <1>1, <1>2, <1>3, <2>2, <2>5
  <2> QED BY <1>4, <2>2, <2>3, <2>4, <2>5 DEF Charted
<1>5. CASE IsReading(ch[p], k) /\ OutOfOrder(e.latest, ch[p])
  <2>1. d = e
    BY <1>5 DEF ConsumeReading
  <2>2. e.latest # None /\ e.latest.at > ch[p].at
    BY <1>5 DEF OutOfOrder
  <2>3. PICK j \in 1..n : IsReading(ch[j], k) /\ e.latest = ch[j]
    BY <2>2 DEF Charted
  <2>4. ASSUME NEW i \in 1..N, i \notin 1..n
        PROVE  /\ e.latest.at >= ch[i].at
               /\ j \in 1..(i - 1) /\ ch[j].at > ch[i].at
    <3>1. i = p /\ p = n + 1
      BY <1>1, <2>4
    <3>2. ch[j] \in Block /\ ch[j].at \in Int /\ ch[p].at \in Int
      BY <1>1, <1>2, <1>3
    <3> QED BY <2>2, <2>3, <3>1, <3>2
  <2>5. j \in 1..N
    BY <1>1
  <2> QED BY <2>1, <2>3, <2>4, <2>5 DEF Charted
<1>6. CASE ~ IsReading(ch[p], k)
  <2>1. d = e
    BY <1>6
  <2> QED BY <1>1, <1>6, <2>1 DEF Charted
<1> QED BY <1>4, <1>5, <1>6

\* Likewise for a camera.
LEMMA OneEvent ==
    ASSUME NEW ch, NEW n \in Nat, NEW N \in Nat, n <= N, N <= n + 1,
           NEW p \in 1..N, N > n => p = N, \A i \in 1..N : ch[i] \in Block,
           NEW k, NEW v \in Camera \cup {None}, Announced(ch, v, k, n),
           NEW d, d = IF IsCameraEvent(ch[p], k) THEN ConsumeCameraEvent(v, ch[p]) ELSE v
    PROVE  Announced(ch, d, k, N)
<1>1. /\ \A i \in 1..n : i \in 1..N
      /\ \A i \in 1..N : i \notin 1..n => i = p /\ N = p /\ p = n + 1
  OBVIOUS
<1>2. \A b \in Block : b.at \in Int
  BY BlockFields, ActivityAssumption DEF ActivityAssumption
<1>3. ch[p] \in Block /\ p \in Nat
  OBVIOUS
<1>4. CASE IsCameraEvent(ch[p], k) /\ ~ (v # None /\ OutOfOrder(v.last, ch[p]))
  <2> DEFINE url == IF ch[p].event.url = None /\ v # None
                    THEN v.stream_url
                    ELSE ch[p].event.url
  <2>1. d = [last |-> ch[p], stream_url |-> url]
    BY <1>4 DEF ConsumeCameraEvent
  <2>2. d # None
    <3>1. v # None => v \in Camera
      OBVIOUS
    <3>2. ch[p].event.url \in Urls \cup {None}
      BY <1>3, <1>4 DEF IsCameraEvent, Block, Event
    <3>3. url \in Urls \cup {None}
      BY <3>1, <3>2 DEF Camera
    <3>4. d \in Camera
      BY <1>3, <2>1, <3>3 DEF Camera
    <3> QED BY <3>4, NoneIsNothing
  <2>3. d.last = ch[p] /\ d.stream_url = url
    BY <2>1
  <2>4. ASSUME NEW i \in 1..N, IsCameraEvent(ch[i], k), i \in 1..n
        PROVE  /\ d.last.at >= ch[i].at
               /\ \/ ch[i].event.url = None
                  \/ d.stream_url # None
                  \/ \E j \in 1..(i - 1) : IsCameraEvent(ch[j], k) /\ ch[j].at > ch[i].at
    <3>1. /\ v # None /\ v.last.at >= ch[i].at
          /\ \/ ch[i].event.url = None
             \/ v.stream_url # None
             \/ \E j \in 1..(i - 1) : IsCameraEvent(ch[j], k) /\ ch[j].at > ch[i].at
      BY <2>4 DEF Announced
    <3>2. v.last \in Block /\ ch[i] \in Block
      BY <3>1 DEF Camera
    <3>3. ~ (v.last.at > ch[p].at)
      <4>1. v.last # None
        BY <3>2, NoneIsNothing
      <4> QED BY <1>4, <3>1, <4>1 DEF OutOfOrder
    <3>4. d.last.at >= ch[i].at
      BY <1>2, <1>3, <2>3, <3>1, <3>2, <3>3
    <3>5. v.stream_url # None => d.stream_url # None
      BY <2>3, <3>1
    <3> QED BY <3>1, <3>4, <3>5
  <2>5. ASSUME NEW i \in 1..N, i \notin 1..n
        PROVE  /\ d.last.at >= ch[i].at
               /\ ch[i].event.url = None \/ d.stream_url # None
    BY <1>1, <1>2, <1>3, <2>3, <2>5
  <2> HIDE DEF url
  <2> QED BY <1>4, <2>2, <2>3, <2>4, <2>5 DEF Announced
<1>5. CASE IsCameraEvent(ch[p], k) /\ v # None /\ OutOfOrder(v.last, ch[p])
  <2>1. d = v
    BY <1>5 DEF ConsumeCameraEvent
  <2>2. v # None /\ v.last.at > ch[p].at
    BY <1>5 DEF OutOfOrder
  <2>3. PICK j \in 1..n : IsCameraEvent(ch[j], k) /\ v.last = ch[j]
    BY <2>2 DEF Announced
  <2>4. ASSUME NEW i \in 1..N, i \notin 1..n
        PROVE  /\ v.last.at >= ch[i].at
               /\ j \in 1..(i - 1) /\ ch[j].at > ch[i].at
    <3>1. i = p /\ p = n + 1
      BY <1>1, <2>4
    <3>2. ch[j] \in Block /\ ch[j].at \in Int /\ ch[p].at \in Int
      BY <1>1, <1>2, <1>3
    <3> QED BY <2>2, <2>3, <3>1, <3>2
  <2>5. j \in 1..N
    BY <1>1
  <2> QED BY <2>1, <2>2, <2>3, <2>4, <2>5 DEF Announced
<1>6. CASE ~ IsCameraEvent(ch[p], k)
  <2>1. d = v
    BY <1>6
  <2> QED BY <1>1, <1>6, <2>1 DEF Announced
<1> QED BY <1>4, <1>5, <1>6

LEMMA BlockRead ==
    ASSUME NEW c, CacheOK(c), NEW b \in Block
    PROVE  CacheOK(ConsumeBlock(c, b))
<1> DEFINE d == ConsumeBlock(c, b)
<1>1. /\ d.readings = [k \in Keys |-> IF IsReading(b, k)
                                      THEN ConsumeReading(c.readings[k], b)
                                      ELSE c.readings[k]]
      /\ d.camera = [k \in Keys |-> IF IsCameraEvent(b, k)
                                    THEN ConsumeCameraEvent(c.camera[k], b)
                                    ELSE c.camera[k]]
  BY DEF ConsumeBlock
<1> HIDE DEF d
<1>2. ASSUME NEW k \in Keys
      PROVE  d.readings[k] \in Entry /\ ChartOK(d.readings[k])
  <2>1. c.readings[k] \in Entry /\ ChartOK(c.readings[k])
    BY DEF CacheOK
  <2>2. CASE IsReading(b, k) /\ ~ OutOfOrder(c.readings[k].latest, b)
    <3>1. PICK e : e = ConsumeReading(c.readings[k], b)
      OBVIOUS
    <3>2. e \in Entry /\ ChartOK(e)
      BY <2>1, <2>2, <3>1, ChartGrows
    <3> QED BY <1>1, <2>2, <3>1, <3>2
  <2>3. CASE ~ (IsReading(b, k) /\ ~ OutOfOrder(c.readings[k].latest, b))
    <3>1. d.readings[k] = c.readings[k]
      BY <1>1, <2>3 DEF ConsumeReading
    <3> QED BY <2>1, <3>1
  <2> QED BY <2>2, <2>3
<1>3. ASSUME NEW k \in Keys
      PROVE  d.camera[k] \in Camera \cup {None}
  <2>1. c.camera[k] \in Camera \cup {None}
    BY DEF CacheOK
  <2>2. CASE IsCameraEvent(b, k)
    <3>1. b.event.url \in Urls \cup {None}
      BY <2>2 DEF IsCameraEvent, Block, Event
    <3>2. ConsumeCameraEvent(c.camera[k], b) \in Camera \cup {None}
      BY <2>1, <3>1 DEF ConsumeCameraEvent, Camera
    <3> QED BY <1>1, <2>2, <3>2
  <2>3. CASE ~ IsCameraEvent(b, k)
    BY <1>1, <2>1, <2>3
  <2> QED BY <2>2, <2>3
<1>4. d.readings \in [Keys -> Entry]
  BY <1>1, <1>2
<1>5. d.camera \in [Keys -> Camera \cup {None}]
  BY <1>1, <1>3
<1> QED BY <1>2, <1>4, <1>5 DEF CacheOK, d

LEMMA NextBlockRead ==
    ASSUME NEW ch, NEW n \in Nat, NEW N \in Nat, n <= N, N <= n + 1,
           NEW p \in 1..N, N > n => p = N, \A i \in 1..N : ch[i] \in Block,
           NEW c, CacheOK(c), ReadUpTo(ch, c, n)
    PROVE  ReadUpTo(ch, ConsumeBlock(c, ch[p]), N)
<1> SUFFICES ASSUME NEW k \in Keys
             PROVE  /\ Charted(ch, ConsumeBlock(c, ch[p]).readings[k], k, N)
                    /\ Announced(ch, ConsumeBlock(c, ch[p]).camera[k], k, N)
  BY DEF ReadUpTo
<1>1. PICK e : e = IF IsReading(ch[p], k) THEN ConsumeReading(c.readings[k], ch[p])
                                          ELSE c.readings[k]
  OBVIOUS
<1>2. PICK v : v = IF IsCameraEvent(ch[p], k) THEN ConsumeCameraEvent(c.camera[k], ch[p])
                                              ELSE c.camera[k]
  OBVIOUS
<1>3. ConsumeBlock(c, ch[p]).readings[k] = e /\ ConsumeBlock(c, ch[p]).camera[k] = v
  BY <1>1, <1>2 DEF ConsumeBlock
<1>4. /\ c.readings[k] \in Entry /\ ChartOK(c.readings[k])
      /\ c.camera[k] \in Camera \cup {None}
      /\ Charted(ch, c.readings[k], k, n) /\ Announced(ch, c.camera[k], k, n)
  BY DEF CacheOK, ReadUpTo
<1>5. Charted(ch, e, k, N)
  BY <1>1, <1>4, OneReading
<1>6. Announced(ch, v, k, N)
  BY <1>2, <1>4, OneEvent
<1> QED BY <1>3, <1>5, <1>6

-----------------------------------------------------------------------------
(* The loop over the blocks *)

\* A set of positions that holds 0, and with each but the last the next, holds the last.
LEMMA UpToTheLast ==
    ASSUME NEW L \in Nat, NEW S, S \subseteq 0..L, 0 \in S,
           \A n \in S : n + 1 <= L => n + 1 \in S
    PROVE  L \in S
<1>1. S \in SUBSET Nat /\ IsFiniteSet(S) /\ S # {}
  <2>1. IsFiniteSet(0..L) /\ 0..L \subseteq Nat
    BY FS_Interval
  <2> QED BY <2>1, FS_Subset
<1>2. PICK n \in S : \A m \in S : n >= m
  BY <1>1, GreatestExists
<1>3. n \in 0..L /\ ~ (n >= n + 1)
  OBVIOUS
<1>4. ~ (n + 1 <= L)
  BY <1>2, <1>3
<1> QED BY <1>3, <1>4

\* The loop goes through a cache for each block.
LEMMA LoopExists ==
    ASSUME NEW blocks \in Seq(Block)
    PROVE  \E after :
              /\ after[0] = Cache
              /\ \A n \in 1..Len(blocks) : after[n] = ConsumeBlock(after[n - 1], blocks[n])
              /\ Entries(blocks) = after[Len(blocks)]
<1> DEFINE L == Len(blocks)
           Loop(g, n) == [i \in 0..n |-> IF i = 0 THEN Cache
                                         ELSE ConsumeBlock(g[i - 1], blocks[i])]
           S == {n \in 0..L : \E g : g = Loop(g, n)}
           G == CHOOSE g : g = Loop(g, L)
<1>1. L \in Nat
  BY LenProperties
<1>2. Entries(blocks) = G[L]
  BY DEF Entries, Cache
<1>3. 0 \in S
  <2>1. PICK g : g = [i \in 0..0 |-> Cache]
    OBVIOUS
  <2>2. g = Loop(g, 0)
    BY <2>1
  <2> QED BY <1>1, <2>2
<1>4. ASSUME NEW n \in S, n + 1 <= L
      PROVE  n + 1 \in S
  <2>1. PICK g : g = Loop(g, n)
    OBVIOUS
  <2>2. PICK h : h = [i \in 0..(n + 1) |-> IF i = n + 1
                                           THEN ConsumeBlock(g[n], blocks[n + 1])
                                           ELSE g[i]]
    OBVIOUS
  <2>3. n \in Nat /\ n + 1 \in 0..L
    BY <1>1, <1>4
  <2>4. h[0] = Cache
    BY <2>1, <2>2, <2>3
  <2>5. ASSUME NEW i \in 1..(n + 1)
        PROVE  h[i] = ConsumeBlock(h[i - 1], blocks[i])
    <3>1. i - 1 \in 0..n /\ h[i - 1] = g[i - 1]
      BY <2>2, <2>3
    <3>2. CASE i = n + 1
      BY <2>2, <2>3, <3>1, <3>2
    <3>3. CASE i # n + 1
      <4>1. i \in 0..n /\ i # 0 /\ h[i] = g[i]
        BY <2>2, <2>3, <3>3
      <4> QED BY <2>1, <3>1, <4>1
    <3> QED BY <3>2, <3>3
  <2>6. h = Loop(h, n + 1)
    <3>1. \A i \in 0..(n + 1) : Loop(h, n + 1)[i] = h[i]
      BY <2>3, <2>4, <2>5
    <3> QED BY <2>2, <3>1
  <2> QED BY <2>3, <2>6
<1>5. L \in S
  <2>1. S \subseteq 0..L
    OBVIOUS
  <2> HIDE DEF S
  <2> QED BY <1>1, <1>3, <1>4, <2>1, UpToTheLast
<1>6. G = Loop(G, L)
  BY <1>5
<1>7. /\ G[0] = Cache
      /\ \A m \in 1..L : G[m] = ConsumeBlock(G[m - 1], blocks[m])
  <2>1. ASSUME NEW g, g = Loop(G, L), NEW i \in 0..L
        PROVE  g[i] = IF i = 0 THEN Cache ELSE ConsumeBlock(G[i - 1], blocks[i])
    <3> HIDE DEF G
    <3> QED BY <2>1
  <2>2. PICK g : g = G
    OBVIOUS
  <2> HIDE DEF G
  <2>3. \A i \in 0..L : g[i] = IF i = 0 THEN Cache ELSE ConsumeBlock(G[i - 1], blocks[i])
    BY <1>6, <2>1, <2>2
  <2> HIDE DEF Loop, L
  <2>4. 0 \in 0..L /\ \A m \in 1..L : m \in 0..L /\ m # 0
    BY <1>1
  <2> QED BY <2>2, <2>3, <2>4
<1> HIDE DEF G
<1> QED BY <1>2, <1>7

\* Whatever blocks are read, the cache stays one.
LEMMA EntriesOK ==
    ASSUME CacheOK(Cache), NEW blocks \in Seq(Block)
    PROVE  CacheOK(Entries(blocks))
<1>1. PICK after :
          /\ after[0] = Cache
          /\ \A n \in 1..Len(blocks) : after[n] = ConsumeBlock(after[n - 1], blocks[n])
          /\ Entries(blocks) = after[Len(blocks)]
  BY LoopExists
<1> DEFINE L == Len(blocks)
           S == {n \in 0..L : CacheOK(after[n])}
<1>2. L \in Nat /\ \A n \in 1..L : blocks[n] \in Block
  BY LenProperties, ElementOfSeq
<1>3. 0 \in S
  BY <1>1, <1>2
<1>4. ASSUME NEW n \in S, n + 1 <= L
      PROVE  n + 1 \in S
  <2>1. n + 1 \in 1..L /\ (n + 1) - 1 = n
    BY <1>2, <1>4
  <2>2. after[n + 1] = ConsumeBlock(after[n], blocks[n + 1])
    BY <1>1, <2>1
  <2>3. CacheOK(after[n]) /\ blocks[n + 1] \in Block
    BY <1>2, <2>1
  <2> QED BY <2>1, <2>2, <2>3, BlockRead
<1>5. L \in S
  <2>1. S \subseteq 0..L
    OBVIOUS
  <2> HIDE DEF S
  <2> QED BY <1>2, <1>3, <1>4, <2>1, UpToTheLast
<1> QED BY <1>1, <1>5

\* Reading a piece of ch that begins no later than where the cache is up to leaves it up
\* to there or to the end of the piece.
LEMMA PieceRead ==
    ASSUME CacheOK(Cache), NEW blocks \in Seq(Block), NEW ch \in Seq(Block),
           NEW n \in 0..Len(ch), ReadUpTo(ch, Cache, n),
           NEW m \in Nat, m <= n, m + Len(blocks) <= Len(ch),
           \A j \in 1..Len(blocks) : blocks[j] = ch[m + j]
    PROVE  \E N \in n..Len(ch) : m + Len(blocks) <= N /\ ReadUpTo(ch, Entries(blocks), N)
<1>1. PICK after :
          /\ after[0] = Cache
          /\ \A l \in 1..Len(blocks) : after[l] = ConsumeBlock(after[l - 1], blocks[l])
          /\ Entries(blocks) = after[Len(blocks)]
  BY LoopExists
<1> DEFINE L == Len(blocks)
           Fits(l) == /\ CacheOK(after[l])
                      /\ \E N \in n..Len(ch) : m + l <= N /\ ReadUpTo(ch, after[l], N)
           S == {l \in 0..L : Fits(l)}
<1>2. L \in Nat /\ Len(ch) \in Nat /\ \A i \in 1..Len(ch) : ch[i] \in Block
  BY LenProperties, ElementOfSeq
<1>3. 0 \in S
  <2>1. n \in n..Len(ch) /\ m + 0 <= n
    BY <1>2
  <2> QED BY <1>1, <1>2, <2>1
<1>4. ASSUME NEW l \in S, l + 1 <= L
      PROVE  l + 1 \in S
  <2>1. l \in Nat /\ l + 1 \in 1..L /\ (l + 1) - 1 = l
    BY <1>2, <1>4
  <2>2. PICK N \in n..Len(ch) : m + l <= N /\ ReadUpTo(ch, after[l], N)
    OBVIOUS
  <2>3. CacheOK(after[l])
    OBVIOUS
  <2>4. PICK p : p = m + (l + 1)
    OBVIOUS
  <2>5. PICK N1 : N1 = IF p <= N THEN N ELSE N + 1
    OBVIOUS
  <2>6. /\ N \in Nat /\ N1 \in n..Len(ch) /\ N1 \in Nat /\ N <= N1 /\ N1 <= N + 1
        /\ p \in 1..N1 /\ (N1 > N => p = N1)
    BY <1>2, <2>1, <2>2, <2>4, <2>5
  <2>7. \A i \in 1..N1 : ch[i] \in Block
    BY <1>2, <2>6
  <2>8. ReadUpTo(ch, ConsumeBlock(after[l], ch[p]), N1)
    <3> HIDE DEF S
    <3> QED BY <2>2, <2>3, <2>6, <2>7, NextBlockRead
  <2>9. after[l + 1] = ConsumeBlock(after[l], ch[p])
    BY <1>1, <2>1, <2>4
  <2>10. CacheOK(after[l + 1])
    BY <2>3, <2>6, <2>7, <2>9, BlockRead
  <2>11. Fits(l + 1)
    BY <2>4, <2>6, <2>8, <2>9, <2>10
  <2> QED BY <2>1, <2>11
<1>5. L \in S
  <2>1. S \subseteq 0..L
    OBVIOUS
  <2> HIDE DEF S
  <2> QED BY <1>2, <1>3, <1>4, <2>1, UpToTheLast
<1> QED BY <1>1, <1>5

-----------------------------------------------------------------------------
(* The steps, as far as the cache is concerned *)

\* What has been read depends on no later block.
LEMMA SameStart ==
    ASSUME NEW ch, NEW ch2, NEW c, NEW n \in Nat, \A i \in 1..n : ch2[i] = ch[i],
           ReadUpTo(ch, c, n)
    PROVE  ReadUpTo(ch2, c, n)
<1> SUFFICES ASSUME NEW k \in Keys
             PROVE  Charted(ch2, c.readings[k], k, n) /\ Announced(ch2, c.camera[k], k, n)
  BY DEF ReadUpTo
<1>1. \A i \in 1..n : \A j \in 1..(i - 1) : j \in 1..n
  OBVIOUS
<1>2. Charted(ch, c.readings[k], k, n) /\ Announced(ch, c.camera[k], k, n)
  BY DEF ReadUpTo
<1>3. Charted(ch2, c.readings[k], k, n)
  BY <1>1, <1>2 DEF Charted
<1>4. Announced(ch2, c.camera[k], k, n)
  BY <1>1, <1>2 DEF Announced
<1> QED BY <1>3, <1>4

LEMMA ContinuesLater ==
    ASSUME NEW q \in Request, NEW n \in Nat, NEW N \in Nat, n <= N, Continues(q, n)
    PROVE  Continues(q, N)
<1>1. q.stage = "asked" => q.from <= N
  BY RequestFields DEF Continues
<1>2. ASSUME q.stage = "answered"
      PROVE  q.chain_length - Len(q.blocks) <= N
  <2>1. q.chain_length \in Nat /\ Len(q.blocks) \in Nat
    BY <1>2, RequestFields, LenProperties
  <2> QED BY <1>2, <2>1 DEF Continues
<1> QED BY <1>1, <1>2 DEF Continues

LEMMA CacheInit == Init => CacheInv /\ EntriesInv
<1> SUFFICES ASSUME Init
             PROVE  CacheInv /\ EntriesInv
  OBVIOUS
<1>0. /\ next_index = 0 /\ Len(chain) \in Nat /\ MaxBlocks \in Nat
      /\ \A r \in Requests : request[r].stage = "idle"
  BY TypeInit, LenProperties, ActivityAssumption, BlockRangeAssumption
     DEF Init, Idle, TypeInv, ActivityAssumption, BlockRangeAssumption
<1>1. /\ Cache.readings = [k \in Keys |-> [latest |-> None, history |-> <<>>]]
      /\ Cache.camera = [k \in Keys |-> None]
  BY DEF Init, Cache
<1>2. [latest |-> None, history |-> <<>>] \in Entry
  BY DEF Entry
<1>3. ChartOK([latest |-> None, history |-> <<>>])
  BY ActivityAssumption DEF ChartOK, ActivityAssumption
<1>4. CacheOK(Cache)
  BY <1>1, <1>2, <1>3 DEF CacheOK
<1>5. CacheInv
  BY <1>0, <1>4 DEF CacheInv
<1>6. ReadUpTo(chain, Cache, 0)
  BY <1>1 DEF ReadUpTo, Charted, Announced
<1>7. \A r \in Requests : Continues(request[r], 0)
  BY <1>0 DEF Continues
<1> QED BY <1>0, <1>5, <1>6, <1>7 DEF EntriesInv

LEMMA CacheStep ==
    ASSUME TypeInv, CacheInv, [Next]_vars
    PROVE  CacheInv'
<1>0. /\ CacheOK(Cache) /\ next_index <= MaxBlocks
      /\ \A r \in Requests :
            request[r].stage = "answered" => request[r].chain_length <= MaxBlocks
      /\ request \in [Requests -> Request]
      /\ MaxBlocks \in Nat /\ Len(chain) \in 1..(MaxIndex + 1) /\ Len(chain) <= MaxBlocks
  BY ActivityAssumption, BlockRangeAssumption
     DEF TypeInv, CacheInv, ActivityAssumption, BlockRangeAssumption
<1>1. ASSUME readings' = readings, camera' = camera
      PROVE  CacheOK(Cache)'
  BY <1>0, <1>1 DEF CacheOK, Cache
<1>2. CASE AppendBlock \/ Reset \/ UNCHANGED vars
  <2>1. readings' = readings /\ camera' = camera /\ next_index' = next_index /\ request' = request
    BY <1>2 DEF AppendBlock, Reset, vars, cache
  <2> QED BY <1>0, <1>1, <2>1 DEF CacheInv
<1>3. ASSUME NEW r \in Requests, Ask(r) \/ GiveUp(r) \/ Rewind(r)
      PROVE  CacheInv'
  <2>1. /\ readings' = readings /\ camera' = camera
        /\ next_index' = next_index \/ next_index' = 0
        /\ request'[r].stage # "answered"
        /\ \A q \in Requests \ {r} : request'[q] = request[q]
    BY <1>0, <1>3 DEF Ask, GiveUp, Rewind, Idle, cache
  <2> QED BY <1>0, <1>1, <2>1 DEF CacheInv
<1>4. ASSUME NEW r \in Requests, Serve(r)
      PROVE  CacheInv'
  <2>1. /\ readings' = readings /\ camera' = camera /\ next_index' = next_index
        /\ request[r].stage = "asked" /\ request'[r] = Answer(request[r].from)
        /\ \A q \in Requests \ {r} : request'[q] = request[q]
    BY <1>0, <1>4 DEF Serve, cache
  <2>2. request[r].from \in Nat
    BY <1>0, <2>1, RequestFields
  <2>3. request'[r].stage = "answered" => request'[r].chain_length <= MaxBlocks
    BY <1>0, <2>1, <2>2, AnswerIs
  <2> QED BY <1>0, <1>1, <2>1, <2>3 DEF CacheInv
<1>5. ASSUME NEW r \in Requests, Succeed(r)
      PROVE  CacheInv'
  <2>1. /\ request[r].stage = "answered" /\ next_index' = request[r].chain_length
        /\ readings' = Entries(request[r].blocks).readings
        /\ camera' = Entries(request[r].blocks).camera
        /\ request'[r] = Idle
        /\ \A q \in Requests \ {r} : request'[q] = request[q]
    BY <1>0, <1>5 DEF Succeed, Consume
  <2>2. CacheOK(Entries(request[r].blocks))
    BY <1>0, <2>1, RequestFields, EntriesOK
  <2>3. CacheOK(Cache)'
    BY <2>1, <2>2 DEF CacheOK, Cache
  <2>4. request'[r].stage # "answered"
    BY <2>1 DEF Idle
  <2> QED BY <1>0, <2>1, <2>3, <2>4 DEF CacheInv
<1> QED BY <1>2, <1>3, <1>4, <1>5 DEF Next, Resume

LEMMA EntriesStep ==
    ASSUME IInv, TypeInv', CacheInv, EntriesInv, [Next]_vars
    PROVE  EntriesInv'
<1> SUFFICES ASSUME resets' = 0
             PROVE  (\E n \in 0..Len(chain) :
                        /\ next_index <= n
                        /\ \A r \in Requests : Continues(request[r], n)
                        /\ ReadUpTo(chain, Cache, n))'
  BY DEF EntriesInv
<1>0. /\ TypeInv /\ next_index \in Nat /\ request \in [Requests -> Request]
      /\ chain \in Seq(Block) /\ Len(chain) \in Nat /\ Len(chain) \in 1..(MaxIndex + 1)
  BY LenProperties, ActivityAssumption, BlockRangeAssumption
     DEF IInv, TypeInv, ActivityAssumption, BlockRangeAssumption
<1>1. CASE Reset
  BY <1>0, <1>1 DEF Reset, TypeInv
<1>2. ASSUME ~ Reset
      PROVE  resets = 0
  BY <1>2 DEF Next, Resume, AppendBlock, Ask, Serve, GiveUp, Succeed, Rewind, vars
<1> SUFFICES ASSUME resets = 0, ~ Reset
             PROVE  (\E n \in 0..Len(chain) :
                        /\ next_index <= n
                        /\ \A r \in Requests : Continues(request[r], n)
                        /\ ReadUpTo(chain, Cache, n))'
  BY <1>1, <1>2
<1>3. PICK n \in 0..Len(chain) :
          /\ next_index <= n
          /\ \A r \in Requests : Continues(request[r], n)
          /\ ReadUpTo(chain, Cache, n)
  BY DEF EntriesInv
<1>4. ASSUME readings' = readings, camera' = camera, chain' = chain
      PROVE  ReadUpTo(chain, Cache, n)'
  BY <1>3, <1>4 DEF ReadUpTo, Cache
<1>5. CASE AppendBlock
  <2>1. /\ readings' = readings /\ camera' = camera /\ next_index' = next_index
        /\ request' = request
        /\ \E b : chain' = Append(chain, b)
    BY <1>5 DEF AppendBlock, cache
  <2>2. Len(chain') = Len(chain) + 1 /\ \A i \in 1..Len(chain) : chain'[i] = chain[i]
    BY <1>0, <2>1
  <2>3. n \in 0..Len(chain') /\ \A i \in 1..n : chain'[i] = chain[i]
    BY <1>0, <2>2
  <2>4. ReadUpTo(chain', Cache, n)
    BY <1>3, <2>3, SameStart
  <2>5. ReadUpTo(chain, Cache, n)'
    BY <2>1, <2>4 DEF ReadUpTo, Cache
  <2> QED BY <1>3, <2>1, <2>3, <2>5
<1>6. CASE UNCHANGED vars
  <2>1. /\ readings' = readings /\ camera' = camera /\ next_index' = next_index
        /\ request' = request /\ chain' = chain
    BY <1>6 DEF vars, cache
  <2> QED BY <1>3, <1>4, <2>1
<1>7. ASSUME NEW r \in Requests, Ask(r) \/ Serve(r) \/ GiveUp(r)
      PROVE  (\E m \in 0..Len(chain) :
                 /\ next_index <= m
                 /\ \A q \in Requests : Continues(request[q], m)
                 /\ ReadUpTo(chain, Cache, m))'
  <2>1. /\ readings' = readings /\ camera' = camera /\ next_index' = next_index
        /\ chain' = chain
        /\ \A q \in Requests \ {r} : request'[q] = request[q]
    BY <1>0, <1>7 DEF Ask, Serve, GiveUp, cache
  <2>2. CASE Ask(r)
    <3>1. request'[r] = [stage |-> "asked", from |-> From]
      BY <1>0, <2>2 DEF Ask
    <3>2. From <= n
      BY <1>0, <1>3 DEF From
    <3>3. Continues(request'[r], n)
      BY <3>1, <3>2 DEF Continues
    <3> QED BY <1>3, <1>4, <2>1, <3>3
  <2>3. CASE GiveUp(r)
    <3>1. request'[r] = Idle
      BY <1>0, <2>3 DEF GiveUp
    <3>2. Continues(request'[r], n)
      BY <3>1 DEF Continues, Idle
    <3> QED BY <1>3, <1>4, <2>1, <3>2
  <2>4. CASE Serve(r)
    <3>1. request[r].stage = "asked" /\ request'[r] = Answer(request[r].from)
      BY <1>0, <2>4 DEF Serve
    <3>2. request[r].from \in Nat /\ request[r].from <= n
      BY <1>0, <1>3, <3>1, RequestFields DEF Continues
    <3>3. PICK f \in Nat : f = request[r].from
      BY <3>2
    <3>4. f < Len(chain)
      BY <3>1, <3>3 DEF IInv, CursorInv, RequestFits
    <3>5. PICK a : a = Answer(f)
      OBVIOUS
    <3>6. a.stage = "answered" /\ a.chain_length = Len(chain) /\ Len(a.blocks) = Len(chain) - f
      BY <1>0, <3>4, <3>5, AnswerType
    <3>7. Continues(a, n)
      BY <1>0, <3>2, <3>3, <3>6 DEF Continues
    <3>8. Continues(request'[r], n)
      BY <3>1, <3>3, <3>5, <3>7
    <3> QED BY <1>3, <1>4, <2>1, <3>8
  <2> QED BY <1>7, <2>2, <2>3, <2>4
<1>8. ASSUME NEW r \in Requests, Succeed(r)
      PROVE  (\E m \in 0..Len(chain) :
                 /\ next_index <= m
                 /\ \A q \in Requests : Continues(request[q], m)
                 /\ ReadUpTo(chain, Cache, m))'
  <2>1. /\ request[r].stage = "answered" /\ next_index' = request[r].chain_length
        /\ readings' = Entries(request[r].blocks).readings
        /\ camera' = Entries(request[r].blocks).camera
        /\ request'[r] = Idle /\ chain' = chain
        /\ \A q \in Requests \ {r} : request'[q] = request[q]
    BY <1>0, <1>8 DEF Succeed, Consume
  <2>2. PICK blocks \in Seq(Block), total \in Nat :
            blocks = request[r].blocks /\ total = request[r].chain_length
    BY <1>0, <2>1, RequestFields
  <2>3. AnswerFits(request[r])
    BY <2>1 DEF IInv, CursorInv, RequestFits
  <2>4. PICK m : m = total - Len(blocks)
    OBVIOUS
  <2>5. Len(blocks) \in Nat
    BY LenProperties
  <2>6. /\ m \in Nat /\ m + Len(blocks) = total /\ total <= Len(chain)
        /\ \A j \in 1..Len(blocks) : blocks[j] = chain[m + j]
    BY <1>0, <2>2, <2>3, <2>4, <2>5 DEF AnswerFits
  <2>7. m <= n
    BY <1>3, <2>1, <2>2, <2>4 DEF Continues
  <2>8. PICK N \in n..Len(chain) :
            m + Len(blocks) <= N /\ ReadUpTo(chain, Entries(blocks), N)
    BY <1>0, <1>3, <2>6, <2>7, PieceRead DEF CacheInv
  <2>9. ReadUpTo(chain, Cache, N)'
    BY <2>1, <2>2, <2>8 DEF ReadUpTo, Cache
  <2>10. N \in Nat /\ N \in 0..Len(chain) /\ n <= N
    BY <1>0, <2>8
  <2>11. ASSUME NEW q \in Requests
         PROVE  Continues(request'[q], N)
    <3>1. CASE q = r
      BY <2>1, <3>1 DEF Continues, Idle
    <3>2. CASE q # r
      BY <1>0, <1>3, <2>1, <2>10, <3>2, ContinuesLater
    <3> QED BY <3>1, <3>2
  <2>12. next_index' <= N
    BY <2>1, <2>2, <2>6, <2>8
  <2> QED BY <2>1, <2>9, <2>10, <2>11, <2>12
<1>9. ASSUME NEW r \in Requests, Rewind(r)
      PROVE  FALSE
  BY <1>9 DEF Rewind, IInv, CursorInv, RequestFits
<1> QED BY <1>5, <1>6, <1>7, <1>8, <1>9 DEF Next, Resume

LEMMA CacheInvariance == SafeSpec => [](IInv /\ CacheInv /\ EntriesInv)
<1>1. Init => CacheInv /\ EntriesInv
  BY CacheInit
<1>2. IInv /\ IInv' /\ CacheInv /\ EntriesInv /\ [Next]_vars => CacheInv' /\ EntriesInv'
  BY CacheStep, EntriesStep DEF IInv
<1> QED BY <1>1, <1>2, Invariance, PTL DEF SafeSpec

-----------------------------------------------------------------------------
(* The theorems *)

\* However many requests refresh at the same time, and in whatever order they are
\* answered, none is refused as long as the ledger only grows.
THEOREM CursorStaysInside == SafeSpec => []NeverPastTheEnd
<1>1. IInv => NeverPastTheEnd
  BY DEF IInv, CursorInv, RequestFits, NeverPastTheEnd
<1> QED BY <1>1, Invariance, PTL

\* No actor's last_seen ever moves back, whatever is read, again or out of order, from
\* this ledger or another.
THEOREM SeenNeverMovesBack ==
    SafeSpec => [][\A a \in Actors : last_seen'[a] >= last_seen[a]]_vars
<1>1. ASSUME IInv, [Next]_vars
      PROVE  [\A a \in Actors : last_seen'[a] >= last_seen[a]]_vars
  <2>1. TypeInv
    BY <1>1 DEF IInv
  <2>2. \A a \in Actors : last_seen[a] \in Int
    BY <2>1, ActivityAssumption DEF TypeInv, ActivityAssumption
  <2>3. CASE last_seen' = last_seen
    BY <2>2, <2>3
  <2>4. ASSUME NEW r \in Requests, Succeed(r)
        PROVE  \A a \in Actors : last_seen'[a] >= last_seen[a]
    <3>1. request[r].blocks \in Seq(Block)
      BY <2>1, <2>4, RequestFields DEF Succeed, TypeInv
    <3>2. \A a \in Actors : LastSeen(request[r].blocks, a) >= last_seen[a]
      BY <2>1, <3>1, SeenGrows
    <3> QED BY <2>4, <3>2 DEF Succeed, Consume
  <2>5. last_seen' = last_seen \/ (\E r \in Requests : Succeed(r))
    BY <1>1 DEF Next, Resume, AppendBlock, Reset, Ask, Serve, Rewind, GiveUp, vars, cache
  <2> QED BY <2>3, <2>4, <2>5
<1> QED BY <1>1, Invariance, PTL DEF SafeSpec

\* The state is what it is meant to be: a history is never longer than it may be, and the
\* cursor no further than a ledger can be long, whatever is consumed in whatever order and
\* of however many ledgers.
THEOREM TypeCorrect == SafeSpec => []TypeOK
<1>1. TypeInv /\ CacheInv => TypeOK
  <2> SUFFICES ASSUME TypeInv, CacheInv
               PROVE  TypeOK
    OBVIOUS
  <2>1. 0..MaxTime = Times \cup {NoTime}
    BY ActivityAssumption DEF Times, NoTime, ActivityAssumption
  <2>2. last_seen \in [Actors -> Times \cup {NoTime}]
    BY <2>1 DEF TypeInv
  <2>3. /\ readings \in [Keys -> [latest : Block \cup {None}, history : Seq(Block)]]
        /\ \A k \in Keys : Len(readings[k].history) <= HistoryLimit
        /\ camera \in [Keys -> Camera \cup {None}]
    BY DEF CacheInv, CacheOK, Cache, Entry, ChartOK
  <2>4. next_index \in 0..MaxBlocks
    BY ActivityAssumption, BlockRangeAssumption
       DEF TypeInv, CacheInv, ActivityAssumption, BlockRangeAssumption
  <2> QED BY <2>2, <2>3, <2>4 DEF TypeOK, TypeInv
<1> QED BY <1>1, CacheInvariance, PTL DEF IInv

\* However the answers of overlapping refreshes overtake each other, every block before
\* the cursor has been accounted for, in last_seen and in its sensor's latest reading or
\* its camera's latest event and address.
THEOREM NothingIsSkipped == SafeSpec => []NothingSkipped
<1>1. IInv /\ EntriesInv => NothingSkipped
  <2> SUFFICES ASSUME IInv, EntriesInv, resets = 0
               PROVE  NothingSkipped
    BY DEF NothingSkipped
  <2>1. PICK n \in 0..Len(chain) : next_index <= n /\ ReadUpTo(chain, Cache, n)
    BY DEF EntriesInv
  <2>2. \A i \in 1..next_index : i \in 1..n
    BY <2>1, LenProperties DEF IInv, TypeInv
  <2>3. Covered(next_index)
    BY DEF IInv, CursorInv
  <2>4. \A k \in Keys : Charted(chain, readings[k], k, n) /\ Announced(chain, camera[k], k, n)
    BY <2>1 DEF ReadUpTo, Cache
  <2>5. \A i \in 1..next_index, k \in Keys : IsReading(chain[i], k) =>
           readings[k].latest # None /\ readings[k].latest.at >= chain[i].at
    BY <2>2, <2>4 DEF Charted
  <2>6. \A i \in 1..next_index, k \in Keys : IsCameraEvent(chain[i], k) =>
           /\ camera[k] # None /\ camera[k].last.at >= chain[i].at
           /\ \/ chain[i].event.url = None
              \/ camera[k].stream_url # None
              \/ \E j \in 1..(i - 1) :
                    IsCameraEvent(chain[j], k) /\ chain[j].at > chain[i].at
    BY <2>2, <2>4 DEF Announced
  <2> QED BY <2>3, <2>5, <2>6 DEF NothingSkipped
<1> QED BY <1>1, CacheInvariance, PTL

\* A chart's series has no hole that its limit or an out-of-order timestamp does not
\* explain, and it runs forward and ends with the latest reading, also after the ledger
\* has been replaced.
THEOREM HistoryRight == SafeSpec => []HistoryIsRight
<1>1. IInv /\ CacheInv /\ EntriesInv => HistoryIsRight
  <2> SUFFICES ASSUME IInv, CacheInv, EntriesInv
               PROVE  HistoryIsRight
    OBVIOUS
  <2>1. ASSUME resets = 0
        PROVE  \A i \in 1..next_index, k \in Keys : IsReading(chain[i], k) =>
                  \/ chain[i] \in ToSet(readings[k].history)
                  \/ \E j \in 1..(i - 1) : IsReading(chain[j], k) /\ chain[j].at > chain[i].at
                  \/ /\ Len(readings[k].history) = HistoryLimit
                     /\ readings[k].history[1].at >= chain[i].at
    <3>1. PICK n \in 0..Len(chain) : next_index <= n /\ ReadUpTo(chain, Cache, n)
      BY <2>1 DEF EntriesInv
    <3>2. \A i \in 1..next_index : i \in 1..n
      BY <3>1, LenProperties DEF IInv, TypeInv
    <3>3. \A k \in Keys : Charted(chain, readings[k], k, n)
      BY <3>1 DEF ReadUpTo, Cache
    <3> QED BY <3>2, <3>3 DEF Charted
  <2>2. \A k \in Keys : ChartOK(readings[k])
    BY DEF CacheInv, CacheOK, Cache
  <2> QED BY <2>1, <2>2 DEF HistoryIsRight, ChartOK
<1> QED BY <1>1, CacheInvariance, PTL

-----------------------------------------------------------------------------
(* GET /blocks, which the cache lives on: for every chain and all parameters. *)

\* For every chain whose blocks are numbered by position (the program's chains are,
\* until an allocation fails: SoundUntilStarved) and every pair of parameters, GET
\* /blocks answers 200 exactly if both can be read and the chain has a block between
\* them, and then with each such block and no other, in the order of the chain.
THEOREM SliceIsRange ==
    ASSUME NEW S, NEW blocks \in Seq(S), Len(blocks) \in 1..(MaxIndex + 1),
           \A i \in DOMAIN blocks : blocks[i].index = i - 1,
           NEW from \in Parameter, NEW to \in Parameter
    PROVE  LET first  == parse_index(from, 0)
               end    == parse_index(to, MaxIndex)
               reply  == GetBlocks(blocks, from, to)
               wanted == {i \in DOMAIN blocks : first <= blocks[i].index /\ blocks[i].index <= end}
           IN  /\ reply.status = 200 <=> Parses(from) /\ Parses(to) /\ wanted # {}
               /\ reply.status = 200 =>
                     /\ reply.chain_length = Len(blocks)
                     /\ \A j \in 1..Len(reply.blocks) :
                           /\ reply.blocks[j].index = first + j - 1
                           /\ \E i \in wanted : reply.blocks[j] = blocks[i]
                     /\ \A i \in wanted :
                           \E j \in 1..Len(reply.blocks) : reply.blocks[j] = blocks[i]
<1> DEFINE first  == parse_index(from, 0)
           end    == parse_index(to, MaxIndex)
           reply  == GetBlocks(blocks, from, to)
           wanted == {i \in DOMAIN blocks : first <= blocks[i].index /\ blocks[i].index <= end}
           last   == Len(blocks) - 1
           stop   == IF end < last THEN end ELSE last
           piece  == SubSeq(blocks, first + 1, stop + 1)
           Whole  == /\ reply.chain_length = Len(blocks)
                     /\ \A j \in 1..Len(reply.blocks) :
                           /\ reply.blocks[j].index = first + j - 1
                           /\ \E i \in wanted : reply.blocks[j] = blocks[i]
                     /\ \A i \in wanted :
                           \E j \in 1..Len(reply.blocks) : reply.blocks[j] = blocks[i]
<1>1. CASE ~ (Parses(from) /\ Parses(to))
  <2>1. reply.status = 400
    BY <1>1 DEF GetBlocks
  <2> QED BY <1>1, <2>1
<1>2. CASE Parses(from) /\ Parses(to)
  <2>1. first \in Nat /\ end \in Nat
    <3>1. \A p \in Parameter : Parses(p) =>
              p.kind = "absent" \/ (p.kind = "digits" /\ p.value \in Nat)
      BY DEF Parses, Parameter, Absent, Malformed, Digits
    <3> QED BY <1>2, <3>1, BlockRangeAssumption DEF parse_index
  <2>2. reply = IF first > stop
                THEN [status |-> 400]
                ELSE [status |-> 200, blocks |-> piece, chain_length |-> Len(blocks)]
    BY <1>2 DEF GetBlocks, Slice
  <2> HIDE DEF first, end, reply, piece
  <2>3. last \in Nat /\ stop \in 0..last /\ stop <= end
    BY <2>1, BlockRangeAssumption
  <2>4. \A i \in DOMAIN blocks : i \in wanted <=> first + 1 <= i /\ i <= stop + 1
    <3>1. SUFFICES ASSUME NEW i \in DOMAIN blocks
                   PROVE  (first <= i - 1 /\ i - 1 <= end) <=> (first + 1 <= i /\ i <= stop + 1)
      OBVIOUS
    <3>2. i \in 1..Len(blocks)
      OBVIOUS
    <3> QED BY <2>1, <2>3, <3>2
  <2> HIDE DEF stop
  <2>5. CASE first > stop
    <3>1. wanted = {}
      BY <2>1, <2>3, <2>4, <2>5
    <3>2. reply.status = 400
      BY <2>2, <2>5
    <3> QED BY <3>1, <3>2 DEF first, end, reply
  <2>6. CASE ~ (first > stop)
    <3>1. reply.status = 200 /\ reply.blocks = piece /\ reply.chain_length = Len(blocks)
      BY <2>2, <2>6
    <3>2. first + 1 \in 1..Len(blocks) /\ stop + 1 \in 1..Len(blocks) /\ first + 1 <= stop + 1
      BY <2>1, <2>3, <2>6
    <3>3. first + 1 \in wanted
      BY <2>4, <3>2
    <3>4. /\ Len(piece) = stop - first + 1
          /\ \A j \in 1..(stop - first + 1) : piece[j] = blocks[first + j]
      <4>1. \A i \in (first + 1)..(stop + 1) : blocks[i] \in S
        BY <2>1, <2>3, <3>2
      <4>2. /\ Len(piece) = IF first + 1 <= stop + 1 THEN (stop + 1) - (first + 1) + 1 ELSE 0
            /\ \A i \in 1..((stop + 1) - (first + 1) + 1) :
                  piece[i] = blocks[(first + 1) + i - 1]
        BY <2>1, <2>3, <4>1, SubSeqProperties DEF piece
      <4> QED BY <2>1, <2>3, <3>2, <4>2
    <3>5. ASSUME NEW j \in 1..Len(piece)
          PROVE  /\ piece[j].index = first + j - 1
                 /\ \E i \in wanted : piece[j] = blocks[i]
      <4>1. /\ first + j \in DOMAIN blocks /\ first + 1 <= first + j /\ first + j <= stop + 1
            /\ (first + j) - 1 = first + j - 1
        BY <2>1, <2>3, <3>2, <3>4
      <4>2. piece[j] = blocks[first + j]
        BY <3>4
      <4> QED BY <2>4, <4>1, <4>2
    <3>6. ASSUME NEW i \in wanted
          PROVE  \E j \in 1..Len(piece) : piece[j] = blocks[i]
      <4>1. i \in DOMAIN blocks /\ first + 1 <= i /\ i <= stop + 1 /\ i \in Nat
        BY <2>4
      <4>a. first \in Nat /\ stop \in Nat
        BY <2>1, <2>3
      <4>2. i - first \in 1..(stop - first + 1) /\ first + (i - first) = i
        BY <4>1, <4>a
      <4>3. i - first \in 1..Len(piece) /\ piece[i - first] = blocks[i]
        BY <3>4, <4>2
      <4> QED BY <4>3
    <3>7. Whole
      BY <3>1, <3>5, <3>6
    <3> QED BY <1>2, <3>1, <3>3, <3>7 DEF first, end, reply
  <2> QED BY <2>5, <2>6
<1> QED BY <1>1, <1>2
=============================================================================
