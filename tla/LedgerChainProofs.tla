------------------------- MODULE LedgerChainProofs --------------------------
(*****************************************************************************)
(* The chain of Ledger and the log it stands for.  As long as no allocation  *)
(* has failed between file and chain, the chain is sound at every moment and *)
(* the live feed is a window of it.  Under every fault, a place in it is     *)
(* told to one client at most, and Ledger implements DurableLog.             *)
(*****************************************************************************)
EXTENDS LedgerProofs, LedgerMemory, WellFoundedInduction

-----------------------------------------------------------------------------
(* Soundness of the chain.  What the file holds and what memory holds part   *)
(* ways between WriteBody and PushPersisted, and for good when a write fails. *)

Sound(c) == ChainValid(c) /\ \A i \in DOMAIN c : c[i].index = i - 1

\* b is what BuildNext makes of c.
Extends(c, b) ==
    /\ b.index = Len(c)
    /\ b.prev_hash = c[Len(c)].hash
    /\ b.hash = Recomputed(b)

\* The chain of a process that is down.
LEMMA EmptySound == Sound(<<>>)
BY DEF Sound, ChainValid

\* The chain of a fresh boot.
LEMMA GenesisSound ==
    ASSUME NEW ts PROVE Sound(<<genesis(ts)>>)
<1>1. DOMAIN <<genesis(ts)>> = {1} /\ <<genesis(ts)>>[1] = genesis(ts)
  OBVIOUS
<1>2. ~Invalid(<<genesis(ts)>>, 1) /\ genesis(ts).index = 0
  BY <1>1 DEF Invalid, ExpectedPrev, Recomputed, genesis, make_block
<1> QED
  BY <1>1, <1>2 DEF Sound, ChainValid

\* A sound chain extended by its successor is sound.
LEMMA AppendSound ==
    ASSUME NEW c, IsSequence(c), c # <<>>, Sound(c), NEW b, Extends(c, b)
    PROVE  Sound(Append(c, b))
<1> DEFINE n == Len(c)
           d == Append(c, b)
<1>1. /\ n \in Nat /\ DOMAIN c = 1..n /\ DOMAIN d = 1..(n + 1)
      /\ \A i \in 1..n : d[i] = c[i]
      /\ d[n + 1] = b
  BY AppendSequence
<1>2. n # 0
  BY EmptySequence DEF IsSequence
<1> HIDE DEF n, d
<1>3. ASSUME NEW i \in 1..n PROVE ~Invalid(d, i) /\ d[i].index = i - 1
  <2>1. d[i] = c[i] /\ ~Invalid(c, i) /\ c[i].index = i - 1
    BY <1>1 DEF Sound, ChainValid
  <2>2. ExpectedPrev(d, i) = ExpectedPrev(c, i)
    <3>1. CASE i = 1
      BY <3>1 DEF ExpectedPrev
    <3>2. CASE i # 1
      <4>1. i - 1 \in 1..n
        BY <1>1, <3>2
      <4> QED
        BY <1>1, <4>1 DEF ExpectedPrev
    <3> QED
      BY <3>1, <3>2
  <2> QED
    BY <2>1, <2>2 DEF Invalid
<1>4. ~Invalid(d, n + 1) /\ d[n + 1].index = (n + 1) - 1
  <2>1. n + 1 # 1 /\ (n + 1) - 1 = n /\ n \in 1..n
    BY <1>1, <1>2
  <2>2. ExpectedPrev(d, n + 1) = c[n].hash
    BY <1>1, <2>1 DEF ExpectedPrev
  <2>3. b.index = n /\ b.prev_hash = c[n].hash /\ b.hash = Recomputed(b)
    BY DEF Extends, n
  <2> QED
    BY <1>1, <2>1, <2>2, <2>3 DEF Invalid
<1>5. \A i \in DOMAIN d : i \in 1..n \/ i = n + 1
  BY <1>1
<1>6. Sound(d)
  BY <1>3, <1>4, <1>5, Zenon DEF Sound, ChainValid
<1> QED
  BY <1>6 DEF d

\* What a file that loads has to say while the process that writes it lives.
FileTells ==
    IF phase = "booting" /\ step = "body"
    THEN lines = <<>>
    ELSE Loadable => Loaded = IF phase # "booting" /\ step \in {"newline", "push"}
                              THEN Append(chain, created) ELSE chain

SoundInv ==
    /\ Sound(chain)
    /\ phase # "booting" /\ step \in {"body", "newline", "push"} => Extends(chain, created)
    /\ Loadable => Sound(Loaded)
    /\ phase # "down" /\ ~badbit => FileTells

\* The initial state.
LEMMA SoundInit == Init => SoundInv
<1> SUFFICES ASSUME Init PROVE SoundInv
  OBVIOUS
<1>1. chain = <<>> /\ phase = "down" /\ step = "off" /\ lines = <<>>
  BY DEF Init
<1>2. Loaded = <<>>
  BY <1>1, EmptySequence DEF Loaded
<1> QED
  BY <1>1, <1>2, EmptySound DEF SoundInv

\* When a piece is written, a torn one makes the file unloadable, and a whole one
\* is the next block of what the file held.
LEMMA SoundStepPiece ==
    ASSUME FileOK, ControlOK, ChainOK, SoundInv, WritePiece(created),
           step = "body", step' = "newline", ~badbit, UNCHANGED <<phase, chain, created, badbit>>
    PROVE  SoundInv'
<1> USE DEF ControlOK, Appending, SoundInv
<1>1. phase # "down"
  OBVIOUS
<1>2. ASSUME Loadable', phase # "booting"
      PROVE  Loaded' = Append(chain, created) /\ Sound(Loaded')
  <2>1. Loadable /\ Loaded' = Append(Loaded, created)
    BY <1>2, WritePieceLoaded
  <2>2. Loaded = chain
    BY <1>1, <1>2, <2>1 DEF FileTells
  <2> QED
    BY <1>1, <1>2, <2>1, <2>2, AppendSound DEF ChainOK
<1>3. ASSUME Loadable', phase = "booting"
      PROVE  Loaded' = chain /\ Sound(Loaded')
  <2>1. Loadable /\ Loaded' = Append(Loaded, created)
    BY <1>3, WritePieceLoaded
  <2>2. lines = <<>> /\ chain = <<created>>
    BY <1>1, <1>3 DEF FileTells, ChainOK
  <2>3. Loaded = <<>>
    BY <2>2, EmptySequence DEF Loaded
  <2>4. Append(<<>>, created) = <<created>>
    OBVIOUS
  <2> QED
    BY <2>1, <2>2, <2>3, <2>4
<1>4. FileTells'
  BY <1>2, <1>3 DEF FileTells
<1> QED
  BY <1>2, <1>3, <1>4

\* While the file stays as it is: the chain, the block and the control that follow.
LEMMA SoundStepFileKept ==
    ASSUME FileOK, ControlOK, ChainOK, SoundInv, Next, ~OutOfMemory, lines' = lines
    PROVE  SoundInv'
<1>1. Loadable' = Loadable /\ Loaded' = Loaded
  BY DEF Loadable, Loaded
<1> USE <1>1 DEF ControlOK, Appending, SoundInv, disk, server, clients
<1> HIDE DEF FileTells
<1>2. ASSUME Gone PROVE SoundInv'
  <2>1. chain' = <<>> /\ phase' = "down" /\ step' = "off"
    BY <1>2 DEF Gone
  <2> QED
    BY <2>1, EmptySound
<1>3. ASSUME UNCHANGED <<chain, badbit, created>>, phase # "down", phase' # "down",
             phase' = "booting" <=> phase = "booting",
             \/ step' = step
             \/ phase # "booting" /\ step = "newline" /\ step' = "push"
             \/ phase # "booting" /\ step \notin {"body", "newline", "push"}
                /\ step' \notin {"body", "newline", "push"}
      PROVE  SoundInv'
  BY <1>3 DEF FileTells
<1>4. CASE BootFresh
  <2>1. PICK ts \in Timestamps : chain' = <<genesis(ts)>>
    BY <1>4 DEF BootFresh
  <2>2. phase' = "booting" /\ step' = "body" /\ lines' = <<>>
    BY <1>4 DEF BootFresh
  <2>3. FileTells'
    BY <2>2 DEF FileTells
  <2> QED
    BY <2>1, <2>2, <2>3, GenesisSound
<1>5. CASE BootReload
  <2>1. chain' = Loaded /\ step' = "pop" /\ phase' = "up" /\ Loadable
    BY <1>5 DEF BootReload
  <2>2. FileTells'
    BY <2>1 DEF FileTells
  <2> QED
    BY <2>1, <2>2
<1>6. CASE BootFails
  BY <1>6 DEF BootFails, vars, FileTells
<1>7. CASE \E r \in Requests : Post(r) \/ Push(r)
  <2>1. UNCHANGED <<phase, step, chain, created, badbit>> 
    BY <1>7 DEF Post, Push
  <2> QED
    BY <2>1 DEF FileTells
<1>8. CASE Pop \/ PopEnd
  BY <1>3, <1>8 DEF Pop, PopEnd
<1>9. CASE BuildNext
  <2>1. Extends(chain, created')
    BY <1>9 DEF BuildNext, NextIndex, Extends, Recomputed, make_block, latest
  <2>2. UNCHANGED <<phase, chain, badbit>> /\ step = "build" /\ step' = "body"
    BY <1>9 DEF BuildNext
  <2>3. phase # "booting"
    BY <2>2
  <2>4. Extends(chain', created')
    BY <2>1, <2>2
  <2>5. FileTells => FileTells'
    BY <2>2, <2>3 DEF FileTells
  <2> QED
    BY <2>2, <2>3, <2>4, <2>5
<1>10. CASE WriteNewline
  <2>1. CASE phase = "booting"
    <3>1. /\ phase' = "up" /\ step' = "pop" /\ chain' = chain /\ badbit' = badbit
          /\ step = "newline"
      BY <1>10, <2>1 DEF WriteNewline
    <3>2. FileTells => FileTells'
      BY <2>1, <3>1 DEF FileTells
    <3> QED
      BY <3>1, <3>2, <2>1
  <2>2. CASE phase # "booting"
    BY <1>3, <1>10, <2>2 DEF WriteNewline, OncePersisted
  <2> QED
    BY <2>1, <2>2
<1>11. CASE WriteFails
  <2>1. CASE phase = "booting"
    BY <1>2, <1>11, <2>1 DEF WriteFails, AppendFails
  <2>2. CASE phase # "booting"
    <3>1. badbit' /\ step' = "pop" /\ chain' = chain
      BY <1>11, <2>2 DEF WriteFails, AppendFails, Throw, NextRequest
    <3> QED
      BY <3>1
  <2> QED
    BY <2>1, <2>2
<1>12. CASE WriteOnBadStream
  <2>1. badbit' /\ step' = "pop" /\ chain' = chain
    BY <1>12 DEF WriteOnBadStream, Throw, NextRequest
  <2> QED
    BY <2>1
<1>13. CASE PushPersisted
  <2>1. /\ chain' = Append(chain, created) /\ step = "push" /\ step' = "publish"
        /\ UNCHANGED <<phase, badbit>>
    BY <1>13 DEF PushPersisted, push_persisted
  <2>2. phase # "booting" /\ phase # "down"
    BY <2>1
  <2>3. Sound(chain')
    BY <2>1, <2>2, AppendSound DEF ChainOK
  <2>4. FileTells => FileTells'
    BY <2>1, <2>2 DEF FileTells
  <2> QED
    BY <2>1, <2>2, <2>3, <2>4
<1>14. CASE Publish
  BY <1>3, <1>14 DEF Publish
<1>15. CASE Reply
  <2>1. /\ step = "reply" /\ step' = "pop"
        /\ UNCHANGED <<phase, chain, badbit>>
    BY <1>15 DEF Reply, NextRequest
  <2>2. FileTells => FileTells'
    BY <2>1 DEF FileTells
  <2> QED
    BY <2>1, <2>2
<1>16. CASE Stop \/ CloseQueue
  BY <1>3, <1>16 DEF Stop, CloseQueue
<1>17. CASE Exit \/ Crash
  BY <1>2, <1>17 DEF Exit, Crash
<1>18. ~OutOfMemory
  OBVIOUS
<1>19. CASE WriteBody
  <2>1. step = "body" /\ step' = "newline" /\ UNCHANGED <<phase, chain, created, badbit>>
        /\ ~badbit /\ WritePiece(created)
    BY <1>19 DEF WriteBody
  <2> QED
    BY <2>1, SoundStepPiece
<1> QED
  BY <1>4, <1>5, <1>6, <1>7, <1>8, <1>9, <1>10, <1>11, <1>12, <1>13, <1>14, <1>15,
     <1>16, <1>17, <1>18, <1>19, Zenon DEF Next, WriterStep, Shutdown, Boot

\* No step makes chain or file unsound.
LEMMA SoundStep ==
    ASSUME LedgerInv, SoundInv, [Next]_vars, ~OutOfMemory
    PROVE  SoundInv'
<1> USE DEF LedgerInv, disk, server, clients
<1>1. CASE Next /\ lines' = lines
  BY <1>1, SoundStepFileKept
<1>2. CASE WriteBody
  BY <1>2, SoundStepPiece DEF WriteBody
<1>3. ASSUME WritePiece(Torn), phase' # "down" => badbit', step' \in {"pop", "off"},
             Sound(chain')
      PROVE  SoundInv'
  <2>1. ~Loadable'
    BY <1>3, WritePieceLoaded
  <2> QED
    BY <1>3, <2>1 DEF SoundInv
<1>4. CASE (WriteFails \/ Crash) /\ WritePiece(Torn)
  <2>1. CASE WriteFails /\ phase # "booting"
    <3>1. badbit' /\ chain' = chain /\ step' = "pop"
      BY <2>1 DEF WriteFails, AppendFails, Throw, NextRequest
    <3>2. Sound(chain')
      BY <3>1 DEF SoundInv
    <3> QED
      BY <1>3, <1>4, <3>1, <3>2
  <2>2. CASE (WriteFails /\ phase = "booting") \/ Crash
    <3>1. phase' = "down" /\ chain' = <<>> /\ step' = "off"
      BY <2>2 DEF WriteFails, AppendFails, Crash, Gone
    <3>2. Sound(chain')
      BY <3>1, EmptySound
    <3> QED
      BY <1>3, <1>4, <3>1, <3>2
  <2> QED
    BY <1>4, <2>1, <2>2
<1>5. CASE UNCHANGED vars
  BY <1>5 DEF vars, SoundInv, FileTells, Loadable, Loaded
<1>6. CASE WriteFails \/ Crash
  BY <1>1, <1>4, <1>6 DEF WriteFails, Crash, WriteNothing, Next, WriterStep
<1> QED
  BY <1>1, <1>2, <1>5, <1>6, OnlyWritesWrite

\* A step of the history is one of the ledger, and unless it is or was one in which
\* memory ran out, the history says so.
LEMMA HistoryStep ==
    ASSUME [HistoryNext]_history
    PROVE  [Next]_vars /\ (~starved' => ~starved /\ ([Next /\ ~OutOfMemory]_vars))
<1>1. CASE HistoryNext
  <2>1. Next /\ starved' = (starved \/ OutOfMemory)
    BY <1>1 DEF HistoryNext
  <2>2. ~starved' => ~starved /\ ~OutOfMemory
    BY <2>1, Zenon
  <2> QED
    BY <2>1, <2>2, Zenon
<1>2. CASE UNCHANGED history
  <2>1. UNCHANGED vars /\ UNCHANGED starved
    BY <1>2 DEF history
  <2> QED
    BY <2>1, Zenon
<1> QED
  BY <1>1, <1>2

\* The ledger keeps its invariants whatever its history.
LEMMA HistoryInvariant == SafeHistory => [](LedgerInv /\ BlocksOK)
<1>1. HistoryInit => Init
  BY DEF HistoryInit
<1>2. LedgerInv /\ [HistoryNext]_history => LedgerInv'
  BY HistoryStep, LedgerStep
<1>3. LedgerInv /\ BlocksOK /\ [HistoryNext]_history => BlocksOK'
  BY HistoryStep, BlocksStep
<1> QED
  BY <1>1, <1>2, <1>3, LedgerInit, BlocksInit, PTL DEF SafeHistory

\* Through write errors, torn lines, crashes and reloads: GET /verify finds the ledger
\* sound at every moment, as long as no allocation has failed between file and chain.
THEOREM SoundUntilStarved == HistorySpec => []SoundUnlessStarved
<1> DEFINE Inv == ~starved => SoundInv
<1>1. HistoryInit => Inv
  BY SoundInit DEF HistoryInit
<1>2. LedgerInv /\ Inv /\ [HistoryNext]_history => Inv'
  <2> SUFFICES ASSUME LedgerInv, Inv, [HistoryNext]_history, ~starved' PROVE SoundInv'
    OBVIOUS
  <2>1. SoundInv /\ [Next /\ ~OutOfMemory]_vars
    BY HistoryStep
  <2>2. CASE ~OutOfMemory
    BY <2>1, <2>2, SoundStep
  <2>3. CASE UNCHANGED vars
    BY <2>1, <2>3 DEF vars, disk, server, clients, SoundInv, FileTells, Loadable, Loaded
  <2> QED
    BY <2>1, <2>2, <2>3
<1>3. LedgerInv /\ Inv => SoundUnlessStarved
  BY DEF SoundInv, Sound, ChainSound, verify_chain, SoundUnlessStarved
<1> QED
  BY <1>1, <1>2, <1>3, HistoryInvariant, PTL DEF HistorySpec, SafeHistory
-----------------------------------------------------------------------------
(* The live feed *)

\* The first n elements of c end with f.
Window(c, f, n) ==
    \E k \in 0..n : k + Len(f) = n /\ \A j \in 1..Len(f) : f[j] = c[k + j]

\* A feed that has announced nothing yet.
LEMMA EmptyWindow == ASSUME NEW c, NEW n \in Nat PROVE Window(c, <<>>, n)
BY EmptySequence DEF Window

\* What was announced stays where it was when the chain grows.
LEMMA WindowKeptByAppend ==
    ASSUME NEW c, IsSequence(c), NEW f, IsSequence(f), NEW e, Window(c, f, Len(c))
    PROVE  Window(Append(c, e), f, Len(c))
<1> DEFINE n == Len(c)
           m == Len(f)
           d == Append(c, e)
<1>1. n \in Nat /\ m \in Nat /\ \A i \in 1..n : d[i] = c[i]
  BY AppendSequence
<1>2. PICK k \in 0..n : k + m = n /\ \A j \in 1..m : f[j] = c[k + j]
  BY DEF Window
<1> HIDE DEF n, m, d
<1>3. ASSUME NEW j \in 1..m PROVE f[j] = d[k + j]
  <2>1. k + j \in 1..n
    BY <1>1, <1>2
  <2> QED
    BY <1>1, <1>2, <2>1
<1>4. Window(d, f, n)
  BY <1>2, <1>3 DEF Window, m
<1> QED
  BY <1>4 DEF d, n

\* Announcing the next element makes the window longer by one.
LEMMA WindowGrows ==
    ASSUME NEW c, NEW f, IsSequence(f), NEW n \in Nat, Window(c, f, n)
    PROVE  Window(c, Append(f, c[n + 1]), n + 1)
<1> DEFINE m == Len(f)
           g == Append(f, c[n + 1])
<1>1. m \in Nat /\ Len(g) = m + 1 /\ (\A i \in 1..m : g[i] = f[i]) /\ g[m + 1] = c[n + 1]
  BY AppendSequence
<1>2. PICK k \in 0..n : k + m = n /\ \A j \in 1..m : f[j] = c[k + j]
  BY DEF Window
<1> HIDE DEF m, g
<1>3. ASSUME NEW j \in 1..(m + 1) PROVE g[j] = c[k + j]
  <2>1. CASE j \in 1..m
    BY <1>1, <1>2, <2>1
  <2>2. CASE j = m + 1
    <3>1. k + j = n + 1
      BY <1>1, <1>2, <2>2
    <3> QED
      BY <1>1, <2>2, <3>1
  <2> QED
    BY <1>1, <2>1, <2>2
<1>4. k \in 0..(n + 1) /\ k + Len(g) = n + 1
  BY <1>1, <1>2
<1>5. Window(c, g, n + 1)
  BY <1>1, <1>3, <1>4 DEF Window
<1> QED
  BY <1>5 DEF g

\* A window is a subsequence, as FeedFollowsChain puts it.
LEMMA WindowIsSubSeq ==
    ASSUME NEW c, IsSequence(c), NEW f, IsSequence(f), NEW n \in 0..Len(c), Window(c, f, n)
    PROVE  \E k \in 0..Len(c) : k + Len(f) = n /\ f = SubSeq(c, k + 1, k + Len(f))
<1> DEFINE m == Len(f)
           l == Len(c)
           T == ToSet(c)
<1>1. l \in Nat /\ m \in Nat /\ DOMAIN c = 1..l /\ n \in 0..l
  BY AppendSequence
<1>2. PICK k \in 0..n : k + m = n /\ \A j \in 1..m : f[j] = c[k + j]
  BY DEF Window
<1> DEFINE g == SubSeq(c, k + 1, k + m)
<1>3. \A i \in (k + 1)..(k + m) : c[i] \in T
  <2> TAKE i \in (k + 1)..(k + m)
  <2> HIDE DEF m, l
  <2>1. i \in 1..l
    BY <1>1, <1>2
  <2> QED
    BY <1>1, <2>1 DEF ToSet
<1> HIDE DEF l, m, T
<1>4. /\ g \in Seq(T)
      /\ Len(g) = IF k + 1 <= k + m THEN (k + m) - (k + 1) + 1 ELSE 0
      /\ \A i \in 1..((k + m) - (k + 1) + 1) : g[i] = c[(k + 1) + i - 1]
  <2>1. k + 1 \in Int /\ k + m \in Int
    BY <1>1, <1>2
  <2> QED
    BY <1>3, <2>1, SubSeqProperties
<1> HIDE DEF g
<1>5. Len(g) = m
  BY <1>1, <1>2, <1>4
<1>6. ASSUME NEW i \in 1..m PROVE g[i] = f[i] /\ f[i] \in T
  <2>1. i \in 1..((k + m) - (k + 1) + 1) /\ (k + 1) + i - 1 = k + i /\ k + i \in 1..l
    BY <1>1, <1>2
  <2> QED
    BY <1>1, <1>2, <1>4, <2>1 DEF T, ToSet
<1>7. f \in Seq(T)
  <2>1. f \in [1..m -> T]
    <3>1. DOMAIN f = 1..m /\ f = [i \in 1..m |-> f[i]]
      BY AppendSequence DEF IsSequence, m
    <3> QED
      BY <1>6, <3>1
  <2> QED
    BY <1>1, <2>1, FunctionIsSequence
<1>8. f = g
  BY <1>4, <1>5, <1>6, <1>7, SeqEqual DEF m
<1>9. k \in 0..l
  BY <1>1, <1>2
<1> QED
  BY <1>2, <1>8, <1>9 DEF g, m, l

\* How much of the chain the feed has to have announced.
Announced == IF step = "publish" THEN Len(chain) - 1 ELSE Len(chain)

FeedInv ==
    /\ phase = "down" => feed = <<>>
    /\ step = "publish" => chain[Len(chain)] = created
    /\ phase # "down" => Window(chain, feed, Announced)

\* The feed announces a block right after it entered the chain, once.
LEMMA FeedStep ==
    ASSUME LedgerInv, BlocksOK, FeedInv, [Next]_vars, ~OutOfMemory
    PROVE  FeedInv'
<1>1. /\ Len(chain) \in Nat /\ (phase # "down" => Len(chain) > 0)
      /\ Len(push_persisted(chain, created)) = Len(chain) + 1
      /\ IsSequence(chain) /\ IsSequence(feed)
  BY Lengths DEF LedgerInv, ChainOK, BlocksOK
<1>2. phase = "down" <=> step = "off"
  BY DEF LedgerInv, ControlOK
<1> USE DEF FeedInv, disk, server, clients
<1>3. ASSUME UNCHANGED <<chain, feed>>, phase # "down",
             (step # "publish" /\ step' # "publish") \/ (step' = step /\ created' = created),
             phase' # "down"
      PROVE  FeedInv'
  <2>1. Announced' = Announced
    BY <1>3 DEF Announced
  <2> QED
    BY <1>3, <2>1
<1>4. ASSUME Gone PROVE FeedInv'
  BY <1>4 DEF Gone
<1>5. CASE BootFresh \/ BootReload
  <2>1. /\ feed' = feed /\ phase = "down" /\ step' # "publish" /\ phase' # "down"
    BY <1>5 DEF BootFresh, BootReload
  <2>2. Len(chain') \in Nat
    <3>1. ChainOK'
      BY ChainStep DEF LedgerInv
    <3> QED
      BY <3>1, AppendSequence DEF ChainOK
  <2>3. Window(chain', feed', Announced')
    BY <2>1, <2>2, EmptyWindow DEF Announced
  <2> QED
    BY <2>1, <2>3
<1>6. CASE BootFails \/ UNCHANGED vars
  <2>1. UNCHANGED <<phase, step, chain, feed, created>>
    BY <1>6 DEF BootFails, vars
  <2> QED
    BY <2>1 DEF Announced
<1>7. CASE \E r \in Requests : Post(r) \/ Push(r)
  <2>1. UNCHANGED <<phase, step, chain, feed, created>>
    BY <1>7 DEF Post, Push
  <2> QED
    BY <2>1 DEF Announced
<1>8. CASE Pop \/ PopEnd \/ BuildNext \/ WriteBody
  BY <1>2, <1>3, <1>8 DEF Pop, PopEnd, BuildNext, WriteBody
<1>9. CASE WriteNewline
  <2>1. CASE phase = "booting"
    <3>1. /\ UNCHANGED <<chain, feed>> /\ step = "newline" /\ step' = "pop" /\ phase' = "up"
      BY <1>9, <2>1 DEF WriteNewline
    <3> QED
      BY <1>2, <1>3, <3>1
  <2>2. CASE phase # "booting"
    <3>1. UNCHANGED <<chain, feed, phase>> /\ step = "newline" /\ step' = "push"
      BY <1>9, <2>2 DEF WriteNewline, OncePersisted
    <3> QED
      BY <1>2, <1>3, <3>1
  <2> QED
    BY <2>1, <2>2
<1>10. CASE WriteFails
  <2>1. CASE phase = "booting"
    BY <1>4, <1>10, <2>1 DEF WriteFails, AppendFails
  <2>2. CASE phase # "booting"
    <3>1. UNCHANGED <<chain, feed, phase>> /\ step # "publish" /\ step' = "pop" /\ step # "off"
      BY <1>10, <2>2 DEF WriteFails, AppendFails, Throw, NextRequest
    <3> QED
      BY <1>2, <1>3, <3>1
  <2> QED
    BY <2>1, <2>2
<1>11. CASE WriteOnBadStream
  <2>1. UNCHANGED <<chain, feed, phase>> /\ step = "body" /\ step' = "pop"
    BY <1>11 DEF WriteOnBadStream, Throw, NextRequest
  <2> QED
    BY <1>2, <1>3, <2>1
<1>12. CASE PushPersisted
  <2>1. /\ UNCHANGED <<feed, phase, created>> /\ step = "push" /\ step' = "publish"
        /\ chain' = Append(chain, created)
    BY <1>12 DEF PushPersisted, push_persisted
  <2>2. Len(chain') = Len(chain) + 1 /\ chain'[Len(chain) + 1] = created
    BY <1>1, <2>1, AppendSequence
  <2>3. Announced = Len(chain) /\ Announced' = Len(chain)
    BY <1>1, <2>1, <2>2 DEF Announced
  <2>4. Window(chain', feed', Announced')
    BY <1>1, <1>2, <2>1, <2>3, WindowKeptByAppend
  <2> QED
    BY <1>2, <2>1, <2>2, <2>4
<1>13. CASE Publish
  <2>1. /\ UNCHANGED <<chain, phase>> /\ step = "publish" /\ step' = "reply"
        /\ feed' = Append(feed, created)
    BY <1>13 DEF Publish
  <2>2. /\ Announced = Len(chain) - 1 /\ Announced' = Len(chain)
        /\ created = chain[Len(chain)] /\ phase # "down"
    BY <1>2, <2>1 DEF Announced
  <2>3. Announced \in Nat /\ Announced + 1 = Len(chain)
    BY <1>1, <2>2
  <2>4. Window(chain, Append(feed, chain[Announced + 1]), Announced + 1)
    BY <1>1, <2>2, <2>3, WindowGrows
  <2> QED
    BY <2>1, <2>2, <2>3, <2>4
<1>14. CASE Reply
  <2>1. UNCHANGED <<chain, feed, phase>> /\ step = "reply" /\ step' = "pop"
    BY <1>14 DEF Reply, NextRequest
  <2> QED
    BY <1>2, <1>3, <2>1
<1>15. CASE Stop \/ CloseQueue
  BY <1>3, <1>15 DEF Stop, CloseQueue
<1>16. CASE Exit \/ Crash
  BY <1>4, <1>16 DEF Exit, Crash
<1>17. ~OutOfMemory
  OBVIOUS
<1> QED
  BY <1>5, <1>6, <1>7, <1>8, <1>9, <1>10, <1>11, <1>12, <1>13, <1>14, <1>15, <1>16,
     <1>17, Zenon DEF Next, WriterStep, Shutdown, Boot

\* Under the same condition the feed is a window of the chain that ends where the chain
\* ends: no block is announced early, twice or not at all.
THEOREM FeedFollowsUntilStarved == HistorySpec => []FeedFollowsUnlessStarved
<1> DEFINE Inv == ~starved => FeedInv
<1>1. HistoryInit => Inv
  BY DEF HistoryInit, Init, FeedInv
<1>2. LedgerInv /\ BlocksOK /\ FeedInv => FeedFollowsChain
  <2> SUFFICES ASSUME LedgerInv, BlocksOK, FeedInv, Running PROVE FeedFollowsChain
    BY DEF FeedFollowsChain
  <2>1. /\ Len(chain) \in Nat /\ Len(chain) > 0
        /\ IsSequence(chain) /\ IsSequence(feed) /\ Window(chain, feed, Announced)
    BY Lengths DEF LedgerInv, ChainOK, BlocksOK, FeedInv, Running
  <2>2. Announced \in 0..Len(chain)
    BY <2>1 DEF Announced
  <2>3. \E k \in 0..Len(chain) : /\ k + Len(feed) = Announced
                                 /\ feed = SubSeq(chain, k + 1, k + Len(feed))
    BY <2>1, <2>2, WindowIsSubSeq
  <2> QED
    BY <2>3 DEF FeedFollowsChain, Announced
<1>3. LedgerInv /\ BlocksOK /\ Inv /\ [HistoryNext]_history => Inv'
  <2> SUFFICES ASSUME LedgerInv, BlocksOK, Inv, [HistoryNext]_history, ~starved'
               PROVE  FeedInv'
    OBVIOUS
  <2>1. FeedInv /\ [Next /\ ~OutOfMemory]_vars
    BY HistoryStep
  <2>2. CASE ~OutOfMemory
    BY <2>1, <2>2, FeedStep
  <2>3. CASE UNCHANGED vars
    BY <2>1, <2>3 DEF vars, disk, server, clients, FeedInv, Announced
  <2> QED
    BY <2>1, <2>2, <2>3
<1>4. LedgerInv /\ BlocksOK /\ Inv => FeedFollowsUnlessStarved
  BY <1>2 DEF FeedFollowsUnlessStarved
<1> QED
  BY <1>1, <1>3, <1>4, HistoryInvariant, PTL DEF HistorySpec, SafeHistory
-----------------------------------------------------------------------------
(* Places.  Under every fault: once an allocation has failed two blocks may  *)
(* claim the same place, but never are both of them acknowledged.            *)

\* No block of c claims a place behind its own.
BelowPlace(c) == \A i \in DOMAIN c : c[i].index \in 0..(i - 1)

\* An element whose index is no larger than the length may be appended.
LEMMA AppendBelow ==
    ASSUME NEW c, IsSequence(c), BelowPlace(c), NEW b, b.index \in 0..Len(c)
    PROVE  BelowPlace(Append(c, b))
<1> DEFINE n == Len(c)
           d == Append(c, b)
<1>1. /\ n \in Nat /\ DOMAIN c = 1..n /\ DOMAIN d = 1..(n + 1)
      /\ \A i \in 1..n : d[i] = c[i]
      /\ d[n + 1] = b
  BY AppendSequence
<1> HIDE DEF d
<1>2. ASSUME NEW i \in 1..(n + 1) PROVE d[i].index \in 0..(i - 1)
  <2>1. CASE i \in 1..n
    BY <1>1, <2>1 DEF BelowPlace
  <2>2. CASE i = n + 1
    BY <1>1, <2>2
  <2> QED
    BY <1>1, <2>1, <2>2
<1>3. BelowPlace(d)
  BY <1>1, <1>2 DEF BelowPlace
<1> QED
  BY <1>3 DEF d

\* Written but not pushed yet.
InFlight == IF phase # "booting" /\ step \in {"newline", "push"} THEN 1 ELSE 0

PlacesInv ==
    /\ BelowPlace(chain)
    /\ Loadable => BelowPlace(Loaded)
    /\ phase = "booting" => created.index = 0
    /\ phase # "booting" /\ step \in {"body", "newline", "push"} => created.index = Len(chain)
    /\ step \in {"publish", "reply"} => created.index = Len(chain) - 1 /\ created.index > 0
    /\ Loadable => \/ phase = "down"
                   \/ phase = "booting" /\ step = "body"
                   \/ Len(chain) + InFlight <= Len(lines)

\* The initial state.
LEMMA PlacesInit == Init => PlacesInv
<1> SUFFICES ASSUME Init PROVE PlacesInv
  OBVIOUS
<1>1. chain = <<>> /\ phase = "down" /\ step = "off" /\ lines = <<>>
  BY DEF Init
<1>2. Loaded = <<>>
  BY <1>1, EmptySequence DEF Loaded
<1>3. BelowPlace(<<>>)
  BY DEF BelowPlace
<1> QED
  BY <1>1, <1>2, <1>3 DEF PlacesInv

\* A block that is written claims no place behind its line.
LEMMA PlacesStepPiece ==
    ASSUME FileOK, ControlOK, ChainOK, PlacesInv, WritePiece(created),
           step = "body", step' = "newline", UNCHANGED <<phase, chain, created>>
    PROVE  PlacesInv'
<1> USE DEF ControlOK
<1>1. /\ Len(lines) \in Nat /\ Len(chain) \in Nat /\ phase # "down"
      /\ phase = "booting" => Len(chain) = 1
  BY Lengths, SingletonSequence DEF ChainOK
<1>2. ASSUME Loadable'
      PROVE  /\ BelowPlace(Loaded') /\ Len(chain) + InFlight' <= Len(lines')
  <2>1. /\ Loadable /\ Loaded' = Append(Loaded, created)
        /\ IsSequence(Loaded) /\ Len(Loaded) = Len(lines)
    BY <1>2, WritePieceLoaded, LoadedWhole
  <2>2. Len(Loaded') = Len(lines) + 1
    BY <2>1, AppendSequence
  <2>3. Len(lines') = Len(lines) + 1
    <3>1. FileOK'
      BY WritePieceFile
    <3>2. Len(lines') \in Nat /\ Loaded' = [i \in 1..Len(lines') |-> lines'[i][1]]
      BY <3>1, AppendSequence DEF FileOK, Loaded
    <3>3. DOMAIN Loaded' = 1..Len(lines')
      BY <3>2
    <3>4. DOMAIN Loaded' = 1..(Len(lines) + 1)
      BY <2>1, AppendSequence
    <3> QED
      BY <1>1, <3>2, <3>3, <3>4
  <2>4. CASE phase = "booting"
    <3>1. created.index = 0 /\ InFlight' = 0
      BY <2>4 DEF PlacesInv, InFlight
    <3>2. BelowPlace(Loaded')
      BY <1>1, <2>1, <3>1, AppendBelow DEF PlacesInv
    <3>3. Len(chain) = 1
      BY <1>1, <2>4
    <3>4. Len(chain) + InFlight' <= Len(lines')
      BY <1>1, <2>3, <3>1, <3>3
    <3> QED
      BY <3>2, <3>4
  <2>5. CASE phase # "booting"
    <3>1. created.index = Len(chain) /\ InFlight = 0 /\ InFlight' = 1
      BY <2>5 DEF PlacesInv, InFlight
    <3>2. Len(chain) + InFlight <= Len(lines)
      BY <1>1, <2>1, <2>5 DEF PlacesInv
    <3>3. created.index \in 0..Len(Loaded)
      BY <1>1, <2>1, <3>1, <3>2
    <3>4. BelowPlace(Loaded')
      BY <2>1, <3>3, AppendBelow DEF PlacesInv
    <3> QED
      BY <1>1, <2>3, <3>1, <3>2, <3>4
  <2> QED
    BY <2>4, <2>5
<1> QED
  BY <1>2 DEF PlacesInv

\* The steps that leave the file alone.
LEMMA PlacesStepFileKept ==
    ASSUME FileOK, ControlOK, ChainOK, PlacesInv, Next, lines' = lines
    PROVE  PlacesInv'
<1>1. Loadable' = Loadable /\ Loaded' = Loaded
  BY DEF Loadable, Loaded
<1>2. /\ Len(lines) \in Nat /\ Len(chain) \in Nat /\ InFlight \in {0, 1}
      /\ phase # "down" => Len(chain) > 0
      /\ Len(push_persisted(chain, created)) = Len(chain) + 1
  BY Lengths DEF InFlight
<1> USE <1>1 DEF ControlOK, Appending, PlacesInv, disk, server, clients
<1>3. ASSUME Gone PROVE PlacesInv'
  <2>1. chain' = <<>> /\ phase' = "down" /\ step' = "off"
    BY <1>3 DEF Gone
  <2>2. BelowPlace(<<>>)
    BY DEF BelowPlace
  <2> QED
    BY <2>1, <2>2
\* Steps that leave chain and block alone, or go on to the next request.
<1>4. ASSUME chain' = chain, phase # "down", phase # "booting", phase' # "booting",
             step' \notin {"body", "newline", "push", "publish", "reply"}
      PROVE  PlacesInv'
  <2>1. InFlight' = 0
    BY <1>4 DEF InFlight
  <2>2. Loadable' => Len(chain') + InFlight' <= Len(lines')
    BY <1>2, <1>4, <2>1
  <2> QED
    BY <1>4, <2>2
<1>5. ASSUME UNCHANGED <<chain, created>>, step' = step,
             phase' = "booting" <=> phase = "booting", phase # "down"
      PROVE  PlacesInv'
  <2>1. InFlight' = InFlight
    BY <1>5 DEF InFlight
  <2> QED
    BY <1>5, <2>1
<1>6. CASE BootFresh
  <2>1. PICK ts \in Timestamps : chain' = <<genesis(ts)>> /\ created' = genesis(ts)
    BY <1>6 DEF BootFresh
  <2>2. phase' = "booting" /\ step' = "body"
    BY <1>6 DEF BootFresh
  <2>3. genesis(ts).index = 0
    BY DEF genesis, make_block
  <2>4. BelowPlace(<<genesis(ts)>>)
    BY <2>3 DEF BelowPlace
  <2> QED
    BY <2>1, <2>2, <2>3, <2>4
<1>7. CASE BootReload
  <2>1. chain' = Loaded /\ step' = "pop" /\ phase' = "up" /\ Loadable
    BY <1>7 DEF BootReload
  <2>2. Len(Loaded) = Len(lines) /\ InFlight' = 0
    BY <2>1, LoadedWhole DEF InFlight
  <2>3. Len(chain') + InFlight' <= Len(lines')
    BY <1>2, <2>1, <2>2
  <2> QED
    BY <2>1, <2>3
<1>8. CASE BootFails
  BY <1>8 DEF BootFails, vars
<1>9. CASE \E r \in Requests : Post(r) \/ Push(r)
  <2>1. UNCHANGED <<phase, step, chain, created>>
    BY <1>9 DEF Post, Push
  <2>2. InFlight' = InFlight
    BY <2>1 DEF InFlight
  <2> QED
    BY <2>1, <2>2
<1>10. CASE Pop \/ PopEnd
  BY <1>4, <1>10 DEF Pop, PopEnd
<1>11. CASE BuildNext
  <2>1. created'.index = Len(chain) /\ UNCHANGED <<phase, chain>> /\ step = "build" /\ step' = "body"
    BY <1>11 DEF BuildNext, NextIndex, make_block
  <2>2. InFlight' = 0 /\ InFlight = 0 /\ phase # "booting"
    BY <2>1 DEF InFlight
  <2> QED
    BY <2>1, <2>2
<1>12. CASE WriteNewline
  <2>1. CASE phase = "booting"
    <3>1. phase' = "up" /\ step' = "pop" /\ chain' = chain /\ step = "newline"
      BY <1>12, <2>1 DEF WriteNewline
    <3>2. InFlight' = 0 /\ InFlight = 0
      BY <2>1, <3>1 DEF InFlight
    <3> QED
      BY <2>1, <3>1, <3>2
  <2>2. CASE phase # "booting"
    <3>1. UNCHANGED <<phase, chain, created>> /\ step = "newline" /\ step' = "push"
      BY <1>12, <2>2 DEF WriteNewline, OncePersisted
    <3>2. InFlight' = InFlight
      BY <3>1 DEF InFlight
    <3> QED
      BY <2>2, <3>1, <3>2
  <2> QED
    BY <2>1, <2>2
<1>13. CASE WriteFails
  <2>1. CASE phase = "booting"
    BY <1>3, <1>13, <2>1 DEF WriteFails, AppendFails
  <2>2. CASE phase # "booting"
    BY <1>4, <1>13, <2>2 DEF WriteFails, AppendFails, Throw, NextRequest
  <2> QED
    BY <2>1, <2>2
<1>14. CASE WriteOnBadStream
  BY <1>4, <1>14 DEF WriteOnBadStream, Throw, NextRequest
<1>15. ASSUME step = "push", chain' = push_persisted(chain, created), phase' = phase,
              \/ step' = "publish" /\ created' = created
              \/ step' = "pop"
       PROVE  PlacesInv'
  <2>1. phase # "booting" /\ phase # "down" /\ created.index = Len(chain)
    BY <1>15
  <2>2. InFlight = 1 /\ InFlight' = 0
    BY <1>15, <2>1 DEF InFlight
  <2>3. Loadable => Len(chain') + InFlight' <= Len(lines)
    BY <1>2, <1>15, <2>1, <2>2
  <2>4. BelowPlace(chain')
    <3>1. created.index \in 0..Len(chain)
      BY <1>2, <2>1
    <3> QED
      BY <1>15, <3>1, AppendBelow DEF push_persisted, ChainOK
  <2>5. created.index = Len(chain') - 1 /\ created.index > 0
    BY <1>2, <1>15, <2>1
  <2> QED
    BY <1>15, <2>1, <2>3, <2>4, <2>5
<1>16. CASE PushPersisted
  BY <1>15, <1>16 DEF PushPersisted
<1>17. CASE OutOfMemory
  <2>1. step' = "pop" /\ phase' = phase /\ phase # "booting" /\ phase # "down"
    BY <1>17 DEF OutOfMemory, Throw, NextRequest
  <2>2. \/ chain' = chain
        \/ step = "push" /\ chain' = push_persisted(chain, created)
    BY <1>17 DEF OutOfMemory, AfterThrow
  <2> QED
    BY <1>4, <1>15, <2>1, <2>2
<1>18. CASE Publish
  <2>1. UNCHANGED <<phase, chain, created>> /\ step = "publish" /\ step' = "reply"
    BY <1>18 DEF Publish
  <2>2. InFlight' = InFlight
    BY <2>1 DEF InFlight
  <2> QED
    BY <2>1, <2>2
<1>19. CASE Reply
  BY <1>4, <1>19 DEF Reply, NextRequest
<1>20. CASE Stop \/ CloseQueue
  BY <1>5, <1>20 DEF Stop, CloseQueue
<1>21. CASE Exit \/ Crash
  BY <1>3, <1>21 DEF Exit, Crash
<1>22. CASE WriteBody
  <2>1. step = "body" /\ step' = "newline" /\ UNCHANGED <<phase, chain, created>>
        /\ WritePiece(created)
    BY <1>22 DEF WriteBody
  <2> QED
    BY <2>1, PlacesStepPiece
<1> QED
  BY <1>6, <1>7, <1>8, <1>9, <1>10, <1>11, <1>12, <1>13, <1>14, <1>16, <1>17, <1>18,
     <1>19, <1>20, <1>21, <1>22, Zenon DEF Next, WriterStep, Shutdown, Boot

\* No step makes a block claim a place behind its own.
LEMMA PlacesStep ==
    ASSUME LedgerInv, PlacesInv, [Next]_vars
    PROVE  PlacesInv'
<1> USE DEF LedgerInv, disk, server, clients
<1>1. CASE Next /\ lines' = lines
  BY <1>1, PlacesStepFileKept
<1>2. CASE WriteBody
  BY <1>2, PlacesStepPiece DEF WriteBody
<1>3. ASSUME WritePiece(Torn), step' \in {"pop", "off"}, phase' # "booting",
             BelowPlace(chain')
      PROVE  PlacesInv'
  <2>1. ~Loadable'
    BY <1>3, WritePieceLoaded
  <2> QED
    BY <1>3, <2>1 DEF PlacesInv
<1>4. CASE (WriteFails \/ Crash) /\ WritePiece(Torn)
  <2>1. CASE WriteFails /\ phase # "booting"
    <3>1. phase' = phase /\ chain' = chain /\ step' = "pop"
      BY <2>1 DEF WriteFails, AppendFails, Throw, NextRequest
    <3>2. BelowPlace(chain')
      BY <3>1 DEF PlacesInv
    <3> QED
      BY <1>3, <1>4, <2>1, <3>1, <3>2
  <2>2. CASE (WriteFails /\ phase = "booting") \/ Crash
    <3>1. phase' = "down" /\ chain' = <<>> /\ step' = "off"
      BY <2>2 DEF WriteFails, AppendFails, Crash, Gone
    <3>2. BelowPlace(chain')
      BY <3>1 DEF BelowPlace
    <3> QED
      BY <1>3, <1>4, <3>1, <3>2
  <2> QED
    BY <1>4, <2>1, <2>2
<1>5. CASE UNCHANGED vars
  <2>1. Loadable' = Loadable /\ Loaded' = Loaded /\ InFlight' = InFlight
    BY <1>5 DEF vars, Loadable, Loaded, InFlight
  <2> QED
    BY <1>5, <2>1 DEF vars, PlacesInv
<1>6. CASE WriteFails \/ Crash
  BY <1>1, <1>4, <1>6 DEF WriteFails, Crash, WriteNothing, Next, WriterStep
<1> QED
  BY <1>1, <1>2, <1>5, <1>6, OnlyWritesWrite

\* The places clients were told lie below the end of the chain, and below that of
\* the block whose client is told next.
GivenPlaces ==
    \A r \in Requests : status[r] = "created" =>
        /\ answer[r].index \in Nat \ {0}
        /\ Running => answer[r].index < Len(chain)
        /\ step \in {"publish", "reply"} => answer[r].index < created.index

\* Where a block that was acknowledged is, there are at least as many places as it claims.
LEMMA BelowEnd ==
    ASSUME NEW c, IsSequence(c), BelowPlace(c), NEW b \in ToSet(c)
    PROVE  b.index < Len(c)
<1>1. PICK i \in DOMAIN c : b = c[i]
  BY DEF ToSet
<1>2. Len(c) \in Nat /\ DOMAIN c = 1..Len(c)
  BY AppendSequence
<1> QED
  BY <1>1, <1>2 DEF BelowPlace

\* The way to the last two steps of an append leads through push.
LEMMA TowardsReply ==
    ASSUME ControlOK, [Next]_vars, step' \in {"publish", "reply"}
    PROVE  \/ step = "push" /\ created' = created /\ phase # "booting" /\ phase # "down"
           \/ step \in {"publish", "reply"} /\ created' = created
<1> USE DEF ControlOK, disk, server, clients
<1>1. CASE Boot \/ Shutdown \/ Stop \/ UNCHANGED vars
  BY <1>1 DEF Boot, BootFresh, BootReload, BootFails, Shutdown, Stop, CloseQueue, Exit,
              Gone, vars
<1>2. CASE \E r \in Requests : Post(r) \/ Push(r)
  BY <1>2 DEF Post, Push
<1>3. CASE Pop \/ PopEnd \/ BuildNext \/ WriteBody \/ WriteNewline
  BY <1>3 DEF Pop, PopEnd, BuildNext, WriteBody, WriteNewline, OncePersisted
<1>4. CASE WriteFails \/ WriteOnBadStream \/ OutOfMemory \/ Reply \/ Crash
  BY <1>4 DEF WriteFails, AppendFails, WriteOnBadStream, OutOfMemory, Reply, Throw,
              NextRequest, Crash, Gone
<1>5. CASE PushPersisted \/ Publish
  BY <1>5 DEF PushPersisted, Publish
<1> QED
  BY <1>1, <1>2, <1>3, <1>4, <1>5 DEF Next, WriterStep

\* Arithmetic.
LEMMA Predecessor ==
    ASSUME NEW n \in Nat, NEW x, x = n - 1, x > 0 PROVE x \in Nat \ {0}
OBVIOUS

\* The next place to be told lies above all that were told.
LEMMA GivenStep ==
    ASSUME LedgerInv, LedgerInv', PlacesInv, PlacesInv', GivenPlaces, [Next]_vars
    PROVE  GivenPlaces'
<1>1. Len(chain) \in Nat /\ Len(chain') \in Nat
  BY AppendSequence DEF LedgerInv, ChainOK
<1>2. SUFFICES ASSUME NEW r \in Requests, status'[r] = "created"
               PROVE  /\ answer'[r].index \in Nat \ {0}
                      /\ Running' => answer'[r].index < Len(chain')
                      /\ step' \in {"publish", "reply"} => answer'[r].index < created'.index
  BY Zenon DEF GivenPlaces
<1>3. Running' => answer'[r].index < Len(chain')
  <2>1. Running' => answer'[r] \in ToSet(chain')
    BY <1>2 DEF LedgerInv, AcknowledgedIsDurable
  <2> QED
    BY <2>1, BelowEnd DEF LedgerInv, ChainOK, PlacesInv
<1>4. CASE status[r] = "created" /\ answer'[r] = answer[r]
  <2>1. answer[r].index \in Nat \ {0} /\ (Running => answer[r].index < Len(chain))
    BY <1>4 DEF GivenPlaces
  <2>2. CASE step' \in {"publish", "reply"}
    <3>1. \/ step = "push" /\ created' = created /\ phase # "booting" /\ phase # "down"
          \/ step \in {"publish", "reply"} /\ created' = created
      BY <2>2, TowardsReply DEF LedgerInv
    <3>2. CASE step = "push" /\ created' = created /\ phase # "booting" /\ phase # "down"
      <4>1. created.index = Len(chain)
        BY <3>2 DEF PlacesInv
      <4> QED
        BY <1>3, <1>4, <2>1, <3>2, <4>1 DEF Running
    <3>3. CASE step \in {"publish", "reply"} /\ created' = created
      BY <1>3, <1>4, <2>1, <3>3 DEF GivenPlaces
    <3> QED
      BY <3>1, <3>2, <3>3
  <2> QED
    BY <1>3, <1>4, <2>1, <2>2
<1>5. CASE step = "reply" /\ r = current /\ answer'[r] = created /\ step' = "pop"
  <2>1. created.index = Len(chain) - 1 /\ created.index > 0
    BY <1>5 DEF PlacesInv
  <2>2. created.index \in Nat \ {0}
    BY <1>1, <2>1, Predecessor
  <2> QED
    BY <1>3, <1>5, <2>2
<1> QED
  BY <1>2, <1>4, <1>5, AcknowledgedBy DEF LedgerInv

\* A new 201 tells a place that no other client was told.
LEMMA DistinctStep ==
    ASSUME LedgerInv, PlacesInv, GivenPlaces, AcknowledgedIndicesDistinct, [Next]_vars
    PROVE  AcknowledgedIndicesDistinct'
<1>1. SUFFICES ASSUME NEW r \in Requests, NEW q \in Requests,
                      status'[r] = "created", status'[q] = "created", r # q
               PROVE  answer'[r].index # answer'[q].index /\ answer'[r].index > 0
  BY Zenon DEF AcknowledgedIndicesDistinct
<1>2. \A p \in Requests : status'[p] = "created" =>
         \/ status[p] = "created" /\ answer'[p] = answer[p]
         \/ step = "reply" /\ p = current /\ answer'[p] = created
  BY AcknowledgedBy DEF LedgerInv
<1>3. \A p \in Requests : status[p] = "created" =>
         /\ answer[p].index \in Nat \ {0}
         /\ step = "reply" => answer[p].index < created.index
  BY DEF GivenPlaces
<1>4. step = "reply" => created.index \in Int /\ created.index > 0
  <2>1. Len(chain) \in Nat
    BY AppendSequence DEF LedgerInv, ChainOK
  <2> QED
    BY <2>1 DEF PlacesInv
<1>5. CASE status[r] = "created" /\ answer'[r] = answer[r]
  <2>1. CASE status[q] = "created" /\ answer'[q] = answer[q]
    BY <1>1, <1>5, <2>1 DEF AcknowledgedIndicesDistinct
  <2>2. CASE step = "reply" /\ q = current /\ answer'[q] = created
    BY <1>3, <1>4, <1>5, <2>2
  <2> QED
    BY <1>1, <1>2, <2>1, <2>2
<1>6. CASE step = "reply" /\ r = current /\ answer'[r] = created
  <2>1. status[q] = "created" /\ answer'[q] = answer[q]
    BY <1>1, <1>2, <1>6
  <2> QED
    BY <1>3, <1>4, <1>6, <2>1
<1> QED
  BY <1>1, <1>2, <1>5, <1>6

\* Whatever fails, and however often the process dies: no two clients are told the
\* same place in the ledger, and none the place of genesis.
THEOREM PlacesGivenOnce == Spec => []AcknowledgedIndicesDistinct
<1>1. Init => PlacesInv /\ GivenPlaces /\ AcknowledgedIndicesDistinct
  <2>1. Init => GivenPlaces /\ AcknowledgedIndicesDistinct
    BY DEF Init, GivenPlaces, AcknowledgedIndicesDistinct
  <2> QED
    BY <2>1, PlacesInit
<1>2. /\ LedgerInv /\ LedgerInv' /\ [Next]_vars
      /\ PlacesInv /\ GivenPlaces /\ AcknowledgedIndicesDistinct
      => PlacesInv' /\ GivenPlaces' /\ AcknowledgedIndicesDistinct'
  BY PlacesStep, GivenStep, DistinctStep
<1> QED
  BY <1>1, <1>2, LedgerInvariant, PTL DEF Spec, SafeSpec
-----------------------------------------------------------------------------
(* The file as a log.  What DurableLog calls the log is what FlattenSeq      *)
(* makes of the lines; here is what a piece more does to that.               *)

\* A set of positions that holds the first, and with each but the last the next, holds
\* the last: those it does not hold have no smallest.
LEMMA EveryPosition ==
    ASSUME NEW L \in Nat, NEW S, 1 \in S,
           \A n \in 1..L : n \in S /\ n + 1 <= L => n + 1 \in S
    PROVE  \A n \in 1..L : n \in S
<1> DEFINE R == OpToRel(<, Nat)
           U == {n \in 1..L : n \notin S}
<1>1. IsWellFoundedOn(R, Nat)
  BY NatLessThanWellFounded, Zenon
<1>2. \A x, y \in Nat : y < x => <<y, x>> \in R
  BY DEF OpToRel
<1> HIDE DEF R
<1>3. SUFFICES ASSUME U # {} PROVE FALSE
  OBVIOUS
<1>4. U \subseteq Nat
  OBVIOUS
<1>5. PICK n \in U : \A m \in U : ~ (<<m, n>> \in R)
  <2> HIDE DEF U
  <2> QED
    BY <1>1, <1>3, <1>4, WFMin, Zenon
<1>6. n \in 1..L /\ n \notin S /\ n # 1
  OBVIOUS
<1>7. n \in Nat /\ n - 1 \in 1..L /\ n - 1 < n /\ (n - 1) + 1 = n /\ n - 1 \in Nat
  BY <1>6
<1>8. n - 1 \notin U
  BY <1>2, <1>5, <1>7
<1>9. n - 1 \in S
  BY <1>7, <1>8
<1> QED
  BY <1>6, <1>7, <1>9

\* FlattenSeq goes through the sequences and joins each to what it has.
LEMMA FlattenLoop ==
    ASSUME NEW T, NEW ss \in Seq(Seq(T)), Len(ss) > 0
    PROVE  \E g : /\ g[1] = ss[1]
                  /\ \A n \in 2..Len(ss) : g[n] = g[n - 1] \o ss[n]
                  /\ \A n \in 1..Len(ss) : g[n] \in Seq(T)
                  /\ FlattenSeq(ss) = g[Len(ss)]
<1> DEFINE L == Len(ss)
           Cat(s, u) == s \o u
           Loop(g, n) == [i \in 1..n |-> IF i = 1 THEN ss[i] ELSE Cat(g[i - 1], ss[i])]
           S == {n \in 1..L : \E g : g = Loop(g, n)}
           G == CHOOSE g : g = Loop(g, L)
<1>1. L \in Nat /\ L > 0 /\ 1 \in 1..L /\ \A i \in 1..L : ss[i] \in Seq(T)
  BY LenProperties, ElementOfSeq
<1>2. FlattenSeq(ss) = G[L]
  BY <1>1 DEF FlattenSeq
<1>3. \A s, u : Cat(s, u) = s \o u
  OBVIOUS
<1> HIDE DEF Cat
<1>4. 1 \in S
  <2>1. PICK g : g = [i \in 1..1 |-> ss[i]]
    OBVIOUS
  <2>2. \A i \in 1..1 : Loop(g, 1)[i] = ss[i]
    OBVIOUS
  <2>3. g = Loop(g, 1)
    BY <2>1, <2>2
  <2> QED
    BY <1>1, <2>3
<1>5. ASSUME NEW n \in 1..L, n \in S, n + 1 <= L PROVE n + 1 \in S
  <2>1. PICK g : g = Loop(g, n)
    BY <1>5
  <2>2. PICK h : h = [i \in 1..(n + 1) |-> IF i = n + 1 THEN Cat(g[n], ss[n + 1]) ELSE g[i]]
    OBVIOUS
  <2>3. n \in Nat /\ n + 1 \in 1..L /\ n + 1 # 1
    BY <1>1, <1>5
  <2>4. h[1] = ss[1]
    BY <2>1, <2>2, <2>3
  <2>5. ASSUME NEW i \in 2..(n + 1) PROVE h[i] = Cat(h[i - 1], ss[i])
    <3>1. i - 1 \in 1..n /\ h[i - 1] = g[i - 1]
      BY <2>2, <2>3
    <3>2. CASE i = n + 1
      BY <2>2, <2>3, <3>1, <3>2
    <3>3. CASE i # n + 1
      <4>1. i \in 1..n /\ i # 1 /\ h[i] = g[i]
        BY <2>2, <2>3, <3>3
      <4> QED
        BY <2>1, <3>1, <4>1
    <3> QED
      BY <3>2, <3>3
  <2>6. h = Loop(h, n + 1)
    <3>1. \A i \in 1..(n + 1) : Loop(h, n + 1)[i] = h[i]
      BY <2>3, <2>4, <2>5
    <3> QED
      BY <2>2, <3>1
  <2> QED
    BY <2>3, <2>6
<1>6. L \in S
  <2>1. L \in 1..L
    BY <1>1
  <2> HIDE DEF S
  <2> QED
    BY <1>1, <1>4, <1>5, <2>1, EveryPosition
<1>7. G = Loop(G, L)
  BY <1>6
<1>8. \A i \in 1..L : G[i] = IF i = 1 THEN ss[i] ELSE Cat(G[i - 1], ss[i])
  <2>1. ASSUME NEW g, g = Loop(G, L), NEW i \in 1..L
        PROVE  g[i] = IF i = 1 THEN ss[i] ELSE Cat(G[i - 1], ss[i])
    <3> HIDE DEF G
    <3> QED
      BY <2>1
  <2>2. PICK g : g = G
    OBVIOUS
  <2> HIDE DEF G
  <2> QED
    BY <1>7, <2>1, <2>2
<1> HIDE DEF G
<1>9. G[1] = ss[1] /\ \A n \in 2..L : G[n] = G[n - 1] \o ss[n]
  <2>1. 1 \in 1..L /\ \A n \in 2..L : n \in 1..L /\ n # 1
    BY <1>1
  <2> QED
    BY <1>8, <1>3, <2>1
<1>10. \A n \in 1..L : G[n] \in Seq(T)
  <2> DEFINE P == {n \in 1..L : G[n] \in Seq(T)}
  <2>1. 1 \in P
    BY <1>1, <1>9
  <2>2. ASSUME NEW n \in 1..L, n \in P, n + 1 <= L PROVE n + 1 \in P
    <3>1. n + 1 \in 1..L /\ n + 1 \in 2..L /\ (n + 1) - 1 = n
      BY <1>1, <2>2
    <3>2. G[n] \in Seq(T) /\ ss[n + 1] \in Seq(T)
      BY <1>1, <2>2, <3>1
    <3>3. G[n + 1] = G[n] \o ss[n + 1]
      BY <1>9, <3>1
    <3>4. G[n + 1] \in Seq(T)
      BY <3>2, <3>3, ConcatProperties
    <3> QED
      BY <3>1, <3>4
  <2>3. \A n \in 1..L : n \in P
    <3> HIDE DEF P
    <3> QED
      BY <1>1, <2>1, <2>2, EveryPosition
  <2> QED
    BY <2>3
<1> QED
  BY <1>2, <1>9, <1>10

\* Nothing flattens to nothing, and a sequence more is joined at the end.
LEMMA FlattenNone == FlattenSeq(<<>>) = <<>>
BY DEF FlattenSeq

LEMMA FlattenAppend ==
    ASSUME NEW T, NEW ss \in Seq(Seq(T)), NEW s \in Seq(T)
    PROVE  /\ FlattenSeq(ss) \in Seq(T)
           /\ FlattenSeq(Append(ss, s)) = FlattenSeq(ss) \o s
<1> DEFINE L == Len(ss)
           tt == Append(ss, s)
<1>1. /\ L \in Nat /\ tt \in Seq(Seq(T)) /\ Len(tt) = L + 1 /\ tt[L + 1] = s
      /\ \A i \in 1..L : tt[i] = ss[i]
  OBVIOUS
<1> HIDE DEF tt
<1>2. PICK h : /\ h[1] = tt[1]
               /\ \A n \in 2..(L + 1) : h[n] = h[n - 1] \o tt[n]
               /\ FlattenSeq(tt) = h[L + 1]
  <2>1. Len(tt) > 0 /\ tt \in Seq(Seq(T))
    BY <1>1
  <2>2. PICK h : /\ h[1] = tt[1]
                 /\ \A n \in 2..Len(tt) : h[n] = h[n - 1] \o tt[n]
                 /\ FlattenSeq(tt) = h[Len(tt)]
    BY <2>1, FlattenLoop, Zenon
  <2>3. Len(tt) = L + 1
    BY <1>1
  <2>4. 2..Len(tt) = 2..(L + 1) /\ h[Len(tt)] = h[L + 1]
    BY <2>3, Zenon
  <2>5. \A n \in 2..(L + 1) : h[n] = h[n - 1] \o tt[n]
    BY <2>2, <2>4, Zenon
  <2>6. FlattenSeq(tt) = h[L + 1]
    BY <2>2, <2>4, Zenon
  <2> QED
    BY <2>2, <2>5, <2>6, Zenon
<1>3. CASE L = 0
  <2>1. ss = <<>>
    BY <1>3, EmptySeq
  <2>2. FlattenSeq(tt) = s
    BY <1>1, <1>2, <1>3
  <2>3. <<>> \o s = s /\ <<>> \in Seq(T)
    BY ConcatEmptySeq
  <2> QED
    BY <2>1, <2>2, <2>3, FlattenNone DEF tt
<1>4. CASE L > 0
  <2>1. PICK g : /\ g[1] = ss[1]
                 /\ \A n \in 2..L : g[n] = g[n - 1] \o ss[n]
                 /\ \A n \in 1..L : g[n] \in Seq(T)
                 /\ FlattenSeq(ss) = g[L]
    BY <1>1, <1>4, FlattenLoop
  <2> DEFINE S == {n \in 1..L : h[n] = g[n]}
  <2>2. 1 \in S
    BY <1>1, <1>2, <1>4, <2>1
  <2>3. ASSUME NEW n \in 1..L, n \in S, n + 1 <= L PROVE n + 1 \in S
    <3>1. n + 1 \in 2..L /\ n + 1 \in 2..(L + 1) /\ n + 1 \in 1..L /\ (n + 1) - 1 = n
      BY <1>1, <2>3
    <3>2. h[n + 1] = h[n] \o tt[n + 1] /\ g[n + 1] = g[n] \o ss[n + 1]
      BY <1>2, <2>1, <3>1
    <3>3. h[n] = g[n] /\ tt[n + 1] = ss[n + 1]
      BY <1>1, <2>3, <3>1
    <3> QED
      BY <3>1, <3>2, <3>3
  <2>4. \A n \in 1..L : n \in S
    <3> HIDE DEF S
    <3> QED
      BY <1>1, <2>2, <2>3, EveryPosition
  <2>5. L \in 1..L /\ L + 1 \in 2..(L + 1) /\ (L + 1) - 1 = L
    BY <1>1, <1>4
  <2>6. h[L] = g[L]
    BY <2>4, <2>5
  <2>7. h[L + 1] = h[L] \o tt[L + 1]
    BY <1>2, <2>5
  <2> QED
    BY <1>1, <1>2, <2>1, <2>5, <2>6, <2>7 DEF tt
<1> QED
  BY <1>1, <1>3, <1>4
\* What a piece adds to the entries.
Bit(p) == IF p = Torn THEN <<>> ELSE <<p>>

\* The entries of a file, which are those of its lines, which are those of their pieces.
EntriesOf(ls) == FlattenSeq([i \in DOMAIN ls |-> Whole(ls[i])])

LEMMA BitIsSequence == ASSUME NEW T, NEW p \in T PROVE Bit(p) \in Seq(T)
BY DEF Bit

\* Two sequences, one of which has one element more at its end.
LEMMA OneMore ==
    ASSUME NEW U, NEW n \in Nat, NEW s \in [1..n -> U], NEW t \in [1..(n + 1) -> U],
           \A i \in 1..n : t[i] = s[i]
    PROVE  s \in Seq(U) /\ t = Append(s, t[n + 1])
<1>1. s \in Seq(U) /\ Len(s) = n
  BY IsASeq
<1>2. t \in Seq(U) /\ Len(t) = n + 1
  BY IsASeq
<1>3. t[n + 1] \in U
  OBVIOUS
<1> QED
  BY <1>1, <1>2, <1>3, AppendProperties, SeqEqual

\* A line's entries, and what a piece more adds to them.
LEMMA WholeIsSequence == ASSUME NEW T, NEW line \in Seq(T) PROVE Whole(line) \in Seq(T)
<1> DEFINE n == Len(line)
           s == [i \in 1..n |-> Bit(line[i])]
<1>1. n \in Nat /\ DOMAIN line = 1..n /\ \A i \in 1..n : line[i] \in T
  BY LenProperties, ElementOfSeq
<1>2. Whole(line) = FlattenSeq(s)
  BY <1>1 DEF Whole, Bit
<1> HIDE DEF n
<1>3. s \in [1..n -> Seq(T)]
  BY <1>1, BitIsSequence
<1> HIDE DEF s
<1>4. s \in Seq(Seq(T)) /\ <<>> \in Seq(T)
  BY <1>1, <1>3, IsASeq, EmptySeq
<1> QED
  BY <1>2, <1>4, FlattenAppend

LEMMA WholeAppend ==
    ASSUME NEW T, NEW line \in Seq(T), NEW p \in T
    PROVE  Whole(Append(line, p)) = Whole(line) \o Bit(p)
<1> DEFINE n == Len(line)
           long == Append(line, p)
           s == [i \in 1..n |-> Bit(line[i])]
           t == [i \in 1..(n + 1) |-> Bit(long[i])]
<1>1. /\ n \in Nat /\ DOMAIN line = 1..n /\ DOMAIN long = 1..(n + 1)
      /\ \A i \in 1..n : long[i] = line[i] /\ line[i] \in T
      /\ long[n + 1] = p
  BY LenProperties, ElementOfSeq, AppendProperties
<1>2. Whole(line) = FlattenSeq(s) /\ Whole(long) = FlattenSeq(t)
  BY <1>1 DEF Whole, Bit
<1> HIDE DEF n, long
<1>3. s \in [1..n -> Seq(T)] /\ t \in [1..(n + 1) -> Seq(T)]
  <2>1. \A i \in 1..(n + 1) : long[i] \in T
    BY <1>1
  <2> QED
    BY <1>1, <2>1, BitIsSequence
<1>4. (\A i \in 1..n : t[i] = s[i]) /\ t[n + 1] = Bit(p)
  BY <1>1
<1> HIDE DEF s, t
<1>5. s \in Seq(Seq(T)) /\ t = Append(s, Bit(p))
  BY <1>1, <1>3, <1>4, OneMore
<1>6. Whole(long) = Whole(line) \o Bit(p)
  BY <1>2, <1>5, FlattenAppend, BitIsSequence
<1> QED
  BY <1>6 DEF long

\* A file's entries, and what a line more adds to them.
LEMMA EntriesAppend ==
    ASSUME NEW T, NEW ls \in Seq(Seq(T)), NEW line \in Seq(T)
    PROVE  /\ EntriesOf(ls) \in Seq(T)
           /\ EntriesOf(Append(ls, line)) = EntriesOf(ls) \o Whole(line)
<1> DEFINE n == Len(ls)
           long == Append(ls, line)
           s == [i \in 1..n |-> Whole(ls[i])]
           t == [i \in 1..(n + 1) |-> Whole(long[i])]
<1>1. /\ n \in Nat /\ DOMAIN ls = 1..n /\ DOMAIN long = 1..(n + 1)
      /\ \A i \in 1..n : long[i] = ls[i] /\ ls[i] \in Seq(T)
      /\ long[n + 1] = line
  BY LenProperties, ElementOfSeq, AppendProperties
<1>2. EntriesOf(ls) = FlattenSeq(s) /\ EntriesOf(long) = FlattenSeq(t)
  BY <1>1 DEF EntriesOf
<1> HIDE DEF n, long
<1>3. s \in [1..n -> Seq(T)] /\ t \in [1..(n + 1) -> Seq(T)]
  <2>1. \A i \in 1..(n + 1) : long[i] \in Seq(T)
    BY <1>1
  <2>2. \A l \in Seq(T) : Whole(l) \in Seq(T)
    BY WholeIsSequence
  <2> QED
    BY <1>1, <2>1, <2>2
<1>4. (\A i \in 1..n : t[i] = s[i]) /\ t[n + 1] = Whole(line)
  BY <1>1
<1> HIDE DEF s, t
<1>5. s \in Seq(Seq(T)) /\ t = Append(s, Whole(line)) /\ Whole(line) \in Seq(T)
  BY <1>1, <1>3, <1>4, OneMore, WholeIsSequence
<1>6. EntriesOf(ls) \in Seq(T) /\ EntriesOf(long) = EntriesOf(ls) \o Whole(line)
  BY <1>2, <1>5, FlattenAppend
<1> QED
  BY <1>6 DEF long

\* What a piece written behind the last line's pieces adds to a file's entries.
LEMMA EntriesLonger ==
    ASSUME NEW T, NEW ls \in Seq(Seq(T)), Len(ls) > 0, NEW p \in T
    PROVE  EntriesOf([ls EXCEPT ![Len(ls)] = Append(@, p)]) = EntriesOf(ls) \o Bit(p)
<1> DEFINE n == Len(ls)
           last == ls[n]
           more == Append(last, p)
           front == [i \in 1..(n - 1) |-> ls[i]]
           long == [ls EXCEPT ![n] = more]
<1>1. n \in Nat /\ n - 1 \in Nat /\ (n - 1) + 1 = n /\ n \in 1..n /\ DOMAIN ls = 1..n
  BY LenProperties
<1>2. ls \in [1..n -> Seq(T)] /\ last \in Seq(T) /\ more \in Seq(T)
  BY <1>1, LenProperties, AppendProperties
<1> HIDE DEF last, more, n
<1>3. long \in [1..n -> Seq(T)] /\ long[n] = more
  BY <1>1, <1>2
<1>4. front \in [1..(n - 1) -> Seq(T)] /\ \A i \in 1..(n - 1) : i \in 1..n /\ i # n
  BY <1>1, <1>2
<1>5. \A i \in 1..(n - 1) : ls[i] = front[i] /\ long[i] = front[i]
  BY <1>1, <1>2, <1>4
<1> HIDE DEF front, long
<1>6. front \in Seq(Seq(T)) /\ ls = Append(front, last)
  <2>1. ls \in [1..((n - 1) + 1) -> Seq(T)] /\ ls[(n - 1) + 1] = last
    BY <1>1, <1>2 DEF last
  <2> QED
    BY <1>1, <1>4, <1>5, <2>1, OneMore
<1>7. long = Append(front, more)
  <2>1. long \in [1..((n - 1) + 1) -> Seq(T)] /\ long[(n - 1) + 1] = more
    BY <1>1, <1>3
  <2> QED
    BY <1>1, <1>4, <1>5, <2>1, OneMore
<1>8. /\ EntriesOf(front) \in Seq(T)
      /\ EntriesOf(ls) = EntriesOf(front) \o Whole(last)
      /\ EntriesOf(long) = EntriesOf(front) \o Whole(more)
  BY <1>2, <1>6, <1>7, EntriesAppend
<1>9. Whole(more) = Whole(last) \o Bit(p) /\ Whole(last) \in Seq(T) /\ Bit(p) \in Seq(T)
  BY <1>2, WholeAppend, WholeIsSequence, BitIsSequence DEF more
<1>10. (EntriesOf(front) \o Whole(last)) \o Bit(p) = EntriesOf(front) \o (Whole(last) \o Bit(p))
  <2>1. \A s, t, u \in Seq(T) : (s \o t) \o u = s \o (t \o u)
    BY ConcatAssociative, SMTT(60)
  <2> QED
    BY <1>8, <1>9, <2>1, Zenon
<1>11. EntriesOf(long) = EntriesOf(ls) \o Bit(p)
  BY <1>8, <1>9, <1>10, Zenon
<1> QED
  BY <1>11 DEF long, more, last, n

\* The lines of a file as FlattenSeq takes them.
LEMMA LinesOfPieces ==
    ASSUME FileOK, NEW T, Written \subseteq T
    PROVE  lines \in Seq(Seq(T))
<1>1. /\ Len(lines) \in Nat /\ DOMAIN lines = 1..Len(lines)
      /\ lines \in [1..Len(lines) -> ToSet(lines)]
  BY AppendSequence, LenProperties DEF FileOK, IsSequence
<1>2. \A i \in 1..Len(lines) : lines[i] \in Seq(T)
  <2> SUFFICES ASSUME NEW i \in 1..Len(lines) PROVE lines[i] \in Seq(T)
    OBVIOUS
  <2>1. lines[i] \in Seq(ToSet(lines[i]))
    BY DEF FileOK, IsSequence
  <2>2. ToSet(lines[i]) \subseteq T
    BY <1>1 DEF Written
  <2> QED
    BY <2>1, <2>2, SeqMonotonic
<1> HIDE DEF FileOK
<1>3. lines \in [1..Len(lines) -> Seq(T)]
  BY <1>1, <1>2
<1> QED
  BY <1>1, <1>3, IsASeq

\* The entries of a file that is one.
LEMMA EntriesSequence == ASSUME FileOK PROVE IsSequence(Entries)
<1>1. lines \in Seq(Seq(Written))
  BY LinesOfPieces
<1>2. Entries = EntriesOf(lines) /\ <<>> \in Seq(Written)
  BY EmptySeq DEF Entries, EntriesOf
<1>3. Entries \in Seq(Written)
  BY <1>1, <1>2, EntriesAppend
<1>4. Entries \in [1..Len(Entries) -> ToSet(Entries)] /\ Len(Entries) \in Nat
  BY <1>3, LenProperties DEF ToSet
<1> QED
  BY <1>4, IsASeq DEF IsSequence

\* A block that is written is the last entry from then on, and part of one is none.
LEMMA EntriesStep ==
    ASSUME FileOK, NEW p, WritePiece(p)
    PROVE  /\ p = Torn => Entries' = Entries
           /\ p # Torn => Entries' = Append(Entries, p)
<1> DEFINE T == Written \cup {p}
<1>1. lines \in Seq(Seq(T)) /\ p \in T
  BY LinesOfPieces
<1>2. Entries = EntriesOf(lines) /\ Entries' = EntriesOf(lines')
  BY DEF Entries, EntriesOf
<1> HIDE DEF T
<1>3. Entries' = Entries \o Bit(p)
  <2>1. CASE open
    <3>1. Len(lines) > 0 /\ lines' = [lines EXCEPT ![Len(lines)] = Append(@, p)]
      BY <2>1 DEF FileOK, WritePiece
    <3> QED
      BY <1>1, <1>2, <3>1, EntriesLonger
  <2>2. CASE ~open
    <3>1. lines' = Append(lines, <<p>>)
      BY <2>2 DEF WritePiece
    <3>2. <<>> \in Seq(T) /\ Append(<<>>, p) = <<p>> /\ <<p>> \in Seq(T)
      BY <1>1
    <3>3. Whole(<<p>>) = Whole(<<>>) \o Bit(p)
      BY <1>1, <3>2, WholeAppend
    <3>4. Whole(<<>>) = <<>>
      <4>1. [i \in DOMAIN <<>> |-> IF <<>>[i] = Torn THEN <<>> ELSE <<<<>>[i]>>] = <<>>
        OBVIOUS
      <4> QED
        BY <4>1, FlattenNone DEF Whole
    <3>5. Whole(<<p>>) = Bit(p)
      BY <1>1, <3>3, <3>4, BitIsSequence, ConcatEmptySeq
    <3> QED
      BY <1>1, <1>2, <3>1, <3>2, <3>5, EntriesAppend
  <2> QED
    BY <2>1, <2>2
<1>4. Entries \in Seq(T)
  <2>1. <<>> \in Seq(T)
    BY EmptySeq
  <2> QED
    BY <1>1, <1>2, <2>1, EntriesAppend
<1>5. p = Torn => Entries \o Bit(p) = Entries
  BY <1>4, ConcatEmptySeq DEF Bit
<1>6. p # Torn => Entries \o Bit(p) = Append(Entries, p)
  BY <1>1, <1>4, AppendIsConcat DEF Bit
<1> QED
  BY <1>3, <1>5, <1>6

\* A step that leaves the file alone leaves the log alone.
LEMMA SameEntries == ASSUME lines' = lines PROVE Entries' = Entries
BY DEF Entries

\* The empty file.
LEMMA NoEntries == ASSUME lines = <<>> PROVE Entries = <<>>
<1>1. [i \in DOMAIN <<>> |-> Whole(<<>>[i])] = <<>>
  OBVIOUS
<1> QED
  BY <1>1, FlattenNone DEF Entries
-----------------------------------------------------------------------------
(* Ledger implements DurableLog: every step of the ledger is a step of the   *)
(* log or none.  That takes an invariant which says where a request is while *)
(* it is on its way into the log, and that it cannot get there again.        *)

\* The writer has a request in hand.
Busy == phase # "booting" /\ step \in {"build"} \cup Appending

\* It has not written that request's block yet.
Unwritten == step \in {"build", "body"}

\* The requests that have an entry in the log, and genesis when it has.
Logged == {e.event : e \in ToSet(Entries)}

\* Genesis is what a boot writes, to a file it found empty; nobody serves without it.
LogStarted ==
    /\ phase = "booting" => created.event = GenesisEvent
    /\ phase = "booting" /\ step = "body" => lines = <<>>
    /\ phase # "down" /\ ~(phase = "booting" /\ step = "body") => Entries # <<>>
    /\ Loadable /\ lines # <<>> => Entries # <<>>

\* A request is in one place at a time: one place in the queue, or the writer's hand.
\* There its client waits.
InOnePlace ==
    /\ \A i, j \in 1..Len(queue) : queue[i] = queue[j] => i = j
    /\ \A i \in 1..Len(queue) : status[queue[i]] = "waiting"
    /\ Busy => status[current] = "waiting" /\ \A i \in 1..Len(queue) : queue[i] # current

\* What is in the log has been through the queue and will not be written again.
NotAgain ==
    /\ Busy /\ ~Unwritten => current \in Logged
    /\ \A r \in Requests \cap Logged :
          /\ status[r] \notin {"new", "pushing"}
          /\ \A i \in 1..Len(queue) : queue[i] # r
          /\ Busy /\ Unwritten => current # r

LogInv == LogStarted /\ InOnePlace /\ NotAgain
\* The block in hand is one, and not a torn piece.
LEMMA WrittenWhole ==
    ASSUME ControlOK, BlocksOK, step \in Appending PROVE created # Torn
<1>1. DOMAIN created = {"index", "timestamp", "event", "prev_hash", "hash"}
  BY DEF BlocksOK, IsBlock
<1>2. DOMAIN Torn = {"torn"}
  BY DEF Torn
<1> QED
  BY <1>1, <1>2

\* What the block in hand does to the log when it is written.
LEMMA LogGrows ==
    ASSUME LedgerInv, BlocksOK, WriteBody
    PROVE  /\ Entries' = Append(Entries, created) /\ IsSequence(Entries) /\ Entries' # <<>>
           /\ Logged' = Logged \cup {created.event}
<1>1. WritePiece(created) /\ FileOK /\ created # Torn
  BY WrittenWhole DEF WriteBody, LedgerInv, Appending
<1>2. Entries' = Append(Entries, created) /\ IsSequence(Entries)
  BY <1>1, EntriesStep, EntriesSequence
<1>3. ToSet(Entries') = ToSet(Entries) \cup {created} /\ Len(Entries') = Len(Entries) + 1
      /\ Len(Entries) \in Nat
  BY <1>2, AppendSequence
<1>4. Entries' # <<>>
  BY <1>3, EmptySequence
<1>5. Logged' = Logged \cup {created.event}
  <2>1. Logged' = {e.event : e \in ToSet(Entries')}
    BY DEF Logged
  <2> QED
    BY <1>3, <2>1 DEF Logged
<1> QED
  BY <1>2, <1>4, <1>5

\* No other step does anything to the log, though a torn piece may spoil the file.
LEMMA LogKept ==
    ASSUME LedgerInv, [Next]_vars, ~WriteBody
    PROVE  /\ Entries' = Entries /\ Logged' = Logged
           /\ lines' = lines \/ ~Loadable'
<1>1. CASE lines' = lines
  <2>1. Entries' = Entries
    BY <1>1, SameEntries
  <2>2. Logged' = {e.event : e \in ToSet(Entries')}
    BY DEF Logged
  <2> QED
    BY <1>1, <2>1, <2>2 DEF Logged
<1>2. CASE WritePiece(Torn)
  <2>1. FileOK
    BY DEF LedgerInv
  <2>2. Entries' = Entries
    BY <1>2, <2>1, EntriesStep
  <2>3. ~Loadable'
    BY <1>2, <2>1, WritePieceLoaded
  <2>4. Logged' = {e.event : e \in ToSet(Entries')}
    BY DEF Logged
  <2> QED
    BY <2>2, <2>3, <2>4 DEF Logged
<1>3. CASE (WriteFails \/ Crash) /\ lines' # lines
  BY <1>2, <1>3 DEF WriteFails, Crash, WriteNothing, disk
<1>4. CASE UNCHANGED vars
  BY <1>1, <1>4 DEF vars, disk
<1> QED
  BY <1>1, <1>3, <1>4, OnlyWritesWrite

\* Genesis is the first entry of every log, and it is in before a process serves.
LEMMA LogStartedStep ==
    ASSUME LedgerInv, BlocksOK, LogStarted, [Next]_vars
    PROVE  LogStarted'
<1> USE DEF LedgerInv, ControlOK, disk, server, clients
<1>1. CASE WriteBody
  <2>1. Entries' # <<>>
    BY <1>1, LogGrows
  <2> QED
    BY <1>1, <2>1 DEF WriteBody, LogStarted
<1> SUFFICES ASSUME ~WriteBody PROVE LogStarted'
  BY <1>1
<1>2. Entries' = Entries /\ (Loadable' => lines' = lines /\ Loadable)
  <2>1. lines' = lines => Loadable' = Loadable
    BY DEF Loadable
  <2> QED
    BY <2>1, LogKept
<1>3. Loadable' /\ lines' # <<>> => Entries' # <<>>
  BY <1>2 DEF LogStarted
<1>4. CASE BootFresh
  <2>1. /\ phase' = "booting" /\ step' = "body" /\ lines' = <<>>
        /\ \E ts \in Timestamps : created' = genesis(ts)
    BY <1>4 DEF BootFresh
  <2>2. created'.event = GenesisEvent
    BY <2>1 DEF genesis, make_block
  <2> QED
    BY <1>3, <2>1, <2>2 DEF LogStarted
<1>5. CASE BootReload
  <2>1. phase' = "up" /\ lines # <<>> /\ Loadable
    BY <1>5 DEF BootReload
  <2> QED
    BY <1>2, <1>3, <2>1 DEF LogStarted
<1>6. ASSUME phase' = "down" PROVE LogStarted'
  BY <1>3, <1>6 DEF LogStarted
<1>7. ASSUME phase # "down", phase' \notin {"booting", "down"}, phase = "booting" => step # "body"
      PROVE  LogStarted'
  BY <1>2, <1>3, <1>7 DEF LogStarted
<1>8. ASSUME phase = "booting", UNCHANGED <<phase, step, created, lines>> PROVE LogStarted'
  BY <1>2, <1>3, <1>8 DEF LogStarted
<1>9. CASE BootFails \/ UNCHANGED vars
  <2>1. UNCHANGED <<phase, step, created, lines>>
    BY <1>9 DEF BootFails, vars
  <2> QED
    BY <1>2, <1>3, <2>1 DEF LogStarted
<1>10. CASE \E r \in Requests : Post(r) \/ Push(r)
  <2>1. UNCHANGED <<phase, step, created, lines>>
    BY <1>10 DEF Post, Push
  <2> QED
    BY <1>2, <1>3, <2>1 DEF LogStarted
<1>11. CASE Pop \/ PopEnd \/ BuildNext \/ PushPersisted \/ Publish \/ Reply
  <2>1. phase' = phase /\ phase \notin {"down", "booting"}
    BY <1>11 DEF Pop, PopEnd, BuildNext, PushPersisted, Publish, Reply
  <2> QED
    BY <1>7, <2>1
<1>12. CASE WriteNewline
  <2>1. step = "newline" /\ phase # "down" /\ phase' \notin {"booting", "down"}
    <3>1. step = "newline" /\ (IF phase = "booting" THEN phase' = "up" ELSE phase' = phase)
      BY <1>12 DEF WriteNewline
    <3> QED
      BY <3>1
  <2> QED
    BY <1>7, <2>1
<1>13. CASE WriteFails /\ phase = "booting"
  BY <1>6, <1>13 DEF WriteFails, AppendFails, Gone
<1>14. CASE WriteFails /\ phase # "booting"
  <2>1. phase' = phase /\ phase # "down"
    BY <1>14 DEF WriteFails, AppendFails
  <2> QED
    BY <1>7, <1>14, <2>1
<1>15. CASE WriteOnBadStream \/ OutOfMemory
  <2>1. phase' = phase /\ phase \notin {"down", "booting"}
    BY <1>15 DEF WriteOnBadStream, OutOfMemory
  <2> QED
    BY <1>7, <2>1
<1>16. CASE Stop \/ CloseQueue
  BY <1>7, <1>16 DEF Stop, CloseQueue
<1>17. CASE Exit \/ Crash
  BY <1>6, <1>17 DEF Exit, Crash, Gone
<1> QED
  BY <1>4, <1>5, <1>9, <1>10, <1>11, <1>12, <1>13, <1>14, <1>15, <1>16, <1>17, Zenon
  DEF Next, Boot, WriterStep, Shutdown
\* The writer answers the client it works for, and is done with it.
LetsGo(s) ==
    /\ Busy /\ ~Busy'
    /\ queue' = queue
    /\ status' = [status EXCEPT ![current] = s]

\* What the steps do to requests, by what they do to the queue and to the one in hand:
\* most leave both alone, and some let go of the one in hand.
LEMMA MostSteps ==
    ASSUME LedgerInv, [Next]_vars, ~Pop, \A r \in Requests : ~Post(r) /\ ~Push(r)
    PROVE  \/ /\ UNCHANGED <<queue, status>>
              /\ Busy' => /\ Busy /\ current' = current
                          /\ WriteBody \/ (Unwritten' <=> Unwritten)
           \/ /\ queue' = <<>> /\ ~Busy' /\ ~Running'
              /\ \A r \in Requests : \/ status'[r] = status[r]
                                     \/ status[r] \in Pending /\ status'[r] = "lost"
           \/ LetsGo("failed")
           \/ LetsGo("created") /\ ~Unwritten
<1> USE DEF LedgerInv, ControlOK, ClientsOK, Busy, Unwritten, LetsGo, Appending, Running,
            disk, server, clients
<1>1. ASSUME Gone, UNCHANGED status
      PROVE  queue' = <<>> /\ ~Busy' /\ ~Running' /\ UNCHANGED status
  BY <1>1 DEF Gone
<1>2. ASSUME Throw, UNCHANGED queue, Busy
      PROVE  LetsGo("failed")
  BY <1>2 DEF Throw, NextRequest
<1>3. CASE Boot
  BY <1>3 DEF Boot, BootFresh, BootReload, BootFails, vars
<1>4. CASE PopEnd \/ BuildNext \/ WriteBody
  BY <1>4 DEF PopEnd, BuildNext, WriteBody
<1>5. CASE WriteNewline
  <2>1. CASE phase = "booting"
    BY <1>5, <2>1 DEF WriteNewline
  <2>2. CASE phase # "booting"
    BY <1>5, <2>2 DEF WriteNewline, OncePersisted
  <2> QED
    BY <2>1, <2>2
<1>6. CASE WriteFails
  <2>1. CASE phase = "booting"
    BY <1>1, <1>6, <2>1 DEF WriteFails, AppendFails
  <2>2. CASE phase # "booting"
    <3>1. Throw /\ UNCHANGED queue /\ Busy
      BY <1>6, <2>2 DEF WriteFails, AppendFails
    <3> QED
      BY <1>2, <3>1
  <2> QED
    BY <2>1, <2>2
<1>7. CASE WriteOnBadStream \/ OutOfMemory
  <2>1. Throw /\ UNCHANGED queue /\ Busy
    BY <1>7 DEF WriteOnBadStream, OutOfMemory
  <2> QED
    BY <1>2, <2>1
<1>8. CASE PushPersisted \/ Publish
  BY <1>8 DEF PushPersisted, Publish
<1>9. CASE Reply
  BY <1>9 DEF Reply, NextRequest
<1>10. CASE Stop \/ CloseQueue
  BY <1>10 DEF Stop, CloseQueue
<1>11. CASE Exit
  BY <1>1, <1>11 DEF Exit
<1>12. CASE Crash
  <2>1. queue' = <<>> /\ ~Busy' /\ ~Running'
    BY <1>12 DEF Crash, Gone
  <2>2. \A r \in Requests : \/ status'[r] = status[r]
                            \/ status[r] \in Pending /\ status'[r] = "lost"
    BY <1>12 DEF Crash
  <2> QED
    BY <2>1, <2>2
<1>13. CASE UNCHANGED vars
  BY <1>13 DEF vars
<1> QED
  BY <1>3, <1>4, <1>5, <1>6, <1>7, <1>8, <1>9, <1>10, <1>11, <1>12, <1>13, Zenon
  DEF Next, WriterStep, Shutdown

\* A request is put into the queue once, and taken out of it by the writer.
LEMMA InOnePlaceStep ==
    ASSUME LedgerInv, InOnePlace, [Next]_vars
    PROVE  InOnePlace'
<1> USE DEF LedgerInv, ClientsOK
<1>1. /\ queue \in Seq(Requests) /\ Len(queue) \in Nat
      /\ \A i \in 1..Len(queue) : queue[i] \in Requests
  BY LenProperties, ElementOfSeq
<1>2. ASSUME NEW r \in Requests, Push(r) PROVE InOnePlace'
  <2>1. status[r] = "pushing" /\ UNCHANGED <<phase, step, current>>
    BY <1>2 DEF Push
  <2>2. Busy' = Busy
    BY <2>1 DEF Busy
  <2>3. CASE closed
    <3>1. queue' = queue /\ status' = [status EXCEPT ![r] = "refused"]
      BY <1>2, <2>3 DEF Push
    <3> QED
      BY <1>1, <2>1, <2>2, <3>1 DEF InOnePlace
  <2>4. CASE ~closed
    <3>1. queue' = Append(queue, r) /\ status' = [status EXCEPT ![r] = "waiting"]
      BY <1>2, <2>4 DEF Push
    <3>2. /\ Len(queue') = Len(queue) + 1 /\ queue'[Len(queue) + 1] = r
          /\ \A i \in 1..Len(queue) : queue'[i] = queue[i] /\ queue[i] # r
      BY <1>1, <2>1, <3>1, AppendProperties DEF InOnePlace
    <3>3. \A i \in 1..(Len(queue) + 1) : i \in 1..Len(queue) \/ i = Len(queue) + 1
      BY <1>1
    <3>4. \A i, j \in 1..Len(queue') : queue'[i] = queue'[j] => i = j
      BY <3>2, <3>3 DEF InOnePlace
    <3>5. \A i \in 1..Len(queue') : status'[queue'[i]] = "waiting"
      BY <1>1, <3>1, <3>2, <3>3 DEF InOnePlace
    <3>6. ASSUME Busy
          PROVE  status'[current] = "waiting" /\ \A i \in 1..Len(queue') : queue'[i] # current
      <4>1. current # r /\ status[current] = "waiting"
        BY <2>1, <3>6 DEF InOnePlace
      <4> QED
        BY <3>1, <3>2, <3>3, <3>6, <4>1 DEF InOnePlace
    <3> QED
      BY <2>1, <2>2, <3>4, <3>5, <3>6 DEF InOnePlace
  <2> QED
    BY <2>3, <2>4
<1>3. ASSUME NEW r \in Requests, Post(r) PROVE InOnePlace'
  <2>1. /\ status[r] = "new" /\ UNCHANGED <<phase, step, current, queue>>
        /\ \E s \in {"pushing", "rejected"} : status' = [status EXCEPT ![r] = s]
    BY <1>3 DEF Post, server
  <2>2. Busy' = Busy
    BY <2>1 DEF Busy
  <2> QED
    BY <1>1, <2>1, <2>2 DEF InOnePlace
<1>4. CASE Pop
  <2>1. /\ queue # <<>> /\ queue' = Tail(queue) /\ current' = Head(queue)
        /\ status' = status
    BY <1>4 DEF Pop, clients
  <2>2. /\ Len(queue) > 0 /\ Len(queue') = Len(queue) - 1 /\ current' = queue[1]
        /\ \A i \in 1..Len(queue') : i + 1 \in 1..Len(queue) /\ queue'[i] = queue[i + 1]
                                     /\ i + 1 # 1
    BY <1>1, <2>1, EmptySeq, HeadTailProperties
  <2>3. status'[current'] = "waiting" /\ \A i \in 1..Len(queue') : queue'[i] # current'
    BY <1>1, <2>1, <2>2 DEF InOnePlace
  <2>4. \A i \in 1..Len(queue') : status'[queue'[i]] = "waiting"
    BY <2>1, <2>2 DEF InOnePlace
  <2>5. \A i, j \in 1..Len(queue') : queue'[i] = queue'[j] => i = j
    <3> SUFFICES ASSUME NEW i \in 1..Len(queue'), NEW j \in 1..Len(queue'),
                        queue'[i] = queue'[j]
                 PROVE  i = j
      OBVIOUS
    <3>1. i + 1 = j + 1
      BY <2>2 DEF InOnePlace
    <3> QED
      BY <1>1, <3>1
  <2> QED
    BY <2>3, <2>4, <2>5 DEF InOnePlace
<1>5. CASE /\ UNCHANGED <<queue, status>>
           /\ Busy' => Busy /\ current' = current
  BY <1>5 DEF InOnePlace
<1>6. CASE queue' = <<>> /\ ~Busy'
  BY <1>6 DEF InOnePlace
<1>7. CASE LetsGo("failed") \/ LetsGo("created")
  BY <1>1, <1>7 DEF InOnePlace, LetsGo
<1> QED
  BY <1>2, <1>3, <1>4, <1>5, <1>6, <1>7, MostSteps, Zenon

\* A request gets into the log once: it was in hand, waiting and not in it, and once it
\* is in the log it is not posted, not queued and not written again.
LEMMA NotAgainStep ==
    ASSUME LedgerInv, BlocksOK, LogStarted, InOnePlace, NotAgain, [Next]_vars
    PROVE  NotAgain'
<1> USE DEF LedgerInv, ClientsOK
<1>1. /\ queue \in Seq(Requests) /\ Len(queue) \in Nat
      /\ \A i \in 1..Len(queue) : queue[i] \in Requests
  BY LenProperties, ElementOfSeq
<1>2. CASE WriteBody
  <2>1. /\ Logged' = Logged \cup {created.event}
        /\ step = "body" /\ step' = "newline"
        /\ UNCHANGED <<phase, queue, current, status>>
    BY <1>2, LogGrows DEF WriteBody, clients
  <2>2. CASE phase = "booting"
    <3>1. created.event \notin Requests
      BY <2>2, LedgerAssumption DEF LogStarted
    <3> QED
      BY <2>1, <2>2, <3>1 DEF NotAgain, Busy, Unwritten
  <2>3. CASE phase # "booting"
    <3>1. Busy /\ created.event = current
      BY <2>1, <2>3 DEF Busy, Appending
    <3>2. status[current] = "waiting" /\ \A i \in 1..Len(queue) : queue[i] # current
      BY <3>1 DEF InOnePlace
    <3> QED
      BY <2>1, <3>1, <3>2 DEF NotAgain, Unwritten
  <2> QED
    BY <2>2, <2>3
<1> SUFFICES ASSUME ~WriteBody PROVE NotAgain'
  BY <1>2
<1>3. Logged' = Logged
  BY LogKept
<1>4. ASSUME NEW r \in Requests, Push(r) PROVE NotAgain'
  <2>1. status[r] = "pushing" /\ UNCHANGED <<phase, step, current>>
    BY <1>4 DEF Push
  <2>2. Busy' = Busy /\ Unwritten' = Unwritten /\ r \notin Logged
    BY <2>1 DEF Busy, Unwritten, NotAgain
  <2>3. CASE closed
    <3>1. queue' = queue /\ status' = [status EXCEPT ![r] = "refused"]
      BY <1>4, <2>3 DEF Push
    <3> QED
      BY <1>1, <1>3, <2>1, <2>2, <3>1 DEF NotAgain
  <2>4. CASE ~closed
    <3>1. queue' = Append(queue, r) /\ status' = [status EXCEPT ![r] = "waiting"]
      BY <1>4, <2>4 DEF Push
    <3>2. \A i \in 1..Len(queue') : queue'[i] = r \/ (i \in 1..Len(queue) /\ queue'[i] = queue[i])
      <4>1. /\ Len(queue') = Len(queue) + 1 /\ queue'[Len(queue) + 1] = r
            /\ \A i \in 1..Len(queue) : queue'[i] = queue[i]
        BY <1>1, <3>1, AppendProperties
      <4>2. \A i \in 1..(Len(queue) + 1) : i \in 1..Len(queue) \/ i = Len(queue) + 1
        BY <1>1
      <4> QED
        BY <4>1, <4>2
    <3> QED
      BY <1>1, <1>3, <2>1, <2>2, <3>1, <3>2 DEF NotAgain
  <2> QED
    BY <2>3, <2>4
<1>5. ASSUME NEW r \in Requests, Post(r) PROVE NotAgain'
  <2>1. /\ status[r] = "new" /\ UNCHANGED <<phase, step, current, queue>>
        /\ \E s \in {"pushing", "rejected"} : status' = [status EXCEPT ![r] = s]
    BY <1>5 DEF Post, server
  <2>2. Busy' = Busy /\ Unwritten' = Unwritten /\ r \notin Logged
    BY <2>1 DEF Busy, Unwritten, NotAgain
  <2> QED
    BY <1>1, <1>3, <2>1, <2>2 DEF NotAgain
<1>6. CASE Pop
  <2>1. /\ queue # <<>> /\ queue' = Tail(queue) /\ current' = Head(queue)
        /\ status' = status /\ step' = "build"
    BY <1>6 DEF Pop, clients
  <2>2. /\ current' = queue[1] /\ 1 \in 1..Len(queue)
        /\ \A i \in 1..Len(queue') : i + 1 \in 1..Len(queue) /\ queue'[i] = queue[i + 1]
    BY <1>1, <2>1, EmptySeq, HeadTailProperties
  <2>3. current' \notin Logged
    BY <1>1, <2>2 DEF NotAgain
  <2> QED
    BY <1>3, <2>1, <2>2, <2>3 DEF NotAgain, Unwritten
<1>7. CASE /\ UNCHANGED <<queue, status>>
           /\ Busy' => /\ Busy /\ current' = current
                       /\ WriteBody \/ (Unwritten' <=> Unwritten)
  BY <1>3, <1>7 DEF NotAgain
<1>8. CASE /\ queue' = <<>> /\ ~Busy'
           /\ \A r \in Requests : \/ status'[r] = status[r]
                                  \/ status[r] \in Pending /\ status'[r] = "lost"
  BY <1>3, <1>8 DEF NotAgain
<1>9. CASE LetsGo("failed") \/ LetsGo("created")
  BY <1>1, <1>3, <1>9 DEF NotAgain, LetsGo
<1> QED
  BY <1>4, <1>5, <1>6, <1>7, <1>8, <1>9, MostSteps, Zenon
\* The log, and what its clients have been told, as the INSTANCE of DurableLog has them.
TheLog == [i \in 1..Len(Entries) |-> Entries[i].event]

Told(s) == IF s \in Pending THEN "pending"
           ELSE IF s \in {"new", "created"} THEN s
           ELSE "unknown"

TheOutcome == [r \in Requests |-> Told(status[r])]

\* An entry more is one more at the end of the log.
LEMMA TheLogGrows ==
    ASSUME IsSequence(Entries), NEW e, Entries' = Append(Entries, e)
    PROVE  TheLog' = Append(TheLog, e.event)
<1> DEFINE n == Len(Entries)
           U == {x.event : x \in ToSet(Entries) \cup {e}}
           s == [i \in 1..n |-> Entries[i].event]
           t == [i \in 1..(n + 1) |-> Append(Entries, e)[i].event]
<1>1. /\ n \in Nat /\ DOMAIN Entries = 1..n /\ Len(Append(Entries, e)) = n + 1
      /\ \A i \in 1..n : Append(Entries, e)[i] = Entries[i] /\ Entries[i] \in ToSet(Entries)
      /\ Append(Entries, e)[n + 1] = e
  BY AppendSequence DEF ToSet
<1>2. TheLog = s /\ TheLog' = t
  BY <1>1 DEF TheLog
<1>3. s \in [1..n -> U] /\ t \in [1..(n + 1) -> U]
  BY <1>1
<1>4. (\A i \in 1..n : t[i] = s[i]) /\ t[n + 1] = e.event
  BY <1>1
<1> HIDE DEF n, U, s, t
<1>5. t = Append(s, e.event)
  BY <1>1, <1>3, <1>4, OneMore
<1> QED
  BY <1>2, <1>5

\* What is logged is what is in the log.
LEMMA InTheLog ==
    ASSUME IsSequence(Entries)
    PROVE  /\ \A r : r \in Logged <=> \E i \in DOMAIN TheLog : TheLog[i] = r
           /\ Entries = <<>> => TheLog = <<>>
           /\ Entries # <<>> => TheLog # <<>>
<1>1. DOMAIN Entries = 1..Len(Entries) /\ Len(Entries) \in Nat
  BY AppendSequence
<1>2. DOMAIN TheLog = 1..Len(Entries) /\ \A i \in 1..Len(Entries) : TheLog[i] = Entries[i].event
  BY DEF TheLog
<1>3. \A r : r \in Logged <=> \E i \in DOMAIN TheLog : TheLog[i] = r
  BY <1>1, <1>2 DEF Logged, ToSet
<1>4. Entries = <<>> => TheLog = <<>>
  BY DEF TheLog
<1>5. Entries # <<>> => Len(Entries) > 0
  BY <1>1, EmptySeq DEF IsSequence
<1>6. Len(Entries) > 0 => TheLog # <<>>
  BY <1>1, <1>2
<1> QED
  BY <1>3, <1>4, <1>5, <1>6

\* What the client of r is told.
LEMMA TheOutcomeOf ==
    ASSUME ClientsOK, NEW r \in Requests, NEW s, status' = [status EXCEPT ![r] = s]
    PROVE  TheOutcome' = [TheOutcome EXCEPT ![r] = Told(s)]
<1>1. DOMAIN status = Requests
  BY DEF ClientsOK
<1>2. \A q \in Requests : status'[q] = IF q = r THEN s ELSE status[q]
  BY <1>1
<1>3. TheOutcome' = [q \in Requests |-> Told(status'[q])]
  BY DEF TheOutcome, Told
<1>4. TheOutcome' = [q \in Requests |-> IF q = r THEN Told(s) ELSE TheOutcome[q]]
  BY <1>2, <1>3 DEF TheOutcome
<1> QED
  BY <1>4 DEF TheOutcome

\* The steps of DurableLog in these terms.
LEMMA SeedIs ==
    ASSUME TheLog = <<>>, TheLog' = <<GenesisEvent>>, TheOutcome' = TheOutcome
    PROVE  Log!LogNext
BY DEF TheLog, TheOutcome, Told, Log!LogNext, Log!Seed

LEMMA SubmitIs ==
    ASSUME NEW r \in Requests, TheOutcome[r] = "new", TheLog' = TheLog,
           TheOutcome' = [TheOutcome EXCEPT ![r] = "pending"]
    PROVE  Log!LogNext
<1>1. Log!Submit(r)
  BY Zenon DEF TheLog, TheOutcome, Told, Log!Submit
<1> QED
  BY <1>1, Zenon DEF Log!LogNext

LEMMA CommitIs ==
    ASSUME NEW r \in Requests, TheOutcome[r] = "pending", TheLog # <<>>,
           ~ \E i \in DOMAIN TheLog : TheLog[i] = r,
           TheLog' = Append(TheLog, r), TheOutcome' = TheOutcome
    PROVE  Log!LogNext
<1>1. Log!Commit(r)
  BY Zenon DEF TheLog, TheOutcome, Told, Log!Commit, Log!InLog
<1> QED
  BY <1>1, Zenon DEF Log!LogNext

LEMMA AcknowledgeIs ==
    ASSUME NEW r \in Requests, TheOutcome[r] = "pending", TheLog' = TheLog,
           \E i \in DOMAIN TheLog : TheLog[i] = r,
           TheOutcome' = [TheOutcome EXCEPT ![r] = "created"]
    PROVE  Log!LogNext
<1>1. Log!Acknowledge(r)
  BY Zenon DEF TheLog, TheOutcome, Told, Log!Acknowledge, Log!InLog
<1> QED
  BY <1>1, Zenon DEF Log!LogNext

LEMMA GiveUpIs ==
    ASSUME NEW R \in SUBSET Requests, \A r \in R : TheOutcome[r] \in {"new", "pending"},
           TheLog' = TheLog,
           TheOutcome' = [r \in Requests |-> IF r \in R THEN "unknown" ELSE TheOutcome[r]]
    PROVE  Log!LogNext
<1>1. Log!GiveUp(R)
  BY Zenon DEF TheLog, TheOutcome, Told, Log!GiveUp
<1> QED
  BY <1>1, Zenon DEF Log!LogNext
\* A client whose request is let go of.
LEMMA OneGivesUp ==
    ASSUME ClientsOK, NEW r \in Requests, TheOutcome[r] \in {"new", "pending"},
           NEW s, Told(s) = "unknown", status' = [status EXCEPT ![r] = s],
           TheLog' = TheLog
    PROVE  Log!LogNext
<1>1. TheOutcome' = [TheOutcome EXCEPT ![r] = "unknown"]
  BY TheOutcomeOf
<1>2. TheOutcome' = [q \in Requests |-> IF q \in {r} THEN "unknown" ELSE TheOutcome[q]]
  BY <1>1 DEF TheOutcome
<1> QED
  BY <1>2, GiveUpIs

\* Every step of the ledger is one of the log, or none.
LEMMA LogStep ==
    ASSUME LedgerInv, BlocksOK, LogInv, [Next]_vars
    PROVE  Log!LogNext \/ (TheLog' = TheLog /\ TheOutcome' = TheOutcome)
<1> USE DEF LedgerInv, LogInv
<1>1. ClientsOK /\ status \in [Requests -> Statuses] /\ IsSequence(Entries)
  BY EntriesSequence DEF ClientsOK
<1>2. /\ \A r : r \in Logged <=> \E i \in DOMAIN TheLog : TheLog[i] = r
      /\ Entries = <<>> => TheLog = <<>>
      /\ Entries # <<>> => TheLog # <<>>
  BY <1>1, InTheLog
<1>3. /\ \A r \in Requests : TheOutcome[r] = Told(status[r])
      /\ status' = status => TheOutcome' = TheOutcome
      /\ Entries' = Entries => TheLog' = TheLog
  BY DEF TheOutcome, TheLog, Told
<1>4. Busy => current \in Requests /\ TheOutcome[current] = "pending"
  <2>1. Busy => current \in Requests /\ status[current] = "waiting"
    BY DEF Busy, InOnePlace, ClientsOK
  <2> QED
    BY <1>3, <2>1 DEF Told, Pending
<1>5. CASE WriteBody
  <2>1. Entries' = Append(Entries, created) /\ TheOutcome' = TheOutcome /\ step = "body"
    BY <1>3, <1>5, LogGrows DEF WriteBody, clients
  <2>2. TheLog' = Append(TheLog, created.event)
    BY <1>1, <2>1, TheLogGrows
  <2>3. CASE phase = "booting"
    <3>1. lines = <<>> /\ created.event = GenesisEvent
      BY <2>1, <2>3 DEF LogStarted
    <3>2. TheLog = <<>>
      BY <1>2, <3>1, NoEntries
    <3>3. TheLog' = <<GenesisEvent>>
      BY <2>2, <3>1, <3>2
    <3> QED
      BY <2>1, <3>2, <3>3, SeedIs
  <2>4. CASE phase # "booting"
    <3>1. Busy /\ Unwritten /\ created.event = current
      BY <2>1, <2>4 DEF Busy, Unwritten, Appending, ClientsOK
    <3>2. current \notin Logged
      BY <1>4, <3>1 DEF NotAgain
    <3>3. TheLog # <<>>
      BY <1>2, <2>1, <2>4 DEF LogStarted, ControlOK
    <3>4. ~ \E i \in DOMAIN TheLog : TheLog[i] = current
      BY <1>2, <3>2
    <3> QED
      BY <1>4, <2>1, <2>2, <3>1, <3>3, <3>4, CommitIs
  <2> QED
    BY <2>3, <2>4
<1> SUFFICES ASSUME ~WriteBody
             PROVE  Log!LogNext \/ (TheLog' = TheLog /\ TheOutcome' = TheOutcome)
  BY <1>5
<1>6. TheLog' = TheLog
  BY <1>3, LogKept
<1>7. ASSUME NEW r \in Requests, Post(r)
      PROVE  Log!LogNext
  <2>1. status[r] = "new" /\ \E s \in {"pushing", "rejected"} : status' = [status EXCEPT ![r] = s]
    BY <1>7 DEF Post
  <2>2. TheOutcome[r] = "new"
    BY <1>3, <2>1 DEF Told, Pending
  <2>3. CASE status' = [status EXCEPT ![r] = "pushing"]
    <3>1. TheOutcome' = [TheOutcome EXCEPT ![r] = "pending"]
      BY <1>1, <2>3, TheOutcomeOf DEF Told, Pending
    <3> QED
      BY <1>6, <2>2, <3>1, SubmitIs
  <2>4. CASE status' = [status EXCEPT ![r] = "rejected"]
    <3>1. Told("rejected") = "unknown"
      BY DEF Told, Pending
    <3> QED
      BY <1>1, <1>6, <2>2, <2>4, <3>1, OneGivesUp
  <2> QED
    BY <2>1, <2>3, <2>4
<1>8. ASSUME NEW r \in Requests, Push(r)
      PROVE  Log!LogNext \/ TheOutcome' = TheOutcome
  <2>1. status[r] = "pushing"
    BY <1>8 DEF Push
  <2>2. TheOutcome[r] = "pending"
    BY <1>3, <2>1 DEF Told, Pending
  <2>3. CASE closed
    <3>1. status' = [status EXCEPT ![r] = "refused"]
      BY <1>8, <2>3 DEF Push
    <3>2. Told("refused") = "unknown"
      BY DEF Told, Pending
    <3> QED
      BY <1>1, <1>6, <2>2, <3>1, <3>2, OneGivesUp
  <2>4. CASE ~closed
    <3>1. status' = [status EXCEPT ![r] = "waiting"]
      BY <1>8, <2>4 DEF Push
    <3>2. TheOutcome' = [TheOutcome EXCEPT ![r] = "pending"]
      BY <1>1, <3>1, TheOutcomeOf DEF Told, Pending
    <3> QED
      BY <2>2, <3>2 DEF TheOutcome
  <2> QED
    BY <2>3, <2>4
<1>9. CASE Pop
  BY <1>3, <1>6, <1>9 DEF Pop, clients
<1>10. CASE UNCHANGED status
  BY <1>3, <1>6, <1>10
<1>11. CASE \A r \in Requests : \/ status'[r] = status[r]
                                \/ status[r] \in Pending /\ status'[r] = "lost"
  <2> DEFINE R == {r \in Requests : status'[r] # status[r]}
  <2>1. \A r \in R : TheOutcome[r] \in {"new", "pending"}
    BY <1>3, <1>11 DEF Told
  <2>2. TheOutcome' = [r \in Requests |-> Told(status'[r])]
    BY DEF TheOutcome, Told
  <2>3. \A r \in Requests : Told(status'[r]) = IF r \in R THEN "unknown" ELSE TheOutcome[r]
    BY <1>3, <1>11 DEF Told, Pending
  <2>4. TheOutcome' = [r \in Requests |-> IF r \in R THEN "unknown" ELSE TheOutcome[r]]
    BY <2>2, <2>3
  <2> QED
    BY <1>6, <2>1, <2>4, GiveUpIs
<1>12. CASE LetsGo("failed")
  <2>1. Told("failed") = "unknown"
    BY DEF Told, Pending
  <2> QED
    BY <1>1, <1>4, <1>6, <1>12, <2>1, OneGivesUp DEF LetsGo
<1>13. CASE LetsGo("created") /\ ~Unwritten
  <2>1. current \in Logged /\ status' = [status EXCEPT ![current] = "created"]
    BY <1>13 DEF LetsGo, NotAgain
  <2>2. TheOutcome' = [TheOutcome EXCEPT ![current] = "created"]
    BY <1>1, <1>4, <1>13, <2>1, TheOutcomeOf DEF LetsGo, Told, Pending
  <2>3. \E i \in DOMAIN TheLog : TheLog[i] = current
    BY <1>2, <2>1
  <2> QED
    BY <1>4, <1>6, <1>13, <2>2, <2>3, AcknowledgeIs DEF LetsGo
<1>14. UNCHANGED <<queue, status>> => UNCHANGED status
  OBVIOUS
<1> QED
  BY <1>6, <1>7, <1>8, <1>9, <1>10, <1>11, <1>12, <1>13, <1>14, MostSteps, Zenon

\* To a client of POST /events the server is a log: whatever fails or crashes, a request
\* enters it at most once, behind genesis, while its client waits, and a client that is
\* told 201 finds it there for ever.  (That no client waits for ever is left to the runs.)
THEOREM LedgerIsLog == Spec => Log!SafeSpec
<1>1. Init => LogInv
  <2> SUFFICES ASSUME Init PROVE LogInv
    OBVIOUS
  <2>1. phase = "down" /\ lines = <<>> /\ step = "off" /\ queue = <<>>
    BY DEF Init
  <2>2. Entries = <<>>
    BY <2>1, NoEntries
  <2>3. Logged = {}
    BY <2>2, EmptySequence DEF Logged
  <2> QED
    BY <2>1, <2>3, EmptySequence
    DEF LogInv, LogStarted, InOnePlace, NotAgain, Busy, Appending
<1>2. LedgerInv /\ BlocksOK /\ LogInv /\ [Next]_vars => LogInv'
  BY LogStartedStep, InOnePlaceStep, NotAgainStep DEF LogInv
<1>3. Init => Log!LogInit
  <2> SUFFICES ASSUME Init PROVE Log!LogInit
    OBVIOUS
  <2>1. Entries = <<>> /\ status = [r \in Requests |-> "new"]
    BY NoEntries DEF Init
  <2>2. Len(Entries) = 0
    BY <2>1
  <2> QED
    BY <2>1, <2>2 DEF Log!LogInit, Pending
<1>4. LedgerInv /\ BlocksOK /\ LogInv /\ [Next]_vars => [Log!LogNext]_(Log!logvars)
  BY LogStep DEF TheLog, TheOutcome, Told, Log!logvars
<1>5. LedgerInv /\ BlocksOK /\ [Next]_vars => BlocksOK'
  BY BlocksStep
<1> QED
  BY <1>1, <1>2, <1>3, <1>4, <1>5, LedgerInvariant, BlocksInit, PTL
  DEF Spec, SafeSpec, Log!SafeSpec
\* A request in the queue or in hand was in push before.
LEMMA WaitsSincePushing ==
    ASSUME LedgerInv, NEW r \in Requests, [Next]_vars, status'[r] = "waiting"
    PROVE  status[r] \in Pending
<1> USE DEF Pending
<1>1. status \in [Requests -> Statuses]
  BY DEF LedgerInv, ClientsOK
<1>2. ASSUME NEW q \in Requests, Post(q) \/ Push(q) PROVE status[r] \in Pending
  <2>1. \E s \in {"pushing", "rejected"} : Post(q) => status' = [status EXCEPT ![q] = s]
    BY DEF Post
  <2>2. Push(q) => status[q] = "pushing" /\ \A p \in Requests \ {q} : status'[p] = status[p]
    BY <1>1 DEF Push
  <2> QED
    BY <1>1, <1>2, <2>1, <2>2
<1>3. CASE Pop
  BY <1>3 DEF Pop, clients
<1>4. CASE UNCHANGED <<queue, status>> \/ LetsGo("failed") \/ LetsGo("created")
  BY <1>1, <1>4 DEF LetsGo
<1>5. CASE \A q \in Requests : \/ status'[q] = status[q]
                               \/ status[q] \in Pending /\ status'[q] = "lost"
  BY <1>5
<1> QED
  BY <1>2, <1>3, <1>4, <1>5, MostSteps

\* Every client of the log is answered if every handler that got into push is: with that,
\* which the runs check, the ledger implements the whole of DurableLog.
THEOREM AnsweringIsEnough == Spec /\ EveryPostAnswered => ImplementsDurableLog
<1>1. ASSUME NEW r \in Requests
      PROVE  Spec /\ (status[r] = "pushing" ~> status[r] \in Answered)
             => (TheOutcome[r] = "pending" ~> TheOutcome[r] # "pending")
  <2> DEFINE P == status[r] = "pushing"
             W == status[r] = "waiting"
             A == status[r] \in Answered
             D == TheOutcome[r] = "pending"
  <2>1. Init => ~W
    BY DEF Init
  <2>2. LedgerInv /\ [Next]_vars => (W' => W \/ P)
    BY WaitsSincePushing DEF Pending
  <2>3. D <=> W \/ P
    BY DEF TheOutcome, Told, Pending
  <2>4. A => ~W /\ ~P
    BY DEF Answered
  <2> HIDE DEF P, W, A, D
  <2>5. Spec /\ (P ~> A) => (D ~> ~D)
    BY <2>1, <2>2, <2>3, <2>4, LedgerInvariant, PTL DEF Spec, SafeSpec
  <2>6. ~D <=> TheOutcome[r] # "pending"
    BY DEF D
  <2> QED
    BY <2>5, <2>6, PTL DEF P, A, D
<1> QED
  BY <1>1, LedgerIsLog DEF EveryPostAnswered, ImplementsDurableLog, Log!Spec, Log!Answering,
                           TheOutcome, Told

-----------------------------------------------------------------------------
(* What an audit is worth: facts about verify_chain, and so about every chain *)
(* there is, those that were altered outside the program included.           *)

\* Blocks as a ledger file may hold them: fields of the right kind, with any
\* relation or none between a block's fields, its hash and its neighbours.
Lines(I, T, E, H) == [index : I, timestamp : T, event : E, prev_hash : H, hash : H]

\* A set of natural numbers that is not empty has a smallest element.
LEMMA HasSmallest ==
    ASSUME NEW S, S \subseteq Nat, S # {}
    PROVE  \E x \in S : \A y \in S : x <= y
<1> DEFINE R == OpToRel(<, Nat)
<1>1. IsWellFoundedOn(R, Nat)
  BY NatLessThanWellFounded, Zenon
<1>2. \A x, y \in Nat : y < x => <<y, x>> \in R
  BY DEF OpToRel
<1> HIDE DEF R
<1>3. PICK x \in S : \A y \in S : ~ (<<y, x>> \in R)
  BY <1>1, WFMin, Zenon
<1>4. ASSUME NEW y \in S
      PROVE  x <= y
  <2>1. x \in Nat /\ y \in Nat
    OBVIOUS
  <2>2. ~ (y < x)
    BY <1>2, <1>3, <2>1
  <2> QED BY <2>1, <2>2
<1> QED BY <1>4

\* No digest is the previous hash of a genesis block.
LEMMA DigestIsNotZero ==
    ASSUME NEW b
    PROVE  Recomputed(b) # ZeroHash
<1>1. Len(Recomputed(b)) = 4
  BY DEF Recomputed, compute_hash
<1>2. Len(ZeroHash) = 0
  BY DEF ZeroHash
<1> QED BY <1>1, <1>2

\* Two blocks whose hashes are their own digests and equal are the same block.
LEMMA SameHashSameBlock ==
    ASSUME NEW I, NEW T, NEW E, NEW H,
           NEW a \in Lines(I, T, E, H), NEW b \in Lines(I, T, E, H),
           a.hash = Recomputed(a), b.hash = Recomputed(b), a.hash = b.hash
    PROVE  a = b
<1>1. /\ a.index = b.index /\ a.timestamp = b.timestamp
      /\ a.event = b.event /\ a.prev_hash = b.prev_hash
  BY DEF Recomputed, compute_hash
<1>2. /\ a = [index |-> a.index, timestamp |-> a.timestamp, event |-> a.event,
              prev_hash |-> a.prev_hash, hash |-> a.hash]
      /\ b = [index |-> b.index, timestamp |-> b.timestamp, event |-> b.event,
              prev_hash |-> b.prev_hash, hash |-> b.hash]
  BY DEF Lines
<1> QED BY <1>1, <1>2

\* The loop of verify_chain stops at the first block that is not in order.
LEMMA FirstInvalid ==
    ASSUME NEW S, NEW c \in Seq(S), NEW i \in DOMAIN c, Invalid(c, i),
           \A j \in 1..(i - 1) : ~ Invalid(c, j)
    PROVE  /\ ~ verify_chain(c).valid
           /\ verify_chain(c).first_invalid_index = i - 1
           /\ verify_chain(c).checked_blocks = i
<1> DEFINE first == CHOOSE n \in DOMAIN c : /\ Invalid(c, n)
                                            /\ \A j \in 1..(n - 1) : ~ Invalid(c, j)
<1>1. /\ first \in DOMAIN c
      /\ Invalid(c, first)
      /\ \A j \in 1..(first - 1) : ~ Invalid(c, j)
  OBVIOUS
<1> HIDE DEF first
<1>2. first \in Nat /\ i \in Nat /\ first >= 1 /\ i >= 1
  BY <1>1
<1>3. ~ (first < i) /\ ~ (i < first)
  BY <1>1, <1>2
<1>4. first = i
  BY <1>2, <1>3
<1>5. ~ ChainValid(c)
  BY DEF ChainValid
<1>6. verify_chain(c) = [valid               |-> ChainValid(c),
                         chain_length        |-> Len(c),
                         checked_blocks      |-> first,
                         first_invalid_index |-> first - 1]
  BY <1>5 DEF verify_chain, first
<1> QED BY <1>4, <1>5, <1>6

\* When GET /verify says that a chain is not valid, the index it names is that of a
\* block which is out of order while all before it are in order, and it has looked at
\* exactly the blocks up to that one.
THEOREM VerifyNamesFirst ==
    ASSUME NEW S, NEW c \in Seq(S), ~ verify_chain(c).valid
    PROVE  \E i \in DOMAIN c :
              /\ Invalid(c, i) /\ \A j \in 1..(i - 1) : ~ Invalid(c, j)
              /\ verify_chain(c).first_invalid_index = i - 1
              /\ verify_chain(c).checked_blocks = i
<1> DEFINE Bad == {i \in DOMAIN c : Invalid(c, i)}
<1>1. ~ ChainValid(c)
  BY DEF verify_chain
<1>2. Bad \subseteq Nat /\ Bad # {}
  BY <1>1 DEF ChainValid
<1>3. PICK i \in Bad : \A j \in Bad : i <= j
  BY <1>2, HasSmallest
<1>4. i \in DOMAIN c /\ Invalid(c, i) /\ i \in Nat
  BY <1>2, <1>3
<1>5. \A j \in 1..(i - 1) : ~ Invalid(c, j)
  <2>1. SUFFICES ASSUME NEW j \in 1..(i - 1), Invalid(c, j)
                 PROVE  FALSE
    OBVIOUS
  <2>2. j \in DOMAIN c /\ ~ (i <= j)
    BY <1>4
  <2> QED BY <1>3, <2>1, <2>2
<1> QED BY <1>4, <1>5, FirstInvalid

\* A block of a valid chain whose content is altered under an unaltered hash is found,
\* and named: the tests alter a block's event and expect its index.
THEOREM EditIsLocated ==
    ASSUME NEW I, NEW T, NEW E, NEW H,
           NEW c \in Seq(Lines(I, T, E, H)), ChainValid(c),
           NEW i \in DOMAIN c, NEW b \in Lines(I, T, E, H),
           b # c[i], b.hash = c[i].hash
    PROVE  /\ ~ verify_chain([c EXCEPT ![i] = b]).valid
           /\ verify_chain([c EXCEPT ![i] = b]).first_invalid_index = i - 1
<1> DEFINE B == Lines(I, T, E, H)
           d == [c EXCEPT ![i] = b]
<1>1. d \in Seq(B) /\ DOMAIN d = DOMAIN c /\ d[i] = b
      /\ \A j \in DOMAIN c : j # i => d[j] = c[j]
  OBVIOUS
<1>2. c[i] \in B /\ c[i].hash = Recomputed(c[i])
  BY DEF ChainValid, Invalid
<1>3. b.hash # Recomputed(b)
  BY <1>2, SameHashSameBlock
<1>4. Invalid(d, i)
  BY <1>1, <1>3 DEF Invalid
<1>5. \A j \in 1..(i - 1) : ~ Invalid(d, j)
  <2>1. SUFFICES ASSUME NEW j \in 1..(i - 1)
                 PROVE  ~ Invalid(d, j)
    OBVIOUS
  <2>2. j \in DOMAIN c /\ d[j] = c[j] /\ (j # 1 => d[j - 1] = c[j - 1])
    BY <1>1
  <2>3. ~ Invalid(c, j)
    BY <2>2 DEF ChainValid
  <2> QED BY <2>2, <2>3 DEF Invalid, ExpectedPrev
<1> HIDE DEF d
<1>6. ~ verify_chain(d).valid /\ verify_chain(d).first_invalid_index = i - 1
  BY <1>1, <1>4, <1>5, FirstInvalid
<1> QED BY <1>6 DEF d

\* A valid chain is determined by the hash of its last block: whoever has noted that
\* hash and finds the chain valid with the same one at its end has the same blocks,
\* as many of them, in the same order.  Nothing less than that hash will do, since
\* a chain that was cut short or built anew is valid as well.
THEOREM HeadDeterminesChain ==
    ASSUME NEW I, NEW T, NEW E, NEW H,
           NEW c \in Seq(Lines(I, T, E, H)), NEW d \in Seq(Lines(I, T, E, H)),
           ChainValid(c), ChainValid(d), c # <<>>, d # <<>>,
           latest(c).hash = latest(d).hash
    PROVE  c = d
<1> DEFINE B == Lines(I, T, E, H)
           m == Len(c)
           n == Len(d)
           Shared == {k \in Nat : k < m /\ k < n}
           Differ == {k \in Shared : c[m - k] # d[n - k]}
<1>1. /\ m \in Nat \ {0} /\ n \in Nat \ {0}
      /\ DOMAIN c = 1..m /\ DOMAIN d = 1..n
      /\ \A i \in 1..m : c[i] \in B
      /\ \A i \in 1..n : d[i] \in B
  OBVIOUS
<1> HIDE DEF m, n
<1>2. /\ \A i \in 1..m : c[i].hash = Recomputed(c[i]) /\ c[i].prev_hash = ExpectedPrev(c, i)
      /\ \A i \in 1..n : d[i].hash = Recomputed(d[i]) /\ d[i].prev_hash = ExpectedPrev(d, i)
  BY <1>1 DEF ChainValid, Invalid
<1>3. \A k \in Shared : m - k \in 1..m /\ n - k \in 1..n
  BY <1>1
<1>4. \A k \in Shared : c[m - k].hash = d[n - k].hash => c[m - k] = d[n - k]
  BY <1>1, <1>2, <1>3, SameHashSameBlock
<1>5. Differ = {}
  <2>1. SUFFICES ASSUME Differ # {}
                 PROVE  FALSE
    OBVIOUS
  <2>2. PICK k \in Differ : \A j \in Differ : k <= j
    BY <2>1, HasSmallest
  <2>3. k \in Shared /\ c[m - k] # d[n - k]
    BY <2>2
  <2>4. CASE k = 0
    <3>a. m - k = m /\ n - k = n
      BY <1>1, <2>4
    <3>b. latest(c) = c[m] /\ latest(d) = d[n]
      BY DEF latest, m, n
    <3>1. c[m - k].hash = d[n - k].hash
      BY <3>a, <3>b
    <3> QED BY <1>4, <2>3, <3>1
  <2>5. CASE k # 0
    <3>1. k - 1 \in Shared /\ ~ (k <= k - 1)
      BY <1>1, <2>3, <2>5
    <3>2. c[m - (k - 1)] = d[n - (k - 1)]
      BY <2>2, <3>1
    <3>3. /\ m - (k - 1) \in 1..m /\ m - (k - 1) # 1 /\ (m - (k - 1)) - 1 = m - k
          /\ n - (k - 1) \in 1..n /\ n - (k - 1) # 1 /\ (n - (k - 1)) - 1 = n - k
      BY <1>1, <2>3, <2>5
    <3>4. /\ c[m - (k - 1)].prev_hash = c[m - k].hash
          /\ d[n - (k - 1)].prev_hash = d[n - k].hash
      BY <1>2, <3>3 DEF ExpectedPrev
    <3>5. c[m - k].hash = d[n - k].hash
      BY <3>2, <3>4
    <3> QED BY <1>4, <2>3, <3>5
  <2> QED BY <2>4, <2>5
<1>6. \A k \in Shared : c[m - k] = d[n - k]
  BY <1>5
<1>7. m = n
  <2>1. ASSUME m < n
        PROVE  FALSE
    <3>1. /\ m - 1 \in Shared /\ m - (m - 1) = 1 /\ n - (m - 1) = (n - m) + 1
          /\ (n - m) + 1 \in 1..n /\ (n - m) + 1 # 1 /\ ((n - m) + 1) - 1 = n - m
          /\ n - m \in 1..n /\ 1 \in 1..m
      BY <1>1, <2>1
    <3>2. c[1] = d[(n - m) + 1]
      BY <1>6, <3>1
    <3>3. c[1].prev_hash = ZeroHash /\ d[(n - m) + 1].prev_hash = d[n - m].hash
      BY <1>2, <3>1 DEF ExpectedPrev
    <3>4. d[n - m].hash # ZeroHash
      BY <1>2, <3>1, DigestIsNotZero
    <3> QED BY <3>2, <3>3, <3>4
  <2>2. ASSUME n < m
        PROVE  FALSE
    <3>1. /\ n - 1 \in Shared /\ n - (n - 1) = 1 /\ m - (n - 1) = (m - n) + 1
          /\ (m - n) + 1 \in 1..m /\ (m - n) + 1 # 1 /\ ((m - n) + 1) - 1 = m - n
          /\ m - n \in 1..m /\ 1 \in 1..n
      BY <1>1, <2>2
    <3>2. d[1] = c[(m - n) + 1]
      BY <1>6, <3>1
    <3>3. d[1].prev_hash = ZeroHash /\ c[(m - n) + 1].prev_hash = c[m - n].hash
      BY <1>2, <3>1 DEF ExpectedPrev
    <3>4. c[m - n].hash # ZeroHash
      BY <1>2, <3>1, DigestIsNotZero
    <3> QED BY <3>2, <3>3, <3>4
  <2> QED BY <1>1, <2>1, <2>2
<1>8. \A i \in 1..m : c[i] = d[i]
  <2>1. SUFFICES ASSUME NEW i \in 1..m
                 PROVE  c[i] = d[i]
    OBVIOUS
  <2>2. m - i \in Shared /\ m - (m - i) = i /\ n - (m - i) = i
    BY <1>1, <1>7
  <2> QED BY <1>6, <2>2
<1> QED BY <1>1, <1>7, <1>8
-----------------------------------------------------------------------------
(* The queue as it is used: the writer of Ledger is the consumer that        *)
(* BoundedQueue, and with it WriteQueue, is specified for.                   *)

\* A process leaves no queue behind, and a writer that has no request yet, that asks for
\* the next or that was told the end has none in hand: the loop's variable is gone.
LetGoBefore ==
    /\ phase = "down" => queue = <<>>
    /\ phase = "booting" \/ step \in {"off", "pop", "done"} => current = NoRequest

LEMMA LetGoStep ==
    ASSUME ControlOK, HandlersOK, LetGoBefore, [Next]_vars
    PROVE  LetGoBefore'
<1> USE DEF ControlOK, LetGoBefore, Appending, disk, server, clients
<1>1. CASE Boot
  BY <1>1 DEF Boot, BootFresh, BootReload, BootFails, vars
<1>2. ASSUME NEW r \in Requests, Post(r) PROVE LetGoBefore'
  BY <1>2 DEF Post
<1>3. ASSUME NEW r \in Requests, Push(r) PROVE LetGoBefore'
  <2>1. status[r] = "pushing" /\ UNCHANGED <<phase, step, current>>
    BY <1>3 DEF Push
  <2>2. phase # "down"
    BY <2>1 DEF HandlersOK, HandlersDone, Pending
  <2> QED
    BY <2>1, <2>2
<1>4. CASE Pop \/ PopEnd \/ BuildNext
  BY <1>4 DEF Pop, PopEnd, BuildNext
<1>5. CASE WriteBody \/ WriteNewline
  BY <1>5 DEF WriteBody, WriteNewline, OncePersisted
<1>6. ASSUME Throw, UNCHANGED <<phase, queue>> PROVE LetGoBefore'
  BY <1>6 DEF Throw, NextRequest
<1>7. CASE WriteFails
  <2>1. CASE phase = "booting"
    BY <1>7, <2>1 DEF WriteFails, AppendFails, Gone
  <2>2. CASE phase # "booting"
    BY <1>6, <1>7, <2>2 DEF WriteFails, AppendFails
  <2> QED
    BY <2>1, <2>2
<1>8. CASE WriteOnBadStream \/ OutOfMemory
  BY <1>6, <1>8 DEF WriteOnBadStream, OutOfMemory
<1>9. CASE PushPersisted \/ Publish \/ Reply
  BY <1>9 DEF PushPersisted, Publish, Reply, NextRequest
<1>10. CASE Stop \/ CloseQueue
  BY <1>10 DEF Stop, CloseQueue
<1>11. CASE Exit \/ Crash
  BY <1>11 DEF Exit, Crash, Gone
<1>12. CASE UNCHANGED vars
  BY <1>12 DEF vars
<1> QED
  BY <1>1, <1>2, <1>3, <1>4, <1>5, <1>7, <1>8, <1>9, <1>10, <1>11, <1>12
  DEF Next, WriterStep, Shutdown

\* The queue's calls as the INSTANCE of BoundedQueue has them.
Offer(s, r) == IF s = "pushing" THEN r ELSE NoRequest

Offers == [r \in Requests |-> Offer(status[r], r)]

Asking == IF step = "pop" THEN {"writer"} ELSE {}

InHand == [c \in {"writer"} |-> current]

\* What the client of r has under way in push.
LEMMA OffersOf ==
    ASSUME ClientsOK, NEW r \in Requests, NEW s, status' = [status EXCEPT ![r] = s]
    PROVE  Offers' = [Offers EXCEPT ![r] = Offer(s, r)]
<1>1. DOMAIN status = Requests
  BY DEF ClientsOK
<1>2. \A q \in Requests : status'[q] = IF q = r THEN s ELSE status[q]
  BY <1>1
<1>3. Offers' = [q \in Requests |-> Offer(status'[q], q)]
  BY DEF Offers, Offer
<1>4. Offers' = [q \in Requests |-> IF q = r THEN Offer(s, r) ELSE Offers[q]]
  BY <1>2, <1>3 DEF Offers
<1> QED
  BY <1>4 DEF Offers

\* The steps of BoundedQueue in these terms.
LEMMA CallPushIs ==
    ASSUME NEW r \in Requests, Offers[r] = NoRequest, Offers' = [Offers EXCEPT ![r] = r],
           UNCHANGED <<queue, closed, Asking, InHand>>
    PROVE  Queue!Next
<1>1. Queue!CallPush(r, r)
  BY Zenon DEF Offers, Offer, Asking, InHand, Queue!CallPush
<1> QED
  BY <1>1, Zenon DEF Queue!Next

LEMMA AnswerIs ==
    ASSUME NEW r \in Requests, Offers[r] = r, Offers' = [Offers EXCEPT ![r] = NoRequest],
           \/ closed /\ queue' = queue
           \/ ~closed /\ Len(queue) < Capacity /\ queue' = Append(queue, r),
           UNCHANGED <<closed, Asking, InHand>>
    PROVE  Queue!Next
<1>1. r # NoRequest
  BY LedgerAssumption, Zenon
<1>2. CASE closed /\ queue' = queue
  <2>1. Queue!Refuse(r)
    BY <1>1, <1>2, Zenon DEF Offers, Offer, Asking, InHand, Queue!Refuse
  <2> QED
    BY <2>1, Zenon DEF Queue!Next
<1>3. CASE ~closed /\ Len(queue) < Capacity /\ queue' = Append(queue, r)
  <2>1. queue' = Append(queue, Offers[r])
    BY <1>3, Zenon
  <2>2. Queue!Accept(r)
    BY <1>1, <1>3, <2>1, Zenon DEF Offers, Offer, Asking, InHand, Queue!Accept
  <2> QED
    BY <2>2, Zenon DEF Queue!Next
<1> QED
  BY <1>2, <1>3

LEMMA CallPopIs ==
    ASSUME step # "pop", step' = "pop", current' = NoRequest, Offers' = Offers,
           UNCHANGED <<queue, closed>>
    PROVE  Queue!Next
<1>1. /\ "writer" \notin Asking /\ Asking' = Asking \cup {"writer"}
      /\ InHand' = [InHand EXCEPT !["writer"] = NoRequest]
  BY DEF Asking, InHand
<1>2. Queue!CallPop("writer")
  BY <1>1, Zenon DEF Offers, Offer, Asking, InHand, Queue!CallPop
<1> QED
  BY <1>2, Zenon DEF Queue!Next

LEMMA HandOutIs ==
    ASSUME step = "pop", step' # "pop", queue # <<>>, current' = Head(queue),
           queue' = Tail(queue), Offers' = Offers, UNCHANGED closed
    PROVE  Queue!Next
<1>1. /\ "writer" \in Asking /\ Asking' = Asking \ {"writer"}
      /\ InHand' = [InHand EXCEPT !["writer"] = Head(queue)]
  BY DEF Asking, InHand
<1>2. Queue!HandOut("writer")
  BY <1>1, Zenon DEF Offers, Offer, Asking, InHand, Queue!HandOut
<1> QED
  BY <1>2, Zenon DEF Queue!Next

LEMMA ReportEndIs ==
    ASSUME step = "pop", step' # "pop", EndOfQueue, current = NoRequest,
           UNCHANGED <<queue, closed, current>>, Offers' = Offers
    PROVE  Queue!Next
<1>1. /\ "writer" \in Asking /\ Asking' = Asking \ {"writer"}
      /\ InHand' = [InHand EXCEPT !["writer"] = NoRequest]
  BY DEF Asking, InHand
<1>2. Queue!ReportEnd("writer")
  BY <1>1, Zenon DEF Offers, Offer, Asking, InHand, EndOfQueue, Queue!ReportEnd
<1> QED
  BY <1>2, Zenon DEF Queue!Next

LEMMA CloseIs ==
    ASSUME closed' = TRUE, UNCHANGED <<queue, Asking, InHand>>, Offers' = Offers
    PROVE  Queue!Next
<1>1. Queue!Close
  BY Zenon DEF Offers, Offer, Asking, InHand, Queue!Close
<1> QED
  BY <1>1, Zenon DEF Queue!Next

\* What the writer and main() do to the queue, besides taking a request out of it: nothing,
\* or they begin to wait for the next one, with none in hand, or see its end, or close it.
LEMMA QueueCalls ==
    ASSUME LedgerInv, LetGoBefore, [Next]_vars, Running', ~Pop,
           \A r \in Requests : ~Post(r) /\ ~Push(r)
    PROVE  /\ queue' = queue
           /\ \/ UNCHANGED <<closed, current>> /\ (step = "pop" <=> step' = "pop")
              \/ step # "pop" /\ step' = "pop" /\ current' = NoRequest /\ closed' = closed
              \/ PopEnd \/ CloseQueue
<1> USE DEF LedgerInv, ControlOK, LetGoBefore, Appending, Running, disk, server, clients
<1>1. CASE Boot
  BY <1>1 DEF Boot, BootFresh, BootReload, BootFails, vars
<1>2. CASE PopEnd \/ CloseQueue
  BY <1>2 DEF PopEnd, CloseQueue
<1>3. CASE BuildNext \/ WriteBody \/ Stop
  BY <1>3 DEF BuildNext, WriteBody, Stop
<1>4. CASE WriteNewline
  BY <1>4 DEF WriteNewline, OncePersisted
<1>5. ASSUME NextRequest, UNCHANGED <<queue, closed>>, step # "pop"
      PROVE  step # "pop" /\ step' = "pop" /\ current' = NoRequest
  BY <1>5 DEF NextRequest
<1>6. CASE WriteFails
  <2>1. phase # "booting"
    BY <1>6 DEF WriteFails, AppendFails, Gone
  <2>2. NextRequest /\ UNCHANGED <<queue, closed>> /\ step # "pop"
    BY <1>6, <2>1 DEF WriteFails, AppendFails, Throw
  <2> QED
    BY <1>5, <2>2
<1>7. CASE WriteOnBadStream \/ OutOfMemory
  <2>1. NextRequest /\ UNCHANGED <<queue, closed>> /\ step # "pop"
    BY <1>7 DEF WriteOnBadStream, OutOfMemory, Throw
  <2> QED
    BY <1>5, <2>1
<1>8. CASE PushPersisted \/ Publish
  BY <1>8 DEF PushPersisted, Publish
<1>9. CASE Reply
  BY <1>9 DEF Reply, NextRequest
<1>10. CASE Exit \/ Crash
  BY <1>10 DEF Exit, Crash, Gone
<1>11. CASE UNCHANGED vars
  BY <1>11 DEF vars
<1> QED
  BY <1>1, <1>2, <1>3, <1>4, <1>6, <1>7, <1>8, <1>9, <1>10, <1>11, Zenon
  DEF Next, WriterStep, Shutdown

\* The writer never answers a handler that is still in push.
LEMMA OffersKept ==
    ASSUME LedgerInv, InOnePlace, [Next]_vars, Running', \A r \in Requests : ~Post(r) /\ ~Push(r)
    PROVE  Offers' = Offers
<1>1. UNCHANGED status => Offers' = Offers
  BY DEF Offers, Offer
<1>2. CASE Pop
  BY <1>1, <1>2 DEF Pop, clients
<1>3. ASSUME NEW s \in {"created", "failed"}, LetsGo(s)
      PROVE  Offers' = Offers
  <2>1. current \in Requests /\ status[current] = "waiting"
    BY <1>3 DEF LetsGo, Busy, InOnePlace, LedgerInv, ClientsOK
  <2>2. Offers[current] = NoRequest /\ Offer(s, current) = NoRequest
    BY <2>1 DEF Offers, Offer
  <2>3. Offers' = [Offers EXCEPT ![current] = NoRequest]
    BY <1>3, <2>1, <2>2, OffersOf DEF LetsGo, LedgerInv
  <2> QED
    BY <2>2, <2>3 DEF Offers
<1> QED
  BY <1>1, <1>2, <1>3, MostSteps

\* Every step of a process that goes on is one of its queue, or none.
LEMMA QueueUseStep ==
    ASSUME LedgerInv, InOnePlace, LetGoBefore, [Next]_vars, Running'
    PROVE  Queue!Next \/ UNCHANGED <<queue, closed, Offers, Asking, InHand>>
<1>0. ClientsOK
  BY DEF LedgerInv
<1>1. ASSUME NEW r \in Requests, Post(r)
      PROVE  Queue!Next \/ UNCHANGED <<queue, closed, Offers, Asking, InHand>>
  <2>1. /\ status[r] = "new" /\ UNCHANGED <<queue, closed, step, current>>
        /\ \E s \in {"pushing", "rejected"} : status' = [status EXCEPT ![r] = s]
    BY <1>1 DEF Post, server
  <2>2. UNCHANGED <<Asking, InHand>> /\ Offers[r] = NoRequest
    BY <2>1 DEF Asking, InHand, Offers, Offer
  <2>3. CASE status' = [status EXCEPT ![r] = "pushing"]
    <3>1. Offers' = [Offers EXCEPT ![r] = Offer("pushing", r)]
      BY <1>0, <2>3, OffersOf
    <3>2. Offers' = [Offers EXCEPT ![r] = r]
      BY <3>1, Zenon DEF Offer
    <3> QED
      BY <2>1, <2>2, <3>2, CallPushIs
  <2>4. CASE status' = [status EXCEPT ![r] = "rejected"]
    <3>1. Offers' = [Offers EXCEPT ![r] = Offer("rejected", r)]
      BY <1>0, <2>4, OffersOf
    <3>2. Offer("rejected", r) = Offers[r]
      BY <2>2 DEF Offer
    <3>3. Offers' = Offers
      BY <3>1, <3>2 DEF Offers
    <3> QED
      BY <2>1, <2>2, <3>3
  <2> QED
    BY <2>1, <2>3, <2>4
<1>2. ASSUME NEW r \in Requests, Push(r)
      PROVE  Queue!Next
  <2>1. status[r] = "pushing" /\ UNCHANGED <<closed, step, current>>
    BY <1>2 DEF Push
  <2>2. UNCHANGED <<Asking, InHand>> /\ Offers[r] = r
    BY <2>1 DEF Asking, InHand, Offers, Offer
  <2>3. \/ closed /\ queue' = queue /\ status' = [status EXCEPT ![r] = "refused"]
        \/ /\ ~closed /\ Len(queue) < Capacity /\ queue' = Append(queue, r)
           /\ status' = [status EXCEPT ![r] = "waiting"]
    BY <1>2 DEF Push, Room
  <2>4. \E s \in {"refused", "waiting"} : Offers' = [Offers EXCEPT ![r] = Offer(s, r)]
    BY <1>0, <2>3, OffersOf
  <2>5. Offers' = [Offers EXCEPT ![r] = NoRequest]
    BY <2>4 DEF Offer
  <2> QED
    BY <2>1, <2>2, <2>3, <2>5, AnswerIs
<1>3. CASE Pop
  <2>1. /\ step = "pop" /\ step' # "pop" /\ queue # <<>> /\ current' = Head(queue)
        /\ queue' = Tail(queue) /\ UNCHANGED <<closed, status>>
    BY <1>3 DEF Pop, clients
  <2>2. Offers' = Offers
    BY <2>1 DEF Offers
  <2> QED
    BY <2>1, <2>2, HandOutIs
<1> SUFFICES ASSUME ~Pop, \A r \in Requests : ~Post(r) /\ ~Push(r)
             PROVE  Queue!Next \/ UNCHANGED <<queue, closed, Offers, Asking, InHand>>
  BY <1>1, <1>2, <1>3
<1>4. Offers' = Offers
  BY OffersKept
<1>5. queue' = queue
  BY QueueCalls
<1>6. CASE UNCHANGED <<closed, current>> /\ (step = "pop" <=> step' = "pop")
  BY <1>4, <1>5, <1>6 DEF Asking, InHand
<1>7. CASE step # "pop" /\ step' = "pop" /\ current' = NoRequest /\ closed' = closed
  BY <1>4, <1>5, <1>7, CallPopIs
<1>8. CASE PopEnd
  <2>1. /\ step = "pop" /\ step' # "pop" /\ EndOfQueue /\ UNCHANGED <<closed, current>>
    BY <1>8 DEF PopEnd
  <2> QED
    BY <1>4, <1>5, <2>1, ReportEndIs DEF LetGoBefore
<1>9. CASE CloseQueue
  <2>1. closed' = TRUE /\ UNCHANGED <<step, current>>
    BY <1>9 DEF CloseQueue
  <2>2. UNCHANGED <<Asking, InHand>>
    BY <2>1 DEF Asking, InHand
  <2> QED
    BY <1>4, <1>5, <2>1, <2>2, CloseIs
<1> QED
  BY <1>6, <1>7, <1>8, <1>9, QueueCalls

\* What a process has left of its queue when it is gone is nothing.
LEMMA NoQueueLeft ==
    ASSUME LedgerInv, LetGoBefore, ~Running
    PROVE  Queue!Init
<1>1. queue = <<>> /\ closed = FALSE /\ step = "off" /\ current = NoRequest
  BY DEF LedgerInv, ControlOK, LetGoBefore, Running
<1>2. \A r \in Requests : status[r] # "pushing"
  BY DEF LedgerInv, HandlersOK, HandlersDone, Pending, Running
<1> QED
  BY <1>1, <1>2 DEF Queue!Init

\* The promise that WriteQueue is proved to keep is the one this server is built on: in
\* every life of the process, whatever fails, its handlers, its writer thread and its
\* shutdown call push, pop and close as BoundedQueue has them called, and see of the queue
\* only what BoundedQueue lets them see.
THEOREM QueueUsedAsPromised == Spec => UsesBoundedQueue
<1>1. Init => InOnePlace /\ LetGoBefore
  <2> SUFFICES ASSUME Init PROVE InOnePlace /\ LetGoBefore
    OBVIOUS
  <2>1. phase = "down" /\ step = "off" /\ queue = <<>> /\ current = NoRequest
    BY DEF Init
  <2> QED
    BY <2>1 DEF InOnePlace, LetGoBefore, Busy, Appending
<1>2. LedgerInv /\ InOnePlace /\ LetGoBefore /\ [Next]_vars => InOnePlace' /\ LetGoBefore'
  BY InOnePlaceStep, LetGoStep DEF LedgerInv
<1>3. LedgerInv /\ LetGoBefore => (~Running => Queue!Init)
  BY NoQueueLeft
<1>4. LedgerInv /\ InOnePlace /\ LetGoBefore /\ [Next]_vars
      => [Running' => Queue!Next \/ UNCHANGED Queue!qvars]_vars
  BY QueueUseStep DEF Offers, Offer, Asking, InHand, Queue!qvars
<1> QED
  BY <1>1, <1>2, <1>3, <1>4, LedgerInvariant, PTL DEF Spec, SafeSpec, UsesBoundedQueue
=============================================================================
