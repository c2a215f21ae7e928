---------------------------- MODULE LedgerProofs ----------------------------
(***************************************************************************)
(* Theorems about Ledger, for any set of requests, any timestamps and any  *)
(* capacity of the queue.                                                  *)
(***************************************************************************)
EXTENDS Ledger, SequenceTheorems, TLAPS

\* A sequence, whatever its elements.
IsSequence(s) == s \in Seq(ToSet(s))

\* Appending keeps what was there and adds one element behind it.
LEMMA AppendSequence ==
    ASSUME NEW s, IsSequence(s), NEW e
    PROVE  /\ IsSequence(Append(s, e))
           /\ Len(s) \in Nat
           /\ Len(Append(s, e)) = Len(s) + 1
           /\ DOMAIN s = 1..Len(s)
           /\ DOMAIN Append(s, e) = 1..(Len(s) + 1)
           /\ \A i \in 1..Len(s) : Append(s, e)[i] = s[i]
           /\ Append(s, e)[Len(s) + 1] = e
           /\ ToSet(Append(s, e)) = ToSet(s) \cup {e}
<1> DEFINE T == ToSet(s) \cup {e}
           t == Append(s, e)
<1>1. s \in Seq(T)
  BY SeqMonotonic DEF IsSequence
<1>2. /\ Len(s) \in Nat /\ DOMAIN s = 1..Len(s)
      /\ t \in Seq(T) /\ Len(t) = Len(s) + 1 /\ DOMAIN t = 1..(Len(s) + 1)
      /\ \A i \in 1..Len(s) : t[i] = s[i]
      /\ t[Len(s) + 1] = e
  BY <1>1
<1>3. ToSet(t) = T
  BY <1>2 DEF ToSet
<1> QED
  BY <1>2, <1>3 DEF IsSequence

LEMMA SingletonSequence ==
    ASSUME NEW e
    PROVE  /\ IsSequence(<<e>>) /\ Len(<<e>>) = 1 /\ <<e>>[1] = e
           /\ ToSet(<<e>>) = {e}
<1>1. ToSet(<<e>>) = {e}
  BY DEF ToSet
<1> QED
  BY <1>1 DEF IsSequence

LEMMA EmptySequence == IsSequence(<<>>) /\ Len(<<>>) = 0 /\ ToSet(<<>>) = {}
<1>1. ToSet(<<>>) = {}
  BY DEF ToSet
<1> QED
  BY <1>1 DEF IsSequence
-----------------------------------------------------------------------------
(* The file *)

FileOK ==
    /\ IsSequence(lines)
    /\ open \in BOOLEAN
    /\ open => Len(lines) > 0
    /\ \A i \in 1..Len(lines) : IsSequence(lines[i]) /\ Len(lines[i]) > 0

\* A piece that is written is in the file, and all that was there before still is.
LEMMA WritePieceFile ==
    ASSUME FileOK, NEW piece, WritePiece(piece)
    PROVE  /\ FileOK'
           /\ Written' = Written \cup {piece}
<1>1. /\ Len(lines) \in Nat /\ DOMAIN lines = 1..Len(lines)
      /\ \A i \in 1..Len(lines) : IsSequence(lines[i]) /\ Len(lines[i]) > 0
  BY AppendSequence DEF FileOK
<1>2. CASE open
  <2> DEFINE n == Len(lines)
             last == Append(lines[n], piece)
  <2>1. n \in 1..n /\ IsSequence(lines[n]) /\ Len(lines[n]) > 0
    BY <1>1, <1>2 DEF FileOK
  <2>2. /\ IsSequence(last) /\ Len(last) > 0
        /\ ToSet(last) = ToSet(lines[n]) \cup {piece}
    BY <2>1, AppendSequence
  <2>3. lines' = [lines EXCEPT ![n] = last]
    BY <1>2 DEF WritePiece
  <2> HIDE DEF last
  <2>4. /\ DOMAIN lines' = 1..n
        /\ \A i \in 1..n : lines'[i] = IF i = n THEN last ELSE lines[i]
    BY <1>1, <2>3
  <2>5. IsSequence(lines') /\ Len(lines') = n
    <3>1. lines' \in [1..n -> ToSet(lines')]
      BY <1>1, <2>3, <2>4 DEF ToSet
    <3> QED
      BY <1>1, <3>1, IsASeq DEF IsSequence
  <2>6. FileOK'
    <3>1. open' = TRUE
      BY DEF WritePiece
    <3>2. \A i \in 1..n : IsSequence(lines'[i]) /\ Len(lines'[i]) > 0
      BY <1>1, <2>2, <2>4
    <3>3. Len(lines') > 0
      BY <1>1, <2>1, <2>5
    <3> QED
      BY <2>5, <3>1, <3>2, <3>3 DEF FileOK
  <2>7. Written' = Written \cup {piece}
    BY <1>1, <2>1, <2>2, <2>4 DEF Written
  <2> QED
    BY <2>6, <2>7
<1>3. CASE ~open
  <2> DEFINE n == Len(lines)
  <2>1. lines' = Append(lines, <<piece>>)
    BY <1>3 DEF WritePiece
  <2>2. /\ IsSequence(lines') /\ Len(lines') = n + 1 /\ DOMAIN lines' = 1..(n + 1)
        /\ \A i \in 1..n : lines'[i] = lines[i]
        /\ lines'[n + 1] = <<piece>>
    BY <2>1, AppendSequence DEF FileOK
  <2>3. /\ IsSequence(<<piece>>) /\ Len(<<piece>>) > 0
        /\ ToSet(<<piece>>) = {piece}
    BY SingletonSequence
  <2>4. FileOK'
    <3>1. open' = TRUE
      BY DEF WritePiece
    <3>2. \A i \in 1..(n + 1) : IsSequence(lines'[i]) /\ Len(lines'[i]) > 0
      <4> TAKE i \in 1..(n + 1)
      <4>1. i \in 1..n \/ i = n + 1
        BY <1>1
      <4> QED
        BY <1>1, <2>2, <2>3, <4>1
    <3>3. Len(lines') > 0
      BY <1>1, <2>2
    <3> QED
      BY <2>2, <3>1, <3>2, <3>3 DEF FileOK
  <2>5. Written' = Written \cup {piece}
    BY <1>1, <2>2, <2>3 DEF Written
  <2> QED
    BY <2>4, <2>5
<1> QED
  BY <1>2, <1>3 DEF FileOK

\* A file that loads, loads whole.
LEMMA LoadedWhole ==
    ASSUME FileOK, Loadable
    PROVE  /\ IsSequence(Loaded) /\ Len(Loaded) = Len(lines)
           /\ ToSet(Loaded) = Written
<1>1. Len(lines) \in Nat /\ DOMAIN lines = 1..Len(lines)
  BY AppendSequence DEF FileOK
<1>2. \A i \in 1..Len(lines) : ToSet(lines[i]) = {lines[i][1]}
  <2> TAKE i \in 1..Len(lines)
  <2>1. IsSequence(lines[i]) /\ Len(lines[i]) = 1
    BY <1>1 DEF FileOK, Loadable, ParsesAsBlock
  <2>2. DOMAIN lines[i] = 1..1
    BY <2>1, AppendSequence
  <2> QED
    BY <2>2 DEF ToSet
<1>3. Loaded \in [1..Len(lines) -> ToSet(Loaded)]
  BY DEF Loaded, ToSet
<1>4. IsSequence(Loaded) /\ Len(Loaded) = Len(lines)
  BY <1>1, <1>3, IsASeq DEF IsSequence
<1>5. ToSet(Loaded) = {lines[i][1] : i \in 1..Len(lines)}
  BY DEF Loaded, ToSet
<1>6. Written = {lines[i][1] : i \in 1..Len(lines)}
  BY <1>1, <1>2 DEF Written
<1> QED
  BY <1>4, <1>5, <1>6
-----------------------------------------------------------------------------
(* Control: how far main() has come, where the writer is, who still waits.  *)

\* Between a block's computation and its reply, and outside boot, where main()
\* itself is the writer.
Appending == {"body", "newline", "push", "publish", "reply"}

ControlOK ==
    /\ phase \in Phases
    /\ step \in Steps
    /\ closed \in BOOLEAN
    /\ badbit \in BOOLEAN
    /\ phase = "down" <=> step = "off"
    /\ phase = "booting" => step \in {"body", "newline"}
    /\ phase = "closing" <=> closed
    /\ badbit => phase \notin {"down", "booting"} /\ step \notin Appending \ {"body"}

ClientsOK ==
    /\ queue \in Seq(Requests)
    /\ status \in [Requests -> Statuses]
    /\ DOMAIN answer = Requests
    /\ step = "build" => current \in Requests
    /\ phase # "booting" /\ step \in Appending =>
          current \in Requests /\ created.event = current

\* Whenever main() is not serving, every handler has answered.
HandlersOK ==
    /\ phase \in {"down", "booting", "closing"} => HandlersDone
    /\ \A r \in Requests : status[r] # "refused"

\* The phases of main() and the steps of the writer fit together.
LEMMA ControlStep ==
    ASSUME ControlOK, [Next]_vars
    PROVE  ControlOK'
<1> USE DEF ControlOK, Phases, Steps, Appending, disk, server, clients
<1>1. CASE Boot
  BY <1>1 DEF Boot, BootFresh, BootReload, BootFails, vars
<1>2. CASE \E r \in Requests : Post(r) \/ Push(r)
  BY <1>2 DEF Post, Push
<1>3. CASE Pop \/ PopEnd \/ BuildNext
  BY <1>3 DEF Pop, PopEnd, EndOfQueue, BuildNext
<1>4. CASE WriteBody \/ WriteNewline
  BY <1>4 DEF WriteBody, WriteNewline, OncePersisted
<1>5. CASE WriteFails
  <2>1. CASE phase = "booting"
    BY <1>5, <2>1 DEF WriteFails, AppendFails, Gone
  <2>2. CASE phase # "booting"
    BY <1>5, <2>2 DEF WriteFails, AppendFails, Throw, NextRequest
  <2> QED
    BY <2>1, <2>2
<1>6. CASE WriteOnBadStream \/ OutOfMemory
  BY <1>6 DEF WriteOnBadStream, OutOfMemory, Throw, NextRequest
<1>7. CASE PushPersisted \/ Publish \/ Reply
  BY <1>7 DEF PushPersisted, Publish, Reply, NextRequest
<1>8. CASE Stop
  BY <1>8 DEF Stop
<1>12. CASE CloseQueue
  BY <1>12 DEF CloseQueue
<1>11. CASE Exit
  BY <1>11 DEF Exit, Gone
<1>9. CASE Crash
  BY <1>9 DEF Crash, Gone
<1>10. CASE UNCHANGED vars
  BY <1>10 DEF vars
<1> QED
  BY <1>1, <1>2, <1>3, <1>4, <1>5, <1>6, <1>7, <1>8, <1>9, <1>10, <1>11,
     <1>12 DEF Next, WriterStep, Shutdown

\* The request in hand is one that was posted, and its block carries it.
LEMMA ClientsStep ==
    ASSUME ControlOK, ClientsOK, [Next]_vars
    PROVE  ClientsOK'
<1> USE DEF ControlOK, ClientsOK, Appending, Statuses, Pending, Answered,
            disk, server, clients
<1>1. CASE Boot
  BY <1>1 DEF Boot, BootFresh, BootReload, BootFails, vars
<1>2. ASSUME NEW r \in Requests, Post(r) PROVE ClientsOK'
  BY <1>2 DEF Post
<1>3. ASSUME NEW r \in Requests, Push(r) PROVE ClientsOK'
  BY <1>3 DEF Push
<1>4. CASE Pop
  <2>1. queue' \in Seq(Requests) /\ current' \in Requests
    BY <1>4, HeadTailProperties DEF Pop
  <2> QED
    BY <1>4, <2>1 DEF Pop
<1>5. CASE PopEnd
  BY <1>5 DEF PopEnd
<1>6. CASE BuildNext
  BY <1>6 DEF BuildNext, make_block
<1>7. CASE WriteBody \/ WriteNewline
  BY <1>7 DEF WriteBody, WriteNewline, OncePersisted
<1>8. ASSUME phase # "booting", step \in Appending, Throw, UNCHANGED <<queue, answer>>
      PROVE  ClientsOK'
  BY <1>8 DEF Throw, NextRequest
<1>9. CASE WriteFails
  <2>1. CASE phase = "booting"
    <3>1. step' = "off" /\ queue' = <<>> /\ UNCHANGED clients
      BY <1>9, <2>1 DEF WriteFails, AppendFails, Gone
    <3> QED
      BY <3>1
  <2>2. CASE phase # "booting"
    BY <1>8, <1>9, <2>2 DEF WriteFails, AppendFails
  <2> QED
    BY <2>1, <2>2
<1>10. CASE WriteOnBadStream \/ OutOfMemory
  BY <1>8, <1>10 DEF WriteOnBadStream, OutOfMemory
<1>11. CASE PushPersisted \/ Publish
  BY <1>11 DEF PushPersisted, Publish
<1>12. CASE Reply
  BY <1>12 DEF Reply, NextRequest
<1>13. CASE Stop \/ CloseQueue
  BY <1>13 DEF Stop, CloseQueue
<1>14. CASE Exit
  BY <1>14 DEF Exit, Gone
<1>15. CASE Crash
  BY <1>15 DEF Crash, Gone
<1>16. CASE UNCHANGED vars
  BY <1>16 DEF vars
<1> QED
  BY <1>1, <1>2, <1>3, <1>4, <1>5, <1>6, <1>7, <1>9, <1>10, <1>11, <1>12, <1>13,
     <1>14, <1>15, <1>16 DEF Next, WriterStep, Shutdown

\* No handler is left waiting where main() does not serve, and none is refused.
LEMMA HandlersStep ==
    ASSUME ControlOK, ClientsOK, HandlersOK, [Next]_vars
    PROVE  HandlersOK'
<1> USE DEF ControlOK, ClientsOK, HandlersOK, HandlersDone, Pending, Appending,
            disk, server, clients
<1>1. CASE Boot
  BY <1>1 DEF Boot, BootFresh, BootReload, BootFails, vars
<1>2. CASE \E r \in Requests : Post(r) \/ Push(r)
  BY <1>2 DEF Post, Push
<1>3. CASE Pop \/ PopEnd \/ BuildNext
  BY <1>3 DEF Pop, PopEnd, BuildNext
<1>4. CASE WriteBody \/ WriteNewline
  BY <1>4 DEF WriteBody, WriteNewline
<1>5. ASSUME Throw, UNCHANGED phase PROVE HandlersOK'
  BY <1>5 DEF Throw
<1>6. CASE WriteFails
  <2>1. CASE phase = "booting"
    BY <1>6, <2>1 DEF WriteFails, AppendFails, Gone
  <2>2. CASE phase # "booting"
    <3>1. Throw /\ UNCHANGED phase
      BY <1>6, <2>2 DEF WriteFails, AppendFails
    <3> QED
      BY <1>5, <3>1
  <2> QED
    BY <2>1, <2>2
<1>7. CASE WriteOnBadStream \/ OutOfMemory
  <2>1. Throw /\ UNCHANGED phase
    BY <1>7 DEF WriteOnBadStream, OutOfMemory
  <2> QED
    BY <1>5, <2>1
<1>8. CASE PushPersisted \/ Publish \/ Reply
  BY <1>8 DEF PushPersisted, Publish, Reply
<1>9. CASE Stop \/ CloseQueue
  BY <1>9 DEF Stop, CloseQueue
<1>10. CASE Exit
  BY <1>10 DEF Exit, Gone
<1>11. CASE Crash
  BY <1>11 DEF Crash, Gone
<1>12. CASE UNCHANGED vars
  BY <1>12 DEF vars
<1> QED
  BY <1>1, <1>2, <1>3, <1>4, <1>6, <1>7, <1>8, <1>9, <1>10, <1>11, <1>12
  DEF Next, WriterStep, Shutdown
-----------------------------------------------------------------------------
(* File and chain: what was written stays, and it is written before it is   *)
(* served or acknowledged.                                                  *)

\* A step that leaves the file alone.
LEMMA SameFile ==
    ASSUME FileOK, UNCHANGED disk
    PROVE  FileOK' /\ Written' = Written
BY DEF disk, FileOK, Written

\* The file keeps its form, and what was written stays written.
LEMMA FileStep ==
    ASSUME FileOK, ControlOK, [Next]_vars
    PROVE  FileOK' /\ Written \subseteq Written'
<1> USE DEF disk, server, clients
<1>1. CASE UNCHANGED disk
  BY <1>1, SameFile
<1>2. ASSUME NEW piece, WritePiece(piece) PROVE FileOK' /\ Written \subseteq Written'
  BY <1>2, WritePieceFile
<1>3. CASE WriteNewline
  <2>1. lines' = lines /\ open' = FALSE
    BY <1>3 DEF WriteNewline
  <2> QED
    BY <2>1 DEF FileOK, Written
<1>4. CASE WriteBody
  BY <1>2, <1>4 DEF WriteBody
<1>5. CASE WriteFails \/ Crash
  BY <1>1, <1>2, <1>5 DEF WriteFails, Crash, WriteNothing
<1>6. CASE Boot
  BY <1>1, <1>6 DEF Boot, BootFresh, BootReload, BootFails, vars
<1>7. CASE \E r \in Requests : Post(r) \/ Push(r)
  BY <1>1, <1>7 DEF Post, Push
<1>8. CASE Pop \/ PopEnd \/ BuildNext \/ WriteOnBadStream \/ OutOfMemory
  BY <1>1, <1>8 DEF Pop, PopEnd, BuildNext, WriteOnBadStream, OutOfMemory
<1>9. CASE PushPersisted \/ Publish \/ Reply \/ Stop \/ Shutdown
  BY <1>1, <1>9 DEF PushPersisted, Publish, Reply, Stop, Shutdown, CloseQueue, Exit
<1>10. CASE UNCHANGED vars
  BY <1>1, <1>10 DEF vars
<1> QED
  BY <1>3, <1>4, <1>5, <1>6, <1>7, <1>8, <1>9, <1>10 DEF Next, WriterStep

\* A file that still loads after a write grew by one line, which is what was written.
LEMMA WritePieceLoaded ==
    ASSUME FileOK, NEW piece, WritePiece(piece), Loadable'
    PROVE  /\ Loadable /\ piece # Torn
           /\ Loaded' = Append(Loaded, piece)
<1> DEFINE n == Len(lines)
<1>1. /\ n \in Nat /\ DOMAIN lines = 1..n
      /\ \A i \in 1..n : IsSequence(lines[i]) /\ Len(lines[i]) > 0
  BY AppendSequence DEF FileOK
<1>2. ~open
  <2>1. SUFFICES ASSUME open PROVE FALSE
    OBVIOUS
  <2>2. n \in 1..n /\ IsSequence(lines[n]) /\ Len(lines[n]) > 0
    BY <1>1, <2>1 DEF FileOK
  <2>3. n \in DOMAIN lines' /\ lines'[n] = Append(lines[n], piece)
    BY <1>1, <2>1, <2>2 DEF WritePiece
  <2>4. Len(Append(lines[n], piece)) = Len(lines[n]) + 1 /\ Len(lines[n]) \in Nat
    BY <2>2, AppendSequence
  <2>5. Len(lines'[n]) = 1
    BY <2>3 DEF Loadable, ParsesAsBlock
  <2> QED
    BY <2>2, <2>3, <2>4, <2>5
<1>3. /\ Len(lines') = n + 1 /\ DOMAIN lines' = 1..(n + 1)
      /\ \A i \in 1..n : lines'[i] = lines[i]
      /\ lines'[n + 1] = <<piece>>
  <2>1. lines' = Append(lines, <<piece>>)
    BY <1>2 DEF WritePiece
  <2> QED
    BY <2>1, AppendSequence DEF FileOK
<1>4. Loadable
  <2>1. \A i \in 1..n : i \in 1..(n + 1)
    BY <1>1
  <2> QED
    BY <1>1, <1>3, <2>1 DEF Loadable
<1>5. piece # Torn
  <2>1. n + 1 \in DOMAIN lines'
    BY <1>1, <1>3
  <2> QED
    BY <1>3, <2>1 DEF Loadable, ParsesAsBlock
<1>6. Loaded' = Append(Loaded, piece)
  <2>1. IsSequence(Loaded) /\ Len(Loaded) = n
    BY <1>4, LoadedWhole
  <2> DEFINE t == Append(Loaded, piece)
  <2>2. /\ IsSequence(t) /\ Len(t) = n + 1 /\ DOMAIN t = 1..(n + 1)
        /\ \A i \in 1..n : t[i] = Loaded[i]
        /\ t[n + 1] = piece
    BY <2>1, AppendSequence
  <2> HIDE DEF t
  <2>3. t = [i \in 1..(n + 1) |-> t[i]]
    BY <2>2 DEF IsSequence
  <2>4. \A i \in 1..(n + 1) : t[i] = lines'[i][1]
    <3> TAKE i \in 1..(n + 1)
    <3>1. CASE i \in 1..n
      BY <1>1, <1>3, <2>2, <3>1 DEF Loaded
    <3>2. CASE i = n + 1
      BY <1>3, <2>2, <3>2
    <3> QED
      BY <1>1, <3>1, <3>2
  <2>5. Loaded' = [i \in 1..(n + 1) |-> lines'[i][1]]
    BY <1>3 DEF Loaded
  <2>6. Loaded' = t
    BY <2>3, <2>4, <2>5
  <2> QED
    BY <2>6 DEF t
<1> QED
  BY <1>4, <1>5, <1>6

\* Nobody but the writer writes, and it does in these steps.
LEMMA OnlyWritesWrite ==
    ASSUME Next, ~WriteBody, ~WriteFails, ~Crash PROVE lines' = lines
<1> USE DEF disk, server, clients
<1>1. CASE Boot
  BY <1>1 DEF Boot, BootFresh, BootReload, BootFails, vars
<1>2. CASE \E r \in Requests : Post(r) \/ Push(r)
  BY <1>2 DEF Post, Push
<1>3. CASE WriterStep
  BY <1>3 DEF WriterStep, Pop, PopEnd, BuildNext, WriteNewline,
              WriteOnBadStream, PushPersisted, Publish, Reply, OutOfMemory
<1>4. CASE Stop \/ Shutdown
  BY <1>4 DEF Stop, Shutdown, CloseQueue, Exit
<1> QED
  BY <1>1, <1>2, <1>3, <1>4 DEF Next

\* Where the block that is being appended is.
ChainOK ==
    /\ IsSequence(chain)
    /\ phase = "booting" => chain = <<created>>
    /\ phase # "down" => chain # <<>>
    /\ step \in {"newline", "push", "publish", "reply"} => created \in Written
    /\ step \in {"publish", "reply"} => created \in ToSet(chain)

\* The block that is being appended enters the chain, or does not.
LEMMA PushedChain ==
    ASSUME ChainOK, step = "push"
    PROVE  LET c == push_persisted(chain, created)
           IN  /\ IsSequence(c) /\ c # <<>>
               /\ ToSet(c) = ToSet(chain) \cup {created}
               /\ created \in Written
<1>1. /\ IsSequence(Append(chain, created))
      /\ Len(chain) \in Nat
      /\ Len(Append(chain, created)) = Len(chain) + 1
      /\ ToSet(Append(chain, created)) = ToSet(chain) \cup {created}
  BY AppendSequence DEF ChainOK
<1>2. Append(chain, created) # <<>>
  BY <1>1, EmptySequence
<1> QED
  BY <1>1, <1>2 DEF push_persisted, ChainOK

\* The lengths, as numbers.
LEMMA Lengths ==
    ASSUME FileOK, ChainOK
    PROVE  /\ Len(lines) \in Nat /\ Len(chain) \in Nat
           /\ phase # "down" => Len(chain) > 0
           /\ Len(push_persisted(chain, created)) = Len(chain) + 1
<1>1. /\ Len(lines) \in Nat /\ Len(chain) \in Nat
      /\ Len(Append(chain, created)) = Len(chain) + 1
  BY AppendSequence DEF FileOK, ChainOK
<1>2. chain # <<>> => Len(chain) # 0
  BY EmptySequence DEF ChainOK, IsSequence
<1> QED
  BY <1>1, <1>2 DEF ChainOK, push_persisted

\* push_persisted and the reload are all that ever puts a block into the chain.
LEMMA ChainStep ==
    ASSUME FileOK, ControlOK, ChainOK, [Next]_vars
    PROVE  ChainOK'
<1>w. Written \subseteq Written'
  BY FileStep
<1> USE <1>w DEF ControlOK, Appending, ChainOK, disk, server, clients
<1>1. ASSUME Gone PROVE ChainOK'
  <2>1. chain' = <<>> /\ phase' = "down" /\ step' = "off"
    BY <1>1 DEF Gone
  <2> QED
    BY <2>1, EmptySequence
<1>2. ASSUME UNCHANGED chain, UNCHANGED phase,
             step' \in {"pop", "build", "done"}, phase # "booting"
      PROVE  ChainOK'
  BY <1>2
<1>3. CASE BootFresh
  <2>1. PICK ts \in Timestamps : chain' = <<genesis(ts)>> /\ created' = genesis(ts)
    BY <1>3 DEF BootFresh
  <2>2. phase' = "booting" /\ step' = "body"
    BY <1>3 DEF BootFresh
  <2>3. IsSequence(chain') /\ chain' # <<>>
    BY <2>1, SingletonSequence, EmptySequence
  <2> QED
    BY <2>1, <2>2, <2>3
<1>4. CASE BootReload
  <2>1. chain' = Loaded /\ step' = "pop" /\ phase' = "up"
    BY <1>4 DEF BootReload
  <2>2. IsSequence(Loaded) /\ Len(Loaded) = Len(lines)
    BY <1>4, LoadedWhole DEF BootReload
  <2>3. Loaded # <<>>
    <3>1. Len(lines) \in Nat /\ lines # <<>> /\ DOMAIN lines = 1..Len(lines)
      BY <1>4, AppendSequence DEF BootReload, FileOK
    <3>2. Len(lines) # 0
      BY <3>1, EmptySequence DEF FileOK, IsSequence
    <3> QED
      BY <2>2, <3>2, EmptySequence
  <2> QED
    BY <2>1, <2>2, <2>3
<1>5. CASE BootFails
  BY <1>5 DEF BootFails, vars
<1>6. CASE \E r \in Requests : Post(r) \/ Push(r)
  BY <1>6 DEF Post, Push
<1>7. CASE Pop \/ PopEnd
  BY <1>7 DEF Pop, PopEnd
<1>8. CASE BuildNext
  BY <1>8 DEF BuildNext
<1>9. CASE WriteBody
  BY <1>9, WritePieceFile DEF WriteBody
<1>10. CASE WriteNewline
  <2>1. CASE phase = "booting"
    BY <1>10, <2>1 DEF WriteNewline
  <2>2. CASE phase # "booting"
    BY <1>10, <2>2 DEF WriteNewline, OncePersisted
  <2> QED
    BY <2>1, <2>2
<1>11. CASE WriteFails
  <2>1. CASE phase = "booting"
    BY <1>1, <1>11, <2>1 DEF WriteFails, AppendFails
  <2>2. CASE phase # "booting"
    BY <1>2, <1>11, <2>2 DEF WriteFails, AppendFails, Throw, NextRequest
  <2> QED
    BY <2>1, <2>2
<1>12. CASE WriteOnBadStream
  BY <1>2, <1>12 DEF WriteOnBadStream, Throw, NextRequest
<1>13. CASE PushPersisted
  BY <1>13, PushedChain DEF PushPersisted
<1>14. CASE OutOfMemory
  <2>1. step' = "pop" /\ phase' = phase /\ phase # "booting"
    BY <1>14 DEF OutOfMemory, Throw, NextRequest
  <2>2. IsSequence(chain') /\ (phase # "down" => chain' # <<>>)
    BY <1>14, PushedChain DEF OutOfMemory, AfterThrow
  <2> QED
    BY <2>1, <2>2
<1>15. CASE Publish \/ Reply
  BY <1>15 DEF Publish, Reply, NextRequest
<1>16. CASE Stop \/ CloseQueue
  BY <1>16 DEF Stop, CloseQueue
<1>17. CASE Exit \/ Crash
  BY <1>1, <1>17 DEF Exit, Crash
<1>18. CASE UNCHANGED vars
  BY <1>18 DEF vars
<1> QED
  BY <1>3, <1>4, <1>5, <1>6, <1>7, <1>8, <1>9, <1>10, <1>11, <1>12, <1>13, <1>14,
     <1>15, <1>16, <1>17, <1>18 DEF Next, WriterStep, Shutdown, Boot
-----------------------------------------------------------------------------
(* Durability: the invariant, and what it says to readers and to clients.   *)

LedgerInv ==
    /\ FileOK
    /\ ControlOK
    /\ ClientsOK
    /\ HandlersOK
    /\ ChainOK
    /\ NothingServedUnpersisted
    /\ AcknowledgedIsDurable

\* The initial state.
LEMMA LedgerInit == Init => LedgerInv
<1> SUFFICES ASSUME Init PROVE LedgerInv
  OBVIOUS
<1>1. FileOK
  <2>1. lines = <<>> /\ open = FALSE
    BY DEF Init
  <2>2. Len(lines) = 0 /\ IsSequence(lines)
    BY <2>1, EmptySequence
  <2>3. 1..Len(lines) = {}
    BY <2>2
  <2>4. open \in BOOLEAN /\ ~open
    BY <2>1
  <2> QED
    BY <2>2, <2>3, <2>4, Zenon DEF FileOK
<1> USE DEF Init
<1>2. ControlOK
  BY DEF ControlOK, Phases, Steps, Appending
<1>3. ClientsOK
  BY DEF ClientsOK, Statuses, Appending
<1>4. HandlersOK
  BY DEF HandlersOK, HandlersDone, Pending
<1>5. ChainOK
  BY EmptySequence DEF ChainOK
<1>6. NothingServedUnpersisted /\ AcknowledgedIsDurable
  BY DEF NothingServedUnpersisted, AcknowledgedIsDurable
<1> QED
  BY <1>1, <1>2, <1>3, <1>4, <1>5, <1>6 DEF LedgerInv

\* A reload takes in the whole file; every other step only adds what is written.
LEMMA ServedStep ==
    ASSUME FileOK, ControlOK, ChainOK, NothingServedUnpersisted, [Next]_vars
    PROVE  NothingServedUnpersisted'
<1>w. Written \subseteq Written'
  BY FileStep
<1> USE <1>w DEF NothingServedUnpersisted, ControlOK, Appending, disk, server, clients
<1>1. ASSUME Gone PROVE NothingServedUnpersisted'
  BY <1>1 DEF Gone
<1>2. ASSUME UNCHANGED chain, phase' = phase \/ phase = "up" \/ phase = "stopping"
      PROVE  NothingServedUnpersisted'
  BY <1>2
<1>3. CASE BootFresh
  BY <1>3 DEF BootFresh
<1>4. CASE BootReload
  BY <1>4, LoadedWhole DEF BootReload
<1>5. CASE BootFails \/ UNCHANGED vars
  BY <1>2, <1>5 DEF BootFails, vars
<1>6. CASE \E r \in Requests : Post(r) \/ Push(r)
  BY <1>2, <1>6 DEF Post, Push
<1>7. CASE Pop \/ PopEnd \/ BuildNext \/ WriteBody \/ Publish \/ Reply
  BY <1>2, <1>7 DEF Pop, PopEnd, BuildNext, WriteBody, Publish, Reply
<1>8. CASE WriteNewline
  <2>1. CASE phase = "booting"
    <3>1. chain = <<created>> /\ created \in Written /\ chain' = chain
      BY <1>8, <2>1 DEF WriteNewline, ChainOK
    <3> QED
      BY <3>1, SingletonSequence
  <2>2. CASE phase # "booting"
    BY <1>2, <1>8, <2>2 DEF WriteNewline
  <2> QED
    BY <2>1, <2>2
<1>9. CASE WriteFails
  BY <1>1, <1>2, <1>9 DEF WriteFails, AppendFails
<1>10. CASE WriteOnBadStream
  BY <1>2, <1>10 DEF WriteOnBadStream
<1>11. CASE PushPersisted
  BY <1>11, PushedChain DEF PushPersisted
<1>12. CASE OutOfMemory
  BY <1>12, PushedChain DEF OutOfMemory, AfterThrow
<1>13. CASE Stop \/ CloseQueue
  BY <1>2, <1>13 DEF Stop, CloseQueue
<1>14. CASE Exit \/ Crash
  BY <1>1, <1>14 DEF Exit, Crash
<1> QED
  BY <1>3, <1>4, <1>5, <1>6, <1>7, <1>8, <1>9, <1>10, <1>11, <1>12, <1>13, <1>14
  DEF Next, WriterStep, Shutdown, Boot

\* The blocks of a chain stay in it as long as the process lives, and are all in
\* the chain of the next one.
LEMMA KeptStep ==
    ASSUME FileOK, ControlOK, ChainOK, [Next]_vars, NEW b \in Written,
           Running => b \in ToSet(chain)
    PROVE  Running' => b \in ToSet(chain')
<1> USE DEF Running, ControlOK, disk, server, clients
<1>1. CASE UNCHANGED chain /\ (phase' = "down" \/ phase # "down")
  BY <1>1
<1>2. CASE BootReload
  BY <1>2, LoadedWhole DEF BootReload
<1>3. CASE PushPersisted
  BY <1>3, PushedChain DEF PushPersisted
<1>4. CASE OutOfMemory
  BY <1>4, PushedChain DEF OutOfMemory, AfterThrow
<1>5. ASSUME Gone PROVE Running' => b \in ToSet(chain')
  BY <1>5 DEF Gone
<1>6. CASE BootFails \/ UNCHANGED vars
  <2>1. UNCHANGED chain /\ UNCHANGED phase
    BY <1>6 DEF BootFails, vars
  <2> QED
    BY <2>1
<1>12. CASE BootFresh
  <2>1. Written = {}
    BY <1>12, EmptySequence DEF BootFresh, Written, ToSet
  <2> QED
    BY <2>1
<1>7. CASE \E r \in Requests : Post(r) \/ Push(r)
  BY <1>1, <1>7 DEF Post, Push
<1>8. CASE Pop \/ PopEnd \/ BuildNext \/ WriteBody \/ Publish \/ Reply
  BY <1>1, <1>8 DEF Pop, PopEnd, BuildNext, WriteBody, Publish, Reply
<1>9. CASE WriteNewline \/ WriteOnBadStream \/ Stop \/ CloseQueue
  BY <1>1, <1>9 DEF WriteNewline, WriteOnBadStream, Stop, CloseQueue
<1>10. CASE WriteFails
  BY <1>1, <1>5, <1>10 DEF WriteFails, AppendFails
<1>11. CASE Exit \/ Crash
  BY <1>5, <1>11 DEF Exit, Crash
<1> QED
  BY <1>2, <1>3, <1>4, <1>6, <1>7, <1>8, <1>9, <1>10, <1>11, <1>12
  DEF Next, WriterStep, Shutdown, Boot

\* Nobody but the writer acknowledges, and it does once the block is in the chain.
LEMMA AcknowledgedBy ==
    ASSUME ControlOK, ClientsOK, ChainOK, [Next]_vars,
           NEW r \in Requests, status'[r] = "created"
    PROVE  \/ status[r] = "created" /\ answer'[r] = answer[r]
           \/ /\ step = "reply" /\ r = current /\ answer'[r] = created
              /\ UNCHANGED <<disk, chain>> /\ step' = "pop"
<1> USE DEF ControlOK, ClientsOK, Appending, disk, server, clients
<1>1. CASE UNCHANGED clients
  BY <1>1
<1>2. CASE \E q \in Requests : Post(q) \/ Push(q)
  BY <1>2 DEF Post, Push
<1>3. ASSUME Throw, UNCHANGED answer
      PROVE  status[r] = "created" /\ answer'[r] = answer[r]
  BY <1>3 DEF Throw
<1>4. CASE WriteFails
  <2>1. CASE phase = "booting"
    BY <1>1, <1>4, <2>1 DEF WriteFails, AppendFails
  <2>2. CASE phase # "booting"
    BY <1>3, <1>4, <2>2 DEF WriteFails, AppendFails
  <2> QED
    BY <2>1, <2>2
<1>5. CASE WriteOnBadStream \/ OutOfMemory
  BY <1>3, <1>5 DEF WriteOnBadStream, OutOfMemory
<1>6. CASE Reply
  BY <1>6 DEF Reply, NextRequest
<1>7. CASE Crash
  BY <1>7 DEF Crash, Pending
<1>8. CASE Boot
  BY <1>1, <1>8 DEF Boot, BootFresh, BootReload, BootFails, vars
<1>9. CASE Pop \/ PopEnd \/ BuildNext \/ WriteBody \/ WriteNewline
  BY <1>1, <1>9 DEF Pop, PopEnd, BuildNext, WriteBody, WriteNewline
<1>10. CASE PushPersisted \/ Publish \/ Stop \/ Shutdown
  BY <1>1, <1>10 DEF PushPersisted, Publish, Stop, Shutdown, CloseQueue, Exit
<1>11. CASE UNCHANGED vars
  BY <1>1, <1>11 DEF vars
<1> QED
  BY <1>2, <1>4, <1>5, <1>6, <1>7, <1>8, <1>9, <1>10, <1>11 DEF Next, WriterStep

\* A 201 that was given stays true, and a new one is true.
LEMMA AcknowledgedStep ==
    ASSUME LedgerInv, [Next]_vars
    PROVE  AcknowledgedIsDurable'
<1> USE DEF LedgerInv
<1>1. Written \subseteq Written'
  BY FileStep
<1>2. SUFFICES ASSUME NEW r \in Requests, status'[r] = "created"
               PROVE  /\ answer'[r].event = r
                      /\ answer'[r] \in Written'
                      /\ Running' => answer'[r] \in ToSet(chain')
  BY Zenon DEF AcknowledgedIsDurable
<1>3. CASE status[r] = "created" /\ answer'[r] = answer[r]
  <2>1. /\ answer[r].event = r
        /\ answer[r] \in Written
        /\ Running => answer[r] \in ToSet(chain)
    BY <1>3 DEF AcknowledgedIsDurable
  <2>2. Running' => answer[r] \in ToSet(chain')
    BY <2>1, KeptStep
  <2> QED
    BY <1>1, <1>3, <2>1, <2>2
<1>4. CASE /\ step = "reply" /\ r = current /\ answer'[r] = created
           /\ UNCHANGED <<disk, chain>>
  <2>1. created.event = current /\ created \in Written /\ created \in ToSet(chain)
    BY <1>4 DEF ClientsOK, ControlOK, ChainOK, Appending
  <2> QED
    BY <1>1, <1>4, <2>1
<1> QED
  BY <1>2, <1>3, <1>4, AcknowledgedBy

\* All parts of the invariant together.
LEMMA LedgerStep == LedgerInv /\ [Next]_vars => LedgerInv'
<1> SUFFICES ASSUME LedgerInv, [Next]_vars PROVE LedgerInv'
  OBVIOUS
<1>1. FileOK' /\ ControlOK' /\ ChainOK'
  BY FileStep, ControlStep, ChainStep DEF LedgerInv
<1>2. ClientsOK' /\ HandlersOK'
  BY ClientsStep, HandlersStep DEF LedgerInv
<1>3. NothingServedUnpersisted' /\ AcknowledgedIsDurable'
  BY ServedStep, AcknowledgedStep DEF LedgerInv
<1> QED
  BY <1>1, <1>2, <1>3 DEF LedgerInv

\* The invariant holds under every fault.
LEMMA LedgerInvariant == Spec => []LedgerInv
BY LedgerInit, LedgerStep, PTL DEF Spec, SafeSpec

\* Whatever fails, and however often the process dies: every block a reader is
\* served stands in the ledger file (writer_loop persists before it publishes).
THEOREM ServedIsPersisted == Spec => []NothingServedUnpersisted
<1>1. LedgerInv => NothingServedUnpersisted
  BY DEF LedgerInv
<1> QED
  BY <1>1, LedgerInvariant, PTL

\* Whatever fails, and however often the process dies: the block a client was
\* sent in a 201 carries its event, stands in the file and is in the chain of
\* every process that comes up.
THEOREM AcknowledgedForEver == Spec => []AcknowledgedIsDurable
<1>1. LedgerInv => AcknowledgedIsDurable
  BY DEF LedgerInv
<1> QED
  BY <1>1, LedgerInvariant, PTL

\* main() closes the queue only when no handler is left inside httplib, so no
\* request that was let in is refused, or still waits when the process is gone.
THEOREM ShutdownServes == Spec => []ShutdownServesAccepted
<1>1. LedgerInv => ShutdownServesAccepted
  BY DEF LedgerInv, HandlersOK, HandlersDone, ShutdownServesAccepted, Running
<1> QED
  BY <1>1, LedgerInvariant, PTL
-----------------------------------------------------------------------------
(* What a process serves only grows.                                        *)

\* A sequence is a prefix of itself and of itself with an element more.
LEMMA PrefixOfAppend ==
    ASSUME NEW s, IsSequence(s), NEW e
    PROVE  IsPrefix(s, s) /\ IsPrefix(s, Append(s, e))
<1> DEFINE n == Len(s)
           t == Append(s, e)
<1>1. /\ n \in Nat /\ DOMAIN s = 1..n /\ Len(t) = n + 1
      /\ \A i \in 1..n : t[i] = s[i] /\ s[i] \in ToSet(s)
  BY AppendSequence DEF ToSet
<1>2. SubSeq(s, 1, n) = s
  BY SubSeqFull DEF IsSequence
<1>3. SubSeq(t, 1, n) = s
  <2> HIDE DEF t, n
  <2>1. 1 \in Int /\ n \in Int
    BY <1>1
  <2>2. /\ SubSeq(t, 1, n) \in Seq(ToSet(s))
        /\ Len(SubSeq(t, 1, n)) = IF 1 <= n THEN n - 1 + 1 ELSE 0
        /\ \A i \in 1..(n - 1 + 1) : SubSeq(t, 1, n)[i] = t[1 + i - 1]
    BY <1>1, <2>1, SubSeqProperties
  <2>3. Len(SubSeq(t, 1, n)) = n
    BY <1>1, <2>2
  <2>4. \A i \in 1..n : SubSeq(t, 1, n)[i] = s[i]
    BY <1>1, <2>2
  <2> QED
    BY <2>2, <2>3, <2>4, SeqEqual DEF IsSequence, n
<1> QED
  BY <1>1, <1>2, <1>3 DEF IsPrefix

\* Whatever fails: the chain readers are served only ever grows at its end, since
\* push_persisted alone touches it and nothing is undone when a step throws.
THEOREM ServedChainGrows == Spec => ChainAppendOnly
<1>1. LedgerInv /\ [Next]_vars => [Running /\ Running' => IsPrefix(chain, chain')]_vars
  <2> SUFFICES ASSUME LedgerInv, [Next]_vars, Running, Running'
               PROVE  IsPrefix(chain, chain')
    OBVIOUS
  <2> USE DEF disk, server, clients, Running
  <2>1. IsSequence(chain)
    BY DEF LedgerInv, ChainOK
  <2>2. CASE chain' = chain
    BY <2>1, <2>2, PrefixOfAppend
  <2>3. CASE PushPersisted
    BY <2>1, <2>3, PrefixOfAppend DEF PushPersisted, push_persisted
  <2>4. CASE OutOfMemory
    BY <2>1, <2>4, PrefixOfAppend DEF OutOfMemory, AfterThrow, push_persisted
  <2>5. CASE Boot \/ Exit \/ Crash \/ UNCHANGED vars
    BY <2>2, <2>5 DEF Boot, BootFresh, BootReload, BootFails, Exit, Crash, Gone, vars
  <2>6. CASE \E r \in Requests : Post(r) \/ Push(r)
    BY <2>2, <2>6 DEF Post, Push
  <2>7. CASE Pop \/ PopEnd \/ BuildNext \/ WriteBody \/ WriteNewline
    BY <2>2, <2>7 DEF Pop, PopEnd, BuildNext, WriteBody, WriteNewline
  <2>8. CASE WriteFails
    BY <2>2, <2>8 DEF WriteFails, AppendFails, Gone
  <2>9. CASE WriteOnBadStream \/ Publish \/ Reply \/ Stop \/ CloseQueue
    BY <2>2, <2>9 DEF WriteOnBadStream, Publish, Reply, Stop, CloseQueue
  <2> QED
    BY <2>3, <2>4, <2>5, <2>6, <2>7, <2>8, <2>9 DEF Next, WriterStep, Shutdown
<1> QED
  BY <1>1, LedgerInvariant, PTL DEF Spec, SafeSpec, ChainAppendOnly
-----------------------------------------------------------------------------
(* Types *)

BlocksOK ==
    /\ \A x \in Written : x = Torn \/ IsBlock(x)
    /\ \A x \in ToSet(chain) : IsBlock(x)
    /\ IsSequence(feed) /\ \A x \in ToSet(feed) : IsBlock(x)
    /\ step \in Appending => IsBlock(created)
    /\ created # NoBlock => IsBlock(created)
    /\ \A r \in Requests : answer[r] # NoBlock => IsBlock(answer[r])

\* make_block makes a block.
LEMMA MadeBlocks ==
    ASSUME NEW i \in Nat, NEW ts \in Timestamps, NEW e \in Requests \cup {GenesisEvent}, NEW h
    PROVE  IsBlock(make_block(i, ts, e, h))
BY DEF IsBlock, make_block

\* A function over 1..n is a sequence.
LEMMA FunctionIsSequence ==
    ASSUME NEW T, NEW n \in Nat, NEW f \in [1..n -> T] PROVE f \in Seq(T)
OBVIOUS

\* What all steps that give up a request do.
LEMMA ThrowEffect ==
    ASSUME (phase # "booting" /\ WriteFails) \/ WriteOnBadStream \/ OutOfMemory
    PROVE  /\ NextRequest
           /\ UNCHANGED <<feed, answer>>
           /\ chain' = chain \/ (step = "push" /\ chain' = push_persisted(chain, created))
<1>1. CASE phase # "booting" /\ WriteFails
  BY <1>1 DEF WriteFails, AppendFails, Throw
<1>2. CASE WriteOnBadStream
  BY <1>2 DEF WriteOnBadStream, Throw
<1>3. CASE OutOfMemory
  <2>1. NextRequest /\ UNCHANGED <<feed, answer>> /\ chain' \in AfterThrow
    BY <1>3 DEF OutOfMemory, Throw
  <2>2. CASE step = "push"
    BY <2>1, <2>2 DEF AfterThrow
  <2>3. CASE step # "push"
    BY <2>1, <2>3 DEF AfterThrow
  <2> QED
    BY <2>1, <2>2, <2>3
<1> QED
  BY <1>1, <1>2, <1>3

\* What finishing a line does.
LEMMA NewlineEffect ==
    ASSUME WriteNewline
    PROVE  /\ step = "newline"
           /\ UNCHANGED <<lines, chain, feed, answer>>
           /\ created' = created \/ (step' = "pop" /\ created' = NoBlock)
<1>1. CASE phase = "booting"
  BY <1>1 DEF WriteNewline, clients
<1>2. CASE phase # "booting"
  <2>1. created' = created
    BY <1>2 DEF WriteNewline
  <2> QED
    BY <2>1 DEF WriteNewline, clients
<1> QED
  BY <1>1, <1>2

\* WriteQueue::push never goes beyond the capacity.
LEMMA PushEffect ==
    ASSUME NEW r \in Requests, Push(r)
    PROVE  queue' = queue \/ (queue' = Append(queue, r) /\ Len(queue) < Capacity)
<1>1. CASE closed
  BY <1>1, Zenon DEF Push
<1>2. CASE ~closed
  BY <1>2 DEF Push, Room
<1> QED
  BY <1>1, <1>2

\* Nothing is written, served or answered at first.
LEMMA BlocksInit == Init => BlocksOK
<1> SUFFICES ASSUME Init PROVE BlocksOK
  OBVIOUS
<1>1. /\ chain = <<>> /\ feed = <<>> /\ step = "off" /\ lines = <<>> /\ created = NoBlock
      /\ \A r \in Requests : answer[r] = NoBlock
  BY DEF Init
<1>2. Written = {}
  BY <1>1, EmptySequence DEF Written
<1> QED
  BY <1>1, <1>2, EmptySequence DEF BlocksOK, Appending

\* Blocks are made once and only handed on after that.
LEMMA BlocksStep ==
    ASSUME LedgerInv, BlocksOK, [Next]_vars
    PROVE  BlocksOK'
<1> USE DEF LedgerInv, ControlOK, Appending, BlocksOK, disk, server, clients
<1>w. ASSUME UNCHANGED disk PROVE Written' = Written
  BY <1>w, SameFile
<1>1. ASSUME Gone, UNCHANGED answer, \A x \in Written' : x = Torn \/ IsBlock(x)
      PROVE  BlocksOK'
  <2>1. chain' = <<>> /\ feed' = <<>> /\ created' = NoBlock /\ step' = "off"
    BY <1>1 DEF Gone
  <2> QED
    BY <1>1, <2>1, EmptySequence
<1>2. ASSUME UNCHANGED <<chain, feed, created, answer>>, Written' = Written,
             step' \in Appending => step \in Appending
      PROVE  BlocksOK'
  BY <1>2
<1>3. ASSUME NextRequest, UNCHANGED <<feed, answer>>,
             chain' = chain \/ (step = "push" /\ chain' = push_persisted(chain, created)),
             \A x \in Written' : x = Torn \/ IsBlock(x)
      PROVE  BlocksOK'
  <2>1. step' = "pop" /\ created' = NoBlock
    BY <1>3 DEF NextRequest
  <2>2. \A x \in ToSet(chain') : IsBlock(x)
    BY <1>3, PushedChain
  <2> QED
    BY <1>3, <2>1, <2>2
<1>4. CASE BootFresh
  <2>1. PICK ts \in Timestamps : chain' = <<genesis(ts)>> /\ created' = genesis(ts)
    BY <1>4 DEF BootFresh
  <2>2. UNCHANGED <<disk, feed, answer>>
    BY <1>4 DEF BootFresh
  <2>3. IsBlock(genesis(ts))
    BY MadeBlocks DEF genesis
  <2> QED
    BY <1>w, <2>1, <2>2, <2>3, SingletonSequence
<1>5. CASE BootReload
  <2>1. chain' = Loaded /\ step' = "pop" /\ Loadable /\ UNCHANGED <<disk, feed, created, answer>>
    BY <1>5 DEF BootReload
  <2>2. \A x \in ToSet(Loaded) : IsBlock(x)
    <3> SUFFICES ASSUME NEW x \in ToSet(Loaded) PROVE IsBlock(x)
      OBVIOUS
    <3>1. PICK i \in DOMAIN lines : x = lines[i][1]
      BY AppendSequence DEF ToSet, Loaded, FileOK
    <3>2. x # Torn
      BY <2>1, <3>1 DEF Loadable, ParsesAsBlock
    <3> QED
      BY <2>1, <3>2, LoadedWhole
  <2> QED
    BY <1>w, <2>1, <2>2
<1>6. CASE BootFails \/ UNCHANGED vars
  BY <1>2, <1>w, <1>6 DEF BootFails, vars
<1>7. CASE \E r \in Requests : Post(r) \/ Push(r)
  BY <1>2, <1>w, <1>7 DEF Post, Push
<1>8. CASE Pop \/ PopEnd \/ Stop \/ CloseQueue
  BY <1>2, <1>w, <1>8 DEF Pop, PopEnd, Stop, CloseQueue
<1>9. CASE BuildNext
  <2>1. /\ step = "build" /\ UNCHANGED <<disk, chain, feed, answer>>
        /\ \E ts \in Timestamps :
              created' = make_block(Len(chain), ts, current, latest(chain).hash)
    BY <1>9 DEF BuildNext, NextIndex
  <2>2. Len(chain) \in Nat /\ current \in Requests
    BY <2>1, Lengths DEF ClientsOK
  <2>3. IsBlock(created')
    BY <2>1, <2>2, MadeBlocks
  <2> QED
    BY <1>w, <2>1, <2>3
<1>10. CASE WriteBody
  <2>1. Written' = Written \cup {created} /\ step = "body"
    BY <1>10, WritePieceFile DEF WriteBody
  <2>2. UNCHANGED <<chain, feed, created, answer>>
    BY <1>10 DEF WriteBody
  <2> QED
    BY <2>1, <2>2
<1>11. CASE WriteNewline
  <2>1. Written' = Written
    BY <1>11, NewlineEffect DEF Written
  <2> QED
    BY <1>11, <2>1, NewlineEffect
<1>12. ASSUME WriteNothing \/ WritePiece(Torn)
       PROVE  \A x \in Written' : x = Torn \/ IsBlock(x)
  BY <1>w, <1>12, WritePieceFile DEF WriteNothing
<1>13. CASE WriteFails
  <2>1. CASE phase = "booting"
    BY <1>1, <1>12, <1>13, <2>1 DEF WriteFails, AppendFails
  <2>2. CASE phase # "booting"
    <3>1. WriteNothing \/ WritePiece(Torn)
      BY <1>13 DEF WriteFails
    <3> QED
      BY <1>3, <1>12, <1>13, <2>2, <3>1, ThrowEffect
  <2> QED
    BY <2>1, <2>2
<1>14. CASE WriteOnBadStream \/ OutOfMemory
  <2>1. UNCHANGED disk
    BY <1>14 DEF WriteOnBadStream, OutOfMemory
  <2>2. \A x \in Written' : x = Torn \/ IsBlock(x)
    BY <1>w, <2>1
  <2> QED
    BY <1>3, <1>14, <2>2, ThrowEffect
<1>16. CASE PushPersisted
  <2>1. \A x \in ToSet(chain') : IsBlock(x)
    BY <1>16, PushedChain DEF PushPersisted
  <2>2. UNCHANGED <<disk, feed, created, answer>> /\ step = "push"
    BY <1>16 DEF PushPersisted
  <2> QED
    BY <1>w, <2>1, <2>2
<1>17. CASE Publish
  <2>1. feed' = Append(feed, created) /\ step = "publish"
        /\ UNCHANGED <<disk, chain, created, answer>>
    BY <1>17 DEF Publish
  <2>2. IsSequence(feed') /\ ToSet(feed') = ToSet(feed) \cup {created}
    BY <2>1, AppendSequence
  <2> QED
    BY <1>w, <2>1, <2>2
<1>18. CASE Reply
  <2>1. /\ step = "reply" /\ step' = "pop" /\ created' = NoBlock /\ UNCHANGED <<disk, chain, feed>>
        /\ answer' = [answer EXCEPT ![current] = created]
    BY <1>18 DEF Reply, NextRequest
  <2>2. \A r \in Requests : answer'[r] # NoBlock => IsBlock(answer'[r])
    BY <2>1 DEF ClientsOK
  <2> QED
    BY <1>w, <2>1, <2>2
<1>19. CASE Exit
  BY <1>1, <1>w, <1>19 DEF Exit
<1>20. CASE Crash
  BY <1>1, <1>12, <1>20 DEF Crash
<1> QED
  BY <1>4, <1>5, <1>6, <1>7, <1>8, <1>9, <1>10, <1>11, <1>13, <1>14, <1>16,
     <1>17, <1>18, <1>19, <1>20, Zenon DEF Next, WriterStep, Shutdown, Boot

QueueOK == Len(queue) <= Capacity /\ current \in Requests \cup {NoRequest}

\* The queue keeps within its capacity.
LEMMA QueueStep ==
    ASSUME LedgerInv, QueueOK, [Next]_vars
    PROVE  QueueOK'
<1> USE DEF LedgerInv, ClientsOK, QueueOK, LedgerAssumption, disk, server, clients
<1>0. Capacity \in Nat \ {0} /\ Len(queue) \in Nat /\ queue \in Seq(Requests)
  BY LedgerAssumption
<1>1. CASE UNCHANGED <<queue, current>>
  BY <1>1
<1>2. ASSUME Gone PROVE QueueOK'
  <2>1. queue' = <<>> /\ current' = NoRequest
    BY <1>2 DEF Gone
  <2> QED
    BY <1>0, <2>1
<1>3. ASSUME UNCHANGED queue, current' = NoRequest PROVE QueueOK'
  BY <1>3
<1>4. ASSUME NEW r \in Requests, Push(r) PROVE QueueOK'
  <2>1. queue' = queue \/ (queue' = Append(queue, r) /\ Len(queue) < Capacity)
    BY <1>4, PushEffect
  <2>2. current' = current
    BY <1>4 DEF Push
  <2>3. Len(Append(queue, r)) = Len(queue) + 1
    BY <1>0
  <2> QED
    BY <1>0, <2>1, <2>2, <2>3
<1>5. CASE Pop
  <2>1. queue' = Tail(queue) /\ queue # <<>> /\ current' = Head(queue)
    BY <1>5 DEF Pop
  <2>2. Len(Tail(queue)) = Len(queue) - 1 /\ Head(queue) \in Requests
    BY <1>0, <2>1, HeadTailProperties
  <2> QED
    BY <1>0, <2>1, <2>2
<1>6. CASE Boot \/ UNCHANGED vars
  BY <1>1, <1>6 DEF Boot, BootFresh, BootReload, BootFails, vars
<1>7. CASE \E r \in Requests : Post(r)
  BY <1>1, <1>7 DEF Post
<1>8. CASE PopEnd \/ BuildNext \/ WriteBody \/ WriteNewline \/ PushPersisted \/ Publish
  BY <1>1, <1>8 DEF PopEnd, BuildNext, WriteBody, WriteNewline, PushPersisted, Publish
<1>9. CASE WriteFails
  BY <1>2, <1>3, <1>9 DEF WriteFails, AppendFails, Throw, NextRequest
<1>10. CASE WriteOnBadStream \/ OutOfMemory \/ Reply
  BY <1>3, <1>10 DEF WriteOnBadStream, OutOfMemory, Reply, Throw, NextRequest
<1>11. CASE Stop \/ CloseQueue
  BY <1>1, <1>11 DEF Stop, CloseQueue
<1>12. CASE Exit \/ Crash
  BY <1>2, <1>12 DEF Exit, Crash
<1> QED
  BY <1>4, <1>5, <1>6, <1>7, <1>8, <1>9, <1>10, <1>11, <1>12, Zenon
  DEF Next, WriterStep, Shutdown

\* Every variable keeps its type; what stands in the file are blocks and torn pieces.
THEOREM TypeCorrect == Spec => []TypeOK
<1>1. Init => BlocksOK /\ QueueOK
  <2>1. Init => QueueOK
    BY LedgerAssumption DEF LedgerAssumption, Init, QueueOK
  <2> QED
    BY <2>1, BlocksInit
<1>2. LedgerInv /\ BlocksOK /\ QueueOK /\ [Next]_vars => BlocksOK' /\ QueueOK'
  BY BlocksStep, QueueStep
<1>3. LedgerInv /\ BlocksOK /\ QueueOK => TypeOK
  <2> SUFFICES ASSUME LedgerInv, BlocksOK, QueueOK PROVE TypeOK
    OBVIOUS
  <2> USE DEF LedgerInv
  <2> DEFINE P == {x \in Written : x = Torn \/ IsBlock(x)}
  <2>1. P = Written
    BY DEF BlocksOK
  <2>2. lines \in Seq(Seq(P) \ {<<>>})
    <3>1. /\ Len(lines) \in Nat /\ DOMAIN lines = 1..Len(lines)
          /\ lines = [i \in 1..Len(lines) |-> lines[i]]
      BY AppendSequence DEF FileOK, IsSequence
    <3>2. ASSUME NEW i \in 1..Len(lines) PROVE lines[i] \in Seq(P) \ {<<>>}
      <4>1. IsSequence(lines[i]) /\ Len(lines[i]) > 0
        BY <3>2 DEF FileOK
      <4>2. ToSet(lines[i]) \subseteq P
        BY <2>1, <3>1, <3>2 DEF Written
      <4>3. lines[i] \in Seq(P)
        BY <4>1, <4>2, SeqMonotonic DEF IsSequence
      <4> QED
        BY <4>1, <4>3, EmptySequence
    <3>3. lines \in [1..Len(lines) -> Seq(P) \ {<<>>}]
      BY <3>1, <3>2
    <3> QED
      BY <3>1, <3>3, FunctionIsSequence, Zenon
  <2>3. IsBlockSeq(chain) /\ IsBlockSeq(feed)
    <3>1. \A s : IsSequence(s) /\ (\A x \in ToSet(s) : IsBlock(x)) => IsBlockSeq(s)
      <4> TAKE s
      <4> HAVE IsSequence(s) /\ (\A x \in ToSet(s) : IsBlock(x))
      <4>1. {b \in ToSet(s) : IsBlock(b)} = ToSet(s)
        OBVIOUS
      <4> QED
        BY <4>1 DEF IsBlockSeq, IsSequence
    <3> QED
      BY <3>1 DEF BlocksOK, ChainOK
  <2>4. status \in [Requests -> Statuses] /\ DOMAIN answer = Requests /\ queue \in Seq(Requests)
    BY DEF ClientsOK
  <2>5. phase \in Phases /\ step \in Steps /\ closed \in BOOLEAN /\ badbit \in BOOLEAN
        /\ open \in BOOLEAN
    BY DEF ControlOK, FileOK
  <2>6. /\ Len(queue) <= Capacity /\ current \in Requests \cup {NoRequest}
        /\ created # NoBlock => IsBlock(created)
        /\ \A r \in Requests : answer[r] # NoBlock => IsBlock(answer[r])
    BY DEF QueueOK, BlocksOK
  <2> QED
    BY <2>2, <2>3, <2>4, <2>5, <2>6, Zenon DEF TypeOK
<1> QED
  BY <1>1, <1>2, <1>3, LedgerInvariant, PTL DEF Spec, SafeSpec
=============================================================================
