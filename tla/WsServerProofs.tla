---------------------------- MODULE WsServerProofs ----------------------------
(***************************************************************************)
(* What WsServer guarantees for any number of clients, of any behaviour.   *)
(*                                                                         *)
(* A pump has to be ended and joined by somebody exactly once, and the     *)
(* connection's thread, the pump itself and main() may all be at it.  The  *)
(* invariant names the situations a connection can be in meanwhile, what   *)
(* the state mutex, held throughout the Close callback, rules out, and     *)
(* what main() may rely on as it closes a client.                          *)
(***************************************************************************)
EXTENDS WsServer, TLAPS

-----------------------------------------------------------------------------
(* The inductive invariant.  A connection is in one of six situations, told   *)
(* apart by its Subscription, its entry in the map and its pump.  The state  *)
(* mutex is what keeps two threads from closing it both.                     *)

\* Where a thread is that runs the Close callback.
Callback == {"on_close", "join", "on_closed"}

\* Labels of the connection's thread before it has subscribed or refused.
Early == {"none", "accepted", "handshake", "handshaken", "open"}

MutexOK(c) ==
    /\ stateMutex[c] = "conn" <=> conn[c] \in Callback
    /\ stateMutex[c] = "pump" <=> pump[c] \in Callback
    /\ stateMutex[c] = "main" <=> main \in Callback /\ target = c

\* Not subscribed yet, refused, or never open.
Unsubscribed(c) ==
    /\ subscription[c] = "none" /\ c \notin conns /\ pump[c] = "none"
    /\ conn[c] \notin {"opening", "join"}
    /\ conn[c] \in {"none"} \cup Connecting => state[c] = "CLOSED"
    /\ conn[c] = "open" => state[c] # "CLOSED"

\* Between the subscription and the map.
Opening(c) ==
    /\ subscription[c] = "open" /\ c \notin conns /\ pump[c] = "none"
    /\ conn[c] = "opening"
    /\ state[c] # "CLOSED"

\* In the map: nobody has run on_close.
Registered(c) ==
    /\ subscription[c] = "open" /\ c \in conns
    /\ pump[c] \notin {"none", "join", "on_closed", "done"}
    /\ conn[c] \notin Early \cup {"opening", "join", "on_closed", "reset", "terminated"}
    /\ state[c] # "CLOSED"

\* The connection's thread has, and waits for the pump.
ConnJoins(c) ==
    /\ subscription[c] = "closed" /\ c \notin conns
    /\ pump[c] \notin Callback \cup {"none"}
    /\ conn[c] = "join"
    /\ state[c] # "CLOSED"

\* The pump has, and waits for itself.
PumpJoins(c) ==
    /\ subscription[c] = "closed" /\ c \notin conns
    /\ pump[c] = "join"
    /\ conn[c] \notin Early \cup Callback \cup {"opening", "reset", "terminated"}
    /\ state[c] # "CLOSED"

\* The pump has been joined.
Deregistered(c) ==
    /\ subscription[c] = "closed" /\ c \notin conns /\ pump[c] = "done"
    /\ conn[c] \notin Early \cup {"opening", "join"}

Situation(c) ==
    \/ Unsubscribed(c) \/ Opening(c) \/ Registered(c)
    \/ ConnJoins(c) \/ PumpJoins(c) \/ Deregistered(c)

\* Nobody has to close or to join anything any more.
Settled(c) ==
    /\ c \notin conns /\ pump[c] \in {"none", "done"}
    /\ conn[c] \notin Early \cup {"opening", "join"}

\* The connection's thread does not leave a send for the end of
\* closeSocketAndSwitchToClosedState.
BackOK(c) ==
    conn[c] \in {"sending", "sent", "sendfail", "flush", "poll", "fail", "flushfail"} =>
        back[c] # "reset"

\* What main() does about the client it closes.  It has cancelled the flushing before it
\* sends: it flushes, or sets CLOSED, only where the connection's thread was first.
Closing == {"set", "frame", "sending", "sent", "flush", "wake"}
SetsClosed == {"poll", "sendfail", "fail", "flushfail", "on_close", "on_closed"}

CloseOK(c) ==
    target = c =>
        /\ main \in Closing \cup SetsClosed => conn[c] \notin {"none"} \cup Connecting
        /\ main \in (Closing \ {"set"}) \cup SetsClosed => state[c] # "OPEN"
        /\ main \in Closing \cup {"read"} /\ ~cancel[c] => Settled(c)
        /\ main \in SetsClosed => Settled(c)

\* main() closes somebody, and is past its joins only when all have ended.
MainOK ==
    /\ main \in {"read", "wait"} \cup Closing \cup SetsClosed => target \in Clients
    /\ main # "join"
    /\ main \in {"sweep", "stopped"} => AllTerminated

ClientOK(c) == MutexOK(c) /\ Situation(c) /\ BackOK(c) /\ CloseOK(c)

IInv ==
    /\ TypeOK
    /\ MainOK
    /\ \A c \in Clients : ClientOK(c)

-----------------------------------------------------------------------------
(* For clients that read and stay there is a second one *)

\* The socket is closed only once the state is CLOSING, and CLOSING is set only by
\* main(), which has cancelled the flushing before: the pump's send may fail, and that is
\* all that happens to it.
Smooth(c) ==
    /\ sock[c] \in {"up", "closed"}
    /\ sock[c] = "closed" \/ unsent[c] \/ "close" \in pipe[c] => state[c] # "OPEN"
    /\ conn[c] \in {"none"} \cup Connecting =>
          /\ sock[c] = "up" /\ ~unsent[c] /\ "close" \notin pipe[c]
          /\ c \notin todo /\ target # c
    /\ main # "serving" => conn[c] \notin Connecting
    /\ conn[c] \notin {"sending", "sent", "sendfail", "reading", "answered"}
    /\ back[c] # "answered"
    /\ conn[c] = "abnormal" => state[c] # "OPEN"
    /\ pump[c] \notin {"poll", "sendfail", "fail", "flushfail"} \cup Callback
    /\ main = "wait" /\ target = c => state[c] # "OPEN"
    /\ state[c] = "CLOSING" => cancel[c] \/ Settled(c)

SmoothInv == \A c \in Clients : may[c] = {} => Smooth(c)
-----------------------------------------------------------------------------
(* Types *)

\* The initial states have the types.
LEMMA TypeInit == Init => TypeOK
  BY WsServerAssumption DEF Init, TypeOK, Conn, Pump, Main, Shared, Sock

\* Types, for the steps all threads can take: sending, flushing and closing.
LEMMA TypeShared ==
    ASSUME TypeOK, NEW d \in Clients, NEW t \in {"conn", "pump", "main"},
           SendOrClose(d, t)
    PROVE  TypeOK'
<1> USE WsServerAssumption
    DEF TypeOK, At, Go, Shared, Conn, Pump, Main, Sock, threads, transport,
        mutexes, feed, stopping
<1>1. CASE SendAll(d, t)
  BY <1>1 DEF SendAll
<1>2. CASE SendPart(d, t)
  BY <1>2 DEF SendPart
<1>3. CASE SendFails(d, t)
  BY <1>3 DEF SendFails, CloseSocket, ClosingElsewhere, Failed, Succeeded
<1>4. CASE Sent(d, t)
  BY <1>4 DEF Sent, WakeUp, Succeeded
<1>5. CASE FlushLoop(d, t)
  BY <1>5 DEF FlushLoop, Cancelled, Succeeded
<1>6. CASE FlushWrites(d, t)
  BY <1>6 DEF FlushWrites
<1>7. CASE FlushInterrupted(d, t)
  BY <1>7 DEF FlushInterrupted, TakeRequest
<1>8. CASE FlushError(d, t)
  BY <1>8 DEF FlushError, CloseSocket
<1>9. CASE SetClosed(d, t)
  <2>1. CASE state[d] = "CLOSED"
    BY <1>9, <2>1 DEF SetClosed, Release, Failed, Succeeded
  <2>2. CASE state[d] # "CLOSED"
    BY <1>9, <2>2 DEF SetClosed, Release, Failed, Succeeded
  <2> QED BY <2>1, <2>2
<1>10. CASE OnClose(d, t)
  BY <1>10 DEF OnClose, Deregister
<1>11. CASE Join(d, t)
  BY <1>11 DEF Join, PumpDone
<1>12. CASE OnClosed(d, t)
  BY <1>12 DEF OnClosed, Release, Failed, Succeeded
<1> QED BY <1>1, <1>2, <1>3, <1>4, <1>5, <1>6, <1>7, <1>8, <1>9, <1>10, <1>11,
           <1>12 DEF SendOrClose

\* Types, for the connection's thread.
LEMMA TypeConn ==
    ASSUME TypeOK, NEW d \in Clients,
           \/ Insert(d) \/ Handshake(d) \/ Open(d) \/ Refuse(d) \/ Subscribe(d)
           \/ Register(d) \/ EndOfRun(d) \/ PollSendRequest(d)
           \/ PollCloseRequest(d) \/ PollRead(d) \/ EndOfStream(d)
           \/ AbnormalClose(d) \/ CloseFrameReceived(d) \/ CloseFrameAnswered(d)
           \/ ClosingOver(d) \/ ResetCancellation(d)
    PROVE  TypeOK'
<1> USE WsServerAssumption
    DEF TypeOK, At, Go, Shared, Conn, Pump, Main, Sock, threads, transport,
        mutexes, feed, stopping
<1>1. CASE Insert(d)
  BY <1>1 DEF Insert
<1>2. CASE Handshake(d)
  BY <1>2 DEF Handshake
<1>3. CASE Open(d)
  BY <1>3 DEF Open
<1>4. CASE Refuse(d)
  <2>1. CASE state[d] = "OPEN"
    BY <1>4, <2>1 DEF Refuse, WakeUp, Call
  <2>2. CASE state[d] # "OPEN"
    BY <1>4, <2>2 DEF Refuse, WakeUp, Call
  <2> QED BY <2>1, <2>2
<1>5. CASE Subscribe(d)
  BY <1>5 DEF Subscribe
<1>6. CASE Register(d)
  BY <1>6 DEF Register
<1>7. CASE EndOfRun(d)
  BY <1>7 DEF EndOfRun
<1>8. CASE PollSendRequest(d)
  BY <1>8 DEF PollSendRequest, TakeRequest, Call
<1>9. CASE PollCloseRequest(d)
  BY <1>9 DEF PollCloseRequest, TakeRequest, CloseSocket
<1>10. CASE PollRead(d)
  BY <1>10 DEF PollRead
<1>11. CASE EndOfStream(d)
  BY <1>11 DEF EndOfStream, CloseSocket
<1>12. CASE AbnormalClose(d)
  BY <1>12 DEF AbnormalClose, CloseSocket, Call
<1>13. CASE CloseFrameReceived(d)
  BY <1>13 DEF CloseFrameReceived, Call
<1>14. CASE CloseFrameAnswered(d)
  BY <1>14 DEF CloseFrameAnswered, WakeUp, CloseSocket, Call
<1>15. CASE ClosingOver(d)
  BY <1>15 DEF ClosingOver, CloseSocket, Call
<1>16. CASE ResetCancellation(d)
  BY <1>16 DEF ResetCancellation, Call
<1> QED BY <1>1, <1>2, <1>3, <1>4, <1>5, <1>6, <1>7, <1>8, <1>9, <1>10, <1>11,
           <1>12, <1>13, <1>14, <1>15, <1>16

\* Types, for the pump.
LEMMA TypePump ==
    ASSUME TypeOK, NEW d \in Clients,
           \/ PumpNext(d) \/ PumpEnds(d) \/ PumpSend(d)
    PROVE  TypeOK'
<1> USE WsServerAssumption
    DEF TypeOK, At, Go, Shared, Conn, Pump, Main, Sock, threads, transport,
        mutexes, feed, stopping
<1>1. CASE PumpNext(d)
  BY <1>1 DEF PumpNext
<1>2. CASE PumpEnds(d)
  BY <1>2 DEF PumpEnds
<1>3. CASE PumpSend(d)
  BY <1>3 DEF PumpSend
<1> QED BY <1>1, <1>2, <1>3

\* Types, for what clients do, and for main() as it turns to one of them.
LEMMA TypeClients ==
    ASSUME TypeOK, NEW d \in Clients,
           \/ Connect(d) \/ Leave(d) \/ Vanish(d) \/ Cancel(d)
    PROVE  TypeOK'
<1> USE WsServerAssumption
    DEF TypeOK, At, Go, Shared, Conn, Pump, Main, Sock, threads, transport,
        mutexes, feed, stopping
<1>1. CASE Connect(d)
  BY <1>1 DEF Connect
<1>2. CASE Leave(d)
  BY <1>2 DEF Leave
<1>3. CASE Vanish(d)
  BY <1>3 DEF Vanish
<1>4. CASE Cancel(d)
  BY <1>4 DEF Cancel
<1> QED BY <1>1, <1>2, <1>3, <1>4

\* Types, for main() and the writer.
LEMMA TypeMain ==
    ASSUME TypeOK,
           \/ ReadState \/ NothingToClose \/ SetClosing \/ SendCloseFrame
           \/ WakeConnection \/ AllClosed \/ JoinConnections \/ Sweep \/ Stop
           \/ Publish
    PROVE  TypeOK'
<1> USE WsServerAssumption
    DEF TypeOK, At, Go, Shared, Conn, Pump, Main, Sock, threads, transport,
        mutexes, feed, stopping
<1>1. CASE ReadState
  BY <1>1 DEF ReadState
<1>2. CASE NothingToClose
  BY <1>2 DEF NothingToClose, WakeUp
<1>3. CASE SetClosing
  BY <1>3 DEF SetClosing
<1>4. CASE SendCloseFrame
  BY <1>4 DEF SendCloseFrame
<1>5. CASE WakeConnection
  BY <1>5 DEF WakeConnection, WakeUp
<1>6. CASE AllClosed
  BY <1>6 DEF AllClosed
<1>7. CASE JoinConnections
  BY <1>7 DEF JoinConnections, AllTerminated
<1>8. CASE Sweep
  BY <1>8 DEF Sweep, PumpDone, AllTerminated
<1>9. CASE Stop
  BY <1>9 DEF Stop, Members, Connecting
<1>10. CASE Publish
  BY <1>10 DEF Publish, Grows
<1> QED BY <1>1, <1>2, <1>3, <1>4, <1>5, <1>6, <1>7, <1>8, <1>9, <1>10

-----------------------------------------------------------------------------
(* Situations *)

\* A step that leaves a client's threads and its connection alone, and main() where it is
\* unless main() is with somebody else.
Untouched(c) ==
    /\ may' = may /\ conn'[c] = conn[c] /\ pump'[c] = pump[c] /\ back'[c] = back[c]
    /\ state'[c] = state[c] /\ sock'[c] = sock[c] /\ unsent'[c] = unsent[c]
    /\ pipe'[c] = pipe[c] /\ cancel'[c] = cancel[c] /\ stateMutex'[c] = stateMutex[c]
    /\ subscription'[c] = subscription[c] /\ (c \in conns' <=> c \in conns)
    /\ c \in todo' <=> c \in todo
    /\ \/ UNCHANGED <<main, target>>
       \/ main # "serving" /\ target' # c /\ (target = c => main \notin Callback)

\* Such a step keeps what the invariants say of the client.
LEMMA UntouchedOK ==
    ASSUME NEW c, Untouched(c)
    PROVE  /\ ClientOK(c) => ClientOK(c)'
           /\ (may[c] = {} => Smooth(c)) => (may'[c] = {} => Smooth(c)')
<1>1. ClientOK(c) => ClientOK(c)'
  BY DEF Untouched, ClientOK, MutexOK, Situation, Unsubscribed, Opening, Registered,
         ConnJoins, PumpJoins, Deregistered, BackOK, CloseOK, Settled
<1>2. ASSUME may[c] = {} => Smooth(c), may'[c] = {}
      PROVE  Smooth(c)'
  BY <1>2 DEF Untouched, Smooth, Settled
<1> QED BY <1>1, <1>2

\* Sending, flushing and closing touch no other client's connection.
LEMMA OthersShared ==
    ASSUME TypeOK, NEW c \in Clients, NEW d \in Clients \ {c},
           NEW t \in {"conn", "pump", "main"},
           SendOrClose(d, t)
    PROVE  Untouched(c)
<1> USE DEF TypeOK, Untouched, Callback, At, Go, threads, transport, mutexes, feed,
        stopping
<1>1. CASE SendAll(d, t)
  BY <1>1 DEF SendAll
<1>2. CASE SendPart(d, t)
  BY <1>2 DEF SendPart
<1>3. CASE SendFails(d, t)
  <2>1. /\ sock' = [sock EXCEPT ![d] = "closed"]
        /\ unsent' = [unsent EXCEPT ![d] = TRUE]
        /\ \E label : Go(d, t, label)
        /\ t = "main" => main \in {"sending", "poll"} /\ target = d
        /\ UNCHANGED <<back, state, pipe, cancel, stateMutex, feed>>
    BY <1>3, Zenon DEF SendFails, CloseSocket
  <2> QED BY <2>1
<1>4. CASE Sent(d, t)
  BY <1>4 DEF Sent, WakeUp, Succeeded
<1>5. CASE FlushLoop(d, t)
  BY <1>5 DEF FlushLoop, Cancelled, Succeeded
<1>6. CASE FlushWrites(d, t)
  BY <1>6 DEF FlushWrites
<1>7. CASE FlushInterrupted(d, t)
  BY <1>7 DEF FlushInterrupted, TakeRequest
<1>8. CASE FlushError(d, t)
  BY <1>8 DEF FlushError, CloseSocket
<1>9. CASE SetClosed(d, t)
  BY <1>9 DEF SetClosed, Release, Failed, Succeeded
<1>10. CASE OnClose(d, t)
  BY <1>10 DEF OnClose, Deregister
<1>11. CASE Join(d, t)
  BY <1>11 DEF Join, PumpDone
<1>12. CASE OnClosed(d, t)
  BY <1>12 DEF OnClosed, Release, Failed, Succeeded
<1> QED BY <1>1, <1>2, <1>3, <1>4, <1>5, <1>6, <1>7, <1>8, <1>9, <1>10, <1>11,
           <1>12 DEF SendOrClose

\* Nor do the steps of a connection's thread.
LEMMA OthersConn ==
    ASSUME TypeOK, NEW c \in Clients, NEW d \in Clients \ {c},
           \/ Insert(d) \/ Handshake(d) \/ Open(d) \/ Refuse(d) \/ Subscribe(d)
           \/ Register(d) \/ EndOfRun(d) \/ PollSendRequest(d)
           \/ PollCloseRequest(d) \/ PollRead(d) \/ EndOfStream(d)
           \/ AbnormalClose(d) \/ CloseFrameReceived(d) \/ CloseFrameAnswered(d)
           \/ ClosingOver(d) \/ ResetCancellation(d)
    PROVE  Untouched(c)
<1> USE DEF TypeOK, Untouched, Callback, At, Go, threads, transport, mutexes, feed,
        stopping
<1>1. CASE Insert(d)
  BY <1>1 DEF Insert
<1>2. CASE Handshake(d)
  BY <1>2 DEF Handshake
<1>3. CASE Open(d)
  BY <1>3 DEF Open
<1>4. CASE Refuse(d)
  <2>1. /\ cancel' = [cancel EXCEPT ![d] = TRUE]
        /\ \E request : pipe' = [pipe EXCEPT ![d] = @ \cup {request}]
        /\ \E label : Go(d, "conn", label)
        /\ state' = [state EXCEPT ![d] = "CLOSING"] \/ state' = state
        /\ back' = [back EXCEPT ![d] = "run"] \/ back' = back
        /\ UNCHANGED <<sock, unsent, mutexes, feed>>
    BY <1>4, Zenon DEF Refuse, WakeUp, Call
  <2> QED BY <2>1, ZenonT(60)
<1>5. CASE Subscribe(d)
  BY <1>5 DEF Subscribe
<1>6. CASE Register(d)
  BY <1>6 DEF Register
<1>7. CASE EndOfRun(d)
  BY <1>7 DEF EndOfRun
<1>8. CASE PollSendRequest(d)
  BY <1>8 DEF PollSendRequest, TakeRequest, Call
<1>9. CASE PollCloseRequest(d)
  BY <1>9 DEF PollCloseRequest, TakeRequest, CloseSocket
<1>10. CASE PollRead(d)
  BY <1>10 DEF PollRead
<1>11. CASE EndOfStream(d)
  BY <1>11 DEF EndOfStream, CloseSocket
<1>12. CASE AbnormalClose(d)
  BY <1>12 DEF AbnormalClose, CloseSocket, Call
<1>13. CASE CloseFrameReceived(d)
  BY <1>13 DEF CloseFrameReceived, Call
<1>14. CASE CloseFrameAnswered(d)
  BY <1>14 DEF CloseFrameAnswered, WakeUp, CloseSocket, Call
<1>15. CASE ClosingOver(d)
  BY <1>15 DEF ClosingOver, CloseSocket, Call
<1>16. CASE ResetCancellation(d)
  BY <1>16 DEF ResetCancellation, Call
<1> QED BY <1>1, <1>2, <1>3, <1>4, <1>5, <1>6, <1>7, <1>8, <1>9, <1>10, <1>11,
           <1>12, <1>13, <1>14, <1>15, <1>16

\* Nor do those of a pump.
LEMMA OthersPump ==
    ASSUME TypeOK, NEW c \in Clients, NEW d \in Clients \ {c},
           \/ PumpNext(d) \/ PumpEnds(d) \/ PumpSend(d)
    PROVE  Untouched(c)
<1> USE DEF TypeOK, Untouched, Callback, At, Go, threads, transport, mutexes, feed,
        stopping
<1>1. CASE PumpNext(d)
  BY <1>1 DEF PumpNext
<1>2. CASE PumpEnds(d)
  BY <1>2 DEF PumpEnds
<1>3. CASE PumpSend(d)
  BY <1>3 DEF PumpSend
<1> QED BY <1>1, <1>2, <1>3

\* Nor does what a client does, or main() as it turns to one.
LEMMA OthersClients ==
    ASSUME TypeOK, NEW c \in Clients, NEW d \in Clients \ {c},
           \/ Connect(d) \/ Leave(d) \/ Vanish(d) \/ Cancel(d)
    PROVE  Untouched(c)
<1> USE DEF TypeOK, Untouched, Callback, At, Go, threads, transport, mutexes, feed,
        stopping
<1>1. CASE Connect(d)
  BY <1>1 DEF Connect
<1>2. CASE Leave(d)
  BY <1>2 DEF Leave
<1>3. CASE Vanish(d)
  BY <1>3 DEF Vanish
<1>4. CASE Cancel(d)
  BY <1>4 DEF Cancel
<1> QED BY <1>1, <1>2, <1>3, <1>4

\* Nor does what main() does with it.
LEMMA OthersTarget ==
    ASSUME TypeOK, NEW c \in Clients, NEW d \in Clients \ {c}, target = d,
           \/ ReadState \/ NothingToClose \/ SetClosing \/ SendCloseFrame
           \/ WakeConnection
    PROVE  Untouched(c)
<1> USE WsServerAssumption
    DEF TypeOK, Untouched, Callback, At, Go, threads, transport, mutexes, feed,
        stopping
<1>1. CASE ReadState
  BY <1>1 DEF ReadState
<1>2. CASE NothingToClose
  BY <1>2 DEF NothingToClose, WakeUp
<1>3. CASE SetClosing
  BY <1>3 DEF SetClosing
<1>4. CASE SendCloseFrame
  BY <1>4 DEF SendCloseFrame
<1>5. CASE WakeConnection
  BY <1>5 DEF WakeConnection, WakeUp
<1> QED BY <1>1, <1>2, <1>3, <1>4, <1>5

\* Each of the threads may find the client gone.  The first to set CLOSED holds the state
\* mutex until its callback is over, so that the others find nobody registered; main() sets
\* CLOSED only where the connection was settled before.
LEMMA StepShared ==
    ASSUME IInv, NEW d \in Clients, NEW t \in {"conn", "pump", "main"},
           SendOrClose(d, t)
    PROVE  MainOK' /\ ClientOK(d)'
<1> USE WsServerAssumption
    DEF IInv, TypeOK, ClientOK, At, Go, threads, transport, mutexes, feed, stopping
<1>1. CASE SendAll(d, t)
  <2> USE <1>1 DEF SendAll
  <2>1. MainOK' /\ MutexOK(d)' /\ BackOK(d)' /\ CloseOK(d)'
    BY DEF MainOK, MutexOK, BackOK, CloseOK, Callback, Connecting, Closing,
           SetsClosed, Settled, AllTerminated, Early
  <2>2. Situation(d)'
    BY DEF MutexOK, Callback, Connecting, Situation, Unsubscribed, Opening,
           Registered, ConnJoins, PumpJoins, Deregistered, Early
  <2> QED BY <2>1, <2>2
<1>2. CASE SendPart(d, t)
  <2> USE <1>2 DEF SendPart
  <2>1. MainOK' /\ MutexOK(d)' /\ BackOK(d)' /\ CloseOK(d)'
    BY DEF MainOK, MutexOK, BackOK, CloseOK, Callback, Connecting, Closing,
           SetsClosed, Settled, AllTerminated, Early
  <2>2. Situation(d)'
    BY DEF MutexOK, Callback, Connecting, Situation, Unsubscribed, Opening,
           Registered, ConnJoins, PumpJoins, Deregistered, Early
  <2> QED BY <2>1, <2>2
<1>3. CASE SendFails(d, t)
  <2> USE <1>3 DEF SendFails, CloseSocket, ClosingElsewhere, Failed, Succeeded
  <2>1. MainOK'
    BY DEF MainOK, AllTerminated, CloseOK, Settled, Callback, Connecting, Closing,
           SetsClosed
  <2>2. MutexOK(d)'
    BY DEF MutexOK, Callback, Situation, Unsubscribed, Opening, Registered,
           ConnJoins, PumpJoins, Deregistered, Early
  <2>3. BackOK(d)'
    BY DEF BackOK
  <2>4. CloseOK(d)'
    BY DEF CloseOK, MutexOK, Situation, Unsubscribed, Opening, Registered,
           ConnJoins, PumpJoins, Deregistered, Early, Connecting, Closing,
           SetsClosed, Settled, Callback
  <2>5. Situation(d)'
    BY DEF MutexOK, Callback, Connecting, Situation, Unsubscribed, Opening,
           Registered, ConnJoins, PumpJoins, Deregistered, Early, BackOK
  <2> QED BY <2>1, <2>2, <2>3, <2>4, <2>5
<1>4. CASE Sent(d, t)
  <2> USE <1>4 DEF Sent, WakeUp, Succeeded
  <2>1. MainOK'
    BY DEF MainOK, AllTerminated, CloseOK, Settled, Callback, Connecting, Closing,
           SetsClosed
  <2>2. MutexOK(d)'
    BY DEF MutexOK, Callback, Situation, Unsubscribed, Opening, Registered,
           ConnJoins, PumpJoins, Deregistered, Early
  <2>3. BackOK(d)'
    BY DEF BackOK
  <2>4. CloseOK(d)'
    BY DEF CloseOK, Early, Connecting, Closing, SetsClosed, Settled, Callback
  <2>5. Situation(d)'
    BY DEF MutexOK, Callback, Connecting, Situation, Unsubscribed, Opening,
           Registered, ConnJoins, PumpJoins, Deregistered, Early, BackOK
  <2> QED BY <2>1, <2>2, <2>3, <2>4, <2>5
<1>5. CASE FlushLoop(d, t)
  <2> USE <1>5 DEF FlushLoop, Cancelled, Succeeded
  <2>1. MainOK'
    BY DEF MainOK, AllTerminated, CloseOK, Settled, Callback, Connecting, Closing,
           SetsClosed
  <2>2. MutexOK(d)'
    BY DEF MutexOK, Callback, Situation, Unsubscribed, Opening, Registered,
           ConnJoins, PumpJoins, Deregistered, Early
  <2>3. BackOK(d)'
    BY DEF BackOK
  <2>4. CloseOK(d)'
    BY DEF CloseOK, Early, Connecting, Closing, SetsClosed, Settled, Callback
  <2>5. Situation(d)'
    BY DEF MutexOK, Callback, Connecting, Situation, Unsubscribed, Opening,
           Registered, ConnJoins, PumpJoins, Deregistered, Early, BackOK
  <2> QED BY <2>1, <2>2, <2>3, <2>4, <2>5
<1>6. CASE FlushWrites(d, t)
  <2> USE <1>6 DEF FlushWrites
  <2>1. MainOK' /\ MutexOK(d)' /\ BackOK(d)' /\ CloseOK(d)'
    BY DEF MainOK, MutexOK, BackOK, CloseOK, Callback, Connecting, Closing,
           SetsClosed, Settled, AllTerminated, Early
  <2>2. Situation(d)'
    BY DEF MutexOK, Callback, Connecting, Situation, Unsubscribed, Opening,
           Registered, ConnJoins, PumpJoins, Deregistered, Early
  <2> QED BY <2>1, <2>2
<1>7. CASE FlushInterrupted(d, t)
  <2> USE <1>7 DEF FlushInterrupted, TakeRequest
  <2>1. MainOK' /\ MutexOK(d)' /\ BackOK(d)' /\ CloseOK(d)'
    BY DEF MainOK, MutexOK, BackOK, CloseOK, Callback, Connecting, Closing,
           SetsClosed, Settled, AllTerminated, Early
  <2>2. Situation(d)'
    BY DEF MutexOK, Callback, Connecting, Situation, Unsubscribed, Opening,
           Registered, ConnJoins, PumpJoins, Deregistered, Early
  <2> QED BY <2>1, <2>2
<1>8. CASE FlushError(d, t)
  <2> USE <1>8 DEF FlushError, CloseSocket
  <2>1. MainOK' /\ MutexOK(d)' /\ BackOK(d)' /\ CloseOK(d)'
    BY DEF MainOK, MutexOK, BackOK, CloseOK, Callback, Connecting, Closing,
           SetsClosed, Settled, AllTerminated, Early
  <2>2. Situation(d)'
    BY DEF MutexOK, Callback, Connecting, Situation, Unsubscribed, Opening,
           Registered, ConnJoins, PumpJoins, Deregistered, Early
  <2> QED BY <2>1, <2>2
<1>9. CASE SetClosed(d, t)
  <2> USE <1>9 DEF SetClosed, Release, Failed, Succeeded
  <2>1. MainOK'
    BY DEF MainOK, AllTerminated, CloseOK, Settled, Callback, Connecting, Closing,
           SetsClosed
  <2>2. MutexOK(d)'
    BY DEF MutexOK, Callback, Situation, Unsubscribed, Opening, Registered,
           ConnJoins, PumpJoins, Deregistered, Early
  <2>3. BackOK(d)'
    BY DEF BackOK
  <2>4. CloseOK(d)'
    <3>1. CASE t = "conn"
      BY <3>1 DEF CloseOK, Main, Shared, Early, Connecting, Closing, SetsClosed,
           Settled, Callback
    <3>2. CASE t = "pump"
      BY <3>2 DEF CloseOK, Main, Shared, Early, Connecting, Closing, SetsClosed,
           Settled, Callback
    <3>3. CASE t = "main"
      BY <3>3 DEF CloseOK, Main, Shared, Early, Connecting, Closing, SetsClosed,
           Settled, Callback
    <3> QED BY <3>1, <3>2, <3>3
  <2>5. Situation(d)'
    BY DEF MutexOK, Callback, Connecting, Situation, Unsubscribed, Opening,
           Registered, ConnJoins, PumpJoins, Deregistered, Early
  <2> QED BY <2>1, <2>2, <2>3, <2>4, <2>5
<1>10. CASE OnClose(d, t)
  <2> USE <1>10 DEF OnClose, Deregister
  <2>1. MainOK'
    BY DEF MainOK, AllTerminated, CloseOK, Settled, Callback, Connecting, Closing,
           SetsClosed
  <2>2. MutexOK(d)'
    BY DEF MutexOK, Callback, Situation, Unsubscribed, Opening, Registered,
           ConnJoins, PumpJoins, Deregistered, Early
  <2>3. BackOK(d)'
    BY DEF BackOK
  <2>4. CloseOK(d)'
    BY DEF CloseOK, Early, Connecting, Closing, SetsClosed, Settled, Callback
  <2>5. Situation(d)'
    <3>1. CASE t = "conn"
      BY <3>1 DEF MutexOK, Callback, Connecting, Situation, Unsubscribed, Opening,
           Registered, ConnJoins, PumpJoins, Deregistered, Early, CloseOK, Settled,
           Closing, SetsClosed
    <3>2. CASE t = "pump"
      BY <3>2 DEF MutexOK, Callback, Connecting, Situation, Unsubscribed, Opening,
           Registered, ConnJoins, PumpJoins, Deregistered, Early, CloseOK, Settled,
           Closing, SetsClosed
    <3>3. CASE t = "main"
      BY <3>3 DEF MutexOK, Callback, Connecting, Situation, Unsubscribed, Opening,
           Registered, ConnJoins, PumpJoins, Deregistered, Early, CloseOK, Settled,
           Closing, SetsClosed
    <3> QED BY <3>1, <3>2, <3>3
  <2> QED BY <2>1, <2>2, <2>3, <2>4, <2>5
<1>11. CASE Join(d, t)
  <2> USE <1>11 DEF Join, PumpDone
  <2>1. MainOK' /\ MutexOK(d)' /\ BackOK(d)' /\ CloseOK(d)'
    BY DEF MainOK, MutexOK, BackOK, CloseOK, Callback, Connecting, Closing,
           SetsClosed, Settled, AllTerminated, Early
  <2>2. Situation(d)'
    BY DEF MutexOK, Callback, Connecting, Situation, Unsubscribed, Opening,
           Registered, ConnJoins, PumpJoins, Deregistered, Early
  <2> QED BY <2>1, <2>2
<1>12. CASE OnClosed(d, t)
  <2> USE <1>12 DEF OnClosed, Release, Failed, Succeeded
  <2>1. MainOK'
    BY DEF MainOK, AllTerminated, CloseOK, Settled, Callback, Connecting, Closing,
           SetsClosed
  <2>2. MutexOK(d)'
    BY DEF MutexOK, Callback, Situation, Unsubscribed, Opening, Registered,
           ConnJoins, PumpJoins, Deregistered, Early
  <2>3. BackOK(d)'
    BY DEF BackOK
  <2>4. CloseOK(d)'
    BY DEF CloseOK, Early, Connecting, Closing, SetsClosed, Settled, Callback
  <2>5. Situation(d)'
    <3>1. CASE t = "conn"
      BY <3>1 DEF MutexOK, Callback, Connecting, Situation, Unsubscribed, Opening,
           Registered, ConnJoins, PumpJoins, Deregistered, Early, CloseOK, Settled,
           Closing, SetsClosed
    <3>2. CASE t = "pump"
      BY <3>2 DEF MutexOK, Callback, Connecting, Situation, Unsubscribed, Opening,
           Registered, ConnJoins, PumpJoins, Deregistered, Early, CloseOK, Settled,
           Closing, SetsClosed
    <3>3. CASE t = "main"
      BY <3>3 DEF MutexOK, Callback, Connecting, Situation, Unsubscribed, Opening,
           Registered, ConnJoins, PumpJoins, Deregistered, Early, CloseOK, Settled,
           Closing, SetsClosed
    <3> QED BY <3>1, <3>2, <3>3
  <2> QED BY <2>1, <2>2, <2>3, <2>4, <2>5
<1> QED BY <1>1, <1>2, <1>3, <1>4, <1>5, <1>6, <1>7, <1>8, <1>9, <1>10, <1>11,
           <1>12 DEF SendOrClose

\* The connection's thread registers a pump, and ends only when it is joined.
LEMMA StepConn ==
    ASSUME IInv, NEW d \in Clients,
           \/ Insert(d) \/ Handshake(d) \/ Open(d) \/ Refuse(d) \/ Subscribe(d)
           \/ Register(d) \/ EndOfRun(d) \/ PollSendRequest(d)
           \/ PollCloseRequest(d) \/ PollRead(d) \/ EndOfStream(d)
           \/ AbnormalClose(d) \/ CloseFrameReceived(d) \/ CloseFrameAnswered(d)
           \/ ClosingOver(d) \/ ResetCancellation(d)
    PROVE  MainOK' /\ ClientOK(d)'
<1> USE WsServerAssumption
    DEF IInv, TypeOK, ClientOK, At, Go, threads, transport, mutexes, feed, stopping
<1>1. CASE Insert(d)
  <2> USE <1>1 DEF Insert
  <2>1. MainOK' /\ MutexOK(d)' /\ BackOK(d)' /\ CloseOK(d)'
    BY DEF MainOK, MutexOK, BackOK, CloseOK, Callback, Connecting, Closing,
           SetsClosed, Settled, AllTerminated, Early
  <2>2. Situation(d)'
    BY DEF MutexOK, Callback, Connecting, Situation, Unsubscribed, Opening,
           Registered, ConnJoins, PumpJoins, Deregistered, Early
  <2> QED BY <2>1, <2>2
<1>2. CASE Handshake(d)
  <2> USE <1>2 DEF Handshake
  <2>1. MainOK' /\ MutexOK(d)' /\ BackOK(d)' /\ CloseOK(d)'
    BY DEF MainOK, MutexOK, BackOK, CloseOK, Callback, Connecting, Closing,
           SetsClosed, Settled, AllTerminated, Early
  <2>2. Situation(d)'
    BY DEF MutexOK, Callback, Connecting, Situation, Unsubscribed, Opening,
           Registered, ConnJoins, PumpJoins, Deregistered, Early
  <2> QED BY <2>1, <2>2
<1>3. CASE Open(d)
  <2> USE <1>3 DEF Open
  <2>1. MainOK' /\ MutexOK(d)' /\ BackOK(d)' /\ CloseOK(d)'
    BY DEF MainOK, MutexOK, BackOK, CloseOK, Callback, Connecting, Closing,
           SetsClosed, Settled, AllTerminated, Early
  <2>2. Situation(d)'
    BY DEF MutexOK, Callback, Connecting, Situation, Unsubscribed, Opening,
           Registered, ConnJoins, PumpJoins, Deregistered, Early
  <2> QED BY <2>1, <2>2
<1>4. CASE Refuse(d)
  <2> USE <1>4 DEF Refuse, WakeUp, Call
  <2>1. MainOK' /\ MutexOK(d)' /\ BackOK(d)' /\ CloseOK(d)'
    BY DEF MainOK, MutexOK, BackOK, CloseOK, Callback, Connecting, Closing,
           SetsClosed, Settled, AllTerminated, Early
  <2>2. Situation(d)'
    BY DEF MutexOK, Callback, Connecting, Situation, Unsubscribed, Opening,
           Registered, ConnJoins, PumpJoins, Deregistered, Early
  <2> QED BY <2>1, <2>2
<1>5. CASE Subscribe(d)
  <2> USE <1>5 DEF Subscribe
  <2>1. MainOK' /\ MutexOK(d)' /\ BackOK(d)' /\ CloseOK(d)'
    BY DEF MainOK, MutexOK, BackOK, CloseOK, Callback, Connecting, Closing,
           SetsClosed, Settled, AllTerminated, Early
  <2>2. Situation(d)'
    BY DEF MutexOK, Callback, Connecting, Situation, Unsubscribed, Opening,
           Registered, ConnJoins, PumpJoins, Deregistered, Early
  <2> QED BY <2>1, <2>2
<1>6. CASE Register(d)
  <2> USE <1>6 DEF Register
  <2>1. MainOK'
    BY DEF MainOK, AllTerminated, CloseOK, Settled, Callback, Connecting, Closing,
           SetsClosed
  <2>2. MutexOK(d)'
    BY DEF MutexOK, Callback, Situation, Unsubscribed, Opening, Registered,
           ConnJoins, PumpJoins, Deregistered, Early
  <2>3. BackOK(d)'
    BY DEF BackOK
  <2>4. CloseOK(d)'
    BY DEF CloseOK, MutexOK, Situation, Unsubscribed, Opening, Registered,
           ConnJoins, PumpJoins, Deregistered, Early, Connecting, Closing,
           SetsClosed, Settled, Callback
  <2>5. Situation(d)'
    BY DEF MutexOK, Callback, Connecting, Situation, Unsubscribed, Opening,
           Registered, ConnJoins, PumpJoins, Deregistered, Early
  <2> QED BY <2>1, <2>2, <2>3, <2>4, <2>5
<1>7. CASE EndOfRun(d)
  <2> USE <1>7 DEF EndOfRun
  <2>1. MainOK' /\ MutexOK(d)' /\ BackOK(d)' /\ CloseOK(d)'
    BY DEF MainOK, MutexOK, BackOK, CloseOK, Callback, Connecting, Closing,
           SetsClosed, Settled, AllTerminated, Early
  <2>2. Situation(d)'
    BY DEF MutexOK, Callback, Connecting, Situation, Unsubscribed, Opening,
           Registered, ConnJoins, PumpJoins, Deregistered, Early
  <2> QED BY <2>1, <2>2
<1>8. CASE PollSendRequest(d)
  <2> USE <1>8 DEF PollSendRequest, TakeRequest, Call
  <2>1. MainOK' /\ MutexOK(d)' /\ BackOK(d)' /\ CloseOK(d)'
    BY DEF MainOK, MutexOK, BackOK, CloseOK, Callback, Connecting, Closing,
           SetsClosed, Settled, AllTerminated, Early
  <2>2. Situation(d)'
    BY DEF MutexOK, Callback, Connecting, Situation, Unsubscribed, Opening,
           Registered, ConnJoins, PumpJoins, Deregistered, Early
  <2> QED BY <2>1, <2>2
<1>9. CASE PollCloseRequest(d)
  <2> USE <1>9 DEF PollCloseRequest, TakeRequest, CloseSocket
  <2>1. MainOK' /\ MutexOK(d)' /\ BackOK(d)' /\ CloseOK(d)'
    BY DEF MainOK, MutexOK, BackOK, CloseOK, Callback, Connecting, Closing,
           SetsClosed, Settled, AllTerminated, Early
  <2>2. Situation(d)'
    BY DEF MutexOK, Callback, Connecting, Situation, Unsubscribed, Opening,
           Registered, ConnJoins, PumpJoins, Deregistered, Early
  <2> QED BY <2>1, <2>2
<1>10. CASE PollRead(d)
  <2> USE <1>10 DEF PollRead
  <2>1. MainOK' /\ MutexOK(d)' /\ BackOK(d)' /\ CloseOK(d)'
    BY DEF MainOK, MutexOK, BackOK, CloseOK, Callback, Connecting, Closing,
           SetsClosed, Settled, AllTerminated, Early
  <2>2. Situation(d)'
    BY DEF MutexOK, Callback, Connecting, Situation, Unsubscribed, Opening,
           Registered, ConnJoins, PumpJoins, Deregistered, Early
  <2> QED BY <2>1, <2>2
<1>11. CASE EndOfStream(d)
  <2> USE <1>11 DEF EndOfStream, CloseSocket
  <2>1. MainOK' /\ MutexOK(d)' /\ BackOK(d)' /\ CloseOK(d)'
    BY DEF MainOK, MutexOK, BackOK, CloseOK, Callback, Connecting, Closing,
           SetsClosed, Settled, AllTerminated, Early
  <2>2. Situation(d)'
    BY DEF MutexOK, Callback, Connecting, Situation, Unsubscribed, Opening,
           Registered, ConnJoins, PumpJoins, Deregistered, Early
  <2> QED BY <2>1, <2>2
<1>12. CASE AbnormalClose(d)
  <2> USE <1>12 DEF AbnormalClose, CloseSocket, Call
  <2>1. MainOK' /\ MutexOK(d)' /\ BackOK(d)' /\ CloseOK(d)'
    BY DEF MainOK, MutexOK, BackOK, CloseOK, Callback, Connecting, Closing,
           SetsClosed, Settled, AllTerminated, Early
  <2>2. Situation(d)'
    BY DEF MutexOK, Callback, Connecting, Situation, Unsubscribed, Opening,
           Registered, ConnJoins, PumpJoins, Deregistered, Early
  <2> QED BY <2>1, <2>2
<1>13. CASE CloseFrameReceived(d)
  <2> USE <1>13 DEF CloseFrameReceived, Call
  <2>1. MainOK' /\ MutexOK(d)' /\ BackOK(d)' /\ CloseOK(d)'
    BY DEF MainOK, MutexOK, BackOK, CloseOK, Callback, Connecting, Closing,
           SetsClosed, Settled, AllTerminated, Early
  <2>2. Situation(d)'
    BY DEF MutexOK, Callback, Connecting, Situation, Unsubscribed, Opening,
           Registered, ConnJoins, PumpJoins, Deregistered, Early
  <2> QED BY <2>1, <2>2
<1>14. CASE CloseFrameAnswered(d)
  <2> USE <1>14 DEF CloseFrameAnswered, WakeUp, CloseSocket, Call
  <2>1. MainOK' /\ MutexOK(d)' /\ BackOK(d)' /\ CloseOK(d)'
    BY DEF MainOK, MutexOK, BackOK, CloseOK, Callback, Connecting, Closing,
           SetsClosed, Settled, AllTerminated, Early
  <2>2. Situation(d)'
    BY DEF MutexOK, Callback, Connecting, Situation, Unsubscribed, Opening,
           Registered, ConnJoins, PumpJoins, Deregistered, Early
  <2> QED BY <2>1, <2>2
<1>15. CASE ClosingOver(d)
  <2> USE <1>15 DEF ClosingOver, CloseSocket, Call
  <2>1. MainOK' /\ MutexOK(d)' /\ BackOK(d)' /\ CloseOK(d)'
    BY DEF MainOK, MutexOK, BackOK, CloseOK, Callback, Connecting, Closing,
           SetsClosed, Settled, AllTerminated, Early
  <2>2. Situation(d)'
    BY DEF MutexOK, Callback, Connecting, Situation, Unsubscribed, Opening,
           Registered, ConnJoins, PumpJoins, Deregistered, Early
  <2> QED BY <2>1, <2>2
<1>16. CASE ResetCancellation(d)
  <2> USE <1>16 DEF ResetCancellation, Call
  <2>1. MainOK'
    BY DEF MainOK, AllTerminated, CloseOK, Settled, Callback, Connecting, Closing,
           SetsClosed
  <2>2. MutexOK(d)'
    BY DEF MutexOK, Callback, Situation, Unsubscribed, Opening, Registered,
           ConnJoins, PumpJoins, Deregistered, Early
  <2>3. BackOK(d)'
    BY DEF BackOK
  <2>4. CloseOK(d)'
    BY DEF CloseOK, MutexOK, Situation, Unsubscribed, Opening, Registered,
           ConnJoins, PumpJoins, Deregistered, Early, Connecting, Closing,
           SetsClosed, Settled, Callback
  <2>5. Situation(d)'
    BY DEF MutexOK, Callback, Connecting, Situation, Unsubscribed, Opening,
           Registered, ConnJoins, PumpJoins, Deregistered, Early
  <2> QED BY <2>1, <2>2, <2>3, <2>4, <2>5
<1> QED BY <1>1, <1>2, <1>3, <1>4, <1>5, <1>6, <1>7, <1>8, <1>9, <1>10, <1>11,
           <1>12, <1>13, <1>14, <1>15, <1>16

\* The pump ends only once its Subscription is closed, and so under somebody's join.
LEMMA StepPump ==
    ASSUME IInv, NEW d \in Clients,
           \/ PumpNext(d) \/ PumpEnds(d) \/ PumpSend(d)
    PROVE  MainOK' /\ ClientOK(d)'
<1> USE WsServerAssumption
    DEF IInv, TypeOK, ClientOK, At, Go, threads, transport, mutexes, feed, stopping
<1>1. CASE PumpNext(d)
  <2> USE <1>1 DEF PumpNext
  <2>1. MainOK' /\ MutexOK(d)' /\ BackOK(d)' /\ CloseOK(d)'
    BY DEF MainOK, MutexOK, BackOK, CloseOK, Callback, Connecting, Closing,
           SetsClosed, Settled, AllTerminated, Early
  <2>2. Situation(d)'
    BY DEF MutexOK, Callback, Connecting, Situation, Unsubscribed, Opening,
           Registered, ConnJoins, PumpJoins, Deregistered, Early
  <2> QED BY <2>1, <2>2
<1>2. CASE PumpEnds(d)
  <2> USE <1>2 DEF PumpEnds
  <2>1. MainOK' /\ MutexOK(d)' /\ BackOK(d)' /\ CloseOK(d)'
    BY DEF MainOK, MutexOK, BackOK, CloseOK, Callback, Connecting, Closing,
           SetsClosed, Settled, AllTerminated, Early
  <2>2. Situation(d)'
    BY DEF MutexOK, Callback, Connecting, Situation, Unsubscribed, Opening,
           Registered, ConnJoins, PumpJoins, Deregistered, Early
  <2> QED BY <2>1, <2>2
<1>3. CASE PumpSend(d)
  <2> USE <1>3 DEF PumpSend
  <2>1. MainOK' /\ MutexOK(d)' /\ BackOK(d)' /\ CloseOK(d)'
    BY DEF MainOK, MutexOK, BackOK, CloseOK, Callback, Connecting, Closing,
           SetsClosed, Settled, AllTerminated, Early
  <2>2. Situation(d)'
    BY DEF MutexOK, Callback, Connecting, Situation, Unsubscribed, Opening,
           Registered, ConnJoins, PumpJoins, Deregistered, Early
  <2> QED BY <2>1, <2>2
<1> QED BY <1>1, <1>2, <1>3

\* Clients, and main() as it turns to one of them, touch no thread that is under way.
LEMMA StepClients ==
    ASSUME IInv, NEW d \in Clients,
           \/ Connect(d) \/ Leave(d) \/ Vanish(d) \/ Cancel(d)
    PROVE  MainOK' /\ ClientOK(d)'
<1> USE WsServerAssumption
    DEF IInv, TypeOK, ClientOK, At, Go, threads, transport, mutexes, feed, stopping
<1>1. CASE Connect(d)
  <2> USE <1>1 DEF Connect
  <2>1. MainOK' /\ MutexOK(d)' /\ BackOK(d)' /\ CloseOK(d)'
    BY DEF MainOK, MutexOK, BackOK, CloseOK, Callback, Connecting, Closing,
           SetsClosed, Settled, AllTerminated, Early
  <2>2. Situation(d)'
    BY DEF MutexOK, Callback, Connecting, Situation, Unsubscribed, Opening,
           Registered, ConnJoins, PumpJoins, Deregistered, Early
  <2> QED BY <2>1, <2>2
<1>2. CASE Leave(d)
  <2> USE <1>2 DEF Leave
  <2>1. MainOK' /\ MutexOK(d)' /\ BackOK(d)' /\ CloseOK(d)'
    BY DEF MainOK, MutexOK, BackOK, CloseOK, Callback, Connecting, Closing,
           SetsClosed, Settled, AllTerminated, Early
  <2>2. Situation(d)'
    BY DEF MutexOK, Callback, Connecting, Situation, Unsubscribed, Opening,
           Registered, ConnJoins, PumpJoins, Deregistered, Early
  <2> QED BY <2>1, <2>2
<1>3. CASE Vanish(d)
  <2> USE <1>3 DEF Vanish
  <2>1. MainOK' /\ MutexOK(d)' /\ BackOK(d)' /\ CloseOK(d)'
    BY DEF MainOK, MutexOK, BackOK, CloseOK, Callback, Connecting, Closing,
           SetsClosed, Settled, AllTerminated, Early
  <2>2. Situation(d)'
    BY DEF MutexOK, Callback, Connecting, Situation, Unsubscribed, Opening,
           Registered, ConnJoins, PumpJoins, Deregistered, Early
  <2> QED BY <2>1, <2>2
<1>4. CASE Cancel(d)
  <2> USE <1>4 DEF Cancel
  <2>1. MainOK' /\ MutexOK(d)' /\ BackOK(d)' /\ CloseOK(d)'
    BY DEF MainOK, MutexOK, BackOK, CloseOK, Callback, Connecting, Closing,
           SetsClosed, Settled, AllTerminated, Early
  <2>2. Situation(d)'
    BY DEF MutexOK, Callback, Connecting, Situation, Unsubscribed, Opening,
           Registered, ConnJoins, PumpJoins, Deregistered, Early
  <2> QED BY <2>1, <2>2
<1> QED BY <1>1, <1>2, <1>3, <1>4

\* main() may set CLOSING after the connection has closed, which disturbs nobody: the
\* connection then closes once more, with no pump registered.
LEMMA StepTarget ==
    ASSUME IInv, NEW d \in Clients, target = d,
           \/ ReadState \/ NothingToClose \/ SetClosing \/ SendCloseFrame
           \/ WakeConnection
    PROVE  MainOK' /\ ClientOK(d)'
<1> USE WsServerAssumption
    DEF IInv, TypeOK, ClientOK, At, Go, threads, transport, mutexes, feed, stopping
<1>1. CASE ReadState
  <2> USE <1>1 DEF ReadState
  <2>1. MainOK'
    BY DEF MainOK, AllTerminated, CloseOK, Settled, Callback, Connecting, Closing,
           SetsClosed
  <2>2. MutexOK(d)'
    BY DEF MutexOK, Callback, Situation, Unsubscribed, Opening, Registered,
           ConnJoins, PumpJoins, Deregistered, Early
  <2>3. BackOK(d)'
    BY DEF BackOK
  <2>4. CloseOK(d)'
    BY DEF CloseOK, MutexOK, Situation, Unsubscribed, Opening, Registered,
           ConnJoins, PumpJoins, Deregistered, Early, Connecting, Closing,
           SetsClosed, Settled, Callback
  <2>5. Situation(d)'
    BY DEF MutexOK, Callback, Connecting, Situation, Unsubscribed, Opening,
           Registered, ConnJoins, PumpJoins, Deregistered, Early
  <2> QED BY <2>1, <2>2, <2>3, <2>4, <2>5
<1>2. CASE NothingToClose
  <2> USE <1>2 DEF NothingToClose, WakeUp
  <2>1. MainOK' /\ MutexOK(d)' /\ BackOK(d)' /\ CloseOK(d)'
    BY DEF MainOK, MutexOK, BackOK, CloseOK, Callback, Connecting, Closing,
           SetsClosed, Settled, AllTerminated, Early
  <2>2. Situation(d)'
    BY DEF MutexOK, Callback, Connecting, Situation, Unsubscribed, Opening,
           Registered, ConnJoins, PumpJoins, Deregistered, Early
  <2> QED BY <2>1, <2>2
<1>3. CASE SetClosing
  <2> USE <1>3 DEF SetClosing
  <2>1. MainOK'
    BY DEF MainOK, AllTerminated, CloseOK, Settled, Callback, Connecting, Closing,
           SetsClosed
  <2>2. MutexOK(d)'
    BY DEF MutexOK, Callback, Situation, Unsubscribed, Opening, Registered,
           ConnJoins, PumpJoins, Deregistered, Early
  <2>3. BackOK(d)'
    BY DEF BackOK
  <2>4. CloseOK(d)'
    BY DEF CloseOK, MutexOK, Situation, Unsubscribed, Opening, Registered,
           ConnJoins, PumpJoins, Deregistered, Early, Connecting, Closing,
           SetsClosed, Settled, Callback
  <2>5. Situation(d)'
    BY DEF MutexOK, Callback, Connecting, Situation, Unsubscribed, Opening,
           Registered, ConnJoins, PumpJoins, Deregistered, Early, CloseOK, Settled,
           Closing, SetsClosed
  <2> QED BY <2>1, <2>2, <2>3, <2>4, <2>5
<1>4. CASE SendCloseFrame
  <2> USE <1>4 DEF SendCloseFrame
  <2>1. MainOK' /\ MutexOK(d)' /\ BackOK(d)' /\ CloseOK(d)'
    BY DEF MainOK, MutexOK, BackOK, CloseOK, Callback, Connecting, Closing,
           SetsClosed, Settled, AllTerminated, Early
  <2>2. Situation(d)'
    BY DEF MutexOK, Callback, Connecting, Situation, Unsubscribed, Opening,
           Registered, ConnJoins, PumpJoins, Deregistered, Early
  <2> QED BY <2>1, <2>2
<1>5. CASE WakeConnection
  <2> USE <1>5 DEF WakeConnection, WakeUp
  <2>1. MainOK' /\ MutexOK(d)' /\ BackOK(d)' /\ CloseOK(d)'
    BY DEF MainOK, MutexOK, BackOK, CloseOK, Callback, Connecting, Closing,
           SetsClosed, Settled, AllTerminated, Early
  <2>2. Situation(d)'
    BY DEF MutexOK, Callback, Connecting, Situation, Unsubscribed, Opening,
           Registered, ConnJoins, PumpJoins, Deregistered, Early
  <2> QED BY <2>1, <2>2
<1> QED BY <1>1, <1>2, <1>3, <1>4, <1>5

\* What main() and the writer do with all clients at once.
LEMMA StepRest ==
    ASSUME IInv,
           \/ AllClosed \/ JoinConnections \/ Sweep \/ Stop \/ Publish
    PROVE  MainOK' /\ \A c \in Clients : ClientOK(c)'
<1> USE WsServerAssumption
    DEF IInv, TypeOK, ClientOK, At, Go, threads, transport, mutexes, feed, stopping
<1>1. CASE AllClosed
  <2> USE <1>1 DEF AllClosed
  <2>1. MainOK'
    BY DEF MainOK, Closing, SetsClosed, AllTerminated
  <2>2. ASSUME NEW c \in Clients
        PROVE  ClientOK(c)'
    <3>1. MutexOK(c)' /\ BackOK(c)' /\ CloseOK(c)'
      BY DEF MainOK, MutexOK, BackOK, CloseOK, Callback, Connecting, Closing,
             SetsClosed, Settled
    <3>2. Situation(c)'
      BY DEF MutexOK, Callback, Connecting, Situation, Unsubscribed, Opening,
             Registered, ConnJoins, PumpJoins, Deregistered, Early
    <3> QED BY <3>1, <3>2
  <2> QED BY <2>1, <2>2
<1>2. CASE JoinConnections
  <2> USE <1>2 DEF JoinConnections
  <2>1. MainOK'
    BY DEF MainOK, Closing, SetsClosed, AllTerminated
  <2>2. ASSUME NEW c \in Clients
        PROVE  ClientOK(c)'
    <3>1. MutexOK(c)' /\ BackOK(c)' /\ CloseOK(c)'
      BY DEF MainOK, MutexOK, BackOK, CloseOK, Callback, Connecting, Closing,
             SetsClosed, Settled
    <3>2. Situation(c)'
      BY DEF MutexOK, Callback, Connecting, Situation, Unsubscribed, Opening,
             Registered, ConnJoins, PumpJoins, Deregistered, Early
    <3> QED BY <3>1, <3>2
  <2> QED BY <2>1, <2>2
<1>3. CASE Sweep
  <2> USE <1>3 DEF Sweep, PumpDone
  <2>1. MainOK'
    BY DEF MainOK, Closing, SetsClosed, AllTerminated
  <2>2. ASSUME NEW c \in Clients
        PROVE  ClientOK(c)'
    <3>1. MutexOK(c)' /\ BackOK(c)' /\ CloseOK(c)'
      BY DEF MainOK, MutexOK, BackOK, CloseOK, Callback, Connecting, Closing,
             SetsClosed, Settled, AllTerminated, Situation, Unsubscribed, Opening,
             Registered, ConnJoins, PumpJoins, Deregistered, Early
    <3>2. Situation(c)'
      BY DEF MutexOK, Callback, Connecting, Situation, Unsubscribed, Opening,
             Registered, ConnJoins, PumpJoins, Deregistered, Early, MainOK,
             AllTerminated
    <3> QED BY <3>1, <3>2
  <2> QED BY <2>1, <2>2
<1>4. CASE Stop
  <2> USE <1>4 DEF Stop, Members, Connecting
  <2>1. MainOK'
    BY DEF MainOK, Closing, SetsClosed, AllTerminated
  <2>2. ASSUME NEW c \in Clients
        PROVE  ClientOK(c)'
    <3>1. MutexOK(c)' /\ BackOK(c)' /\ CloseOK(c)'
      BY DEF MainOK, MutexOK, BackOK, CloseOK, Callback, Connecting, Closing,
             SetsClosed, Settled
    <3>2. Situation(c)'
      BY DEF MutexOK, Callback, Connecting, Situation, Unsubscribed, Opening,
             Registered, ConnJoins, PumpJoins, Deregistered, Early
    <3> QED BY <3>1, <3>2
  <2> QED BY <2>1, <2>2
<1>5. CASE Publish
  <2> USE <1>5 DEF Publish, Grows
  <2>1. MainOK'
    BY DEF MainOK, Closing, SetsClosed, AllTerminated
  <2>2. ASSUME NEW c \in Clients
        PROVE  ClientOK(c)'
    <3>1. MutexOK(c)' /\ BackOK(c)' /\ CloseOK(c)'
      BY DEF MainOK, MutexOK, BackOK, CloseOK, Callback, Connecting, Closing,
             SetsClosed, Settled
    <3>2. Situation(c)'
      BY DEF MutexOK, Callback, Connecting, Situation, Unsubscribed, Opening,
             Registered, ConnJoins, PumpJoins, Deregistered, Early
    <3> QED BY <3>1, <3>2
  <2> QED BY <2>1, <2>2
<1> QED BY <1>1, <1>2, <1>3, <1>4, <1>5

-----------------------------------------------------------------------------
(* Clients that read and stay *)

\* What of the invariant matters to them.
LEMMA Consequences ==
    ASSUME IInv, NEW c \in Clients
    PROVE  /\ pump[c] \in {"sending", "sent", "flush"} => state[c] # "CLOSED" /\ ~Settled(c)
           /\ conn[c] = "reset" => Settled(c)
           /\ target = c /\ main = "set" => cancel[c] \/ Settled(c)
           /\ target = c /\ main \in (Closing \ {"set"}) \cup SetsClosed => state[c] # "OPEN"
<1> USE DEF IInv, ClientOK, Situation, Unsubscribed, Opening, Registered, ConnJoins,
            PumpJoins, Deregistered, Settled, Early, Callback
<1>1. pump[c] \in {"sending", "sent", "flush"} => state[c] # "CLOSED" /\ ~Settled(c)
  OBVIOUS
<1>2. conn[c] = "reset" => Settled(c)
  OBVIOUS
<1>3. /\ target = c /\ main = "set" => cancel[c] \/ Settled(c)
      /\ target = c /\ main \in (Closing \ {"set"}) \cup SetsClosed => state[c] # "OPEN"
  BY DEF CloseOK, Closing
<1> QED BY <1>1, <1>2, <1>3

\* The pump's send fails only in CLOSING, and what it leaves is not flushed then: main()
\* has cancelled that.
LEMMA SmoothShared ==
    ASSUME IInv, NEW d \in Clients, NEW t \in {"conn", "pump", "main"},
           may[d] = {} => Smooth(d),
           SendOrClose(d, t)
    PROVE  may'[d] = {} => Smooth(d)'
<1> USE Consequences
    DEF IInv, TypeOK, Smooth, Settled, Early, Callback, Connecting, Closing,
        SetsClosed, At, Go, threads, transport, mutexes, feed, stopping
<1>1. CASE SendAll(d, t)
  BY <1>1 DEF SendAll
<1>2. CASE SendPart(d, t)
  BY <1>2 DEF SendPart
<1>3. CASE SendFails(d, t)
  BY <1>3 DEF SendFails, CloseSocket, ClosingElsewhere, Failed, Succeeded
<1>4. CASE Sent(d, t)
  BY <1>4 DEF Sent, WakeUp, Succeeded
<1>5. CASE FlushLoop(d, t)
  BY <1>5 DEF FlushLoop, Cancelled, Succeeded
<1>6. CASE FlushWrites(d, t)
  BY <1>6 DEF FlushWrites
<1>7. CASE FlushInterrupted(d, t)
  BY <1>7 DEF FlushInterrupted, TakeRequest
<1>8. CASE FlushError(d, t)
  BY <1>8 DEF FlushError, CloseSocket
<1>9. CASE SetClosed(d, t)
  <2>1. CASE t = "conn"
    BY <1>9, <2>1 DEF SetClosed, Release, Failed, Succeeded, Pump, Shared
  <2>2. CASE t = "pump"
    BY <1>9, <2>2 DEF SetClosed, Release, Failed, Succeeded, Pump, Shared
  <2>3. CASE t = "main"
    BY <1>9, <2>3 DEF SetClosed, Release, Failed, Succeeded, Pump, Shared
  <2> QED BY <2>1, <2>2, <2>3
<1>10. CASE OnClose(d, t)
  BY <1>10 DEF OnClose, Deregister
<1>11. CASE Join(d, t)
  BY <1>11 DEF Join, PumpDone
<1>12. CASE OnClosed(d, t)
  BY <1>12 DEF OnClosed, Release, Failed, Succeeded
<1> QED BY <1>1, <1>2, <1>3, <1>4, <1>5, <1>6, <1>7, <1>8, <1>9, <1>10, <1>11,
           <1>12 DEF SendOrClose

\* The connection's thread closes the socket only in CLOSING, and withdraws the
\* cancellation only when there is no pump any more.
LEMMA SmoothConn ==
    ASSUME IInv, NEW d \in Clients,
           may[d] = {} => Smooth(d),
           \/ Insert(d) \/ Handshake(d) \/ Open(d) \/ Refuse(d) \/ Subscribe(d)
           \/ Register(d) \/ EndOfRun(d) \/ PollSendRequest(d)
           \/ PollCloseRequest(d) \/ PollRead(d) \/ EndOfStream(d)
           \/ AbnormalClose(d) \/ CloseFrameReceived(d) \/ CloseFrameAnswered(d)
           \/ ClosingOver(d) \/ ResetCancellation(d)
    PROVE  may'[d] = {} => Smooth(d)'
<1> USE Consequences
    DEF IInv, TypeOK, Smooth, Settled, Early, Callback, Connecting, At, Go,
        threads, transport, mutexes, feed, stopping
<1>1. CASE Insert(d)
  BY <1>1 DEF Insert
<1>2. CASE Handshake(d)
  BY <1>2 DEF Handshake
<1>3. CASE Open(d)
  BY <1>3 DEF Open
<1>4. CASE Refuse(d)
  BY <1>4 DEF Refuse, WakeUp, Call
<1>5. CASE Subscribe(d)
  BY <1>5 DEF Subscribe
<1>6. CASE Register(d)
  BY <1>6 DEF Register
<1>7. CASE EndOfRun(d)
  BY <1>7 DEF EndOfRun
<1>8. CASE PollSendRequest(d)
  BY <1>8 DEF PollSendRequest, TakeRequest, Call
<1>9. CASE PollCloseRequest(d)
  BY <1>9 DEF PollCloseRequest, TakeRequest, CloseSocket
<1>10. CASE PollRead(d)
  BY <1>10 DEF PollRead
<1>11. CASE EndOfStream(d)
  BY <1>11 DEF EndOfStream, CloseSocket
<1>12. CASE AbnormalClose(d)
  BY <1>12 DEF AbnormalClose, CloseSocket, Call
<1>13. CASE CloseFrameReceived(d)
  BY <1>13 DEF CloseFrameReceived, Call
<1>14. CASE CloseFrameAnswered(d)
  BY <1>14 DEF CloseFrameAnswered, WakeUp, CloseSocket, Call
<1>15. CASE ClosingOver(d)
  BY <1>15 DEF ClosingOver, CloseSocket, Call
<1>16. CASE ResetCancellation(d)
  BY <1>16 DEF ResetCancellation, Call
<1> QED BY <1>1, <1>2, <1>3, <1>4, <1>5, <1>6, <1>7, <1>8, <1>9, <1>10, <1>11,
           <1>12, <1>13, <1>14, <1>15, <1>16

\* The pump begins to send in OPEN only.
LEMMA SmoothPump ==
    ASSUME IInv, NEW d \in Clients,
           may[d] = {} => Smooth(d),
           \/ PumpNext(d) \/ PumpEnds(d) \/ PumpSend(d)
    PROVE  may'[d] = {} => Smooth(d)'
<1> USE Consequences
    DEF IInv, TypeOK, Smooth, Settled, Early, Callback, Connecting, At, Go,
        threads, transport, mutexes, feed, stopping
<1>1. CASE PumpNext(d)
  BY <1>1 DEF PumpNext
<1>2. CASE PumpEnds(d)
  BY <1>2 DEF PumpEnds
<1>3. CASE PumpSend(d)
  BY <1>3 DEF PumpSend
<1> QED BY <1>1, <1>2, <1>3

\* A client that stays does nothing but connect.
LEMMA SmoothClients ==
    ASSUME IInv, NEW d \in Clients,
           may[d] = {} => Smooth(d),
           \/ Connect(d) \/ Leave(d) \/ Vanish(d) \/ Cancel(d)
    PROVE  may'[d] = {} => Smooth(d)'
<1> USE Consequences
    DEF IInv, TypeOK, Smooth, Settled, Early, Callback, Connecting, At, Go,
        threads, transport, mutexes, feed, stopping
<1>1. CASE Connect(d)
  BY <1>1 DEF Connect
<1>2. CASE Leave(d)
  BY <1>2 DEF Leave
<1>3. CASE Vanish(d)
  BY <1>3 DEF Vanish
<1>4. CASE Cancel(d)
  BY <1>4 DEF Cancel
<1> QED BY <1>1, <1>2, <1>3, <1>4

\* main() cancels the flushing before it sets CLOSING.
LEMMA SmoothTarget ==
    ASSUME IInv, NEW d \in Clients, target = d,
           may[d] = {} => Smooth(d),
           \/ ReadState \/ NothingToClose \/ SetClosing \/ SendCloseFrame
           \/ WakeConnection
    PROVE  may'[d] = {} => Smooth(d)'
<1> USE Consequences
    DEF IInv, TypeOK, Smooth, Settled, Early, Callback, Connecting, Closing,
        SetsClosed, At, Go, threads, transport, mutexes, feed, stopping
<1>1. CASE ReadState
  BY <1>1 DEF ReadState
<1>2. CASE NothingToClose
  BY <1>2 DEF NothingToClose, WakeUp
<1>3. CASE SetClosing
  BY <1>3 DEF SetClosing
<1>4. CASE SendCloseFrame
  BY <1>4 DEF SendCloseFrame
<1>5. CASE WakeConnection
  BY <1>5 DEF WakeConnection, WakeUp
<1> QED BY <1>1, <1>2, <1>3, <1>4, <1>5

\* What main() and the writer do with all clients at once.
LEMMA SmoothRest ==
    ASSUME IInv, SmoothInv,
           \/ AllClosed \/ JoinConnections \/ Sweep \/ Stop \/ Publish
    PROVE  SmoothInv'
<1> USE Consequences
    DEF IInv, MainOK, SmoothInv, TypeOK, Smooth, Settled, Early, Callback,
        Connecting, At, Go, threads, transport, mutexes, feed, stopping
<1>1. CASE AllClosed
  BY <1>1 DEF AllClosed
<1>2. CASE JoinConnections
  BY <1>2 DEF JoinConnections, AllTerminated
<1>3. CASE Sweep
  BY <1>3 DEF Sweep, PumpDone, AllTerminated
<1>4. CASE Stop
  BY <1>4 DEF Stop, Members, Connecting
<1>5. CASE Publish
  BY <1>5 DEF Publish, Grows
<1> QED BY <1>1, <1>2, <1>3, <1>4, <1>5

-----------------------------------------------------------------------------
(* What follows *)

\* Every step keeps the types.
LEMMA TypeStep == TypeOK /\ [Next]_vars => TypeOK'
<1> SUFFICES ASSUME TypeOK, [Next]_vars
             PROVE  TypeOK'
  OBVIOUS
<1>1. CASE Next
  BY <1>1, TypeShared, TypeConn, TypePump, TypeClients, TypeMain
     DEF Next, ConnStep, PumpStep, MainStep
<1>2. CASE UNCHANGED vars
  BY <1>2 DEF TypeOK, vars, threads, transport, mutexes, feed, stopping
<1> QED BY <1>1, <1>2

\* To begin with nobody has connected.
LEMMA InvInit == Init => IInv /\ SmoothInv
<1> SUFFICES ASSUME Init
             PROVE  IInv /\ SmoothInv
  OBVIOUS
<1>1. TypeOK
  BY TypeInit
<1>2. MainOK /\ \A c \in Clients : ClientOK(c)
  BY WsServerAssumption
     DEF Init, MainOK, Closing, SetsClosed, ClientOK, MutexOK, Callback, Situation,
         Unsubscribed, BackOK, CloseOK
<1>3. SmoothInv
  BY WsServerAssumption DEF Init, SmoothInv, Smooth, Callback
<1> QED BY <1>1, <1>2, <1>3 DEF IInv

\* A step of one client's threads, or of main() with one client, keeps what the
\* invariants say of that client, and of the others, which it does not touch.
LEMMA OneClient ==
    ASSUME IInv, SmoothInv, NEW d \in Clients, MainOK', ClientOK(d)',
           may'[d] = {} => Smooth(d)',
           \A c \in Clients : c # d => Untouched(c)
    PROVE  /\ MainOK' /\ SmoothInv'
           /\ \A c \in Clients : ClientOK(c)'
<1>1. ASSUME NEW c \in Clients, c # d
      PROVE  ClientOK(c)' /\ (may'[c] = {} => Smooth(c)')
  <2>1. Untouched(c) /\ ClientOK(c) /\ (may[c] = {} => Smooth(c))
    BY <1>1 DEF IInv, SmoothInv
  <2> QED BY <2>1, UntouchedOK
<1> QED BY <1>1 DEF SmoothInv

\* Every step keeps the invariants, apart from the types.
LEMMA NextStep ==
    ASSUME IInv, SmoothInv, Next
    PROVE  /\ MainOK' /\ SmoothInv'
           /\ \A c \in Clients : ClientOK(c)'
<1>1. ASSUME NEW d \in Clients, NEW t \in {"conn", "pump", "main"},
             SendOrClose(d, t)
      PROVE  /\ MainOK' /\ SmoothInv'
             /\ \A c \in Clients : ClientOK(c)'
  <2>1. MainOK' /\ ClientOK(d)'
    BY <1>1, StepShared
  <2>2. may'[d] = {} => Smooth(d)'
    BY <1>1, SmoothShared DEF SmoothInv
  <2>3. \A c \in Clients : c # d => Untouched(c)
    BY <1>1, OthersShared DEF IInv
  <2> QED BY <2>1, <2>2, <2>3, OneClient
<1>2. ASSUME NEW d \in Clients,
             \/ Insert(d) \/ Handshake(d) \/ Open(d) \/ Refuse(d) \/ Subscribe(d)
             \/ Register(d) \/ EndOfRun(d) \/ PollSendRequest(d)
             \/ PollCloseRequest(d) \/ PollRead(d) \/ EndOfStream(d)
             \/ AbnormalClose(d) \/ CloseFrameReceived(d) \/ CloseFrameAnswered(d)
             \/ ClosingOver(d) \/ ResetCancellation(d)
      PROVE  /\ MainOK' /\ SmoothInv'
             /\ \A c \in Clients : ClientOK(c)'
  <2>1. MainOK' /\ ClientOK(d)'
    BY <1>2, StepConn
  <2>2. may'[d] = {} => Smooth(d)'
    BY <1>2, SmoothConn DEF SmoothInv
  <2>3. \A c \in Clients : c # d => Untouched(c)
    BY <1>2, OthersConn DEF IInv
  <2> QED BY <2>1, <2>2, <2>3, OneClient
<1>3. ASSUME NEW d \in Clients,
             \/ PumpNext(d) \/ PumpEnds(d) \/ PumpSend(d)
      PROVE  /\ MainOK' /\ SmoothInv'
             /\ \A c \in Clients : ClientOK(c)'
  <2>1. MainOK' /\ ClientOK(d)'
    BY <1>3, StepPump
  <2>2. may'[d] = {} => Smooth(d)'
    BY <1>3, SmoothPump DEF SmoothInv
  <2>3. \A c \in Clients : c # d => Untouched(c)
    BY <1>3, OthersPump DEF IInv
  <2> QED BY <2>1, <2>2, <2>3, OneClient
<1>4. ASSUME NEW d \in Clients,
             \/ Connect(d) \/ Leave(d) \/ Vanish(d) \/ Cancel(d)
      PROVE  /\ MainOK' /\ SmoothInv'
             /\ \A c \in Clients : ClientOK(c)'
  <2>1. MainOK' /\ ClientOK(d)'
    BY <1>4, StepClients
  <2>2. may'[d] = {} => Smooth(d)'
    BY <1>4, SmoothClients DEF SmoothInv
  <2>3. \A c \in Clients : c # d => Untouched(c)
    BY <1>4, OthersClients DEF IInv
  <2> QED BY <2>1, <2>2, <2>3, OneClient
<1>5. ASSUME NEW d \in Clients, target = d,
             \/ ReadState \/ NothingToClose \/ SetClosing \/ SendCloseFrame
             \/ WakeConnection
      PROVE  /\ MainOK' /\ SmoothInv'
             /\ \A c \in Clients : ClientOK(c)'
  <2>1. MainOK' /\ ClientOK(d)'
    BY <1>5, StepTarget
  <2>2. may'[d] = {} => Smooth(d)'
    BY <1>5, SmoothTarget DEF SmoothInv
  <2>3. \A c \in Clients : c # d => Untouched(c)
    BY <1>5, OthersTarget DEF IInv
  <2> QED BY <2>1, <2>2, <2>3, OneClient
<1>6. ASSUME AllClosed \/ JoinConnections \/ Sweep \/ Stop \/ Publish
      PROVE  /\ MainOK' /\ SmoothInv'
             /\ \A c \in Clients : ClientOK(c)'
  BY <1>6, StepRest, SmoothRest
<1>7. CASE ReadState \/ NothingToClose \/ SetClosing \/ SendCloseFrame \/ WakeConnection
  <2>1. target \in Clients
    BY <1>7 DEF IInv, MainOK, Closing, ReadState, NothingToClose, SetClosing,
               SendCloseFrame, WakeConnection
  <2> QED BY <1>5, <1>7, <2>1
<1>8. CASE MainStep
  BY <1>1, <1>4, <1>6, <1>7, <1>8 DEF MainStep
<1> QED BY <1>1, <1>2, <1>3, <1>4, <1>6, <1>8 DEF Next, ConnStep, PumpStep

\* Every step keeps the invariants.
LEMMA InvStep == IInv /\ SmoothInv /\ [Next]_vars => IInv' /\ SmoothInv'
<1> SUFFICES ASSUME IInv, SmoothInv, [Next]_vars
             PROVE  IInv' /\ SmoothInv'
  OBVIOUS
<1>1. TypeOK'
  BY TypeStep DEF IInv
<1>2. /\ MainOK' /\ SmoothInv'
      /\ \A c \in Clients : ClientOK(c)'
  <2>1. CASE Next
    BY <2>1, NextStep
  <2>2. CASE UNCHANGED vars
    <3>1. MainOK'
      BY <2>2 DEF IInv, MainOK, AllTerminated, vars, threads, stopping
    <3>2. \A c \in Clients : Untouched(c)
      BY <2>2 DEF Untouched, vars, threads, transport, mutexes, feed, stopping
    <3>3. ASSUME NEW c \in Clients
          PROVE  ClientOK(c)' /\ (may'[c] = {} => Smooth(c)')
      <4>1. Untouched(c) /\ ClientOK(c) /\ (may[c] = {} => Smooth(c))
        BY <3>2 DEF IInv, SmoothInv
      <4> QED BY <4>1, UntouchedOK
    <3> QED BY <3>1, <3>3 DEF SmoothInv
  <2> QED BY <2>1, <2>2
<1> QED BY <1>1, <1>2 DEF IInv

\* The invariants hold in every state there is.
LEMMA Invariance == SafeSpec => [](IInv /\ SmoothInv)
<1>1. Init => IInv /\ SmoothInv
  BY InvInit
<1>2. IInv /\ SmoothInv /\ [Next]_vars => (IInv /\ SmoothInv)'
  BY InvStep
<1> QED BY <1>1, <1>2, PTL DEF SafeSpec

\* The state of a connection, of its threads and of main() is always one of those
\* named, and no Subscription buffers more than MaxBacklog blocks.
THEOREM TypeCorrect == SafeSpec => []TypeOK
<1>1. IInv => TypeOK
  BY DEF IInv
<1> QED BY <1>1, Invariance, PTL

\* As long as a pump runs, its WebSocket exists and somebody is left who will close its
\* Subscription and join it, whoever finds out first that the client is gone (on_open,
\* on_close and close_all of ws.cpp).
THEOREM PumpsAreOwned == SafeSpec => []PumpIsOwned
<1>1. IInv => PumpIsOwned
  BY DEF IInv, ClientOK, Situation, Unsubscribed, Opening, Registered, ConnJoins,
         PumpJoins, Deregistered, Callback, Early, PumpIsOwned, Pumping
<1> QED BY <1>1, Invariance, PTL

\* A connection that has ended, and a server that has stopped, leave no entry in the
\* map, no open Subscription and no pump.
THEOREM NothingIsLeaked == SafeSpec => []NothingLeaks
<1>1. IInv => NothingLeaks
  BY DEF IInv, MainOK, AllTerminated, ClientOK, Situation, Unsubscribed, Opening,
         Registered, ConnJoins, PumpJoins, Deregistered, Callback, Early, NothingLeaks,
         Pumping
<1> QED BY <1>1, Invariance, PTL

\* Whatever the other clients do, the pump of a client that reads and stays never joins
\* itself: WsServer::stop cancels the flushing before it has a connection closed.
THEOREM StayingClientsAreSafe == SafeSpec => []ServerSurvivesStop
<1>1. SmoothInv => ServerSurvivesStop
  BY DEF SmoothInv, Smooth, Callback, ServerSurvivesStop
<1> QED BY <1>1, Invariance, PTL

\* Nor does it ever wait for anybody but its own queue and, for a step, a lock: it neither
\* polls in the flush loop nor sets the connection's state to CLOSED.
THEOREM StayingClientsAreNotStranded ==
    SafeSpec => [](\A c \in Clients : may[c] = {} => pump[c] # "poll" /\ ~Stranded(c))
<1>1. SmoothInv => \A c \in Clients : may[c] = {} => pump[c] # "poll" /\ ~Stranded(c)
  BY DEF SmoothInv, Smooth, Callback, Stranded
<1> QED BY <1>1, Invariance, PTL

\* What close_all of ws.cpp is there to sweep up, "anything that never delivered a Close",
\* does not exist: when the connections have been joined, the map is empty.
THEOREM SweepFindsNothing == SafeSpec => [](main = "sweep" => conns = {})
<1>1. IInv => (main = "sweep" => conns = {})
  BY DEF IInv, TypeOK, MainOK, AllTerminated, ClientOK, Situation, Unsubscribed, Opening,
         Registered, ConnJoins, PumpJoins, Deregistered, Early
<1> QED BY <1>1, Invariance, PTL
=============================================================================
