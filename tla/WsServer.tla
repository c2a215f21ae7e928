------------------------------ MODULE WsServer ------------------------------
(***************************************************************************)
(* The WebSocket feed's connections (src/storage-core/src/ws.cpp) and the  *)
(* parts of the vendored IXWebSocket they stand on.  Three kinds of thread *)
(* meet: each connection's own thread, which runs WebSocket::run() and     *)
(* notices that the client is gone; its pump, which takes blocks from the  *)
(* client's Subscription and sends them; and main(), which stops it all.   *)
(*                                                                         *)
(* All three send frames, all three may find the socket broken, and the    *)
(* Close callback runs on_close on whichever of them sets the ready state  *)
(* to CLOSED, with _setReadyStateMutex held; a thread whose send() failed  *)
(* holds _txbufMutex as well.                                              *)
(***************************************************************************)
EXTENDS Integers

CONSTANTS
    Clients,
    MaxBacklog,  \* of a Subscription, of which only the length matters here
    Behaviours,  \* the worlds there are: what each client may do, see BehaviourKinds
    None

BehaviourKinds == {"absent",  \* not be there at all
                   "refused", \* ask for another path than the feed's
                   "leave",   \* close the connection the way RFC 6455 has it
                   "vanish",  \* drop the connection without a CLOSE frame
                   "slow",    \* not read, so that the socket takes only part of a frame
                   "late"}    \* be connecting while the server stops

ASSUME WsServerAssumption ==
    /\ MaxBacklog \in Nat \ {0}
    /\ Behaviours \subseteq [Clients -> SUBSET BehaviourKinds]
    /\ None \notin Clients \cup {"conn", "pump", "main"}

VARIABLES
    may,           \* the world this is: what each client may do
    conn, pump,    \* where each client's two threads are
    back,          \* where the connection's thread goes on after sending or closing
    state,         \* WebSocketTransport::_readyState
    sock,          \* the socket: see Sock
    unsent,        \* _txbuf is not empty
    pipe,          \* the requests that wake whoever polls the socket, each once
    cancel,        \* _requestInitCancellation
    stateMutex,    \* the thread that holds _setReadyStateMutex across a step
    txbufMutex,    \* the thread that holds _txbufMutex across a step
    subscription,  \* none, open or closed
    backlog,       \* how many blocks it buffers
    conns,         \* WsServer's map: the connections with a pump
    main, todo, target  \* main(): where it is, whom it has yet to close, and whom it closes

threads == <<may, conn, pump, back>>
transport == <<state, sock, unsent, pipe, cancel>>
mutexes == <<stateMutex, txbufMutex>>
feed == <<subscription, backlog, conns>>
stopping == <<main, todo, target>>
vars == <<threads, transport, mutexes, feed, stopping>>

\* Labels all threads have: a frame being sent, the send buffer being flushed, and the
\* way to CLOSED.
Shared == {"sending",   \* in sendFragment, about to call send()
           "sent",      \* sendFragment has returned
           "flush",     \* about to test the flush loop's condition
           "poll",      \* inside the loop, waiting until it can write
           "sendfail",  \* sendFragment's send() failed: to set CLOSED, holding _txbufMutex
           "fail",      \* the same inside the flush loop
           "flushfail", \* the socket failed: to set CLOSED, holding nothing
           "on_close",  \* in the Close callback
           "join",      \* on_close took the connection out of the map, joins the pump
           "on_closed"} \* on_close has returned

Conn == Shared \cup
    {"none",
     "accepted",    \* thread started, not in _clients
     "handshake",   \* in _clients, handshaking
     "handshaken",  \* past the last test for cancellation
     "open",        \* OPEN, on_open to come
     "opening",     \* subscribed, not in conns
     "run",         \* in WebSocket::run(), polling
     "reading",     \* told that there is something to read, reads the end of stream
     "abnormal",    \* dispatch(), after a poll that failed
     "answered",    \* the client's CLOSE frame has been answered
     "switch",      \* closed the socket, to set CLOSED
     "reset",       \* the end of closeSocketAndSwitchToClosedState
     "terminated"}

Pump == Shared \cup
    {"none",
     "next",     \* in Subscription::next()
     "send",     \* to test whether the WebSocket is connected
     "done"}

Main == Shared \cup
    {"serving",
     "close",     \* in the loop over the clients
     "read",      \* in close(), to read the state
     "wait",      \* there was nothing to close, to wake the connection's thread
     "set",       \* to set CLOSING
     "frame",     \* to send the CLOSE frame
     "wake",      \* sent, to wake the connection's thread
     "join_all",  \* waits for the connections' threads
     "sweep",
     "stopped"}

Sock == {"up",
         "leaving",  \* the client has sent its CLOSE frame
         "gone",     \* reads end, sends may fail
         "closed"}   \* closed by this process

TypeOK ==
    /\ may \in Behaviours
    /\ conn \in [Clients -> Conn]
    /\ pump \in [Clients -> Pump]
    /\ back \in [Clients -> {"run", "abnormal", "answered", "reset"}]
    /\ state \in [Clients -> {"OPEN", "CLOSING", "CLOSED"}]
    /\ sock \in [Clients -> Sock]
    /\ unsent \in [Clients -> BOOLEAN]
    /\ pipe \in [Clients -> SUBSET {"send", "close"}]
    /\ cancel \in [Clients -> BOOLEAN]
    /\ stateMutex \in [Clients -> {"conn", "pump", "main", None}]
    /\ txbufMutex \in [Clients -> {"conn", "pump", "main", None}]
    /\ subscription \in [Clients -> {"none", "open", "closed"}]
    /\ backlog \in [Clients -> 0..MaxBacklog]
    /\ conns \subseteq Clients
    /\ main \in Main
    /\ todo \subseteq Clients
    /\ target \in Clients \cup {None}

Init ==
    /\ may \in Behaviours
    /\ conn = [c \in Clients |-> "none"]
    /\ pump = [c \in Clients |-> "none"]
    /\ back = [c \in Clients |-> "run"]
    /\ state = [c \in Clients |-> "CLOSED"]
    /\ sock = [c \in Clients |-> "up"]
    /\ unsent = [c \in Clients |-> FALSE]
    /\ pipe = [c \in Clients |-> {}]
    /\ cancel = [c \in Clients |-> FALSE]
    /\ stateMutex = [c \in Clients |-> None]
    /\ txbufMutex = [c \in Clients |-> None]
    /\ subscription = [c \in Clients |-> "none"]
    /\ backlog = [c \in Clients |-> 0]
    /\ conns = {}
    /\ main = "serving" /\ todo = {} /\ target = None

At(c, t, labels) ==
    \/ t = "conn" /\ conn[c] \in labels
    \/ t = "pump" /\ pump[c] \in labels
    \/ t = "main" /\ main \in labels /\ target = c

Go(c, t, label) ==
    /\ \/ t = "conn" /\ conn' = [conn EXCEPT ![c] = label] /\ UNCHANGED <<pump, main>>
       \/ t = "pump" /\ pump' = [pump EXCEPT ![c] = label] /\ UNCHANGED <<conn, main>>
       \/ t = "main" /\ main' = label /\ UNCHANGED <<conn, pump>>
    /\ UNCHANGED <<may, todo, target>>

CloseSocket(c) == sock' = [sock EXCEPT ![c] = "closed"]

\* WebSocketTransport::wakeUpFromPoll.  How often a request was made is left out.
WakeUp(c, request) == pipe' = [pipe EXCEPT ![c] = @ \cup {request}]

TakeRequest(c, request) ==
    /\ request \in pipe[c]
    /\ pipe' = [pipe EXCEPT ![c] = @ \ {request}]

-----------------------------------------------------------------------------
(* What clients and the writer do *)

Connecting == {"accepted", "handshake", "handshaken"}

Connect(c) ==
    /\ main = "serving"
    /\ conn[c] = "none" /\ "absent" \notin may[c]
    /\ Go(c, "conn", "accepted")
    /\ UNCHANGED <<back, transport, mutexes, feed>>

\* The client sends a CLOSE frame, and waits for the answer.
Leave(c) ==
    /\ "leave" \in may[c]
    /\ state[c] = "OPEN" /\ sock[c] = "up"
    /\ sock' = [sock EXCEPT ![c] = "leaving"]
    /\ UNCHANGED <<threads, state, unsent, pipe, cancel, mutexes, feed, stopping>>

Vanish(c) ==
    /\ "vanish" \in may[c]
    /\ state[c] # "CLOSED" /\ sock[c] \in {"up", "leaving"}
    /\ sock' = [sock EXCEPT ![c] = "gone"]
    /\ UNCHANGED <<threads, state, unsent, pipe, cancel, mutexes, feed, stopping>>

GrowsOffByOne(c) == subscription[c] = "open" /\ backlog[c] <= MaxBacklog  \* mutant

Grows(c) == subscription[c] = "open" /\ backlog[c] < MaxBacklog

\* Broadcaster::publish: open Subscriptions get the block, full ones lose another.
Publish ==
    /\ backlog' = [c \in Clients |-> IF Grows(c) THEN backlog[c] + 1 ELSE backlog[c]]
    /\ UNCHANGED <<threads, transport, mutexes, subscription, conns, stopping>>

-----------------------------------------------------------------------------
(* Sending a frame, on any of the threads *)

\* Where a thread goes on once sendData or flushSendBuffer has succeeded ...
Succeeded(c, t) ==
    CASE t = "pump" -> "next"
      [] t = "main" -> "wake"
      [] t = "conn" -> IF back[c] = "abnormal" THEN "run" ELSE back[c]

\* ... and where, once it has failed, or has set CLOSED.
Failed(c, t) == IF t = "conn" THEN back[c] ELSE Succeeded(c, t)

SendAll(c, t) ==
    /\ At(c, t, {"sending"})
    /\ txbufMutex[c] = None
    /\ sock[c] # "closed"
    /\ unsent' = [unsent EXCEPT ![c] = FALSE]
    /\ Go(c, t, "sent")
    /\ UNCHANGED <<back, state, sock, pipe, cancel, mutexes, feed>>

\* The socket takes only a part of what is to be sent.
SendPart(c, t) ==
    /\ At(c, t, {"sending"})
    /\ txbufMutex[c] = None
    /\ "slow" \in may[c]
    /\ sock[c] \in {"up", "leaving"}
    /\ unsent' = [unsent EXCEPT ![c] = TRUE]
    /\ Go(c, t, "sent")
    /\ UNCHANGED <<back, state, sock, pipe, cancel, mutexes, feed>>

ClosingElsewhere(c) == state[c] = "CLOSING"

\* sendOnSocket, called by sendFragment or in the flush loop: the frame stays in the
\* buffer, and CLOSING is left to the thread that set it.
SendFails(c, t) ==
    /\ At(c, t, {"sending"}) \/ (At(c, t, {"poll"}) /\ unsent[c])
    /\ txbufMutex[c] = None
    /\ sock[c] \in {"gone", "closed"}
    /\ CloseSocket(c)
    /\ unsent' = [unsent EXCEPT ![c] = TRUE]
    /\ IF ClosingElsewhere(c)
       THEN /\ Go(c, t, IF At(c, t, {"sending"}) THEN "sent" ELSE Failed(c, t))
            /\ UNCHANGED txbufMutex
       ELSE /\ Go(c, t, IF At(c, t, {"sending"}) THEN "sendfail" ELSE "fail")
            /\ txbufMutex' = [txbufMutex EXCEPT ![c] = t]
    /\ UNCHANGED <<back, state, pipe, cancel, stateMutex, feed>>

\* sendData flushes what sendFragment has left, even after a send that failed.
Sent(c, t) ==
    /\ At(c, t, {"sent"})
    /\ txbufMutex[c] = None
    /\ IF unsent[c] THEN WakeUp(c, "send") /\ Go(c, t, "flush")
                    ELSE UNCHANGED pipe /\ Go(c, t, Succeeded(c, t))
    /\ UNCHANGED <<back, state, sock, unsent, cancel, mutexes, feed>>

-----------------------------------------------------------------------------
(* flushSendBuffer, on any of the threads *)

CancelIgnored(c) == FALSE  \* mutant

Cancelled(c) == cancel[c]

\* isSendBufferEmpty locks the buffer for a moment.
FlushLoop(c, t) ==
    /\ At(c, t, {"flush"})
    /\ txbufMutex[c] = None
    /\ Go(c, t, IF unsent[c] /\ ~Cancelled(c) THEN "poll" ELSE Succeeded(c, t))
    /\ UNCHANGED <<back, transport, mutexes, feed>>

\* The rest is written, or nothing for another 10 ms.
FlushWrites(c, t) ==
    /\ At(c, t, {"poll"})
    /\ sock[c] \in {"up", "leaving"}
    /\ txbufMutex[c] = None
    /\ \E left \in BOOLEAN : unsent' = [unsent EXCEPT ![c] = @ /\ left]
    /\ Go(c, t, "flush")
    /\ UNCHANGED <<back, state, sock, pipe, cancel, mutexes, feed>>

\* isReadyToWrite polls the pipe too, and what it takes from there is lost.  A thread
\* that is polling already may be woken although another one has closed the socket.
FlushInterrupted(c, t) ==
    /\ At(c, t, {"poll"})
    /\ \E request \in pipe[c] : TakeRequest(c, request)
    /\ Go(c, t, "flush")
    /\ UNCHANGED <<back, state, sock, unsent, cancel, mutexes, feed>>

\* isReadyToWrite reports an error, for a broken or a closed socket.
FlushError(c, t) ==
    /\ At(c, t, {"poll"})
    /\ sock[c] \in {"gone", "closed"}
    /\ CloseSocket(c)
    /\ Go(c, t, "flushfail")
    /\ UNCHANGED <<back, state, unsent, pipe, cancel, mutexes, feed>>

-----------------------------------------------------------------------------
(* setReadyState(CLOSED) and the Close callback, on any of the threads *)

Release(c, t) == txbufMutex' = [txbufMutex EXCEPT ![c] = IF @ = t THEN None ELSE @]

\* A thread that finds it CLOSED goes on: sendData, whose send failed, to flush.
SetClosed(c, t) ==
    /\ At(c, t, {"sendfail", "fail", "flushfail", "switch"})
    /\ stateMutex[c] = None
    /\ IF state[c] = "CLOSED"
       THEN /\ Go(c, t, IF At(c, t, {"sendfail"}) THEN "sent" ELSE Failed(c, t))
            /\ Release(c, t)
            /\ UNCHANGED stateMutex
       ELSE /\ Go(c, t, "on_close")
            /\ stateMutex' = [stateMutex EXCEPT ![c] = t]
            /\ UNCHANGED txbufMutex
    /\ UNCHANGED <<back, transport, feed>>

DeregisterOnly(c) ==  \* mutant
    /\ conns' = conns \ {c}
    /\ UNCHANGED subscription

CloseOnly(c) ==  \* mutant
    /\ subscription' = [subscription EXCEPT ![c] = "closed"]
    /\ UNCHANGED conns

Deregister(c) ==
    /\ conns' = conns \ {c}
    /\ subscription' = [subscription EXCEPT ![c] = "closed"]

\* on_close: a connection that is not in the map is left alone.
OnClose(c, t) ==
    /\ At(c, t, {"on_close"})
    /\ IF c \in conns
       THEN Deregister(c) /\ Go(c, t, "join")
       ELSE Go(c, t, "on_closed") /\ UNCHANGED <<conns, subscription>>
    /\ UNCHANGED <<back, transport, mutexes, backlog>>

Detached(c) == TRUE  \* mutant

PumpDone(c) == pump[c] = "done"

\* A pump takes no such step: a thread that joins itself gets std::system_error, its
\* std::thread, still joinable, is destroyed on the way out, and that is std::terminate.
\* What the other threads do before the process is gone is of no interest.
Join(c, t) ==
    /\ t # "pump"
    /\ At(c, t, {"join"})
    /\ PumpDone(c)
    /\ Go(c, t, "on_closed")
    /\ UNCHANGED <<back, transport, mutexes, feed>>

\* (The only thread here after a sendFragment that failed would be a pump whose
\* connection is not in the map, and there is none.)
OnClosed(c, t) ==
    /\ At(c, t, {"on_closed"})
    /\ state' = [state EXCEPT ![c] = "CLOSED"]
    /\ stateMutex' = [stateMutex EXCEPT ![c] = None]
    /\ Release(c, t)
    /\ Go(c, t, Failed(c, t))
    /\ UNCHANGED <<back, sock, unsent, pipe, cancel, feed>>

-----------------------------------------------------------------------------
(* The pump *)

\* The weak pointer is good as long as the connection's thread is.
PumpNext(c) ==
    /\ pump[c] = "next"
    /\ backlog[c] > 0
    /\ backlog' = [backlog EXCEPT ![c] = @ - 1]
    /\ Go(c, "pump", IF conn[c] = "terminated" THEN "done" ELSE "send")
    /\ UNCHANGED <<back, transport, mutexes, subscription, conns>>

PumpEnds(c) ==
    /\ pump[c] = "next"
    /\ backlog[c] = 0 /\ subscription[c] = "closed"
    /\ Go(c, "pump", "done")
    /\ UNCHANGED <<back, transport, mutexes, feed>>

\* A frame for a WebSocket that is not connected is dropped, and the pump goes on.
PumpSend(c) ==
    /\ pump[c] = "send"
    /\ Go(c, "pump", IF state[c] = "OPEN" THEN "sending" ELSE "next")
    /\ UNCHANGED <<back, transport, mutexes, feed>>

-----------------------------------------------------------------------------
(* The connection's thread *)

\* It calls something that sends or closes, and will go on at the label then.
Call(c, label, then) ==
    /\ Go(c, "conn", label)
    /\ back' = [back EXCEPT ![c] = then]

Insert(c) ==
    /\ conn[c] = "accepted"
    /\ Go(c, "conn", "handshake")
    /\ UNCHANGED <<back, transport, mutexes, feed>>

\* The handshake fails when it is cancelled, and may fail anyway.
Handshake(c) ==
    /\ conn[c] = "handshake"
    /\ \E next \in {"handshaken", "terminated"} :
          /\ cancel[c] => next = "terminated"
          /\ Go(c, "conn", next)
    /\ UNCHANGED <<back, transport, mutexes, feed>>

Open(c) ==
    /\ conn[c] = "handshaken"
    /\ state' = [state EXCEPT ![c] = "OPEN"]
    /\ Go(c, "conn", "open")
    /\ UNCHANGED <<back, sock, unsent, pipe, cancel, mutexes, feed>>

\* on_open for a path other than /blocks: close(), which only wakes if main() is closing.
Refuse(c) ==
    /\ "refused" \in may[c]
    /\ conn[c] = "open"
    /\ stateMutex[c] = None
    /\ cancel' = [cancel EXCEPT ![c] = TRUE]
    /\ IF state[c] = "OPEN"
       THEN /\ state' = [state EXCEPT ![c] = "CLOSING"]
            /\ WakeUp(c, "send")
            /\ Call(c, "sending", "run")
       ELSE /\ WakeUp(c, "close")
            /\ Go(c, "conn", "run")
            /\ UNCHANGED <<back, state>>
    /\ UNCHANGED <<sock, unsent, mutexes, feed>>

Subscribe(c) ==
    /\ "refused" \notin may[c]
    /\ conn[c] = "open"
    /\ subscription' = [subscription EXCEPT ![c] = "open"]
    /\ Go(c, "conn", "opening")
    /\ UNCHANGED <<back, transport, mutexes, backlog, conns>>

Register(c) ==
    /\ conn[c] = "opening"
    /\ conns' = conns \cup {c}
    /\ pump' = [pump EXCEPT ![c] = "next"]
    /\ conn' = [conn EXCEPT ![c] = "run"]
    /\ UNCHANGED <<may, back, transport, mutexes, subscription, backlog, stopping>>

EndOfRun(c) ==
    /\ conn[c] = "run"
    /\ state[c] = "CLOSED"
    /\ Go(c, "conn", "terminated")
    /\ UNCHANGED <<back, transport, mutexes, feed>>

\* As in the flush loop, the poll may have begun before the socket was closed.
PollSendRequest(c) ==
    /\ conn[c] = "run"
    /\ state[c] # "CLOSED"
    /\ TakeRequest(c, "send")
    /\ Call(c, "flush", "abnormal")
    /\ UNCHANGED <<state, sock, unsent, cancel, mutexes, feed>>

\* The socket is closed, the state stays as it is.
PollCloseRequest(c) ==
    /\ conn[c] = "run"
    /\ state[c] # "CLOSED"
    /\ TakeRequest(c, "close")
    /\ CloseSocket(c)
    /\ UNCHANGED <<threads, state, unsent, cancel, mutexes, feed, stopping>>

PollRead(c) ==
    /\ conn[c] = "run"
    /\ state[c] # "CLOSED"
    /\ sock[c] = "gone"
    /\ Go(c, "conn", "reading")
    /\ UNCHANGED <<back, transport, mutexes, feed>>

EndOfStream(c) ==
    /\ conn[c] = "reading"
    /\ CloseSocket(c)
    /\ Go(c, "conn", "abnormal")
    /\ UNCHANGED <<back, state, unsent, pipe, cancel, mutexes, feed>>

\* The end of dispatch(): closeSocketAndSwitchToClosedState, unless it is CLOSING.
AbnormalClose(c) ==
    /\ conn[c] = "abnormal"
    /\ IF state[c] = "CLOSED"
       THEN Call(c, "run", "run") /\ UNCHANGED sock
       ELSE /\ CloseSocket(c)
            /\ Call(c, "switch", IF state[c] = "CLOSING" THEN "run" ELSE "reset")
    /\ UNCHANGED <<state, unsent, pipe, cancel, mutexes, feed>>

\* A CLOSE frame goes back.
CloseFrameReceived(c) ==
    /\ conn[c] = "run"
    /\ state[c] = "OPEN" /\ sock[c] = "leaving"
    /\ stateMutex[c] = None
    /\ state' = [state EXCEPT ![c] = "CLOSING"]
    /\ Call(c, "sending", "answered")
    /\ UNCHANGED <<sock, unsent, pipe, cancel, mutexes, feed>>

CloseFrameAnswered(c) ==
    /\ conn[c] = "answered"
    /\ WakeUp(c, "close")
    /\ CloseSocket(c)
    /\ Call(c, "switch", "reset")
    /\ UNCHANGED <<state, unsent, cancel, mutexes, feed>>

\* The client answered this side's CLOSE frame, or did not within 300 ms.
ClosingOver(c) ==
    /\ conn[c] = "run"
    /\ state[c] = "CLOSING"
    /\ CloseSocket(c)
    /\ \/ sock[c] \in {"up", "leaving"} /\ Call(c, "switch", "reset")
       \/ Call(c, "switch", "run")
    /\ UNCHANGED <<state, unsent, pipe, cancel, mutexes, feed>>

ResetCancellation(c) ==
    /\ conn[c] = "reset"
    /\ cancel' = [cancel EXCEPT ![c] = FALSE]
    /\ Call(c, "run", "run")
    /\ UNCHANGED <<state, sock, unsent, pipe, mutexes, feed>>

-----------------------------------------------------------------------------
(* WsServer::stop on main(): close() for each client there is, then a join *)

EstablishedOnly == {c \in Clients : conn[c] = "run"}  \* mutant

Members == {c \in Clients : conn[c] \notin {"none", "accepted", "terminated"}}

Stop ==
    /\ main = "serving"
    /\ \A c \in Clients : conn[c] \in Connecting => "late" \in may[c]
    /\ main' = "close"
    /\ todo' = Members
    /\ UNCHANGED <<threads, transport, mutexes, feed, target>>

Cancel(c) ==
    /\ main = "close"
    /\ c \in todo
    /\ cancel' = [cancel EXCEPT ![c] = TRUE]
    /\ main' = "read" /\ target' = c /\ todo' = todo \ {c}
    /\ UNCHANGED <<threads, state, sock, unsent, pipe, mutexes, feed>>

ReadState ==
    /\ main = "read"
    /\ main' = IF state[target] = "OPEN" THEN "set" ELSE "wait"
    /\ UNCHANGED <<threads, transport, mutexes, feed, todo, target>>

\* close() takes _socketMutex, which a handshake holds, to wake the thread.
NothingToClose ==
    /\ main = "wait"
    /\ conn[target] \notin {"handshake", "handshaken"}
    /\ WakeUp(target, "close")
    /\ main' = "close" /\ target' = None
    /\ UNCHANGED <<threads, state, sock, unsent, cancel, mutexes, feed, todo>>

SetClosing ==
    /\ main = "set"
    /\ stateMutex[target] = None
    /\ state' = [state EXCEPT ![target] = "CLOSING"]
    /\ main' = "frame"
    /\ UNCHANGED <<threads, sock, unsent, pipe, cancel, mutexes, feed, todo, target>>

SendCloseFrame ==
    /\ main = "frame"
    /\ main' = IF state[target] = "CLOSED" THEN "wake" ELSE "sending"
    /\ UNCHANGED <<threads, transport, mutexes, feed, todo, target>>

WakeConnection ==
    /\ main = "wake"
    /\ WakeUp(target, "send")
    /\ main' = "close" /\ target' = None
    /\ UNCHANGED <<threads, state, sock, unsent, cancel, mutexes, feed, todo>>

AllClosed ==
    /\ main = "close" /\ todo = {}
    /\ main' = "join_all"
    /\ UNCHANGED <<threads, transport, mutexes, feed, todo, target>>

AllTerminated == \A c \in Clients : conn[c] \in {"none", "terminated"}

JoinConnections ==
    /\ main = "join_all"
    /\ AllTerminated
    /\ main' = "sweep"
    /\ UNCHANGED <<threads, transport, mutexes, feed, todo, target>>

\* close_all: what never delivered a Close.
Sweep ==
    /\ main = "sweep"
    /\ subscription' = [c \in Clients |-> IF c \in conns THEN "closed" ELSE subscription[c]]
    /\ \A c \in conns : PumpDone(c)
    /\ conns' = {}
    /\ main' = "stopped"
    /\ UNCHANGED <<threads, transport, mutexes, backlog, todo, target>>

-----------------------------------------------------------------------------
SendOrClose(c, t) ==
    \/ SendAll(c, t) \/ SendPart(c, t) \/ SendFails(c, t) \/ Sent(c, t)
    \/ FlushLoop(c, t) \/ FlushWrites(c, t) \/ FlushInterrupted(c, t) \/ FlushError(c, t)
    \/ SetClosed(c, t) \/ OnClose(c, t) \/ Join(c, t) \/ OnClosed(c, t)

ConnStep(c) ==
    \/ Insert(c) \/ Handshake(c) \/ Open(c) \/ Refuse(c) \/ Subscribe(c) \/ Register(c)
    \/ EndOfRun(c) \/ PollSendRequest(c) \/ PollCloseRequest(c) \/ PollRead(c)
    \/ EndOfStream(c) \/ AbnormalClose(c) \/ CloseFrameReceived(c)
    \/ CloseFrameAnswered(c) \/ ClosingOver(c) \/ ResetCancellation(c)
    \/ SendOrClose(c, "conn")

PumpStep(c) ==
    \/ PumpNext(c) \/ PumpEnds(c) \/ PumpSend(c)
    \/ SendOrClose(c, "pump")

MainStep ==
    \/ \E c \in Clients : Cancel(c) \/ SendOrClose(c, "main")
    \/ ReadState \/ NothingToClose \/ SetClosing \/ SendCloseFrame \/ WakeConnection
    \/ AllClosed \/ JoinConnections \/ Sweep

Next ==
    \/ \E c \in Clients : Connect(c) \/ Leave(c) \/ Vanish(c)
    \/ Publish
    \/ Stop
    \/ \E c \in Clients : ConnStep(c) \/ PumpStep(c)
    \/ MainStep

SafeSpec == Init /\ [][Next]_vars

\* The process's own threads run.  Clients promise nothing, and a socket that takes
\* no more bytes is polled for ever.
Fairness ==
    /\ WF_vars(MainStep)
    /\ \A c \in Clients : WF_vars(ConnStep(c)) /\ WF_vars(PumpStep(c))

Spec == SafeSpec /\ Fairness

-----------------------------------------------------------------------------
(* Properties *)

Pumping(c) == pump[c] \notin {"none", "done"}

\* No write to a dead socket object, and no pump without its connection: as long as a
\* pump runs, its WebSocket exists and somebody is left who will close its
\* Subscription and join it.
PumpIsOwned ==
    \A c \in Clients : Pumping(c) =>
        /\ conn[c] # "terminated"
        /\ subscription[c] # "none"
        /\ c \in conns \/ subscription[c] = "closed"

\* A connection that is over leaves nothing behind, and neither does a server that was
\* stopped: no entry in the map, no open Subscription that publish() would go on to fill,
\* no pump.
NothingLeaks ==
    \A c \in Clients : conn[c] = "terminated" \/ main = "stopped" =>
        /\ c \notin conns
        /\ subscription[c] # "open"
        /\ ~Pumping(c)

\* IOT-28: "the server survives a client that connects and immediately disconnects";
\* ws.cpp has it that "a client that vanishes mid-stream ends the loop".
ServerSurvivesClients == \A c \in Clients : pump[c] # "join"

\* The server's own stop ends no process: the pump of a client that reads and stays does
\* not join itself, however the closing of its connection, by main() and by the
\* connection's thread, falls into the sending of its blocks.
ServerSurvivesStop ==
    \A c \in Clients : may[c] = {} => pump[c] # "join"

\* A pump whose block met the socket its connection's thread had closed already: it sets
\* CLOSED itself, and joins itself, or waits for the thread that waits for it.
Stranded(c) == pump[c] \in {"flushfail", "on_close", "join"}

\* A client that reads and closes its connection is deregistered and its pump ends,
\* unless a block on its way strands the pump.
DisconnectDeregisters ==
    \A c \in Clients :
        (c \in conns /\ sock[c] = "leaving" /\ may[c] = {"leave"})
            ~> (~Pumping(c) \/ Stranded(c))

\* stop() returns with every connection's threads ended if the clients read and none is
\* in its handshake, unless one closes its connection at that and strands its pump.
StopReturns ==
    (main = "close" /\ \A c \in Clients : may[c] \subseteq {"absent", "refused", "leave"})
        ~> (main = "stopped" \/ \E c \in Clients : "leave" \in may[c] /\ Stranded(c))
=============================================================================
