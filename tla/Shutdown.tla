------------------------------ MODULE Shutdown ------------------------------
(***************************************************************************)
(* How storage-core comes down: main() (run() in src/main.cpp), the        *)
(* SignalWaiter thread (src/signals.cpp), the ServerHandle between them    *)
(* (src/server.cpp) and the part of httplib::Server that a stop depends    *)
(* on.  What the listeners and the writer do meanwhile is left to Ledger   *)
(* and Broadcast: here the writer is only a thread that has to be joined.  *)
(***************************************************************************)
EXTENDS Naturals

VARIABLES
    main,          \* where main() is
    waiter,        \* where the signal thread is
    writer,        \* the writer thread: not started, running or ended
    pending,       \* the signals the kernel holds for the process
    directed,      \* the SIGTERM the destructor sends to the signal thread
    winding_down_, \* SignalWaiter: the destructor is waking the thread
    srv_,          \* ServerHandle: it points to a Server
    stopped_,      \* ServerHandle: stop() has been called
    mtx_,          \* ServerHandle: the mutex is held (across a step)
    svr_sock_,     \* httplib::Server: "none", "open" or "closed" by stop()
    is_running_,   \* httplib::Server: listen_internal() is in its loop
    ws_running,    \* WsServer: it is listening
    queue_closed   \* the write queue has been closed

vars == <<main, waiter, writer, pending, directed, winding_down_, srv_, stopped_,
          mtx_, svr_sock_, is_running_, ws_running, queue_closed>>

Signals == {"SIGTERM", "SIGINT"}

Main == {"boot", "ws_start", "attach", "bind", "listen", "accept", "drain", "detach",
         "ws_stop", "close_queue", "join_writer", "close_all",
         "abandon", "abandon_join", "unwind", "join_waiter", "exited"}

TypeOK ==
    /\ main \in Main
    /\ waiter \in {"sigwait", "woken", "stop", "returned"}
    /\ writer \in {"none", "running", "ended"}
    /\ pending \subseteq Signals
    /\ directed \in BOOLEAN
    /\ winding_down_ \in BOOLEAN
    /\ srv_ \in BOOLEAN /\ stopped_ \in BOOLEAN /\ mtx_ \in BOOLEAN
    /\ svr_sock_ \in {"none", "open", "closed"}
    /\ is_running_ \in BOOLEAN
    /\ ws_running \in BOOLEAN
    /\ queue_closed \in BOOLEAN
    /\ mtx_ <=> waiter = "stop"

\* The SignalWaiter is constructed before anything that can fail.
Init ==
    /\ main = "boot" /\ waiter = "sigwait" /\ writer = "none"
    /\ pending = {} /\ directed = FALSE /\ winding_down_ = FALSE
    /\ srv_ = FALSE /\ stopped_ = FALSE /\ mtx_ = FALSE
    /\ svr_sock_ = "none" /\ is_running_ = FALSE
    /\ ws_running = FALSE /\ queue_closed = FALSE

signalState == <<waiter, pending, directed, winding_down_>>
handle == <<srv_, stopped_, mtx_>>
httplib == <<svr_sock_, is_running_>>
threads == <<writer, ws_running, queue_closed>>

-----------------------------------------------------------------------------
(* main() up to serve() *)

\* Config and ledger are loaded, or one of them throws and main() unwinds.
Boot ==
    /\ main = "boot"
    /\ \/ main' = "ws_start" /\ writer' = "running"
       \/ main' = "unwind" /\ UNCHANGED writer
    /\ UNCHANGED <<signalState, handle, httplib, ws_running, queue_closed>>

WsStart ==
    /\ main = "ws_start"
    /\ \/ main' = "attach" /\ ws_running' = TRUE
       \/ main' = "abandon" /\ UNCHANGED ws_running
    /\ UNCHANGED <<signalState, handle, httplib, writer, queue_closed>>

\* The WebSocket listener cannot bind: main() ends without having served.
Abandon ==
    /\ main = "abandon"
    /\ queue_closed' = TRUE
    /\ main' = "abandon_join"
    /\ UNCHANGED <<signalState, handle, httplib, writer, ws_running>>

NotJoined == TRUE  \* mutant

Joined == writer = "ended"

AbandonJoin ==
    /\ main = "abandon_join"
    /\ Joined
    /\ main' = "unwind"
    /\ UNCHANGED <<signalState, handle, httplib, threads>>

-----------------------------------------------------------------------------
(* serve() and httplib's listen() *)

StopForgotten == FALSE  \* mutant

StopRequested == stopped_

\* A stop that came first is found here, and serve() returns at once.
Attach ==
    /\ main = "attach"
    /\ ~mtx_
    /\ IF StopRequested
       THEN main' = "ws_stop" /\ UNCHANGED srv_
       ELSE main' = "bind" /\ srv_' = TRUE
    /\ UNCHANGED <<signalState, stopped_, mtx_, httplib, threads>>

Bind ==
    /\ main = "bind"
    /\ \/ main' = "listen" /\ svr_sock_' = "open"
       \/ main' = "detach" /\ UNCHANGED svr_sock_
    /\ UNCHANGED <<signalState, handle, is_running_, threads>>

Listen ==
    /\ main = "listen"
    /\ is_running_' = TRUE
    /\ main' = "accept"
    /\ UNCHANGED <<signalState, handle, svr_sock_, threads>>

\* The loop goes on until the socket is closed under it or accept() fails.
AcceptEnds ==
    /\ main = "accept"
    /\ svr_sock_ = "closed"
    /\ main' = "drain"
    /\ UNCHANGED <<signalState, handle, httplib, threads>>

AcceptFails ==
    /\ main = "accept"
    /\ svr_sock_ = "open"
    /\ main' = "drain"
    /\ UNCHANGED <<signalState, handle, httplib, threads>>

\* The workers are joined, then the scope guard clears is_running_.
Drain ==
    /\ main = "drain"
    /\ is_running_' = FALSE
    /\ main' = "detach"
    /\ UNCHANGED <<signalState, handle, svr_sock_, threads>>

DetachUnlocked == TRUE  \* mutant

HandleFree == ~mtx_

\* The Server is destroyed right after: detach() waits for a stop() under way.
Detach ==
    /\ main = "detach"
    /\ HandleFree
    /\ srv_' = FALSE
    /\ main' = "ws_stop"
    /\ UNCHANGED <<signalState, stopped_, mtx_, httplib, threads>>

-----------------------------------------------------------------------------
(* main() after serve() *)

\* ws.stop() has returned, if it does (see WsServer).
WsStop ==
    /\ main = "ws_stop"
    /\ ws_running' = FALSE
    /\ main' = "close_queue"
    /\ UNCHANGED <<signalState, handle, httplib, writer, queue_closed>>

CloseQueue ==
    /\ main = "close_queue"
    /\ queue_closed' = TRUE
    /\ main' = "join_writer"
    /\ UNCHANGED <<signalState, handle, httplib, writer, ws_running>>

JoinWriter ==
    /\ main = "join_writer"
    /\ Joined
    /\ main' = "close_all"
    /\ UNCHANGED <<signalState, handle, httplib, threads>>

CloseAll ==
    /\ main = "close_all"
    /\ main' = "unwind"
    /\ UNCHANGED <<signalState, handle, httplib, threads>>

\* ~SignalWaiter: wake the signal thread if no signal ever did, then join it.
Unwind ==
    /\ main = "unwind"
    /\ winding_down_' = TRUE
    /\ directed' = (waiter # "returned")
    /\ main' = "join_waiter"
    /\ UNCHANGED <<waiter, pending, handle, httplib, threads>>

JoinWaiter ==
    /\ main = "join_waiter"
    /\ waiter = "returned"
    /\ main' = "exited"
    /\ UNCHANGED <<signalState, handle, httplib, threads>>

-----------------------------------------------------------------------------
(* The writer and the signal thread *)

WriterEnds ==
    /\ writer = "running"
    /\ queue_closed
    /\ writer' = "ended"
    /\ UNCHANGED <<main, signalState, handle, httplib, ws_running, queue_closed>>

\* docker stop, Ctrl-C.  A signal that is pending already is not queued twice.
Signal(s) ==
    /\ main # "exited"
    /\ pending' = pending \cup {s}
    /\ UNCHANGED <<main, waiter, directed, winding_down_, handle, httplib, threads>>

SigWait ==
    /\ waiter = "sigwait"
    /\ \/ directed /\ directed' = FALSE /\ UNCHANGED pending
       \/ \E s \in pending : pending' = pending \ {s} /\ UNCHANGED directed
    /\ waiter' = "woken"
    /\ UNCHANGED <<main, winding_down_, handle, httplib, threads>>

\* Woken by the destructor: no callback.
WokenToReturn ==
    /\ waiter = "woken"
    /\ winding_down_
    /\ waiter' = "returned"
    /\ UNCHANGED <<main, pending, directed, winding_down_, handle, httplib, threads>>

\* ServerHandle::stop, which runs on the signal thread and ends it.  It holds the handle's
\* mutex while the Server is stopped.
Stop ==
    /\ waiter = "woken"
    /\ ~winding_down_
    /\ ~mtx_
    /\ stopped_' = TRUE
    /\ IF srv_
       THEN waiter' = "stop" /\ mtx_' = TRUE
       ELSE waiter' = "returned" /\ UNCHANGED mtx_
    /\ UNCHANGED <<main, pending, directed, winding_down_, srv_, httplib, threads>>

\* httplib::Server::stop, under the handle's mutex: nothing unless it is running.
ServerStop ==
    /\ waiter = "stop"
    /\ svr_sock_' = IF is_running_ THEN "closed" ELSE svr_sock_
    /\ mtx_' = FALSE
    /\ waiter' = "returned"
    /\ UNCHANGED <<main, pending, directed, winding_down_, srv_, stopped_,
                   is_running_, threads>>

-----------------------------------------------------------------------------
MainRuns ==
    \/ Boot \/ WsStart \/ Abandon \/ AbandonJoin
    \/ Attach \/ Bind \/ Listen \/ AcceptEnds \/ Drain \/ Detach
    \/ WsStop \/ CloseQueue \/ JoinWriter \/ CloseAll \/ Unwind \/ JoinWaiter

WaiterRuns == SigWait \/ WokenToReturn \/ Stop \/ ServerStop

\* Once the process has exited nothing happens any more.
Exited == main = "exited" /\ UNCHANGED vars

Next ==
    \/ MainRuns
    \/ AcceptFails
    \/ WriterEnds
    \/ WaiterRuns
    \/ \E s \in Signals : Signal(s)
    \/ Exited

\* Every thread that can run does; no signal, no failing accept() and no return from
\* ws.stop() is promised.
Fairness ==
    /\ WF_vars(main # "ws_stop" /\ MainRuns)
    /\ WF_vars(WriterEnds)
    /\ WF_vars(WaiterRuns)

Spec == Init /\ [][Next]_vars /\ Fairness

-----------------------------------------------------------------------------
(* Properties *)

\* A stop never touches a Server that serve() has destroyed.
NoDanglingServer ==
    srv_ \/ waiter = "stop" => main \in {"bind", "listen", "accept", "drain", "detach"}

\* Whatever way main() returns, the writer and the signal thread have been joined by then,
\* so that neither std::thread is destroyed joinable, which would be std::terminate.  (An
\* exception between main.cpp:74 and 108 would do that; it is left out.)
NothingLeftBehind ==
    /\ main \in {"unwind", "join_waiter", "exited"} => writer # "running"
    /\ main = "exited" => waiter = "returned" /\ ~ws_running

\* A stop works when the server is up, and when it has not attached yet: then it is
\* remembered and serve() never listens.  Either way main() gets as far as ws.stop(), or
\* ends without it; and once ws.stop() has returned, or for an exit of another reason,
\* nothing keeps the process, the signal thread included.
StopTakesEffect ==
    /\ (waiter = "stop" /\ is_running_) ~> main \in {"ws_stop", "exited"}
    /\ (stopped_ /\ main \in {"boot", "ws_start", "attach"}) ~> main \in {"ws_stop", "exited"}
    /\ main \in {"close_queue", "abandon", "unwind"} ~> main = "exited"

\* server.hpp: "Safe to call stop() at any point in the server's life", no stop is
\* "dropped" so that "the process would run on forever".  All that is asked here is that
\* main() comes as far as ws.stop().
SignalEndsProcess == \A s \in Signals : s \in pending ~> main \in {"ws_stop", "exited"}
=============================================================================
