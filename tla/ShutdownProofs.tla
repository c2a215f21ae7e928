--------------------------- MODULE ShutdownProofs ---------------------------
(***************************************************************************)
(* Theorems about Shutdown.  It has no constants, so that its run covers   *)
(* all its states; the proofs say why the properties hold of them.  main() *)
(* is one thread, so what may be true beside it depends on how far it is:  *)
(* the invariant gives every piece of state the stretch of main() in which *)
(* it is held, and only then asks what the signal thread may do meanwhile. *)
(***************************************************************************)
EXTENDS Shutdown, TLAPS

\* main() is inside serve(), with a Server that the handle points to.
Serving == {"bind", "listen", "accept", "drain", "detach"}

\* main() has nothing left but the destructor of the SignalWaiter.
Ending == {"unwind", "join_waiter", "exited"}

\* The handle points to a Server while there is one, and a stop() that has found it
\* there keeps the mutex until it is done with it.
HandleOK ==
    /\ srv_ <=> main \in Serving
    /\ waiter = "stop" => srv_

\* The writer is started once, after everything that can throw before it, and has
\* ended before main() lets go of what it works with.
WriterOK ==
    /\ main = "boot" => writer = "none"
    /\ main = "close_all" => writer = "ended"
    /\ main \in Ending => writer # "running"

\* The WebSocket listener runs from its start to its stop and at no other time.
ListenerOK == ws_running => main \in Serving \cup {"attach", "ws_stop"}

\* The signal thread is joined last.
WaiterOK == main = "exited" => waiter = "returned"

IInv == TypeOK /\ HandleOK /\ WriterOK /\ ListenerOK /\ WaiterOK

\* At the start main() is in boot, with the signal thread waiting and nothing else there.
LEMMA InitInv == Init => IInv
BY DEF Init, IInv, TypeOK, Main, Signals, HandleOK, Serving, WriterOK, Ending,
       ListenerOK, WaiterOK

\* The groups of variables that the actions leave alone.
LEMMA Groups ==
    /\ UNCHANGED signalState => UNCHANGED waiter /\ UNCHANGED pending
                               /\ UNCHANGED directed /\ UNCHANGED winding_down_
    /\ UNCHANGED handle => UNCHANGED srv_ /\ UNCHANGED stopped_ /\ UNCHANGED mtx_
    /\ UNCHANGED httplib => UNCHANGED svr_sock_ /\ UNCHANGED is_running_
    /\ UNCHANGED threads => UNCHANGED writer /\ UNCHANGED ws_running
                           /\ UNCHANGED queue_closed
BY DEF signalState, handle, httplib, threads

\* Every step keeps the types, and no thread but the signal thread holds the mutex.
LEMMA TypeStep ==
    ASSUME TypeOK, [Next]_vars
    PROVE  TypeOK'
<1>a. MainRuns \/ AcceptFails => main' \in Main
  BY DEF Main, MainRuns, AcceptFails, Boot, WsStart, Abandon, AbandonJoin, Attach, Bind,
         Listen, AcceptEnds, Drain, Detach, WsStop, CloseQueue, JoinWriter, CloseAll,
         Unwind, JoinWaiter
<1> USE Groups DEF TypeOK
<1>1. CASE Boot BY <1>a, <1>1 DEF Boot, MainRuns
<1>2. CASE WsStart
  <2>1. CASE main' = "attach" BY <1>a, <1>2, <2>1 DEF WsStart, MainRuns
  <2>2. CASE main' = "abandon" BY <1>a, <1>2, <2>2 DEF WsStart, MainRuns
  <2> QED BY <1>2, <2>1, <2>2 DEF WsStart, MainRuns
<1>3. CASE Abandon BY <1>a, <1>3 DEF Abandon, MainRuns
<1>4. CASE AbandonJoin BY <1>a, <1>4 DEF AbandonJoin, MainRuns
<1>5. CASE Attach
  <2>1. CASE StopRequested BY <1>a, <1>5, <2>1 DEF Attach, MainRuns
  <2>2. CASE ~ StopRequested BY <1>a, <1>5, <2>2 DEF Attach, MainRuns
  <2> QED BY <2>1, <2>2
<1>6. CASE Bind BY <1>a, <1>6 DEF Bind, MainRuns
<1>7. CASE Listen BY <1>a, <1>7 DEF Listen, MainRuns
<1>8. CASE AcceptEnds \/ AcceptFails BY <1>a, <1>8 DEF AcceptEnds, AcceptFails, MainRuns
<1>9. CASE Drain
  <2>1. main' \in Main /\ is_running_' \in BOOLEAN
    BY <1>a, <1>9 DEF Drain, MainRuns
  <2> QED BY <1>9, <2>1 DEF Drain
<1>10. CASE Detach BY <1>a, <1>10 DEF Detach, MainRuns
<1>11. CASE WsStop
  <2>1. main' \in Main /\ ws_running' \in BOOLEAN
    BY <1>a, <1>11 DEF WsStop, MainRuns
  <2> QED BY <1>11, <2>1 DEF WsStop
<1>12. CASE CloseQueue BY <1>a, <1>12 DEF CloseQueue, MainRuns
<1>13. CASE JoinWriter BY <1>a, <1>13 DEF JoinWriter, MainRuns
<1>14. CASE CloseAll BY <1>a, <1>14 DEF CloseAll, MainRuns
<1>15. CASE Unwind BY <1>a, <1>15 DEF Unwind, MainRuns
<1>16. CASE JoinWaiter BY <1>a, <1>16 DEF JoinWaiter, MainRuns
<1>17. CASE WriterEnds BY <1>17 DEF WriterEnds
<1>18. CASE SigWait
  <2>1. pending' \subseteq Signals /\ directed' \in BOOLEAN
    BY <1>18 DEF SigWait
  <2> QED BY <1>18, <2>1 DEF SigWait
<1>19. CASE WokenToReturn BY <1>19 DEF WokenToReturn
<1>20. CASE Stop
  <2>1. CASE srv_ BY <1>20, <2>1 DEF Stop
  <2>2. CASE ~ srv_ BY <1>20, <2>2 DEF Stop
  <2> QED BY <2>1, <2>2
<1>21. CASE ServerStop BY <1>21 DEF ServerStop
<1>22. ASSUME NEW s \in Signals, Signal(s)
       PROVE  TypeOK'
  BY <1>22 DEF Signal
<1>23. CASE UNCHANGED vars BY <1>23 DEF vars
<1> QED
  BY <1>1, <1>2, <1>3, <1>4, <1>5, <1>6, <1>7, <1>8, <1>9, <1>10, <1>11, <1>12,
     <1>13, <1>14, <1>15, <1>16, <1>17, <1>18, <1>19, <1>20, <1>21, <1>22, <1>23
     DEF Next, MainRuns, WaiterRuns, Exited

\* What the invariant says beyond the types.
Stretches == HandleOK /\ WriterOK /\ ListenerOK /\ WaiterOK

\* main() goes from one stretch to the next: what it acquires and gives back on the way
\* is what the invariant asks for in the next one.
LEMMA MainStep ==
    ASSUME TypeOK, Stretches, MainRuns \/ AcceptFails
    PROVE  Stretches'
<1> USE Groups DEF Stretches, HandleOK, Serving, WriterOK, Ending, ListenerOK, WaiterOK
<1>1. CASE Boot BY <1>1 DEF Boot
<1>2. CASE WsStart BY <1>2 DEF WsStart
<1>3. CASE Abandon BY <1>3 DEF Abandon
<1>4. CASE AbandonJoin BY <1>4 DEF AbandonJoin, Joined
<1>5. CASE Attach BY <1>5 DEF Attach, StopRequested
<1>6. CASE Bind BY <1>6 DEF Bind
<1>7. CASE Listen BY <1>7 DEF Listen
<1>8. CASE AcceptEnds BY <1>8 DEF AcceptEnds
<1>9. CASE Drain BY <1>9 DEF Drain
<1>10. CASE Detach
  \* Nobody is inside stop(), since its mutex is free.
  <2>1. waiter # "stop"
    BY <1>10 DEF Detach, HandleFree, TypeOK
  <2> QED BY <1>10, <2>1 DEF Detach
<1>11. CASE WsStop BY <1>11 DEF WsStop
<1>12. CASE CloseQueue BY <1>12 DEF CloseQueue
<1>13. CASE JoinWriter BY <1>13 DEF JoinWriter, Joined
<1>14. CASE CloseAll BY <1>14 DEF CloseAll
<1>15. CASE Unwind BY <1>15 DEF Unwind
<1>16. CASE JoinWaiter BY <1>16 DEF JoinWaiter
<1>17. CASE AcceptFails BY <1>17 DEF AcceptFails
<1> QED
  BY <1>1, <1>2, <1>3, <1>4, <1>5, <1>6, <1>7, <1>8, <1>9, <1>10, <1>11, <1>12,
     <1>13, <1>14, <1>15, <1>16, <1>17 DEF MainRuns

\* The other threads and the kernel leave main() where it is.  A stop() goes on only
\* where it finds a Server, and no writer is started by them.
LEMMA OtherStep ==
    ASSUME TypeOK, Stretches, WriterEnds \/ WaiterRuns \/ \E s \in Signals : Signal(s)
    PROVE  Stretches'
<1> USE Groups DEF Stretches, HandleOK, WriterOK, ListenerOK, WaiterOK
<1>1. CASE WriterEnds
  BY <1>1 DEF WriterEnds
<1>2. CASE SigWait BY <1>2 DEF SigWait
<1>3. CASE WokenToReturn BY <1>3 DEF WokenToReturn
<1>4. CASE Stop BY <1>4 DEF Stop
<1>5. CASE ServerStop BY <1>5 DEF ServerStop
<1>6. ASSUME NEW s \in Signals, Signal(s)
      PROVE  Stretches'
  BY <1>6 DEF Signal
<1> QED
  BY <1>1, <1>2, <1>3, <1>4, <1>5, <1>6 DEF WaiterRuns

LEMMA Invariance == Spec => []IInv
<1>1. Init => IInv
  BY InitInv
<1>2. ASSUME IInv, [Next]_vars
      PROVE  IInv'
  <2>1. TypeOK'
    BY <1>2, TypeStep DEF IInv
  <2>2. TypeOK /\ Stretches
    BY <1>2 DEF IInv, Stretches
  <2>3. CASE MainRuns \/ AcceptFails
    BY <2>1, <2>2, <2>3, MainStep DEF IInv, Stretches
  <2>4. CASE WriterEnds \/ WaiterRuns \/ \E s \in Signals : Signal(s)
    BY <2>1, <2>2, <2>4, OtherStep DEF IInv, Stretches
  <2>5. CASE UNCHANGED vars
    <3>1. UNCHANGED <<main, waiter, writer, srv_, ws_running>>
      BY <2>5 DEF vars
    <3>2. Stretches'
      BY <2>2, <3>1 DEF Stretches, HandleOK, Serving, WriterOK, Ending, ListenerOK, WaiterOK
    <3> QED BY <2>1, <3>2 DEF IInv, Stretches
  <2> QED
    BY <1>2, <2>3, <2>4, <2>5 DEF Next, Exited
<1> QED
  BY <1>1, <1>2, PTL DEF Spec

-----------------------------------------------------------------------------
(* Theorems *)

\* Every variable keeps its type, and the handle's mutex is held across a step by
\* nobody but the signal thread inside stop().
THEOREM TypeCorrect == Spec => []TypeOK
<1>1. IInv => TypeOK
  BY DEF IInv
<1> QED
  BY <1>1, Invariance, PTL

\* stop() on the signal thread never touches a Server that serve() has destroyed: the
\* handle points to a Server only while serve() has one, and detach() waits for a stop()
\* that has found it.
THEOREM NeverDangles == Spec => []NoDanglingServer
<1>1. IInv => NoDanglingServer
  BY DEF IInv, HandleOK, Serving, NoDanglingServer
<1> QED
  BY <1>1, Invariance, PTL

\* Whichever way run() returns, whatever failed on it and whenever a signal came: no
\* thread is joinable any more, and the WebSocket listener has been stopped.
THEOREM AllIsJoined == Spec => []NothingLeftBehind
<1>1. IInv => NothingLeftBehind
  BY DEF IInv, WriterOK, Ending, ListenerOK, WaiterOK, Serving, NothingLeftBehind
<1> QED
  BY <1>1, Invariance, PTL
=============================================================================
