--------------------------- MODULE WorkerHostProofs ---------------------------
(***************************************************************************)
(* The types of the Worker's process, and that its shutdown cuts nothing   *)
(* short, whatever fails.                                                  *)
(***************************************************************************)
EXTENDS WorkerHost, TLAPS

(* Main goes past a service only once it is over, or too late; and a service   *)
(* that is over stays so.                                                      *)
StopInv ==
  /\ main \in {"stopServer", "exited"} => poll \in Over \/ late
  /\ main = "exited" => server \in Over \/ late

IInv == TypeOK /\ StopInv

LEMMA TypeStep == TypeOK /\ [Next]_vars => TypeOK'
<1> SUFFICES ASSUME TypeOK, [Next]_vars PROVE TypeOK'
  OBVIOUS
<1> USE DEF TypeOK, Pauses, Over, tokens
<1>1. CASE StartHost
  BY <1>1, Zenon DEF StartHost, HostedServices
<1>2. CASE Announce
  BY <1>2 DEF Announce
<1>3. CASE Escape
  BY <1>3, Zenon DEF Escape
<1>4. CASE ConsoleFails
  BY <1>4, Zenon DEF ConsoleFails
<1>5. CASE StopServer \/ Exit
  BY <1>5, Zenon DEF StopServer, Exit
<1>6. CASE ShutdownTimeout \/ Signal
  BY <1>6, Zenon DEF ShutdownTimeout, Signal
<1>7. CASE PollPauses
  BY <1>7 DEF PollPauses, StartPolling, PauseEnds, PauseCancelled, WhileNotCancelled, Process
<1>8. CASE PollReturns \/ PollThrows
  BY <1>8 DEF PollReturns, PollThrows, BackOff, Process
<1>9. CASE Listen \/ AcceptFails \/ ServerStops
  BY <1>9 DEF Listen, AcceptFails, ServerStops, Process
<1>10. CASE ListenFails
  BY <1>10, Zenon DEF ListenFails, Process
<1>11. CASE UNCHANGED vars
  BY <1>11 DEF vars
<1>12. QED
  BY <1>1, <1>2, <1>3, <1>4, <1>5, <1>6, <1>7, <1>8, <1>9, <1>10, <1>11
  DEF Next, MainNext, PollNext, ServerNext

LEMMA StopStep == StopInv /\ [Next]_vars => StopInv'
<1> SUFFICES ASSUME StopInv, [Next]_vars PROVE StopInv'
  OBVIOUS
<1> USE DEF StopInv, Pauses, Over, tokens
<1>1. CASE StartHost \/ Announce \/ Escape \/ ConsoleFails \/ Signal
  BY <1>1 DEF StartHost, Announce, Escape, ConsoleFails, Signal
<1>2. CASE StopServer \/ Exit
  BY <1>2 DEF StopServer, Exit, PollingDone, ServerDone
<1>3. CASE ShutdownTimeout
  BY <1>3 DEF ShutdownTimeout
<1>4. CASE PollNext
  BY <1>4 DEF PollNext, PollPauses, StartPolling, PauseEnds, PauseCancelled, PollReturns, PollThrows, Process
<1>5. CASE ServerNext
  BY <1>5 DEF ServerNext, Listen, ListenFails, AcceptFails, ServerStops, Process
<1>6. CASE UNCHANGED vars
  BY <1>6 DEF vars
<1>7. QED
  BY <1>1, <1>2, <1>3, <1>4, <1>5, <1>6 DEF Next, MainNext

LEMMA Inductive == Spec => []IInv
<1>1. Init => IInv
  <2> SUFFICES ASSUME Init PROVE IInv
    OBVIOUS
  <2>1. TypeOK
    BY Zenon DEF Init, TypeOK
  <2>2. StopInv
    BY DEF Init, StopInv
  <2>3. QED
    BY <2>1, <2>2 DEF IInv
<1>2. IInv /\ [Next]_vars => IInv'
  BY TypeStep, StopStep DEF IInv
<1>3. QED
  BY <1>1, <1>2, PTL DEF Spec

(* The states of Main and of the services, none of which exists before the host. *)
THEOREM TypeCorrect == Spec => []TypeOK
<1>1. IInv => TypeOK
  BY DEF IInv
<1>2. QED
  BY <1>1, Inductive, PTL

(* An exit by ESC within the timeout finds the polling and the server ended.   *)
THEOREM CleanShutdown == Spec => []ShutdownIsClean
<1>1. IInv => ShutdownIsClean
  BY DEF IInv, StopInv, ShutdownIsClean
<1>2. QED
  BY <1>1, Inductive, PTL
===============================================================================
