------------------------------ MODULE WorkerHost ------------------------------
(***************************************************************************)
(* The process of the Worker: Main, which starts the host and then waits   *)
(* for the ESC key, the polling worker with its back-off, and of the TCP   *)
(* server the life cycle of its listener (TcpPlcServer has the rest).      *)
(* The .NET host is external.  Its background services run as tasks that   *)
(* StartAsync queues; StopAsync cancels and awaits them in the reverse     *)
(* order of their registration, giving up after its timeout; a signal, or  *)
(* a service that throws, only announces that the application is closing.  *)
(***************************************************************************)
EXTENDS Naturals

CONSTANTS
  PlantMayThrow,   \* GetSystemStatusAsync may throw
  PlantMayHang,    \* or not return
  PortMayBeTaken,  \* TcpListener.Start may throw
  ConsoleMayFail   \* Console.KeyAvailable may throw: the input is redirected

ASSUME HostAssumption ==
  {PlantMayThrow, PlantMayHang, PortMayBeTaken, ConsoleMayFail} \subseteq BOOLEAN

VARIABLES
  main,         \* Main: "starting", "started", "waiting", "stopPolling", "stopServer", "exited"
                \* or "failed", by an exception
  closing,      \* ApplicationStopping
  poll,         \* PlcPollingWorker.ExecuteAsync
  pollToken,    \* its stoppingToken is cancelled
  server,       \* TcpPlcServer.ExecuteAsync
  serverToken,  \* its stoppingToken is cancelled
  late          \* the shutdown timeout has elapsed

tokens == <<pollToken, serverToken>>
vars == <<main, closing, poll, server, tokens, late>>

Pauses == {"pausing", "backingOff"}
Over   == {"ended", "faulted"}

TypeOK ==
  /\ main \in {"starting", "started", "waiting", "stopPolling", "stopServer", "exited", "failed"}
  /\ poll \in {"none", "queued", "reading"} \union Pauses \union Over
  /\ server \in {"none", "queued", "listening"} \union Over
  /\ main = "starting" <=> poll = "none"
  /\ main = "starting" <=> server = "none"
  /\ closing \in BOOLEAN /\ pollToken \in BOOLEAN /\ serverToken \in BOOLEAN /\ late \in BOOLEAN

Init ==
  /\ main = "starting" /\ closing = FALSE
  /\ poll = "none" /\ pollToken = FALSE
  /\ server = "none" /\ serverToken = FALSE
  /\ late = FALSE

-------------------------------------------------------------------------------
(* Main *)

PollingNotRegistered == server' = "queued" /\ UNCHANGED poll
HostedServices == server' = "queued" /\ poll' = "queued"

StartHost ==
  /\ main = "starting" /\ main' = "started"
  /\ HostedServices
  /\ UNCHANGED <<closing, tokens, late>>

(* "PlcBridge Engine & TCP Server avviati con successo!" *)
Announce ==
  /\ main = "started" /\ main' = "waiting"
  /\ UNCHANGED <<closing, poll, server, tokens, late>>

(* The loop reads the ESC key, and StopAsync begins with the last service. *)
Escape ==
  /\ main = "waiting" /\ main' = "stopPolling"
  /\ closing' = TRUE /\ pollToken' = TRUE
  /\ UNCHANGED <<poll, server, serverToken, late>>

(* The console throws: the host is disposed of, which cancels both tokens and  *)
(* awaits nothing, the exception is logged and Main returns.                   *)
ConsoleFails ==
  /\ main = "waiting" /\ ConsoleMayFail /\ main' = "failed"
  /\ pollToken' = TRUE /\ serverToken' = TRUE
  /\ UNCHANGED <<closing, poll, server, late>>

StopNotAwaited == TRUE
PollingDone == poll \in Over \/ late
ServerNotAwaited == TRUE
ServerDone == server \in Over \/ late

StopServer ==
  /\ main = "stopPolling" /\ PollingDone /\ main' = "stopServer"
  /\ serverToken' = TRUE
  /\ UNCHANGED <<closing, poll, pollToken, server, late>>

Exit ==
  /\ main = "stopServer" /\ ServerDone /\ main' = "exited"
  /\ UNCHANGED <<closing, poll, server, tokens, late>>

(* Everything but a call of the plant ends in an instant, so the timeout of    *)
(* the host elapses only during one.                                           *)
ShutdownTimeout ==
  /\ main = "stopPolling" /\ poll = "reading" /\ PlantMayHang
  /\ late' = TRUE
  /\ UNCHANGED <<main, closing, poll, server, tokens>>

(* Ctrl+C or SIGTERM: the host cancels the default action of the signal.       *)
Signal ==
  /\ main \in {"started", "waiting"} /\ ~closing
  /\ closing' = TRUE
  /\ UNCHANGED <<main, poll, server, tokens, late>>

(* A task runs as long as the process does.                                    *)
Process == main \notin {"exited", "failed"} /\ UNCHANGED <<main, tokens, late>>

-------------------------------------------------------------------------------
(* PlcPollingWorker.  The plant is called without the token.                   *)

TokenNotPassed == FALSE
Cancelled == pollToken

WhileNotCancelled == poll' = IF Cancelled THEN "ended" ELSE "reading"

(* A task that is queued when its token is cancelled does not run.             *)
StartPolling ==
  /\ poll = "queued" /\ WhileNotCancelled
  /\ Process /\ UNCHANGED <<closing, server>>

PollReturns ==
  /\ poll = "reading" /\ poll' = "pausing"
  /\ Process /\ UNCHANGED <<closing, server>>

ErrorEndsPolling == poll' = "ended"
BackOff == poll' = "backingOff"

PollThrows ==
  /\ poll = "reading" /\ PlantMayThrow /\ BackOff
  /\ Process /\ UNCHANGED <<closing, server>>

PauseEnds ==
  /\ poll \in Pauses /\ WhileNotCancelled
  /\ Process /\ UNCHANGED <<closing, server>>

(* The OperationCanceledException of either Task.Delay leaves ExecuteAsync.    *)
PauseCancelled ==
  /\ poll \in Pauses /\ Cancelled /\ poll' = "ended"
  /\ Process /\ UNCHANGED <<closing, server>>

-------------------------------------------------------------------------------
(* TcpPlcServer *)

Listen ==
  /\ server = "queued" /\ ~serverToken /\ server' = "listening"
  /\ Process /\ UNCHANGED <<closing, poll>>

(* Start throws, out of ExecuteAsync: the host announces its closing.          *)
ListenFails ==
  /\ server = "queued" /\ ~serverToken /\ PortMayBeTaken
  /\ server' = "faulted" /\ closing' = TRUE
  /\ Process /\ UNCHANGED poll

(* AcceptTcpClientAsync throws, or the task is cancelled, maybe before it ran. *)
AcceptFails ==
  /\ server = "listening" /\ server' = "ended"
  /\ Process /\ UNCHANGED <<closing, poll>>

ServerStops ==
  /\ server \in {"queued", "listening"} /\ serverToken /\ server' = "ended"
  /\ Process /\ UNCHANGED <<closing, poll>>

-------------------------------------------------------------------------------
MainNext ==
  \/ StartHost \/ Announce \/ Escape \/ ConsoleFails
  \/ StopServer \/ Exit \/ ShutdownTimeout \/ Signal

PollPauses == StartPolling \/ PauseEnds \/ PauseCancelled
PollNext == PollPauses \/ PollReturns \/ PollThrows
ServerNext == Listen \/ ListenFails \/ AcceptFails \/ ServerStops

Next == MainNext \/ PollNext \/ ServerNext

Spec == Init /\ [][Next]_vars

(* Main and the tasks run when they can, and so does the plant unless it hangs *)
(* (then the timeout elapses); nobody has to press a key or to send a signal.  *)
Fairness ==
  /\ WF_vars(StartHost) /\ WF_vars(Announce) /\ WF_vars(StopServer) /\ WF_vars(Exit)
  /\ WF_vars(PollPauses) /\ WF_vars(Listen \/ ListenFails) /\ WF_vars(ServerStops)
  /\ IF PlantMayHang THEN WF_vars(ShutdownTimeout) ELSE WF_vars(PollReturns \/ PollThrows)

FairSpec == Spec /\ Fairness

-------------------------------------------------------------------------------
(* "CancellationToken per uno shutdown pulito (tasto ESC)" (README.md:22):     *)
(* the process does not exit with a poll or the accept loop cut short, unless  *)
(* the plant held a poll beyond the timeout.                                   *)
ShutdownIsClean == main = "exited" /\ ~late => poll \in Over /\ server \in Over

(* ESC ends the process, wherever it finds the poll: in a pause, in a back-off *)
(* after an error, in the plant, or not begun.                                 *)
ShutdownEnds == main = "stopPolling" ~> main = "exited"

(* The polling goes on through any number of errors of the plant (line 55).    *)
PollsUntilStopped == []<>(poll = "reading") \/ <>pollToken

(* "Continua a girare finche' non viene richiesta la chiusura dell'app"        *)
(* (PlcPollingWorker.cs:31): once the host has been asked to close, the        *)
(* polling ends.                                                               *)
ClosingEndsPolling == closing /\ poll # "none" ~> poll \in Over
===============================================================================
