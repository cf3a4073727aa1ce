---------------------------- MODULE HomeDashboard ----------------------------
(***************************************************************************)
(* The dashboards of the Web HMI.  All flows of all pages make their calls *)
(* through one NetworkPlcService, seen here as the lock of its exchanges   *)
(* and the connection it guards; DashboardBridge has the detail, and shows *)
(* that it does nothing else.                                              *)
(***************************************************************************)
EXTENDS HomePage

CONSTANTS
  WorkerMayFail,  \* the Worker and the link to it may fail
  None            \* nobody

ASSUME DashboardAssumption ==
  /\ WorkerMayFail \in BOOLEAN
  /\ None \notin Flows

VARIABLES
  call,     \* call[c]: where flow c is in NetworkPlcService, "none" when outside
  lock,     \* the flow that holds _lock for an exchange, or None
  link,     \* the connection of NetworkPlcService: "none", "up" or "broken"
  reply,    \* what the holder of the lock can read: "none", the pump "on" or
            \* "off", or "refused" (ERR)
  worker,   \* the Worker accepts connections
  pump      \* the pump

client == <<call, lock, link, reply>>
plant  == <<worker, pump>>
vars   == <<flows, client, plant>>

TypeOK ==
  /\ FlowsOK
  /\ call \in [Flows -> {"none", "ensuring", "waiting", "exchanging"}]
  /\ lock \in Flows \union {None}
  /\ \A c \in Flows : call[c] = "exchanging" <=> lock = c
  /\ link \in {"none", "up", "broken"}
  /\ reply \in {"none", "on", "off", "refused"}
  /\ worker \in BOOLEAN /\ pump \in BOOLEAN

Init ==
  /\ FlowsInit
  /\ call = [c \in Flows |-> "none"]
  /\ lock = None /\ link = "none" /\ reply = "none"
  /\ worker = TRUE /\ pump = FALSE

-----------------------------------------------------------------------------
Goto(d, t, point) == call' = [call EXCEPT ![<<d, t>>] = point]

Open(d) ==
  /\ \A t \in Tasks : call[<<d, t>>] = "none"
  /\ OpenPage(d)
  /\ Goto(d, "init", "ensuring")
  /\ UNCHANGED <<lock, link, reply, plant>>

Close(d) == ClosePage(d) /\ UNCHANGED <<client, plant>>

Press(d) ==
  /\ PressButton(d)
  /\ Goto(d, "button", "ensuring")
  /\ UNCHANGED <<lock, link, reply, plant>>

Tick(d) ==
  /\ TimerTicks(d)
  /\ Goto(d, "poll", "ensuring")
  /\ UNCHANGED <<lock, link, reply, plant>>

TickCancelled(d) ==
  /\ poll[d] = "waiting"
  /\ PollCancelled(d)
  /\ UNCHANGED <<client, plant>>

(* What a flow does when its call returns, and when it throws. *)
Succeed(d, t) ==
  /\ CallReturns(d, t, reply = "on")
  /\ Goto(d, t, IF Commanding(d, t) THEN "ensuring" ELSE "none")

Fail(d, t) == CallThrows(d, t) /\ Goto(d, t, "none")

-----------------------------------------------------------------------------
(* NetworkPlcService *)
LockIgnored == TRUE
LockFree == lock = None

(* EnsureConnectedAsync finds a connection, at once or after it has waited for *)
(* its lock.                                                                   *)
FindConnection(d, t) ==
  /\ call[<<d, t>>] = "ensuring"
  /\ link # "none"
  /\ Goto(d, t, "waiting")
  /\ UNCHANGED <<flows, lock, link, reply, plant>>

(* It has its lock and connects. *)
Connect(d, t) ==
  /\ call[<<d, t>>] = "ensuring"
  /\ LockFree
  /\ link = "none"
  /\ IF worker THEN link' = "up" /\ Goto(d, t, "waiting") /\ UNCHANGED flows
               ELSE Fail(d, t) /\ UNCHANGED link
  /\ UNCHANGED <<lock, reply, plant>>

(* The second WaitAsync returns.  Since EnsureConnectedAsync another flow may  *)
(* have reset the connection: InvalidOperationException.                       *)
BeginExchange(d, t) ==
  /\ call[<<d, t>>] = "waiting"
  /\ LockFree
  /\ IF link # "none"
     THEN lock' = <<d, t>> /\ Goto(d, t, "exchanging") /\ UNCHANGED flows
     ELSE Fail(d, t) /\ UNCHANGED lock
  /\ UNCHANGED <<link, reply, plant>>

(* The reply is read.  One that is not OK makes the typed method throw, and    *)
(* the connection is kept.                                                     *)
EndExchange(d, t) ==
  /\ call[<<d, t>>] = "exchanging"
  /\ reply # "none"
  /\ IF reply = "refused" THEN Fail(d, t) ELSE Succeed(d, t)
  /\ lock' = None /\ reply' = "none"
  /\ UNCHANGED <<link, plant>>

(* The connection is found broken, and reset. *)
ExchangeFails(d, t) ==
  /\ call[<<d, t>>] = "exchanging"
  /\ link = "broken"
  /\ Fail(d, t)
  /\ lock' = None /\ link' = "none" /\ reply' = "none"
  /\ UNCHANGED plant

KeepOnCancel(c) == UNCHANGED lock
ReleaseOnCancel(c) == lock' = IF lock = c THEN None ELSE lock

(* Only the poll passes a token.  Cancelled in the middle of its exchange it    *)
(* resets the connection that everybody uses.                                  *)
CancelPoll(d) ==
  /\ call[<<d, "poll">>] # "none"
  /\ PollCancelled(d)
  /\ Goto(d, "poll", "none")
  /\ ReleaseOnCancel(<<d, "poll">>)
  /\ IF call[<<d, "poll">>] = "exchanging" THEN link' = "none" /\ reply' = "none"
                                           ELSE UNCHANGED <<link, reply>>
  /\ UNCHANGED plant

-----------------------------------------------------------------------------
(* The Worker answers the holder of the lock. *)
Serve(d, t) ==
  /\ call[<<d, t>>] = "exchanging"
  /\ link = "up" /\ reply = "none"
  /\ pump' = IF Commanding(d, t) THEN button[d] = "start" ELSE pump
  /\ reply' = IF pump' THEN "on" ELSE "off"
  /\ UNCHANGED <<flows, call, lock, link, worker>>

(* Or it refuses the command. *)
Refuse(d, t) ==
  /\ WorkerMayFail
  /\ call[<<d, t>>] = "exchanging"
  /\ link = "up" /\ reply = "none"
  /\ reply' = "refused"
  /\ UNCHANGED <<flows, call, lock, link, plant>>

(* The pump is switched by another client of the Worker, or by a command whose *)
(* connection has been given up.                                               *)
OtherClient ==
  /\ pump' = ~pump
  /\ UNCHANGED <<flows, client, worker>>

(* The connection breaks, with the reply that was on its way or without.  The  *)
(* last command may have been executed.                                        *)
LinkFails ==
  /\ WorkerMayFail
  /\ link = "up"
  /\ link' = "broken"
  /\ reply' \in {reply, "none"}
  /\ UNCHANGED <<flows, call, lock, plant>>

(* The Worker stops; its connections break. *)
WorkerStops ==
  /\ WorkerMayFail
  /\ worker' = FALSE
  /\ UNCHANGED <<flows, client, pump>>

(* The Worker starts again, with a pump that does not run. *)
WorkerStarts ==
  /\ ~worker
  /\ worker' = TRUE /\ pump' = FALSE
  /\ UNCHANGED <<flows, client>>

-----------------------------------------------------------------------------
Acquire(d, t) == FindConnection(d, t) \/ Connect(d, t) \/ BeginExchange(d, t)

Proceed(d, t) == Serve(d, t) \/ Refuse(d, t) \/ EndExchange(d, t) \/ ExchangeFails(d, t)

PollLoop(d) == Tick(d) \/ TickCancelled(d) \/ CancelPoll(d)

Next ==
  \/ \E d \in Dashboards :
       \/ Open(d) \/ Close(d) \/ Press(d) \/ PollLoop(d)
       \/ \E t \in Tasks : Acquire(d, t) \/ Proceed(d, t)
  \/ OtherClient \/ LinkFails \/ WorkerStops \/ WorkerStarts

Spec == Init /\ [][Next]_vars

(* SemaphoreSlim queues its waiters, continuations run, the Worker answers and *)
(* the timer ticks.  Nobody has to open or close a page or press a button.     *)
Fairness ==
  /\ WF_vars(\E d \in Dashboards, t \in Tasks : Proceed(d, t))
  /\ \A d \in Dashboards :
       /\ WF_vars(PollLoop(d))
       /\ \A t \in Tasks : SF_vars(Acquire(d, t))

FairSpec == Spec /\ Fairness

-----------------------------------------------------------------------------
(* The polling of a page follows it: while the page is open its timer runs,    *)
(* and its poll loop lives unless an exception has ended it; once a page that  *)
(* had loaded is closed, its timer is cancelled, whatever its flows were doing *)
(* (Home.razor:104-107, 138-146).                                              *)
PollingFollowsPage ==
  \A d \in Dashboards :
    /\ page[d] = "open" => timer[d] = "running" /\ poll[d] \in {"waiting", "reading", "faulted"}
    /\ page[d] = "closed" => timer[d] = "cancelled"

Stale(d) == page[d] = "open" /\ status[d] # pump

(* While its poll loop lives, an open page does not go on showing a pump that  *)
(* is not so, whoever switches it and however other pages come, go and cancel  *)
(* their calls.                                                                *)
DisplayFollows == \A d \in Dashboards : []<>(Stale(d) => poll[d] = "faulted")

(* "Supervisione e controllo impianto in tempo reale" (Home.razor:16): an open *)
(* page does not go on showing a pump that is not so.                          *)
LiveDisplay == \A d \in Dashboards : []<>~Stale(d)

(* A page that is closed after it has loaded stops polling.                    *)
ClosedStopsPolling ==
  \A d \in Dashboards :
    page[d] = "closed" ~> page[d] # "closed" \/ poll[d] \in {"ended", "faulted"}

(* "Chiusura pulita" (Home.razor:122): a page that was disposed of, at any     *)
(* moment, does not go on polling.                                             *)
DisposedStopsPolling ==
  \A d \in Dashboards :
    page[d] \in {"closed", "abandoned"} ~>
      page[d] \in Shown \/ poll[d] \in {"none", "ended", "faulted"}
=============================================================================
