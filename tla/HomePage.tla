------------------------------- MODULE HomePage -------------------------------
(***************************************************************************)
(* The pages of the Web HMI (Home.razor): what each keeps, and what its    *)
(* asynchronous flows do between their calls of IPlcService.  A page runs  *)
(* up to three flows: its initialisation, the poll loop the initialisation *)
(* starts and forgets, and the handler of a button.  Here are the parts of *)
(* steps that concern the page alone; the modules that extend this one say *)
(* what happens to the call a flow makes.                                  *)
(*                                                                         *)
(* Of the status only the pump is kept.  An exception that leaves the      *)
(* initialisation or a button handler ends the circuit of the page, and    *)
(* Blazor disposes of the page; one that leaves the poll loop is seen by   *)
(* nobody.                                                                 *)
(***************************************************************************)

CONSTANTS
  Dashboards,     \* pages, in as many browser tabs
  Operated        \* those whose buttons are pressed

ASSUME PageAssumption == Operated \subseteq Dashboards

VARIABLES
  page,     \* page[d]: "absent", "loading", "open"; "abandoned" if it was
            \* disposed of while loading, "closed" if later
  timer,    \* timer[d]: _cts and _timer, "none", "running" or "cancelled"
  poll,     \* poll[d]: PollDataAsync, "none", "waiting", "reading", "ended" or
            \* "faulted" (ended by an exception other than a cancellation)
  button,   \* button[d]: "idle", "start", "stop", or "refresh" after a command
  status    \* status[d]: _status.IsPumpRunning, what the page shows

flows == <<page, timer, poll, button, status>>

Tasks == {"init", "poll", "button"}
Flows == Dashboards \X Tasks
Shown == {"loading", "open"}

FlowsOK ==
  /\ page \in [Dashboards -> Shown \union {"absent", "abandoned", "closed"}]
  /\ timer \in [Dashboards -> {"none", "running", "cancelled"}]
  /\ poll \in [Dashboards -> {"none", "waiting", "reading", "ended", "faulted"}]
  /\ button \in [Dashboards -> {"idle", "start", "stop", "refresh"}]
  /\ status \in [Dashboards -> BOOLEAN]

FlowsInit ==
  /\ page = [d \in Dashboards |-> "absent"]
  /\ timer = [d \in Dashboards |-> "none"]
  /\ poll = [d \in Dashboards |-> "none"]
  /\ button = [d \in Dashboards |-> "idle"]
  /\ status = [d \in Dashboards |-> FALSE]

-------------------------------------------------------------------------------
(* DisposeAsync *)
LeaveTimer(d) == UNCHANGED timer
StopTimer(d) == timer' = [timer EXCEPT ![d] = IF @ = "running" THEN "cancelled" ELSE @]

DisposePage(d) ==
  /\ page' = [page EXCEPT ![d] = IF @ = "loading" THEN "abandoned" ELSE "closed"]
  /\ StopTimer(d)

(* An exception leaves a life-cycle method or an event handler. *)
CircuitEnds(d) ==
  IF page[d] \in Shown THEN DisposePage(d) ELSE UNCHANGED <<page, timer>>

(* A new page is a new component; it takes the place of one that has left      *)
(* nothing running.                                                            *)
OpenPage(d) ==
  /\ page[d] \notin Shown
  /\ poll[d] \notin {"waiting", "reading"}
  /\ page' = [page EXCEPT ![d] = "loading"]
  /\ timer' = [timer EXCEPT ![d] = "none"]
  /\ poll' = [poll EXCEPT ![d] = "none"]
  /\ status' = [status EXCEPT ![d] = FALSE]
  /\ UNCHANGED button

(* The tab is closed or leaves the page. *)
ClosePage(d) ==
  /\ page[d] \in Shown
  /\ DisposePage(d)
  /\ UNCHANGED <<poll, button, status>>

(* A click on the button that the page shows enabled.  The model bounds the    *)
(* handlers of a page to one at a time.                                        *)
PressButton(d) ==
  /\ d \in Operated
  /\ page[d] \in Shown
  /\ button[d] = "idle"
  /\ button' = [button EXCEPT ![d] = IF status[d] THEN "stop" ELSE "start"]
  /\ UNCHANGED <<page, timer, poll, status>>

(* WaitForNextTickAsync returns true. *)
TimerTicks(d) ==
  /\ poll[d] = "waiting"
  /\ timer[d] = "running"
  /\ poll' = [poll EXCEPT ![d] = "reading"]
  /\ UNCHANGED <<page, timer, button, status>>

(* The token is cancelled: WaitForNextTickAsync or the call throws.            *)
PollCancelled(d) ==
  /\ timer[d] = "cancelled"
  /\ poll' = [poll EXCEPT ![d] = "ended"]
  /\ UNCHANGED <<page, timer, button, status>>

-------------------------------------------------------------------------------
(* A button handler first has its command executed, then reads the status.     *)
Commanding(d, t) == t = "button" /\ button[d] # "refresh"

(* The call of flow t returns, with the pump in the status if it was a read.   *)
CallReturns(d, t, on) ==
  \/ /\ t = "init"
     /\ status' = [status EXCEPT ![d] = on]
     /\ timer' = [timer EXCEPT ![d] = "running"]
     /\ poll' = [poll EXCEPT ![d] = "waiting"]
     /\ page' = [page EXCEPT ![d] = IF @ = "loading" THEN "open" ELSE @]
     /\ UNCHANGED button
  \/ /\ t = "poll"
     /\ status' = [status EXCEPT ![d] = on]
     /\ poll' = [poll EXCEPT ![d] = "waiting"]
     /\ UNCHANGED <<page, timer, button>>
  \/ /\ Commanding(d, t)
     /\ button' = [button EXCEPT ![d] = "refresh"]
     /\ UNCHANGED <<page, timer, poll, status>>
  \/ /\ t = "button" /\ button[d] = "refresh"
     /\ status' = [status EXCEPT ![d] = on]
     /\ button' = [button EXCEPT ![d] = "idle"]
     /\ UNCHANGED <<page, timer, poll>>

(* It throws, something other than a cancellation. *)
CallThrows(d, t) ==
  /\ IF t = "poll"
     THEN poll' = [poll EXCEPT ![d] = "faulted"] /\ UNCHANGED <<page, timer, button>>
     ELSE /\ CircuitEnds(d)
          /\ button' = [button EXCEPT ![d] = IF t = "button" THEN "idle" ELSE @]
          /\ UNCHANGED poll
  /\ UNCHANGED status
===============================================================================
