-------------------------- MODULE HomeDashboardProofs --------------------------
(***************************************************************************)
(* Types of the dashboards with who is inside the client, and that the     *)
(* polling of a page follows the page, for any number of pages.            *)
(***************************************************************************)
EXTENDS HomeDashboard, TLAPS

(* Where a flow is when it holds no lock, and anywhere                         *)
Aside == {"none", "ensuring", "waiting"}
Points == Aside \union {"exchanging"}

(* The types of the client, and its lock                                       *)
ClientOK ==
  /\ call \in [Flows -> Points]
  /\ lock \in Flows \union {None}
  /\ \A c \in Flows : call[c] = "exchanging" <=> lock = c

PlantOK ==
  /\ link \in {"none", "up", "broken"}
  /\ reply \in {"none", "on", "off", "refused"}
  /\ worker \in BOOLEAN /\ pump \in BOOLEAN

(* A flow is inside the client exactly while its page says so.                 *)
CallAt(d) ==
  /\ call[<<d, "poll">>] # "none" <=> poll[d] = "reading"
  /\ call[<<d, "button">>] # "none" <=> button[d] # "idle"

(* The timer of a page runs while the page is open, and is cancelled after;    *)
(* the poll loop of an open page has not been told to end.                     *)
PageAt(d) ==
  /\ call[<<d, "init">>] # "none" =>
       page[d] \in {"loading", "abandoned"} /\ timer[d] = "none" /\ poll[d] = "none"
  /\ page[d] = "loading" => call[<<d, "init">>] # "none"
  /\ page[d] = "open" => timer[d] = "running" /\ poll[d] \in {"waiting", "reading", "faulted"}
  /\ page[d] = "closed" => timer[d] = "cancelled"

CallInv == \A d \in Dashboards : CallAt(d)
PageInv == \A d \in Dashboards : PageAt(d)

IInv == TypeOK /\ CallInv /\ PageInv

LEMMA Types == TypeOK <=> FlowsOK /\ ClientOK /\ PlantOK
  BY DEF TypeOK, ClientOK, PlantOK, Points, Aside

LEMMA TypesAfter == FlowsOK' /\ ClientOK' /\ PlantOK' => TypeOK'
  BY DEF TypeOK, ClientOK, PlantOK, Points, Aside

(* A flow that does not hold the lock moves, and does not take it.             *)
LEMMA MoveOutside ==
  ASSUME ClientOK, NEW c \in Flows, call[c] # "exchanging",
         NEW x \in Aside,
         call' = [call EXCEPT ![c] = x], lock' = lock
  PROVE  ClientOK'
  BY DashboardAssumption DEF ClientOK, Points, Aside

(* The holder of the lock lets go of it.                                       *)
LEMMA MoveOut ==
  ASSUME ClientOK, NEW c \in Flows, call[c] = "exchanging",
         NEW x \in Aside,
         call' = [call EXCEPT ![c] = x], lock' = None
  PROVE  ClientOK'
  BY DashboardAssumption DEF ClientOK, Points, Aside

LEMMA DisposeTypes ==
  ASSUME FlowsOK, NEW d \in Dashboards, DisposePage(d)
  PROVE  /\ page' \in [Dashboards -> Shown \union {"absent", "abandoned", "closed"}]
         /\ timer' \in [Dashboards -> {"none", "running", "cancelled"}]
  BY DEF FlowsOK, DisposePage, StopTimer, Shown

LEMMA FailTypes ==
  ASSUME FlowsOK, NEW d \in Dashboards, NEW t \in Tasks, Fail(d, t)
  PROVE  /\ FlowsOK'
         /\ call' = [call EXCEPT ![<<d, t>>] = "none"]
<1>1. call' = [call EXCEPT ![<<d, t>>] = "none"]
  BY DEF Fail, Goto
<1>2. CASE t = "poll"
  BY <1>1, <1>2 DEF FlowsOK, Fail, CallThrows
<1>3. CASE t # "poll"
  <2>1. /\ page' \in [Dashboards -> Shown \union {"absent", "abandoned", "closed"}]
        /\ timer' \in [Dashboards -> {"none", "running", "cancelled"}]
    BY <1>3, DisposeTypes DEF Fail, CallThrows, CircuitEnds, FlowsOK
  <2>2. button' \in [Dashboards -> {"idle", "start", "stop", "refresh"}]
    BY <1>3 DEF Fail, CallThrows, FlowsOK
  <2>3. poll' = poll /\ status' = status
    BY <1>3 DEF Fail, CallThrows
  <2>4. QED
    BY <1>1, <2>1, <2>2, <2>3 DEF FlowsOK
<1>4. QED
  BY <1>2, <1>3

LEMMA SucceedTypes ==
  ASSUME FlowsOK, NEW d \in Dashboards, NEW t \in Tasks, Succeed(d, t)
  PROVE  /\ FlowsOK'
         /\ \E x \in Aside : call' = [call EXCEPT ![<<d, t>>] = x]
<1>1. \E x \in Aside : call' = [call EXCEPT ![<<d, t>>] = x]
  BY DEF Succeed, Goto, Aside
<1>2. (reply = "on") \in BOOLEAN
  OBVIOUS
<1>3. CASE t = "init"
  BY <1>1, <1>2, <1>3 DEF FlowsOK, Succeed, CallReturns, Commanding, Shown
<1>4. CASE t = "poll"
  BY <1>1, <1>2, <1>4 DEF FlowsOK, Succeed, CallReturns, Commanding
<1>5. CASE t = "button"
  BY <1>1, <1>2, <1>5 DEF FlowsOK, Succeed, CallReturns, Commanding
<1>6. QED
  BY <1>3, <1>4, <1>5 DEF Tasks

-----------------------------------------------------------------------------
(* The invariants of the pages through what the flows do                       *)
LEMMA DisposeKeeps ==
  ASSUME FlowsOK, PageInv, NEW d \in Dashboards, page[d] \in Shown, DisposePage(d),
         UNCHANGED <<poll, call>>
  PROVE  PageInv'
  BY DEF FlowsOK, PageInv, PageAt, DisposePage, StopTimer, Shown

(* What the client says of the other flows when flow t of page d moves         *)
Others(d, t) ==
  /\ \A e \in Dashboards : e # d =>
       /\ call'[<<e, "init">>] = call[<<e, "init">>]
       /\ call'[<<e, "poll">>] = call[<<e, "poll">>]
       /\ call'[<<e, "button">>] = call[<<e, "button">>]
  /\ t # "init" => call'[<<d, "init">>] = call[<<d, "init">>]
  /\ t # "poll" => call'[<<d, "poll">>] = call[<<d, "poll">>]
  /\ t # "button" => call'[<<d, "button">>] = call[<<d, "button">>]

LEMMA Elsewhere ==
  ASSUME ClientOK, NEW d \in Dashboards, NEW t \in Tasks,
         NEW x \in Aside,
         call' = [call EXCEPT ![<<d, t>>] = x]
  PROVE  Others(d, t) /\ call'[<<d, t>>] = x
<1>1. \A e \in Dashboards, u \in Tasks : <<e, u>> \in DOMAIN call
  BY DEF ClientOK, Flows
<1>2. \A e \in Dashboards, u \in Tasks : e # d \/ u # t => <<e, u>> # <<d, t>>
  OBVIOUS
<1>3. \A e \in Dashboards, u \in Tasks :
        e # d \/ u # t => call'[<<e, u>>] = call[<<e, u>>]
  BY <1>1, <1>2
<1>4. call'[<<d, t>>] = x
  BY <1>1
<1>5. Others(d, t)
  BY <1>3 DEF Others, Tasks
<1>6. QED
  BY <1>4, <1>5

(* A step of one page leaves the invariants of the others alone.               *)
LEMMA Frame ==
  ASSUME CallInv, PageInv, NEW d \in Dashboards, NEW t \in Tasks, Others(d, t),
         \A e \in Dashboards : e # d =>
           /\ page'[e] = page[e] /\ timer'[e] = timer[e]
           /\ poll'[e] = poll[e] /\ button'[e] = button[e],
         CallAt(d)', PageAt(d)'
  PROVE  CallInv' /\ PageInv'
<1> SUFFICES ASSUME NEW e \in Dashboards, e # d PROVE CallAt(e)' /\ PageAt(e)'
  BY DEF CallInv, PageInv
<1>1. CallAt(e) /\ PageAt(e)
  BY DEF CallInv, PageInv
<1>2. /\ page'[e] = page[e] /\ timer'[e] = timer[e]
      /\ poll'[e] = poll[e] /\ button'[e] = button[e]
      /\ call'[<<e, "init">>] = call[<<e, "init">>]
      /\ call'[<<e, "poll">>] = call[<<e, "poll">>]
      /\ call'[<<e, "button">>] = call[<<e, "button">>]
  BY DEF Others
<1>3. QED
  BY <1>1, <1>2 DEF CallAt, PageAt

LEMMA FailKeeps ==
  ASSUME FlowsOK, ClientOK, CallInv, PageInv, NEW d \in Dashboards, NEW t \in Tasks,
         call[<<d, t>>] # "none", Fail(d, t)
  PROVE  CallInv' /\ PageInv'
<1>1. Others(d, t) /\ call'[<<d, t>>] = "none"
  BY Elsewhere DEF Fail, Goto, Aside
<1>2. CallAt(d) /\ PageAt(d)
  BY DEF CallInv, PageInv
<1>3. CASE t = "poll"
  <2>1. /\ poll' = [poll EXCEPT ![d] = "faulted"]
        /\ page' = page /\ timer' = timer /\ button' = button
    BY <1>3 DEF Fail, CallThrows
  <2>2. poll'[d] = "faulted" /\ \A e \in Dashboards : e # d => poll'[e] = poll[e]
    BY <2>1 DEF FlowsOK
  <2>3. CallAt(d)' /\ PageAt(d)'
    BY <1>1, <1>2, <1>3, <2>1, <2>2 DEF CallAt, PageAt, Others
  <2>4. QED
    BY <1>1, <2>1, <2>2, <2>3, Frame
<1>4. CASE t \in {"init", "button"}
  <2>1. /\ CircuitEnds(d) /\ poll' = poll
        /\ button' = [button EXCEPT ![d] = IF t = "button" THEN "idle" ELSE @]
    BY <1>4 DEF Fail, CallThrows
  <2>2. /\ button'[d] = IF t = "button" THEN "idle" ELSE button[d]
        /\ \A e \in Dashboards : e # d => button'[e] = button[e]
    BY <2>1 DEF FlowsOK
  <2>3. \A e \in Dashboards : e # d => page'[e] = page[e] /\ timer'[e] = timer[e]
    BY <2>1 DEF FlowsOK, CircuitEnds, DisposePage, StopTimer
  <2>4. CallAt(d)'
    BY <1>1, <1>2, <1>4, <2>1, <2>2 DEF CallAt, Others
  <2>5. PageAt(d)'
    <3>1. CASE page[d] \in Shown
      <4>1. /\ page'[d] = IF page[d] = "loading" THEN "abandoned" ELSE "closed"
            /\ timer'[d] = IF timer[d] = "running" THEN "cancelled" ELSE timer[d]
        BY <2>1, <3>1 DEF FlowsOK, CircuitEnds, DisposePage, StopTimer
      <4>2. page[d] = "loading" \/ page[d] = "open"
        BY <3>1 DEF Shown
      <4>3. QED
        BY <1>1, <1>2, <1>4, <2>1, <4>1, <4>2 DEF PageAt, Others
    <3>2. CASE page[d] \notin Shown
      <4>1. page'[d] = page[d] /\ timer'[d] = timer[d]
        BY <2>1, <3>2 DEF CircuitEnds
      <4>2. page[d] # "loading" /\ page[d] # "open"
        BY <3>2 DEF Shown
      <4>3. QED
        BY <1>1, <1>2, <1>4, <2>1, <4>1, <4>2 DEF PageAt, Others
    <3>3. QED
      BY <3>1, <3>2
  <2>6. QED
    BY <1>1, <2>1, <2>2, <2>3, <2>4, <2>5, Frame
<1>5. QED
  BY <1>3, <1>4 DEF Tasks

LEMMA SucceedKeeps ==
  ASSUME FlowsOK, ClientOK, CallInv, PageInv, NEW d \in Dashboards, NEW t \in Tasks,
         call[<<d, t>>] # "none", Succeed(d, t)
  PROVE  CallInv' /\ PageInv'
<1>1. CallAt(d) /\ PageAt(d)
  BY DEF CallInv, PageInv
<1>2. CASE t = "init"
  <2>1. /\ timer' = [timer EXCEPT ![d] = "running"]
        /\ poll' = [poll EXCEPT ![d] = "waiting"]
        /\ page' = [page EXCEPT ![d] = IF @ = "loading" THEN "open" ELSE @]
        /\ call' = [call EXCEPT ![<<d, t>>] = "none"]
        /\ button' = button
    BY <1>2 DEF Succeed, CallReturns, Commanding, Goto
  <2>2. /\ timer'[d] = "running" /\ poll'[d] = "waiting"
        /\ page'[d] = IF page[d] = "loading" THEN "open" ELSE page[d]
        /\ \A e \in Dashboards : e # d =>
             page'[e] = page[e] /\ timer'[e] = timer[e] /\ poll'[e] = poll[e]
    BY <2>1 DEF FlowsOK
  <2>3. Others(d, t) /\ call'[<<d, t>>] = "none"
    BY <2>1, Elsewhere DEF Aside
  <2>4. CallAt(d)' /\ PageAt(d)'
    BY <1>1, <1>2, <2>1, <2>2, <2>3 DEF CallAt, PageAt, Others
  <2>5. QED
    BY <2>1, <2>2, <2>3, <2>4, Frame
<1>3. CASE t = "poll"
  <2>1. /\ poll' = [poll EXCEPT ![d] = "waiting"]
        /\ call' = [call EXCEPT ![<<d, t>>] = "none"]
        /\ page' = page /\ timer' = timer /\ button' = button
    BY <1>3 DEF Succeed, CallReturns, Commanding, Goto
  <2>2. poll'[d] = "waiting" /\ \A e \in Dashboards : e # d => poll'[e] = poll[e]
    BY <2>1 DEF FlowsOK
  <2>3. Others(d, t) /\ call'[<<d, t>>] = "none"
    BY <2>1, Elsewhere DEF Aside
  <2>4. CallAt(d)' /\ PageAt(d)'
    BY <1>1, <1>3, <2>1, <2>2, <2>3 DEF CallAt, PageAt, Others
  <2>5. QED
    BY <2>1, <2>2, <2>3, <2>4, Frame
<1>4. CASE t = "button"
  <2>1. PICK x \in {"none", "ensuring"} :
          /\ call' = [call EXCEPT ![<<d, t>>] = x]
          /\ button' = [button EXCEPT ![d] = IF x = "none" THEN "idle" ELSE "refresh"]
          /\ page' = page /\ timer' = timer /\ poll' = poll
    BY <1>4 DEF Succeed, CallReturns, Commanding, Goto
  <2>2. /\ button'[d] = IF x = "none" THEN "idle" ELSE "refresh"
        /\ \A e \in Dashboards : e # d => button'[e] = button[e]
    BY <2>1 DEF FlowsOK
  <2>3. Others(d, t) /\ call'[<<d, t>>] = x
    BY <2>1, Elsewhere DEF Aside
  <2>4. CallAt(d)' /\ PageAt(d)'
    BY <1>1, <1>4, <2>1, <2>2, <2>3 DEF CallAt, PageAt, Others
  <2>5. QED
    BY <2>1, <2>2, <2>3, <2>4, Frame
<1>5. QED
  BY <1>2, <1>3, <1>4 DEF Tasks

-----------------------------------------------------------------------------
LEMMA InitIInv == Init => IInv
<1> SUFFICES ASSUME Init PROVE IInv
  OBVIOUS
<1>1. TypeOK
  BY DashboardAssumption DEF Init, FlowsInit, FlowsOK, TypeOK
<1>2. \A d \in Dashboards, t \in Tasks : call[<<d, t>>] = "none"
  BY DEF Init, Flows
<1>3. CallInv /\ PageInv
  BY <1>2 DEF Init, FlowsInit, CallInv, PageInv, CallAt, PageAt, Tasks
<1>4. QED
  BY <1>1, <1>3 DEF IInv

LEMMA StepIInv == IInv /\ [Next]_vars => IInv'
<1> SUFFICES ASSUME IInv, [Next]_vars PROVE IInv'
  OBVIOUS
<1> USE DEF flows, client, plant
<1>1. FlowsOK /\ ClientOK /\ PlantOK /\ CallInv /\ PageInv
  BY Types DEF IInv
<1>2. \A d \in Dashboards, t \in Tasks : <<d, t>> \in Flows
  BY DEF Flows
<1>3. "init" \in Tasks /\ "poll" \in Tasks /\ "button" \in Tasks
  BY DEF Tasks
<1>4. call \in [Flows -> Points]
  BY <1>1 DEF ClientOK
<1>5. FlowsOK' /\ ClientOK' /\ PlantOK' /\ CallInv' /\ PageInv' => IInv'
  BY TypesAfter DEF IInv
<1>6. ASSUME NEW d \in Dashboards, Open(d) PROVE IInv'
  <2>1. call[<<d, "init">>] = "none" /\ call[<<d, "poll">>] = "none"
        /\ call[<<d, "button">>] = "none"
    BY <1>3, <1>6 DEF Open
  <2>2. ClientOK'
    BY <1>1, <1>2, <1>3, <1>6, <2>1, MoveOutside DEF Open, Goto, Aside
  <2>3. FlowsOK' /\ PlantOK'
    BY <1>1, <1>6 DEF Open, OpenPage, FlowsOK, PlantOK, Shown
  <2>4. /\ page'[d] = "loading" /\ timer'[d] = "none" /\ poll'[d] = "none"
        /\ \A e \in Dashboards : e # d =>
             page'[e] = page[e] /\ timer'[e] = timer[e] /\ poll'[e] = poll[e]
    BY <1>1, <1>6 DEF Open, OpenPage, FlowsOK
  <2>5. Others(d, "init") /\ call'[<<d, "init">>] = "ensuring"
    BY <1>1, <1>3, <1>6, Elsewhere DEF Open, Goto, Aside
  <2>6. CallInv' /\ PageInv'
    <3>1. CallAt(d)'
      BY <1>1, <1>6, <2>1, <2>4, <2>5 DEF CallInv, CallAt, Others, Open, OpenPage
    <3>2. PageAt(d)'
      BY <2>4, <2>5 DEF PageAt
    <3>3. \A e \in Dashboards : e # d => button'[e] = button[e]
      BY <1>6 DEF Open, OpenPage
    <3>4. QED
      BY <1>1, <1>3, <2>4, <2>5, <3>1, <3>2, <3>3, Frame
  <2>7. QED
    BY <1>5, <2>2, <2>3, <2>6
<1>7. ASSUME NEW d \in Dashboards, Close(d) PROVE IInv'
  <2>1. FlowsOK'
    BY <1>1, <1>7, DisposeTypes DEF Close, ClosePage, FlowsOK
  <2>2. ClientOK' /\ PlantOK' /\ CallInv'
    BY <1>1, <1>7 DEF Close, ClosePage, client, plant, ClientOK, PlantOK, CallInv, CallAt
  <2>3. PageInv'
    BY <1>1, <1>7, DisposeKeeps DEF Close, ClosePage
  <2>4. QED
    BY <1>5, <2>1, <2>2, <2>3
<1>8. ASSUME NEW d \in Dashboards, Press(d) PROVE IInv'
  <2>1. call[<<d, "button">>] = "none"
    BY <1>1, <1>8 DEF Press, PressButton, CallInv, CallAt
  <2>2. ClientOK'
    BY <1>1, <1>2, <1>3, <1>8, <2>1, MoveOutside DEF Press, Goto, Aside
  <2>3. FlowsOK' /\ PlantOK'
    BY <1>1, <1>8 DEF Press, PressButton, FlowsOK, PlantOK
  <2>4. CallInv' /\ PageInv'
    BY <1>1, <1>2, <1>3, <1>4, <1>8 DEF Press, PressButton, Goto, Points, Aside, FlowsOK, CallInv, PageInv, CallAt, PageAt
  <2>5. QED
    BY <1>5, <2>2, <2>3, <2>4
<1>9. ASSUME NEW d \in Dashboards, Tick(d) PROVE IInv'
  <2>1. call[<<d, "poll">>] = "none" /\ call[<<d, "init">>] = "none"
    BY <1>1, <1>9 DEF Tick, TimerTicks, CallInv, PageInv, CallAt, PageAt
  <2>2. ClientOK'
    BY <1>1, <1>2, <1>3, <1>9, <2>1, MoveOutside DEF Tick, Goto, Aside
  <2>3. FlowsOK' /\ PlantOK'
    BY <1>1, <1>9 DEF Tick, TimerTicks, FlowsOK, PlantOK
  <2>4. CallInv' /\ PageInv'
    BY <1>1, <1>2, <1>3, <1>4, <1>9, <2>1 DEF Tick, TimerTicks, Goto, Points, Aside, FlowsOK, CallInv, PageInv, CallAt, PageAt
  <2>5. QED
    BY <1>5, <2>2, <2>3, <2>4
<1>10. ASSUME NEW d \in Dashboards, TickCancelled(d) PROVE IInv'
  <2>1. FlowsOK' /\ ClientOK' /\ PlantOK'
    BY <1>1, <1>10 DEF TickCancelled, PollCancelled, FlowsOK, ClientOK, PlantOK
  <2>2. CallInv' /\ PageInv'
    BY <1>1, <1>10 DEF TickCancelled, PollCancelled, FlowsOK, CallInv, PageInv, CallAt, PageAt
  <2>3. QED
    BY <1>5, <2>1, <2>2
<1>11. ASSUME NEW d \in Dashboards, CancelPoll(d) PROVE IInv'
  <2>1. call[<<d, "poll">>] # "none" /\ poll[d] = "reading" /\ call[<<d, "init">>] = "none"
    BY <1>1, <1>11 DEF CancelPoll, PollCancelled, CallInv, PageInv, CallAt, PageAt
  <2>2. ClientOK'
    <3>1. CASE call[<<d, "poll">>] = "exchanging"
      BY <1>1, <1>2, <1>3, <1>11, <3>1, MoveOut DEF CancelPoll, Goto, Aside, ReleaseOnCancel, ClientOK
    <3>2. CASE call[<<d, "poll">>] # "exchanging"
      BY <1>1, <1>2, <1>3, <1>11, <3>2, MoveOutside DEF CancelPoll, Goto, Aside, ReleaseOnCancel, ClientOK
    <3>3. QED
      BY <3>1, <3>2
  <2>3. FlowsOK' /\ PlantOK'
    BY <1>1, <1>11 DEF CancelPoll, PollCancelled, Goto, FlowsOK, PlantOK
  <2>4. CallInv' /\ PageInv'
    BY <1>1, <1>2, <1>3, <1>4, <1>11, <2>1 DEF CancelPoll, PollCancelled, Goto, FlowsOK, CallInv, PageInv, CallAt, PageAt
  <2>5. QED
    BY <1>5, <2>2, <2>3, <2>4
<1>12. ASSUME NEW d \in Dashboards, NEW t \in Tasks, Connect(d, t) PROVE IInv'
  <2>1. call[<<d, t>>] = "ensuring" /\ <<d, t>> \in Flows
    BY <1>2, <1>12 DEF Connect
  <2>2. PlantOK'
    <3>1. link' \in {"none", "up", "broken"}
      BY <1>1, <1>12 DEF Connect, PlantOK
    <3>2. QED
      BY <1>1, <1>12, <3>1 DEF Connect, PlantOK
  <2>3. CASE call' = [call EXCEPT ![<<d, t>>] = "waiting"] /\ UNCHANGED flows
    <3>1. ClientOK'
      BY <1>1, <1>12, <2>1, <2>3, MoveOutside DEF Connect, Aside
    <3>2. FlowsOK'
      BY <1>1, <2>3 DEF FlowsOK
    <3>3. CallInv' /\ PageInv'
      BY <1>1, <1>2, <1>3, <1>4, <2>1, <2>3 DEF CallInv, PageInv, CallAt, PageAt
    <3>4. QED
      BY <1>5, <2>2, <3>1, <3>2, <3>3
  <2>4. CASE Fail(d, t)
    <3>1. ClientOK'
      BY <1>1, <1>12, <2>1, <2>4, FailTypes, MoveOutside DEF Connect, Aside
    <3>2. FlowsOK' /\ CallInv' /\ PageInv'
      BY <1>1, <2>1, <2>4, FailTypes, FailKeeps
    <3>3. QED
      BY <1>5, <2>2, <3>1, <3>2
  <2>5. QED
    BY <1>12, <2>3, <2>4 DEF Connect, Goto
<1>13. ASSUME NEW d \in Dashboards, NEW t \in Tasks, BeginExchange(d, t) PROVE IInv'
  <2>1. call[<<d, t>>] = "waiting" /\ <<d, t>> \in Flows /\ lock = None
    BY <1>2, <1>13 DEF BeginExchange, LockFree
  <2>2. PlantOK'
    BY <1>1, <1>13 DEF BeginExchange, PlantOK
  <2>3. CASE /\ call' = [call EXCEPT ![<<d, t>>] = "exchanging"]
             /\ lock' = <<d, t>> /\ UNCHANGED flows
    <3>1. ClientOK'
      BY <1>1, <2>1, <2>3, DashboardAssumption DEF ClientOK, Points
    <3>2. FlowsOK'
      BY <1>1, <2>3 DEF FlowsOK
    <3>3. CallInv' /\ PageInv'
      BY <1>1, <1>2, <1>3, <1>4, <2>1, <2>3 DEF CallInv, PageInv, CallAt, PageAt
    <3>4. QED
      BY <1>5, <2>2, <3>1, <3>2, <3>3
  <2>4. CASE Fail(d, t) /\ lock' = lock
    <3>1. ClientOK'
      BY <1>1, <2>1, <2>4, FailTypes, MoveOutside DEF Aside
    <3>2. FlowsOK' /\ CallInv' /\ PageInv'
      BY <1>1, <2>1, <2>4, FailTypes, FailKeeps
    <3>3. QED
      BY <1>5, <2>2, <3>1, <3>2
  <2>5. QED
    BY <1>13, <2>3, <2>4 DEF BeginExchange, Goto
<1>14. ASSUME NEW d \in Dashboards, NEW t \in Tasks, EndExchange(d, t) PROVE IInv'
  <2>1. call[<<d, t>>] = "exchanging" /\ call[<<d, t>>] # "none" /\ <<d, t>> \in Flows
    BY <1>2, <1>14 DEF EndExchange
  <2>2. PlantOK'
    BY <1>1, <1>14 DEF EndExchange, PlantOK
  <2>3. (Fail(d, t) \/ Succeed(d, t)) /\ lock' = None
    BY <1>14 DEF EndExchange
  <2>4. ClientOK'
    BY <1>1, <2>1, <2>3, FailTypes, SucceedTypes, MoveOut DEF Aside
  <2>5. FlowsOK' /\ CallInv' /\ PageInv'
    BY <1>1, <2>1, <2>3, FailTypes, SucceedTypes, FailKeeps, SucceedKeeps
  <2>6. QED
    BY <1>5, <2>2, <2>4, <2>5
<1>15. ASSUME NEW d \in Dashboards, NEW t \in Tasks, ExchangeFails(d, t) PROVE IInv'
  <2>1. call[<<d, t>>] = "exchanging" /\ call[<<d, t>>] # "none" /\ <<d, t>> \in Flows
    BY <1>2, <1>15 DEF ExchangeFails
  <2>2. PlantOK'
    BY <1>1, <1>15 DEF ExchangeFails, PlantOK
  <2>3. ClientOK'
    BY <1>1, <1>15, <2>1, FailTypes, MoveOut DEF ExchangeFails, Aside
  <2>4. FlowsOK' /\ CallInv' /\ PageInv'
    BY <1>1, <1>15, <2>1, FailTypes, FailKeeps DEF ExchangeFails
  <2>5. QED
    BY <1>5, <2>2, <2>3, <2>4
<1>16. ASSUME NEW d \in Dashboards, NEW t \in Tasks, FindConnection(d, t) PROVE IInv'
  <2>1. call[<<d, t>>] = "ensuring" /\ <<d, t>> \in Flows
    BY <1>2, <1>16 DEF FindConnection
  <2>2. ClientOK'
    BY <1>1, <1>16, <2>1, MoveOutside DEF FindConnection, Goto, Aside
  <2>3. FlowsOK' /\ PlantOK'
    BY <1>1, <1>16 DEF FindConnection, FlowsOK, PlantOK
  <2>4. CallInv' /\ PageInv'
    BY <1>1, <1>2, <1>3, <1>4, <1>16, <2>1
       DEF FindConnection, Goto, CallInv, PageInv, CallAt, PageAt
  <2>5. QED
    BY <1>5, <2>2, <2>3, <2>4
<1>17. ASSUME NEW d \in Dashboards, NEW t \in Tasks, Serve(d, t) \/ Refuse(d, t) PROVE IInv'
  <2>1. UNCHANGED <<flows, call, lock>>
    BY <1>17 DEF Serve, Refuse
  <2>2. FlowsOK' /\ ClientOK' /\ CallInv' /\ PageInv'
    BY <1>1, <2>1 DEF FlowsOK, ClientOK, CallInv, PageInv, CallAt, PageAt
  <2>3. pump' \in BOOLEAN
    BY <1>1, <1>17 DEF Serve, Refuse, PlantOK
  <2>4. reply' \in {"none", "on", "off", "refused"}
    BY <1>17 DEF Serve, Refuse
  <2>5. PlantOK'
    BY <1>1, <1>17, <2>3, <2>4 DEF Serve, Refuse, PlantOK
  <2>6. QED
    BY <1>5, <2>2, <2>5
<1>18. ASSUME OtherClient \/ LinkFails \/ WorkerStops \/ WorkerStarts \/ UNCHANGED vars PROVE IInv'
  <2>1. UNCHANGED <<flows, call, lock>>
    BY <1>18 DEF OtherClient, LinkFails, WorkerStops, WorkerStarts, vars
  <2>2. FlowsOK' /\ ClientOK' /\ CallInv' /\ PageInv'
    BY <1>1, <2>1 DEF FlowsOK, ClientOK, CallInv, PageInv, CallAt, PageAt
  <2>3. PlantOK'
    BY <1>1, <1>18 DEF OtherClient, LinkFails, WorkerStops, WorkerStarts, vars, PlantOK
  <2>4. QED
    BY <1>5, <2>2, <2>3
<1>19. QED
  BY <1>6, <1>7, <1>8, <1>9, <1>10, <1>11, <1>12, <1>13, <1>14, <1>15, <1>16, <1>17, <1>18
     DEF Next, PollLoop, Acquire, Proceed

(* At most one flow is inside an exchange, the one that holds the lock, and    *)
(* every variable has its type, for any number of pages.                       *)
THEOREM TypeCorrect == Spec => []TypeOK
<1>1. IInv => TypeOK
  BY DEF IInv
<1>2. QED
  BY <1>1, InitIInv, StepIInv, PTL DEF Spec

(* The polling of a page follows it whatever its flows and those of the other   *)
(* pages are doing, and whatever the Worker and the link to it do: the timer    *)
(* runs while the page is open and is cancelled when it is closed, and the      *)
(* poll loop of an open page ends by an exception only (Home.razor:104-107,     *)
(* 138-146).                                                                    *)
THEOREM PollingFollows == Spec => []PollingFollowsPage
<1>1. IInv => PollingFollowsPage
  BY DEF IInv, PageInv, PageAt, PollingFollowsPage
<1>2. QED
  BY <1>1, InitIInv, StepIInv, PTL DEF Spec
=============================================================================
