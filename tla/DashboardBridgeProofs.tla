------------------------- MODULE DashboardBridgeProofs -------------------------
(***************************************************************************)
(* The pages over the bridge implement HomeDashboard, for any number of    *)
(* pages and of connections and every bound on calls and failures.  The    *)
(* invariants of the client and of the bridge are reused: a step of the    *)
(* pages is one of the bridge.  Over them each step is mapped to the one   *)
(* of HomeDashboard it is, or to none.                                     *)
(***************************************************************************)
EXTENDS DashboardBridge, PlcBridgeProofs

Buttons == [Dashboards -> {"idle", "start", "stop", "refresh"}]

(* The types that the pages' side of the mapping needs                         *)
PagesOK ==
  /\ button \in Buttons
  /\ told \in [Callers -> BOOLEAN \union {None}]

(* What is under way is the command that the page wants: the line a button     *)
(* handler has sent is that of the button it handles.                          *)
CommandInv ==
  \A d \in Dashboards, t \in Tasks :
    pc[<<d, t>>] # "idle" => asked[Request(<<d, t>>)] = Wanted(d, t)

(* The service is not disposed of; while a call connects there is no           *)
(* connection, and while it exchanges there is one.                            *)
ServiceInv ==
  /\ ~disposed
  /\ \A c \in Callers :
       /\ pc[c] = "connecting" => client \notin Conns
       /\ pc[c] \in Exchange => client \in Conns

HmiInv == BridgeInv /\ PagesOK /\ CommandInv /\ ServiceInv

-------------------------------------------------------------------------------
LEMMA FlowCallers ==
  /\ \A d \in Dashboards, t \in Tasks :
       <<d, t>> \in Callers /\ <<d, t>>[1] = d /\ <<d, t>>[2] = t
  /\ \A c \in Callers : c[1] \in Dashboards /\ c[2] \in Tasks /\ c = <<c[1], c[2]>>
  /\ None \notin Callers
  BY HmiAssumption, ServiceAssumption DEF Flows

(* To the bridge, a step of the pages is one of its own.                       *)
LEMMA StepBridge == [HmiNext]_hmi => [BridgeNext]_bridge
<1> SUFFICES ASSUME [HmiNext]_hmi PROVE [BridgeNext]_bridge
  OBVIOUS
<1>1. ASSUME NEW d \in Dashboards, NEW t \in Tasks, Call(<<d, t>>) PROVE BridgeNext
  BY <1>1, FlowCallers DEF BridgeNext
<1>2. "init" \in Tasks /\ "poll" \in Tasks /\ "button" \in Tasks
  BY DEF Tasks
<1>3. ASSUME NEW d \in Dashboards, Open(d) \/ Press(d) \/ Refresh(d) \/ Tick(d)
      PROVE  BridgeNext
  BY <1>1, <1>2, <1>3 DEF Open, Press, Refresh, Tick, Ask
<1>4. ASSUME NEW d \in Dashboards, Close(d) \/ TickCancelled(d) PROVE UNCHANGED bridge
  BY <1>4 DEF Close, TickCancelled
<1>5. ASSUME NEW d \in Dashboards, CancelPoll(d) PROVE BridgeNext
  <2>1. Continue(<<d, "poll">>)
    BY <1>5 DEF CancelPoll, Continue
  <2>2. QED
    BY <1>2, <2>1, FlowCallers DEF BridgeNext
<1>6. ASSUME NEW d \in Dashboards, NEW t \in Tasks, GetsLine(d, t) \/ Works(d, t) \/ Throws(d, t)
      PROVE  BridgeNext
  <2>1. Answer(<<d, t>>) \/ Continue(<<d, t>>)
    BY <1>6 DEF GetsLine, Works, Throws, Continue, Acquire
  <2>2. QED
    BY <2>1, FlowCallers DEF BridgeNext
<1>7. CASE WorkerNext
  BY <1>7 DEF WorkerNext, Breaks, BridgeNext, Elsewhere
<1>8. CASE UNCHANGED hmi
  BY <1>8 DEF hmi
<1>9. QED
  BY <1>3, <1>4, <1>5, <1>6, <1>7, <1>8 DEF HmiNext, PageNext
-------------------------------------------------------------------------------
(* What the steps of a call leave of the calls, and of what they ask.          *)
LEMMA OneCall ==
  ASSUME NEW c \in Callers, Answer(c) \/ Continue(c),
         pc \in [Callers -> Points]
  PROVE  /\ UNCHANGED <<made, asked>>
         /\ pc[c] # "idle"
         /\ \A x \in Callers : x # c => pc'[x] = pc[x]
<1>1. CASE Answer(c)
  BY <1>1 DEF Answer, Read, Return, Goto
<1>2. CASE Continue(c)
  <2>1. UNCHANGED made /\ pc[c] # "idle"
    BY <1>2 DEF Continue, Acquire, WaitFails, AlreadyConnected, NeedsConnection, ConnectSucceeds,
         ConnectFails, Write, ExchangeFails, FindConnected, StartConnecting, BeginExchange,
         FindChannelGone, Waiting, Exchange
  <2>2. \E point \in Points : pc' = [pc EXCEPT ![c] = point]
    BY <1>2 DEF Continue, Acquire, WaitFails, AlreadyConnected, NeedsConnection, ConnectSucceeds,
         ConnectFails, Write, ExchangeFails, Rethrow, FindConnected, StartConnecting,
         BeginExchange, FindChannelGone, Return, Goto, Points, Unsent, Waiting
  <2>3. QED
    BY <1>2, <2>1, <2>2 DEF Continue, Records
<1>3. QED
  BY <1>1, <1>2

(* A flow asks what its page wants.                                            *)
LEMMA AskCommand ==
  ASSUME HmiInv, NEW d \in Dashboards, NEW t \in Tasks, NEW command, Ask(d, t, command),
         command = Wanted(d, t)',
         \A e \in Dashboards : e # d \/ t # "button" => button'[e] = button[e]
  PROVE  CommandInv'
<1> DEFINE c == <<d, t>>
<1> SUFFICES ASSUME NEW e \in Dashboards, NEW u \in Tasks, pc'[<<e, u>>] # "idle"
             PROVE  asked'[Request(<<e, u>>)'] = Wanted(e, u)'
  BY DEF CommandInv
<1>0. /\ pc \in [Callers -> Points] /\ made \in [Callers -> 0..MaxCalls]
      /\ asked \in [Requests -> P!PlantCommands \union {None}] /\ MaxCalls \in Nat
  BY ServiceAssumption DEF HmiInv, BridgeInv, IInv, TypeOK, CallsTypeOK, DataInv, DataTypes
<1>1. c \in Callers /\ <<e, u>> \in Callers
  BY FlowCallers
<1>2. /\ pc' = [pc EXCEPT ![c] = "ensure"] /\ made' = [made EXCEPT ![c] = made[c] + 1]
      /\ made[c] < MaxCalls
      /\ asked' = [asked EXCEPT ![Request(c)'] = command]
  BY DEF Ask, Call, Invoke, Goto
<1>3. Request(c)' = <<c, made[c] + 1>> /\ Request(c)' \in Requests
  BY <1>0, <1>1, <1>2 DEF Request, Requests
<1>4. CASE <<e, u>> = c
  <2>1. e = d /\ u = t
    BY <1>4
  <2>2. QED
    BY <1>0, <1>2, <1>3, <2>1
<1>5. CASE <<e, u>> # c
  <2>1. pc'[<<e, u>>] = pc[<<e, u>>] /\ made'[<<e, u>>] = made[<<e, u>>]
    BY <1>0, <1>1, <1>2, <1>5
  <2>2. Request(<<e, u>>)' = Request(<<e, u>>) /\ Request(<<e, u>>) # Request(c)'
    BY <1>3, <1>5, <2>1 DEF Request
  <2>3. asked'[Request(<<e, u>>)'] = asked[Request(<<e, u>>)]
    BY <1>0, <1>2, <1>3, <2>2
  <2>4. Wanted(e, u)' = Wanted(e, u)
    BY <1>5 DEF Wanted, Commanding
  <2>5. QED
    BY <2>1, <2>3, <2>4 DEF HmiInv, CommandInv
<1>6. QED
  BY <1>4, <1>5

(* The other steps leave what is asked, and a button that is handled.          *)
LEMMA MoveCommand ==
  ASSUME CommandInv, NEW d \in Dashboards, NEW t \in Tasks, UNCHANGED <<made, asked>>,
         \A x \in Callers : x # <<d, t>> => pc'[x] = pc[x],
         pc[<<d, t>>] # "idle",
         \A e \in Dashboards :
           e # d \/ t # "button" \/ pc'[<<d, t>>] # "idle" => button'[e] = button[e]
  PROVE  CommandInv'
<1> SUFFICES ASSUME NEW e \in Dashboards, NEW u \in Tasks, pc'[<<e, u>>] # "idle"
             PROVE  asked'[Request(<<e, u>>)'] = Wanted(e, u)'
  BY DEF CommandInv
<1>1. pc[<<e, u>>] # "idle"
  BY FlowCallers
<1>2. Wanted(e, u)' = Wanted(e, u)
  BY DEF Wanted, Commanding
<1>3. Request(<<e, u>>)' = Request(<<e, u>>)
  BY DEF Request
<1>4. QED
  BY <1>1, <1>2, <1>3 DEF CommandInv
-------------------------------------------------------------------------------
(* Of the buttons, the end of a call touches that of its own flow at most.     *)
LEMMA ButtonAfter ==
  ASSUME button \in Buttons, NEW d \in Dashboards, NEW t \in Tasks, NEW on \in BOOLEAN,
         CallReturns(d, t, on) \/ CallThrows(d, t)
  PROVE  /\ button' \in Buttons
         /\ \A e \in Dashboards : e # d \/ t # "button" => button'[e] = button[e]
<1>1. CASE CallReturns(d, t, on)
  <2>1. CASE button' = button
    BY <2>1
  <2>2. CASE t = "button" /\ \E b \in {"idle", "refresh"} : button' = [button EXCEPT ![d] = b]
    BY <2>2 DEF Buttons
  <2>3. QED
    BY <1>1, <2>1, <2>2 DEF CallReturns, Commanding
<1>2. CASE CallThrows(d, t)
  <2>1. CASE t = "poll"
    BY <1>2, <2>1 DEF CallThrows
  <2>2. CASE t # "poll"
    BY <1>2, <2>2 DEF CallThrows, Buttons
  <2>3. QED
    BY <2>1, <2>2
<1>3. QED
  BY <1>1, <1>2

LEMMA ServiceStep ==
  ASSUME IInv, ServiceInv, [Next]_vars, ~disposed'
  PROVE  ServiceInv'
<1> SUFFICES ASSUME NEW c \in Callers
             PROVE  /\ pc'[c] = "connecting" => client' \notin Conns
                    /\ pc'[c] \in Exchange => client' \in Conns
  BY DEF ServiceInv
<1> USE DEF service, calls, link, peer
<1>0. /\ pc \in [Callers -> Points] /\ LockInv /\ FieldsInv
      /\ channel \in Conns \union {None} /\ client \in Conns \union {None, Fresh}
      /\ None \notin Callers \union Conns /\ Fresh \notin Conns
  BY ServiceAssumption DEF IInv, TypeOK, CallsTypeOK, ServiceTypeOK
<1>1. /\ pc[c] = "connecting" => client \notin Conns /\ lock = c
      /\ pc[c] \in Exchange => client \in Conns /\ lock = c
  BY <1>0 DEF ServiceInv, LockInv, Locked
<1>2. ASSUME NEW x \in Callers, Invoke(x) \/ AlreadyConnected(x) \/ NeedsConnection(x)
                               \/ FindConnected(x) \/ ConnectFails(x) \/ Read(x) \/ WaitFails(x)
      PROVE  client' = client /\ (pc'[c] = pc[c] \/ pc'[c] \in {"ensure", "waitIO", "waitConnect", "idle"})
  BY <1>0, <1>2 DEF Invoke, AlreadyConnected, NeedsConnection, FindConnected, ConnectFails, Read,
              WaitFails, Return, Goto
<1>3. ASSUME NEW x \in Callers, StartConnecting(x)
      PROVE  pc'[c] \notin Exchange /\ client' = Fresh
  BY <1>0, <1>1, <1>3 DEF StartConnecting, NewTcpClient, LockFree, Goto, Exchange
<1>4. ASSUME NEW x \in Callers, ConnectSucceeds(x) \/ FindChannelGone(x) \/ ExchangeFails(x)
      PROVE  pc'[c] # "connecting" /\ pc'[c] \notin Exchange
  <2>1. lock = x \/ lock = None
    BY <1>0, <1>4 DEF ConnectSucceeds, FindChannelGone, ExchangeFails, LockInv, Locked, LockFree
  <2>2. c # x => pc'[c] = pc[c] /\ pc[c] # "connecting" /\ pc[c] \notin Exchange
    BY <1>0, <1>1, <1>4, <2>1 DEF ConnectSucceeds, FindChannelGone, ExchangeFails, Rethrow, Return, Goto
  <2>3. pc'[x] \in {"idle", "waitIO"}
    BY <1>0, <1>4 DEF ConnectSucceeds, FindChannelGone, ExchangeFails, Rethrow, Return, Goto
  <2>4. QED
    BY <2>2, <2>3 DEF Exchange
<1>5. ASSUME NEW x \in Callers, BeginExchange(x) \/ Write(x)
      PROVE  /\ client' = client
             /\ pc'[c] = "connecting" => pc[c] = "connecting"
             /\ pc'[c] \in Exchange => client \in Conns
  <2>1. client' = client /\ client \in Conns
    BY <1>0, <1>5 DEF BeginExchange, Write, FieldsInv
  <2>2. pc'[c] = "connecting" => pc[c] = "connecting"
    BY <1>0, <1>5 DEF BeginExchange, Write, Goto
  <2>3. QED
    BY <2>1, <2>2
<1>6. ASSUME PeerNext \/ UNCHANGED vars PROVE client' = client /\ pc' = pc
  BY <1>6 DEF PeerNext, PeerServes, LinkFails, PeerCloses, StopListening, StartListening, vars
<1>7. ~Dispose
  BY DEF Dispose
<1>8. {"ensure", "waitIO", "waitConnect", "idle"} \intersect (Exchange \union {"connecting"}) = {}
  BY DEF Exchange
<1>9. QED
  BY <1>0, <1>1, <1>2, <1>3, <1>4, <1>5, <1>6, <1>7, <1>8
     DEF Next, ClientNext, Acquire, Proceed
-------------------------------------------------------------------------------
LEMMA InitHmiInv == HmiInit => HmiInv
<1> SUFFICES ASSUME HmiInit PROVE HmiInv
  OBVIOUS
<1>1. BridgeInv
  BY DataInit DEF HmiInit
<1>2. PagesOK
  BY DEF HmiInit, FlowsInit, BridgeInit, PagesOK, Buttons
<1>3. \A c \in Callers : pc[c] = "idle"
  BY DEF HmiInit, BridgeInit, Init
<1>4. CommandInv
  BY <1>3, FlowCallers DEF CommandInv
<1>5. ServiceInv
  BY <1>3 DEF ServiceInv, Exchange, HmiInit, BridgeInit, Init
<1>6. QED
  BY <1>1, <1>2, <1>4, <1>5 DEF HmiInv

LEMMA StepHmiInv == HmiInv /\ [HmiNext]_hmi => HmiInv'
<1> SUFFICES ASSUME HmiInv, [HmiNext]_hmi PROVE HmiInv'
  OBVIOUS
<1>0. "init" \in Tasks /\ "poll" \in Tasks /\ "button" \in Tasks
  BY DEF Tasks
<1>1. /\ BridgeInv /\ IInv /\ CommandInv /\ ServiceInv
      /\ button \in Buttons /\ told \in [Callers -> BOOLEAN \union {None}]
      /\ pc \in [Callers -> Points]
  BY DEF HmiInv, PagesOK, BridgeInv, IInv, TypeOK, CallsTypeOK
<1>2. BridgeInv'
  BY <1>1, StepBridge, StepBridgeInv
<1>3. \A d \in Dashboards : Wanted(d, "init")' = "GET_STATUS" /\ Wanted(d, "poll")' = "GET_STATUS"
  BY DEF Wanted, Commanding
<1>4. ASSUME PagesOK', CommandInv', ~disposed' PROVE HmiInv'
  <2>1. [Next]_vars
    BY StepBridge, StepClient
  <2>2. QED
    BY <1>1, <1>2, <1>4, <2>1, ServiceStep DEF HmiInv
<1>5. ASSUME NEW d \in Dashboards, NEW t \in Tasks, NEW command, Ask(d, t, command),
             command = Wanted(d, t)', button' \in Buttons,
             \A e \in Dashboards : e # d \/ t # "button" => button'[e] = button[e]
      PROVE  HmiInv'
  <2>1. told' = told /\ ~disposed'
    BY <1>1, <1>5 DEF Ask, Call, Invoke, service, ServiceInv
  <2>2. CommandInv'
    BY <1>5, AskCommand
  <2>3. QED
    BY <1>1, <1>4, <1>5, <2>1, <2>2 DEF PagesOK
<1>6. ASSUME NEW d \in Dashboards, NEW t \in Tasks, Answer(<<d, t>>) \/ Continue(<<d, t>>),
             button' \in Buttons,
             \A e \in Dashboards :
               e # d \/ t # "button" \/ pc'[<<d, t>>] # "idle" => button'[e] = button[e]
      PROVE  HmiInv'
  <2>1. <<d, t>> \in Callers
    BY FlowCallers
  <2>2. /\ UNCHANGED <<made, asked>> /\ pc[<<d, t>>] # "idle"
        /\ \A x \in Callers : x # <<d, t>> => pc'[x] = pc[x]
    BY <1>1, <1>6, <2>1, OneCall
  <2>3. CommandInv'
    BY <1>1, <1>6, <2>2, MoveCommand
  <2>4. ~disposed'
    BY <1>1, <1>6 DEF Answer, Read, Continue, Acquire, WaitFails, AlreadyConnected, NeedsConnection,
         ConnectSucceeds, ConnectFails, Write, ExchangeFails, FindConnected, StartConnecting,
         BeginExchange, FindChannelGone, service, ServiceInv
  <2>5. told' \in [Callers -> BOOLEAN \union {None}]
    BY <1>1, <1>6 DEF Answer, GiveResult, ParsedPump, Continue, Records
  <2>6. QED
    BY <1>4, <1>6, <2>3, <2>4, <2>5 DEF PagesOK
<1>7. ASSUME UNCHANGED <<pc, made, asked, told, disposed, button>> PROVE HmiInv'
  <2>1. CommandInv'
    BY <1>1, <1>7 DEF CommandInv, Wanted, Commanding, Request
  <2>2. QED
    BY <1>1, <1>4, <1>7, <2>1 DEF PagesOK, ServiceInv
<1>8. ASSUME NEW d \in Dashboards, Open(d) PROVE HmiInv'
  BY <1>0, <1>1, <1>3, <1>5, <1>8 DEF Open, OpenPage
<1>9. ASSUME NEW d \in Dashboards, Press(d) PROVE HmiInv'
  <2>1. button' \in Buttons /\ \A e \in Dashboards : e # d => button'[e] = button[e]
    BY <1>1, <1>9 DEF Press, PressButton, Buttons
  <2>2. QED
    BY <1>0, <1>5, <1>9, <2>1 DEF Press
<1>10. ASSUME NEW d \in Dashboards, Refresh(d) PROVE HmiInv'
  <2>1. button' = button /\ Wanted(d, "button")' = "GET_STATUS"
    BY <1>10 DEF Refresh, flows, Wanted, Commanding
  <2>2. QED
    BY <1>0, <1>1, <1>5, <1>10, <2>1 DEF Refresh
<1>11. ASSUME NEW d \in Dashboards, Tick(d) PROVE HmiInv'
  BY <1>0, <1>1, <1>3, <1>5, <1>11 DEF Tick, TimerTicks
<1>12. ASSUME NEW d \in Dashboards, CancelPoll(d) PROVE HmiInv'
  <2>1. Continue(<<d, "poll">>) /\ button' = button
    BY <1>12 DEF CancelPoll, Continue, PollCancelled
  <2>2. QED
    BY <1>0, <1>1, <1>6, <2>1
<1>13. ASSUME NEW d \in Dashboards, NEW t \in Tasks, Works(d, t) PROVE HmiInv'
  <2>1. Continue(<<d, t>>) /\ button' = button
    BY <1>13 DEF Works, Continue, Acquire, flows
  <2>2. QED
    BY <1>1, <1>6, <2>1
<1>14. ASSUME NEW d \in Dashboards, NEW t \in Tasks, GetsLine(d, t) \/ Throws(d, t) PROVE HmiInv'
  <2>1. /\ Answer(<<d, t>>) \/ Continue(<<d, t>>)
        /\ (\E on \in BOOLEAN : CallReturns(d, t, on)) \/ CallThrows(d, t)
    BY <1>14 DEF GetsLine, Throws, Continue, Acquire
  <2>2. <<d, t>> \in Callers /\ pc'[<<d, t>>] = "idle"
    BY <1>1, <1>14, FlowCallers
       DEF GetsLine, Throws, Answer, Read, ConnectFails, FindChannelGone, ExchangeFails, Rethrow,
           Return, Goto
  <2>3. /\ button' \in Buttons
        /\ \A e \in Dashboards : e # d \/ t # "button" => button'[e] = button[e]
    BY <1>1, <2>1, ButtonAfter
  <2>4. QED
    BY <1>6, <2>1, <2>2, <2>3
<1>15. ASSUME NEW d \in Dashboards, Close(d) \/ TickCancelled(d) PROVE HmiInv'
  <2>1. UNCHANGED <<bridge, button>>
    BY <1>15 DEF Close, ClosePage, TickCancelled, PollCancelled
  <2>2. QED
    BY <1>7, <2>1 DEF bridge, vars, service, calls, data
<1>16. CASE WorkerNext
  <2>1. UNCHANGED <<pc, made, asked, told, disposed, button>>
    BY <1>16 DEF WorkerNext, Breaks, Serve, WorkerRestarts, StopListening, StartListening, LinkFails,
                 PeerCloses, PeerServes, service, calls, data, flows
  <2>2. QED
    BY <1>7, <2>1
<1>17. CASE UNCHANGED hmi
  BY <1>7, <1>17 DEF hmi, bridge, vars, service, calls, data, flows
<1>18. QED
  BY <1>8, <1>9, <1>10, <1>11, <1>12, <1>13, <1>14, <1>15, <1>16, <1>17 DEF HmiNext, PageNext

-------------------------------------------------------------------------------
(* The two specifications have the parts of steps that concern a page in       *)
(* common.                                                                     *)
LEMMA SamePage ==
  /\ Dash!Tasks = Tasks /\ Dash!Flows = Callers /\ Dash!flows = flows
  /\ \A d \in Dashboards :
       /\ OpenPage(d) => Dash!OpenPage(d)
       /\ ClosePage(d) => Dash!ClosePage(d)
       /\ PressButton(d) => Dash!PressButton(d)
       /\ TimerTicks(d) => Dash!TimerTicks(d)
       /\ PollCancelled(d) => Dash!PollCancelled(d)
       /\ \A t \in Tasks :
            /\ Commanding(d, t) <=> Dash!Commanding(d, t)
            /\ CallThrows(d, t) => Dash!CallThrows(d, t)
<1>1. Dash!Tasks = Tasks /\ Dash!Flows = Callers /\ Dash!flows = flows /\ Dash!Shown = Shown
  BY HmiAssumption DEF Dash!Tasks, Tasks, Dash!Flows, Flows, Dash!flows, flows, Dash!Shown, Shown
<1>2. ASSUME NEW d \in Dashboards
      PROVE  /\ OpenPage(d) => Dash!OpenPage(d)
             /\ ClosePage(d) => Dash!ClosePage(d)
             /\ PressButton(d) => Dash!PressButton(d)
             /\ TimerTicks(d) => Dash!TimerTicks(d)
             /\ PollCancelled(d) => Dash!PollCancelled(d)
  BY <1>1 DEF OpenPage, Dash!OpenPage, ClosePage, Dash!ClosePage, DisposePage, Dash!DisposePage,
         StopTimer, Dash!StopTimer, PressButton, Dash!PressButton, TimerTicks, Dash!TimerTicks,
         PollCancelled, Dash!PollCancelled
<1>3. ASSUME NEW d \in Dashboards, NEW t \in Tasks
      PROVE  /\ Commanding(d, t) <=> Dash!Commanding(d, t)
             /\ CallThrows(d, t) => Dash!CallThrows(d, t)
  BY <1>1 DEF Commanding, Dash!Commanding, CallThrows, Dash!CallThrows, CircuitEnds, Dash!CircuitEnds,
         DisposePage, Dash!DisposePage, StopTimer, Dash!StopTimer
<1>4. QED
  BY <1>1, <1>2, <1>3

(* What a status says matters to the call that reads one only.                 *)
LEMMA SameReturn ==
  ASSUME NEW d \in Dashboards, NEW t \in Tasks, NEW on \in BOOLEAN, NEW other \in BOOLEAN,
         CallReturns(d, t, on), Commanding(d, t) \/ other = on
  PROVE  Dash!CallReturns(d, t, other)
<1>1. CASE Commanding(d, t)
  BY <1>1 DEF CallReturns, Dash!CallReturns, Commanding, Dash!Commanding
<1>2. CASE other = on
  BY <1>2 DEF CallReturns, Dash!CallReturns, Commanding, Dash!Commanding
<1>3. QED
  BY <1>1, <1>2

(* The points of a call, as the pages see them                                 *)
LEMMA SeenPoints ==
  ASSUME NEW d \in Dashboards, NEW t \in Tasks
  PROVE  /\ pc[<<d, t>>] \in Exchange => CallOf[<<d, t>>] = "exchanging"
         /\ pc[<<d, t>>] = "waitIO" => CallOf[<<d, t>>] = "waiting"
         /\ pc[<<d, t>>] \in {"ensure", "waitConnect", "connecting"} => CallOf[<<d, t>>] = "ensuring"
         /\ pc[<<d, t>>] = "idle" =>
              CallOf[<<d, t>>] = IF t = "button" /\ button[d] = "refresh" THEN "ensuring" ELSE "none"
<1>1. CallOf[<<d, t>>] = PointOf(<<d, t>>)
  BY FlowCallers DEF CallOf
<1>2. QED
  BY <1>1 DEF PointOf, Exchange

LEMMA SeenPointsAfter ==
  ASSUME NEW d \in Dashboards, NEW t \in Tasks
  PROVE  /\ pc'[<<d, t>>] \in Exchange => CallOf'[<<d, t>>] = "exchanging"
         /\ pc'[<<d, t>>] = "waitIO" => CallOf'[<<d, t>>] = "waiting"
         /\ pc'[<<d, t>>] \in {"ensure", "waitConnect", "connecting"} => CallOf'[<<d, t>>] = "ensuring"
         /\ pc'[<<d, t>>] = "idle" =>
              CallOf'[<<d, t>>] = IF t = "button" /\ button'[d] = "refresh" THEN "ensuring" ELSE "none"
<1>1. CallOf'[<<d, t>>] = PointOf(<<d, t>>)'
  BY FlowCallers DEF CallOf
<1>2. QED
  BY <1>1 DEF PointOf, Exchange

(* A flow moves, and the others stay where they are.                           *)
LEMMA SeenMove ==
  ASSUME NEW d \in Dashboards, NEW t \in Tasks,
         \A x \in Callers : x # <<d, t>> => pc'[x] = pc[x],
         \A e \in Dashboards : e # d \/ t # "button" => button'[e] = button[e]
  PROVE  CallOf' = [CallOf EXCEPT ![<<d, t>>] = CallOf'[<<d, t>>]]
<1>1. ASSUME NEW x \in Callers, x # <<d, t>> PROVE PointOf(x)' = PointOf(x)
  <2>1. pc'[x] = pc[x]
    BY <1>1
  <2>2. x[2] = "button" => button'[x[1]] = button[x[1]]
    BY <1>1, FlowCallers
  <2>3. QED
    BY <2>1, <2>2 DEF PointOf
<1>2. QED
  BY <1>1, FlowCallers DEF CallOf

(* A step that leaves the calls and the buttons is not seen in the calls.      *)
LEMMA SeenStill == UNCHANGED <<pc, button>> => UNCHANGED CallOf
  BY DEF CallOf, PointOf

(* The lock, the link and the reply that a step leaves as they are             *)
LEMMA LockKept ==
  ASSUME NEW c \in Callers, lock' = lock, \A x \in Callers : x # c => pc'[x] = pc[x],
         pc'[c] \in Exchange <=> pc[c] \in Exchange
  PROVE  LockOf' = LockOf
  BY DEF LockOf

LEMMA LinkKept == UNCHANGED <<client, open>> => UNCHANGED LinkOf
  BY DEF LinkOf

LEMMA ReplyKept == UNCHANGED <<client, toClient, seen>> => UNCHANGED ReplyOf
  BY DEF ReplyOf

(* What the mapping shows of a call, by where it is                            *)
LEMMA Views ==
  ASSUME HmiInv, NEW c \in Callers
  PROVE  /\ pc[c] \in Exchange => lock = c /\ LockOf = c /\ client \in Conns /\ channel = client
         /\ pc[c] = "connecting" => lock = c /\ LockOf = None /\ LinkOf = "none"
         /\ lock = None => LockOf = None
         /\ client \in Conns <=> LinkOf # "none"
         /\ channel # None <=> client \in Conns
<1>1. LockInv /\ FieldsInv /\ ServiceInv /\ None \notin Callers /\ None \notin Conns
  BY ServiceAssumption DEF HmiInv, BridgeInv, IInv
<1>2. pc[c] \in Exchange \union {"connecting"} => lock = c
  BY <1>1 DEF LockInv, Locked
<1>3. pc[c] \in Exchange => client \in Conns
  BY <1>1 DEF ServiceInv
<1>4. pc[c] = "connecting" => client \notin Conns /\ pc[c] \notin Exchange
  BY <1>1 DEF ServiceInv, Exchange
<1>5. client \in Conns <=> LinkOf # "none"
  BY DEF LinkOf
<1>6. (channel # None <=> client \in Conns) /\ (client \in Conns => channel = client)
  BY <1>1 DEF FieldsInv
<1>7. QED
  BY <1>1, <1>2, <1>3, <1>4, <1>5, <1>6 DEF LockOf

(* A flow that makes a call is at its start, and nothing else is seen of it.   *)
LEMMA SeenAsk ==
  ASSUME HmiInv, NEW d \in Dashboards, NEW t \in Tasks, NEW command, Ask(d, t, command),
         \A e \in Dashboards : e # d \/ t # "button" => button'[e] = button[e]
  PROVE  /\ pc[<<d, t>>] = "idle"
         /\ CallOf' = [CallOf EXCEPT ![<<d, t>>] = "ensuring"]
         /\ UNCHANGED <<LockOf, LinkOf, ReplyOf, listening, pump>>
<1>1. <<d, t>> \in Callers /\ pc \in [Callers -> Points]
  BY FlowCallers DEF HmiInv, BridgeInv, IInv, TypeOK, CallsTypeOK
<1>2. /\ pc[<<d, t>>] = "idle" /\ pc' = [pc EXCEPT ![<<d, t>>] = "ensure"]
      /\ UNCHANGED <<lock, client, open, toClient, seen, listening, pump>>
  BY DEF Ask, Call, Invoke, Goto, service, link, peer
<1>3. /\ \A x \in Callers : x # <<d, t>> => pc'[x] = pc[x]
      /\ pc'[<<d, t>>] = "ensure"
  BY <1>1, <1>2
<1>4. CallOf' = [CallOf EXCEPT ![<<d, t>>] = "ensuring"]
  BY <1>3, SeenMove, SeenPointsAfter
<1>5. LockOf' = LockOf
  BY <1>1, <1>2, <1>3, LockKept DEF Exchange
<1>6. QED
  BY <1>2, <1>4, <1>5, LinkKept, ReplyKept

-------------------------------------------------------------------------------
(* The steps of the pages, one by one                                          *)
LEMMA MapAsks ==
  ASSUME HmiInv, NEW d \in Dashboards, Open(d) \/ Press(d) \/ Tick(d)
  PROVE  Dash!Next
<1>0. "init" \in Tasks /\ "poll" \in Tasks /\ "button" \in Tasks
  BY DEF Tasks
<1>1. CASE Open(d)
  <2>1. /\ CallOf' = [CallOf EXCEPT ![<<d, "init">>] = "ensuring"]
        /\ UNCHANGED <<LockOf, LinkOf, ReplyOf, listening, pump>>
    BY <1>0, <1>1, SeenAsk DEF Open, OpenPage
  <2>2. \A t \in Tasks : CallOf[<<d, t>>] = "none"
    BY <1>1, SeenPoints DEF Open
  <2>3. Dash!Open(d)
    BY <1>1, <2>1, <2>2, SamePage DEF Open, Dash!Open, Dash!Goto, Dash!plant
  <2>4. QED
    BY <2>3 DEF Dash!Next
<1>2. CASE Press(d)
  <2>1. \A e \in Dashboards : e # d => button'[e] = button[e]
    BY <1>2 DEF Press, PressButton, HmiInv, PagesOK, Buttons
  <2>2. /\ CallOf' = [CallOf EXCEPT ![<<d, "button">>] = "ensuring"]
        /\ UNCHANGED <<LockOf, LinkOf, ReplyOf, listening, pump>>
    BY <1>0, <1>2, <2>1, SeenAsk DEF Press
  <2>3. Dash!Press(d)
    BY <1>2, <2>2, SamePage DEF Press, Dash!Press, Dash!Goto, Dash!plant
  <2>4. QED
    BY <2>3 DEF Dash!Next
<1>3. CASE Tick(d)
  <2>1. /\ CallOf' = [CallOf EXCEPT ![<<d, "poll">>] = "ensuring"]
        /\ UNCHANGED <<LockOf, LinkOf, ReplyOf, listening, pump>>
    BY <1>0, <1>3, SeenAsk DEF Tick, TimerTicks
  <2>2. Dash!Tick(d)
    BY <1>3, <2>1, SamePage DEF Tick, Dash!Tick, Dash!Goto, Dash!plant
  <2>3. QED
    BY <2>2 DEF Dash!Next, Dash!PollLoop
<1>4. QED
  BY <1>1, <1>2, <1>3

(* A handler that has had its command done is seen as about to read the status. *)
LEMMA MapRefresh ==
  ASSUME HmiInv, NEW d \in Dashboards, Refresh(d)
  PROVE  UNCHANGED Dash!vars
<1>1. "button" \in Tasks /\ <<d, "button">> \in Callers
  BY FlowCallers DEF Tasks
<1>2. UNCHANGED flows /\ button' = button
  BY DEF Refresh, flows
<1>3. /\ pc[<<d, "button">>] = "idle"
      /\ CallOf' = [CallOf EXCEPT ![<<d, "button">>] = "ensuring"]
      /\ UNCHANGED <<LockOf, LinkOf, ReplyOf, listening, pump>>
  BY <1>1, <1>2, SeenAsk DEF Refresh
<1>4. CallOf[<<d, "button">>] = "ensuring"
  BY <1>1, <1>3, SeenPoints DEF Refresh
<1>5. CallOf' = CallOf
  BY <1>3, <1>4 DEF CallOf
<1>6. QED
  BY <1>2, <1>3, <1>5 DEF flows, Dash!vars, Dash!flows, Dash!client, Dash!plant

(* The tab is closed; the timer is cancelled while the loop waits for it.      *)
LEMMA MapAlone ==
  ASSUME NEW d \in Dashboards, Close(d) \/ TickCancelled(d)
  PROVE  Dash!Next
<1>1. UNCHANGED <<pc, button, lock, client, open, toClient, seen, listening, pump>>
  BY DEF Close, ClosePage, TickCancelled, PollCancelled, bridge, vars, service, calls, link, peer, data
<1>2. UNCHANGED <<CallOf, LockOf, LinkOf, ReplyOf, listening, pump>>
  BY <1>1, SeenStill, LinkKept, ReplyKept DEF LockOf
<1>3. CASE Close(d)
  <2>1. Dash!Close(d)
    BY <1>2, <1>3, SamePage DEF Close, Dash!Close, Dash!client, Dash!plant
  <2>2. QED
    BY <2>1 DEF Dash!Next
<1>4. CASE TickCancelled(d)
  <2>1. Dash!TickCancelled(d)
    BY <1>2, <1>4, SamePage DEF TickCancelled, Dash!TickCancelled, Dash!client, Dash!plant
  <2>2. QED
    BY <2>1 DEF Dash!Next, Dash!PollLoop
<1>5. QED
  BY <1>3, <1>4

(* What a step within a call leaves of the calls of the others                 *)
LEMMA SeenCall ==
  ASSUME HmiInv, NEW d \in Dashboards, NEW t \in Tasks, Answer(<<d, t>>) \/ Continue(<<d, t>>),
         \A e \in Dashboards : e # d \/ t # "button" => button'[e] = button[e]
  PROVE  /\ <<d, t>> \in Callers /\ pc \in [Callers -> Points]
         /\ UNCHANGED <<listening, pump, seen>>
         /\ \A x \in Callers : x # <<d, t>> => pc'[x] = pc[x]
         /\ CallOf' = [CallOf EXCEPT ![<<d, t>>] = CallOf'[<<d, t>>]]
<1>1. <<d, t>> \in Callers /\ pc \in [Callers -> Points]
  BY FlowCallers DEF HmiInv, BridgeInv, IInv, TypeOK, CallsTypeOK
<1>2. UNCHANGED <<listening, pump, seen>>
  BY DEF Answer, Read, Continue, Records, Acquire, WaitFails, AlreadyConnected, NeedsConnection,
         ConnectSucceeds, ConnectFails, Write, ExchangeFails, FindConnected, StartConnecting,
         BeginExchange, FindChannelGone, peer
<1>3. \A x \in Callers : x # <<d, t>> => pc'[x] = pc[x]
  BY <1>1, OneCall
<1>4. QED
  BY <1>1, <1>2, <1>3, SeenMove

LEMMA MapWorks ==
  ASSUME HmiInv, NEW d \in Dashboards, NEW t \in Tasks, Works(d, t)
  PROVE  Dash!Next \/ UNCHANGED Dash!vars
<1> DEFINE c == <<d, t>>
<1> USE DEF service, calls, link, peer
<1>1. Continue(c) /\ UNCHANGED flows /\ button' = button
  BY DEF Works, Continue, Acquire, flows
<1>2. /\ c \in Callers /\ pc \in [Callers -> Points] /\ UNCHANGED <<listening, pump, seen>>
      /\ \A x \in Callers : x # c => pc'[x] = pc[x]
      /\ CallOf' = [CallOf EXCEPT ![c] = CallOf'[c]]
  BY <1>1, SeenCall
<1>3. ~disposed /\ None \notin Callers
  BY FlowCallers DEF HmiInv, ServiceInv
<1>4. CASE AlreadyConnected(c) \/ FindConnected(c)
  <2>1. /\ pc[c] \in {"ensure", "waitConnect"} /\ pc'[c] = "waitIO" /\ client \in Conns
        /\ UNCHANGED <<lock, client, open, toClient>>
    BY <1>2, <1>4 DEF AlreadyConnected, FindConnected, Recheck, Connected, Goto
  <2>2. CallOf[c] = "ensuring" /\ CallOf'[c] = "waiting" /\ LinkOf # "none"
    BY <1>2, <2>1, SeenPoints, SeenPointsAfter, Views
  <2>3. UNCHANGED <<LockOf, LinkOf, ReplyOf>>
    BY <1>2, <2>1, LockKept, LinkKept, ReplyKept DEF Exchange
  <2>4. Dash!FindConnection(d, t)
    BY <1>1, <1>2, <2>2, <2>3 DEF Dash!FindConnection, Dash!Goto, Dash!flows, flows, Dash!plant
  <2>5. QED
    BY <2>4, SamePage DEF Dash!Next, Dash!Acquire
<1>5. CASE NeedsConnection(c) \/ StartConnecting(c) \/ Write(c)
  <2>1. /\ CallOf'[c] = CallOf[c]
        /\ pc[c] \in Exchange <=> pc'[c] \in Exchange
        /\ pc[c] # "idle"
    <3>1. CASE NeedsConnection(c) \/ StartConnecting(c)
      <4>1. pc[c] \in {"ensure", "waitConnect"} /\ pc'[c] \in {"waitConnect", "connecting"}
        BY <1>2, <3>1 DEF NeedsConnection, StartConnecting, Goto
      <4>2. CallOf[c] = "ensuring" /\ CallOf'[c] = "ensuring"
        BY <4>1, SeenPoints, SeenPointsAfter
      <4>3. QED
        BY <4>1, <4>2 DEF Exchange
    <3>2. CASE Write(c)
      <4>1. pc[c] = "writing" /\ pc'[c] = "reading"
        BY <1>2, <3>2 DEF Write, Goto
      <4>2. CallOf[c] = "exchanging" /\ CallOf'[c] = "exchanging"
        BY <4>1, SeenPoints, SeenPointsAfter DEF Exchange
      <4>3. QED
        BY <4>1, <4>2 DEF Exchange
    <3>3. QED
      BY <1>5, <3>1, <3>2
  <2>2. UNCHANGED <<LockOf, LinkOf, ReplyOf>>
    <3>1. CASE NeedsConnection(c) \/ Write(c)
      <4>1. UNCHANGED <<lock, client, open, toClient>>
        BY <3>1 DEF NeedsConnection, Write
      <4>2. QED
        BY <1>2, <2>1, <4>1, LockKept, LinkKept, ReplyKept
    <3>2. CASE StartConnecting(c)
      <4>1. /\ lock = None /\ lock' = c /\ client \notin Conns /\ client' = Fresh
            /\ pc'[c] = "connecting"
        BY <1>2, <3>2 DEF StartConnecting, NewTcpClient, LockFree, Recheck, Connected, Goto
      <4>2. LockOf = None /\ LockOf' = None
        BY <1>2, <1>3, <4>1 DEF LockOf, Exchange
      <4>3. QED
        BY <4>1, <4>2, ServiceAssumption DEF LinkOf, ReplyOf
    <3>3. QED
      BY <1>5, <3>1, <3>2
  <2>3. CallOf' = CallOf
    BY <1>2, <2>1 DEF CallOf
  <2>4. UNCHANGED Dash!vars
    BY <1>1, <1>2, <2>2, <2>3 DEF Dash!vars, Dash!client, Dash!plant, Dash!flows, flows
  <2>5. QED
    BY <2>4
<1>6. CASE ConnectSucceeds(c)
  <2>1. pc[c] = "connecting" /\ listening /\ pc'[c] = "waitIO" /\ lock' = None
    BY <1>2, <1>3, <1>6 DEF ConnectSucceeds, Release, Goto
  <2>2. PICK k \in Conns : /\ client' = k /\ toClient[k] = << >> /\ toClient' = toClient
                           /\ open' = [open EXCEPT ![k] = Ends]
    BY <1>6 DEF ConnectSucceeds
  <2>3. LinkOf' = "up"
    BY <2>2 DEF LinkOf, Ends, HmiInv, BridgeInv, IInv, TypeOK, LinkTypeOK
  <2>4. CallOf[c] = "ensuring" /\ CallOf'[c] = "waiting"
    BY <2>1, SeenPoints, SeenPointsAfter
  <2>5. LinkOf = "none" /\ LockOf = None /\ LockOf' = None
    BY <1>2, <1>3, <2>1, Views DEF LockOf
  <2>6. ReplyOf = "none" /\ ReplyOf' = "none"
    BY <1>2, <2>2, <2>5, Views DEF ReplyOf
  <2>7. Dash!Connect(d, t)
    BY <1>1, <1>2, <2>1, <2>3, <2>4, <2>5, <2>6
       DEF Dash!Connect, Dash!LockFree, Dash!Goto, Dash!flows, flows, Dash!plant
  <2>8. QED
    BY <2>7, SamePage DEF Dash!Next, Dash!Acquire
<1>7. CASE BeginExchange(c)
  <2>1. /\ pc[c] = "waitIO" /\ pc'[c] = "writing" /\ lock = None /\ lock' = c
        /\ channel # None /\ UNCHANGED <<client, open, toClient>>
    BY <1>2, <1>7 DEF BeginExchange, LockFree, Goto
  <2>2. CallOf[c] = "waiting" /\ CallOf'[c] = "exchanging"
    BY <2>1, SeenPoints, SeenPointsAfter DEF Exchange
  <2>3. LinkOf # "none" /\ LockOf = None /\ LockOf' = c
    BY <1>2, <2>1, Views DEF LockOf, Exchange
  <2>4. UNCHANGED <<LinkOf, ReplyOf>>
    BY <1>2, <2>1, LinkKept, ReplyKept
  <2>5. Dash!BeginExchange(d, t)
    BY <1>1, <1>2, <2>2, <2>3, <2>4
       DEF Dash!BeginExchange, Dash!LockFree, Dash!Goto, Dash!flows, flows, Dash!plant
  <2>6. QED
    BY <2>5, SamePage DEF Dash!Next, Dash!Acquire
<1>8. QED
  BY <1>4, <1>5, <1>6, <1>7 DEF Works

(* A call that has ended is out of the client.                                 *)
LEMMA SeenThrow ==
  ASSUME HmiInv, NEW d \in Dashboards, NEW t \in Tasks, Answer(<<d, t>>) \/ Continue(<<d, t>>),
         pc'[<<d, t>>] = "idle", CallThrows(d, t)
  PROVE  Dash!Fail(d, t) /\ CallOf' = [CallOf EXCEPT ![<<d, t>>] = "none"]
<1>1. button \in Buttons /\ \A e \in Dashboards : e # d \/ t # "button" => button'[e] = button[e]
  BY ButtonAfter DEF HmiInv, PagesOK
<1>2. CallOf' = [CallOf EXCEPT ![<<d, t>>] = CallOf'[<<d, t>>]]
  BY <1>1, SeenCall
<1>3. t = "button" => button'[d] # "refresh"
  BY <1>1 DEF CallThrows, Buttons
<1>4. CallOf'[<<d, t>>] = "none"
  BY <1>3, SeenPointsAfter
<1>5. QED
  BY <1>2, <1>4, SamePage DEF Dash!Fail, Dash!Goto

LEMMA MapThrows ==
  ASSUME HmiInv, NEW d \in Dashboards, NEW t \in Tasks, Throws(d, t)
  PROVE  Dash!Next
<1> DEFINE c == <<d, t>>
<1> USE DEF service, calls, link, peer
<1>1. Continue(c) /\ CallThrows(d, t) /\ c \in Callers /\ pc \in [Callers -> Points]
  BY FlowCallers
     DEF Throws, Continue, Acquire, HmiInv, BridgeInv, IInv, TypeOK, CallsTypeOK
<1>2. pc'[c] = "idle" /\ UNCHANGED <<listening, pump, seen>>
  BY <1>1 DEF Throws, Records, ConnectFails, FindChannelGone, ExchangeFails, Rethrow, Return, Goto
<1>3. Dash!Fail(d, t)
  BY <1>1, <1>2, SeenThrow
<1>4. None \notin Callers \union Conns
  BY ServiceAssumption
<1>5. CASE ConnectFails(c) /\ ~listening
  <2>1. pc[c] = "connecting" /\ lock' = None /\ UNCHANGED <<client, open, toClient>>
    BY <1>5 DEF ConnectFails, Release
  <2>2. CallOf[c] = "ensuring" /\ LockOf = None /\ LockOf' = None /\ LinkOf = "none"
    BY <1>1, <1>4, <2>1, SeenPoints, Views DEF LockOf
  <2>3. UNCHANGED <<LinkOf, ReplyOf>>
    BY <1>2, <2>1, LinkKept, ReplyKept
  <2>4. Dash!Connect(d, t)
    BY <1>2, <1>3, <1>5, <2>2, <2>3 DEF Dash!Connect, Dash!LockFree, Dash!plant
  <2>5. QED
    BY <2>4, SamePage DEF Dash!Next, Dash!Acquire
<1>6. CASE FindChannelGone(c)
  <2>1. pc[c] = "waitIO" /\ lock = None /\ lock' = None /\ channel = None /\ client' = None
    BY <1>6 DEF FindChannelGone, LockFree, ResetConnection
  <2>2. CallOf[c] = "waiting" /\ LockOf = None /\ LockOf' = None /\ LinkOf = "none"
    BY <1>1, <1>4, <2>1, SeenPoints, Views DEF LockOf
  <2>3. client \notin Conns /\ client' \notin Conns
    BY <1>1, <1>4, <2>1, <2>2, Views
  <2>4. UNCHANGED <<LinkOf, ReplyOf>>
    BY <2>3 DEF LinkOf, ReplyOf
  <2>5. Dash!BeginExchange(d, t)
    BY <1>2, <1>3, <2>2, <2>4 DEF Dash!BeginExchange, Dash!LockFree, Dash!plant
  <2>6. QED
    BY <2>5, SamePage DEF Dash!Next, Dash!Acquire
<1>7. CASE ExchangeFails(c) /\ Broken
  <2>1. pc[c] \in Exchange /\ lock' = None /\ client' = None
    BY <1>7 DEF ExchangeFails, Release, ResetOnException, ResetConnection
  <2>2. CallOf[c] = "exchanging" /\ LockOf' = None /\ client \in Conns /\ channel = client
    BY <1>1, <1>4, <2>1, SeenPoints, Views DEF LockOf
  <2>3. LinkOf = "broken"
    BY <1>7, <2>2 DEF LinkOf, Broken
  <2>4. LinkOf' = "none" /\ ReplyOf' = "none"
    BY <1>4, <2>1 DEF LinkOf, ReplyOf
  <2>5. Dash!ExchangeFails(d, t)
    BY <1>2, <1>3, <2>2, <2>3, <2>4 DEF Dash!ExchangeFails, Dash!plant
  <2>6. QED
    BY <2>5, SamePage DEF Dash!Next, Dash!Proceed
<1>8. QED
  BY <1>5, <1>6, <1>7 DEF Throws

(* The poll is cancelled at one of its awaits.                                 *)
LEMMA MapCancelPoll ==
  ASSUME HmiInv, NEW d \in Dashboards, CancelPoll(d)
  PROVE  Dash!Next
<1> DEFINE c == <<d, "poll">>
<1> USE DEF service, calls, link, peer
<1>0. "poll" \in Tasks
  BY DEF Tasks
<1>1. Continue(c) /\ button' = button /\ PollCancelled(d)
  BY DEF CancelPoll, Continue, PollCancelled
<1>2. /\ c \in Callers /\ pc \in [Callers -> Points] /\ UNCHANGED <<listening, pump, seen>>
      /\ \A x \in Callers : x # c => pc'[x] = pc[x]
      /\ CallOf' = [CallOf EXCEPT ![c] = CallOf'[c]]
  BY <1>0, <1>1, SeenCall
<1>3. pc'[c] = "idle"
  BY <1>2 DEF CancelPoll, ConnectFails, ExchangeFails, WaitFails, Rethrow, Return, Goto
<1>4. CallOf'[c] = "none"
  BY <1>0, <1>3, SeenPointsAfter
<1>5. CallOf' = [CallOf EXCEPT ![c] = "none"]
  BY <1>2, <1>4
<1>6. None \notin Callers \union Conns
  BY ServiceAssumption
<1>7. CASE ExchangeFails(c)
  <2>1. pc[c] \in Exchange /\ lock' = None /\ client' = None
    BY <1>7 DEF ExchangeFails, Release, ResetOnException, ResetConnection
  <2>2. CallOf[c] = "exchanging" /\ LockOf = c /\ LockOf' = None
    BY <1>0, <1>2, <1>6, <2>1, SeenPoints, Views DEF LockOf
  <2>3. LinkOf' = "none" /\ ReplyOf' = "none"
    BY <1>6, <2>1 DEF LinkOf, ReplyOf
  <2>4. Dash!CancelPoll(d)
    BY <1>1, <1>2, <1>5, <2>2, <2>3, SamePage
       DEF Dash!CancelPoll, Dash!ReleaseOnCancel, Dash!Goto, Dash!plant
  <2>5. QED
    BY <2>4 DEF Dash!Next, Dash!PollLoop
<1>8. CASE ConnectFails(c) \/ WaitFails(c)
  <2>1. /\ pc[c] \in {"connecting", "waitConnect", "waitIO"}
        /\ UNCHANGED <<client, open, toClient>>
    BY <1>8 DEF ConnectFails, WaitFails, Waiting
  <2>2. CallOf[c] \in {"ensuring", "waiting"}
    BY <1>0, <2>1, SeenPoints
  <2>3. UNCHANGED <<LinkOf, ReplyOf>>
    BY <1>2, <2>1, LinkKept, ReplyKept
  <2>4. LockOf' = LockOf /\ LockOf # c
    <3>1. CASE ConnectFails(c)
      <4>1. LockOf = None /\ lock' = None
        BY <1>2, <3>1, Views DEF ConnectFails, Release
      <4>2. QED
        BY <1>2, <1>6, <4>1 DEF LockOf
    <3>2. CASE WaitFails(c)
      <4>1. lock' = lock /\ pc[c] \notin Exchange /\ pc'[c] \notin Exchange
        BY <1>3, <2>1, <3>2 DEF WaitFails, Exchange
      <4>2. QED
        BY <1>2, <1>6, <4>1, LockKept DEF LockOf
    <3>3. QED
      BY <1>8, <3>1, <3>2
  <2>5. Dash!CancelPoll(d)
    BY <1>1, <1>2, <1>5, <2>2, <2>3, <2>4, SamePage
       DEF Dash!CancelPoll, Dash!ReleaseOnCancel, Dash!Goto, Dash!plant
  <2>6. QED
    BY <2>5 DEF Dash!Next, Dash!PollLoop
<1>9. QED
  BY <1>7, <1>8 DEF CancelPoll

(* The line that waits on the connection in use answers the call that reads.   *)
LEMMA OwnLine ==
  ASSUME HmiInv, client \in Conns, toClient[client] # << >>
  PROVE  /\ lock \in Callers /\ pc[lock] = "reading" /\ toServer[client] = << >>
         /\ Head(toClient[client]).to = Request(lock) /\ Request(lock) \in Requests
         /\ Head(toClient[client]).ok =>
              /\ executed[Request(lock)] = 1 /\ seen[Request(lock)] \in BOOLEAN
<1>1. /\ lock \in Callers /\ pc[lock] = "reading" /\ toServer[client] = << >>
      /\ Head(toClient[client]).to = Request(lock)
      /\ Head(toClient[client]).ok => executed[Request(lock)] = 1
  BY DEF HmiInv, BridgeInv, IInv, ReplyInv
<1>2. Request(lock) \in Requests
  BY <1>1, RequestType DEF HmiInv, BridgeInv
<1>3. executed[Request(lock)] = 1 => seen[Request(lock)] \in BOOLEAN
  BY <1>2 DEF HmiInv, BridgeInv, DataInv, SeenInv
<1>4. QED
  BY <1>1, <1>2, <1>3

LEMMA MapGetsLine ==
  ASSUME HmiInv, NEW d \in Dashboards, NEW t \in Tasks, GetsLine(d, t)
  PROVE  Dash!Next
<1> DEFINE c == <<d, t>>
           line == Head(toClient[client])
<1>1. Answer(c) /\ c \in Callers /\ pc \in [Callers -> Points] /\ pc[c] \in Exchange
  BY FlowCallers
     DEF GetsLine, Answer, Read, Exchange, HmiInv, BridgeInv, IInv, TypeOK, CallsTypeOK
<1>2. lock = c /\ channel = client /\ client \in Conns /\ LinkOf # "none"
  BY <1>1, Views
<1>3. /\ toClient[client] # << >> /\ toClient' = [toClient EXCEPT ![client] = Tail(@)]
      /\ pc'[c] = "idle" /\ lock' = None
      /\ outcome' = [outcome EXCEPT ![c] = IF line.ok THEN "ok" ELSE "failed"]
      /\ UNCHANGED <<client, open, listening, pump, seen>>
  BY <1>1, <1>2 DEF Answer, Read, Return, Goto, Release, peer
<1>4. /\ line.to = Request(c) /\ (line.ok => seen[Request(c)] \in BOOLEAN)
  BY <1>2, <1>3, OwnLine
<1>5. ReplyOf = IF ~line.ok THEN "refused" ELSE IF seen[Request(c)] = TRUE THEN "on" ELSE "off"
  BY <1>2, <1>3, <1>4 DEF ReplyOf
<1>6. ReplyOf' = "none"
  <2>1. Len(toClient[client]) = 1
    BY <1>2, <1>3 DEF HmiInv, BridgeInv, IInv, ReplyInv
  <2>2. toClient \in [Conns -> Seq(Replies)]
    BY DEF HmiInv, BridgeInv, IInv, TypeOK, LinkTypeOK
  <2>3. toClient'[client] = << >>
    BY <1>2, <1>3, <2>1, <2>2, Lines
  <2>4. QED
    BY <1>3, <2>3 DEF ReplyOf
<1>7. CallOf[c] = "exchanging" /\ LockOf' = None /\ LinkOf' = LinkOf
  BY <1>1, <1>3, FlowCallers, SeenPoints, LinkKept DEF LockOf
<1>8. outcome'[c] = "ok" <=> line.ok
  BY <1>1, <1>3 DEF HmiInv, BridgeInv, IInv, TypeOK, CallsTypeOK
<1>9. CASE line.ok
  <2>1. CallReturns(d, t, told'[c] = TRUE)
    BY <1>8, <1>9 DEF GetsLine
  <2>2. Commanding(d, t) \/ (told'[c] = TRUE) = (ReplyOf = "on")
    <3>1. CASE ~Commanding(d, t)
      <4>1. asked[Request(c)] = "GET_STATUS"
        BY <1>1, <3>1 DEF HmiInv, CommandInv, Wanted, Exchange
      <4>2. told' = [told EXCEPT ![c] = ParsedPump(line.to)]
        BY <1>1, <1>2, <1>9, <4>1 DEF Answer, GiveResult
      <4>3. told'[c] = seen[Request(c)]
        <5>1. told'[c] = ParsedPump(line.to)
          BY <1>1, <4>2 DEF HmiInv, PagesOK
        <5>2. ParsedPump(line.to) = seen[Request(c)]
          BY <1>4, <1>9, <4>1, Zenon DEF ParsedPump
        <5>3. QED
          BY <5>1, <5>2
      <4>4. QED
        BY <1>4, <1>5, <1>9, <4>3
    <3>2. QED
      BY <3>1
  <2>3. Dash!CallReturns(d, t, ReplyOf = "on")
    BY <2>1, <2>2, SameReturn
  <2>4. CallOf' = [CallOf EXCEPT ![c] = IF Commanding(d, t) THEN "ensuring" ELSE "none"]
    <3>1. /\ button \in Buttons
          /\ \A e \in Dashboards : e # d \/ t # "button" => button'[e] = button[e]
      BY <2>1, ButtonAfter DEF HmiInv, PagesOK
    <3>2. CallOf' = [CallOf EXCEPT ![c] = CallOf'[c]]
      BY <1>1, <3>1, SeenCall
    <3>3. (t = "button" /\ button'[d] = "refresh") <=> Commanding(d, t)
      BY <2>1, <3>1 DEF CallReturns, Commanding, Buttons
    <3>4. CallOf'[c] = IF Commanding(d, t) THEN "ensuring" ELSE "none"
      BY <1>3, <3>3, SeenPointsAfter
    <3>5. QED
      BY <3>2, <3>4
  <2>5. Dash!Succeed(d, t)
    BY <2>3, <2>4, SamePage DEF Dash!Succeed, Dash!Goto
  <2>6. ReplyOf \notin {"none", "refused"}
    BY <1>5, <1>9
  <2>7. Dash!EndExchange(d, t)
    BY <1>3, <1>6, <1>7, <2>5, <2>6 DEF Dash!EndExchange, Dash!plant
  <2>8. QED
    BY <2>7, SamePage DEF Dash!Next, Dash!Proceed
<1>10. CASE ~line.ok
  <2>1. Dash!Fail(d, t)
    BY <1>1, <1>3, <1>8, <1>10, SeenThrow DEF GetsLine
  <2>2. ReplyOf = "refused"
    BY <1>5, <1>10
  <2>3. Dash!EndExchange(d, t)
    BY <1>3, <1>6, <1>7, <2>1, <2>2 DEF Dash!EndExchange, Dash!plant
  <2>4. QED
    BY <2>3, SamePage DEF Dash!Next, Dash!Proceed
<1>11. QED
  BY <1>9, <1>10

-------------------------------------------------------------------------------
(* A line that the Worker executes on a connection that is not, or no longer,  *)
(* able to carry the reply: seen in the pump at most.                          *)
LEMMA MapLate ==
  ASSUME HmiInv, UNCHANGED <<flows, pc, lock, client, open, toClient, listening>>, pump' \in BOOLEAN,
         ReplyOf' = ReplyOf
  PROVE  Dash!Next \/ UNCHANGED Dash!vars
<1>1. UNCHANGED <<flows, CallOf, LockOf, LinkOf, ReplyOf, listening>>
  BY SeenStill, LinkKept DEF flows, LockOf
<1>2. CASE pump' = pump
  BY <1>1, <1>2 DEF Dash!vars, Dash!flows, Dash!client, Dash!plant, flows
<1>3. CASE pump' # pump
  <2>1. pump \in BOOLEAN
    BY DEF HmiInv, BridgeInv
  <2>2. pump' = ~pump
    BY <1>3, <2>1
  <2>3. Dash!OtherClient
    BY <1>1, <2>2 DEF Dash!OtherClient, Dash!flows, Dash!client, flows
  <2>4. QED
    BY <2>3 DEF Dash!Next
<1>4. QED
  BY <1>2, <1>3

(* What the flow that reads has asked for does to the pump                     *)
LEMMA AskedEffect ==
  ASSUME HmiInv, NEW d \in Dashboards, NEW t \in Tasks, pc[<<d, t>>] # "idle",
         Execute(Request(<<d, t>>))
  PROVE  pump' = IF Commanding(d, t) THEN button[d] = "start" ELSE pump
<1>1. asked[Request(<<d, t>>)] = Wanted(d, t)
  BY DEF HmiInv, CommandInv
<1>2. pump' = P!Effect(Wanted(d, t), pump)
  BY <1>1 DEF Execute
<1>3. pump \in BOOLEAN
  BY DEF HmiInv, BridgeInv
<1>4. "START_PUMP" # "STOP_PUMP" /\ "GET_STATUS" # "START_PUMP" /\ "GET_STATUS" # "STOP_PUMP"
  OBVIOUS
<1>5. QED
  BY <1>2, <1>3, <1>4, Zenon DEF Wanted, P!Effect

LEMMA MapServe ==
  ASSUME HmiInv, NEW k \in Conns, Serve(k), UNCHANGED flows, BridgeInv'
  PROVE  Dash!Next \/ UNCHANGED Dash!vars
<1> DEFINE r == Head(toServer[k])
<1> USE DEF service, calls
<1>1. /\ toServer[k] # << >>
      /\ UNCHANGED <<pc, made, lock, client, open, listening, outcome>>
  BY DEF Serve, PeerServes
<1>2. PICK ok \in BOOLEAN :
        /\ executed' = IF ok THEN [executed EXCEPT ![r] = @ + 1] ELSE executed
        /\ toClient' = IF open[k] = Ends
                       THEN [toClient EXCEPT ![k] = Append(@, [to |-> r, ok |-> ok])]
                       ELSE toClient
  BY DEF Serve, PeerServes
<1>3. /\ executed[r] = 0
      /\ client = k => lock \in Callers /\ pc[lock] = "reading" /\ r = Request(lock)
      /\ client = k => toClient[k] = << >>
  BY <1>1 DEF HmiInv, BridgeInv, IInv, RequestInv, ReplyInv
<1>4. r \in Requests /\ executed \in [Requests -> Nat] /\ seen \in [Requests -> BOOLEAN \union {None}]
      /\ toClient \in [Conns -> Seq(Replies)]
  BY <1>1, Lines DEF HmiInv, BridgeInv, IInv, TypeOK, LinkTypeOK, PeerTypeOK, DataInv, DataTypes
<1>5. IF ok THEN Execute(r) ELSE Refuse
  <2>1. (executed' = executed) <=> ~ok
    BY <1>2, <1>3, <1>4
  <2>2. QED
    BY <2>1 DEF Serve
<1>6. pump' \in BOOLEAN
  BY DEF BridgeInv
<1>7. CASE client = k /\ open[k] = Ends
  <2>1. PICK d \in Dashboards, t \in Tasks : lock = <<d, t>>
    BY <1>3, <1>7, FlowCallers
  <2>2. LinkOf = "up" /\ LinkOf' = LinkOf /\ ReplyOf = "none"
    BY <1>1, <1>3, <1>7, LinkKept DEF LinkOf, ReplyOf, Ends
  <2>3. CallOf[<<d, t>>] = "exchanging"
    BY <1>3, <1>7, <2>1, SeenPoints DEF Exchange
  <2>4. UNCHANGED <<CallOf, LockOf>>
    BY <1>1, SeenStill DEF LockOf, flows
  <2>5. toClient'[k] = <<[to |-> r, ok |-> ok]>>
    BY <1>2, <1>3, <1>4, <1>7
  <2>6. toClient'[k] # << >> /\ Head(toClient'[k]).to = r /\ Head(toClient'[k]).ok = ok
    BY <2>5
  <2>7. CASE ok
    <3>1. pump' = IF Commanding(d, t) THEN button[d] = "start" ELSE pump
      BY <1>3, <1>5, <1>7, <2>1, <2>7, AskedEffect
    <3>2. seen'[r] = pump'
      BY <1>4, <1>5, <2>7, Zenon DEF Execute
    <3>3. ReplyOf' = IF pump' THEN "on" ELSE "off"
      <4>1. ReplyOf' = IF seen'[r] = TRUE THEN "on" ELSE "off"
        BY <1>1, <1>7, <2>6, <2>7 DEF ReplyOf
      <4>2. QED
        BY <1>6, <3>2, <4>1
    <3>4. Dash!Serve(d, t)
      BY <1>1, <2>2, <2>3, <2>4, <3>1, <3>3, SamePage DEF Dash!Serve, Dash!flows, flows
    <3>5. QED
      BY <3>4, SamePage DEF Dash!Next, Dash!Proceed
  <2>8. CASE ~ok
    <3>1. ReplyOf' = "refused" /\ pump' = pump
      BY <1>1, <1>5, <1>7, <2>6, <2>8 DEF ReplyOf, Refuse
    <3>2. Dash!Refuse(d, t)
      BY <1>1, <2>2, <2>3, <2>4, <3>1, SamePage DEF Dash!Refuse, Dash!flows, flows, Dash!plant
    <3>3. QED
      BY <3>2, SamePage DEF Dash!Next, Dash!Proceed
  <2>9. QED
    BY <2>7, <2>8
<1>8. CASE ~(client = k /\ open[k] = Ends)
  <2>1. toClient' = toClient
    <3>1. open[k] = Ends => client = k
      BY DEF HmiInv, BridgeInv, IInv, FieldsInv, Ends
    <3>2. QED
      BY <1>2, <1>8, <3>1
  <2>2. ReplyOf' = ReplyOf
    <3>1. CASE client \notin Conns \/ toClient[client] = << >>
      BY <1>1, <2>1, <3>1 DEF ReplyOf
    <3>2. CASE client \in Conns /\ toClient[client] # << >>
      <4>1. /\ Head(toClient[client]).to \in Requests
            /\ Head(toClient[client]).ok => Head(toClient[client]).to # r
        BY <1>3, <3>2, OwnLine
      <4>2. Head(toClient[client]).ok => seen'[Head(toClient[client]).to] = seen[Head(toClient[client]).to]
        BY <1>4, <1>5, <4>1 DEF Execute, Refuse
      <4>3. QED
        BY <1>1, <2>1, <3>2, <4>2 DEF ReplyOf
    <3>3. QED
      BY <3>1, <3>2
  <2>3. QED
    BY <1>1, <1>6, <2>1, <2>2, MapLate
<1>9. QED
  BY <1>7, <1>8

(* Connections break and close, the Worker stops and starts again.             *)
LEMMA MapBreaks ==
  ASSUME HmiInv, Breaks \/ WorkerRestarts, UNCHANGED flows
  PROVE  Dash!Next \/ UNCHANGED Dash!vars
<1> USE DEF service, calls, link, data
<1>1. UNCHANGED <<flows, pc, lock, client, seen>>
  BY DEF Breaks, WorkerRestarts, StopListening, StartListening, LinkFails, PeerCloses
<1>2. UNCHANGED <<flows, CallOf, LockOf>>
  BY <1>1, SeenStill DEF flows, LockOf
<1>3. /\ toClient \in [Conns -> Seq(Replies)] /\ open \in [Conns -> SUBSET Ends]
      /\ \A k \in Conns : "client" \in open[k] <=> client = k
  BY DEF HmiInv, BridgeInv, IInv, TypeOK, LinkTypeOK, FieldsInv
<1>4. CASE WorkerRestarts
  <2>1. UNCHANGED <<LinkOf, ReplyOf>>
    BY <1>1, <1>4, LinkKept, ReplyKept DEF WorkerRestarts, StartListening
  <2>2. Dash!WorkerStarts
    BY <1>2, <1>4, <2>1 DEF WorkerRestarts, StartListening, Dash!WorkerStarts, Dash!flows, flows, Dash!client
  <2>3. QED
    BY <2>2 DEF Dash!Next
<1>5. CASE StopListening /\ UNCHANGED data
  <2>1. UNCHANGED <<LinkOf, ReplyOf>>
    BY <1>1, <1>5, LinkKept, ReplyKept DEF StopListening
  <2>2. Dash!WorkerStops
    BY <1>2, <1>5, <2>1 DEF StopListening, Dash!WorkerStops, Dash!flows, flows, Dash!client
  <2>3. QED
    BY <2>2 DEF Dash!Next
<1>6. ASSUME NEW k \in Conns, PeerCloses(k), UNCHANGED data PROVE UNCHANGED Dash!vars
  <2>1. client # k /\ toClient' = toClient /\ open' = [open EXCEPT ![k] = {}] /\ UNCHANGED <<listening, pump>>
    BY <1>3, <1>6 DEF PeerCloses, peer
  <2>2. UNCHANGED <<LinkOf, ReplyOf>>
    BY <1>1, <1>3, <2>1 DEF LinkOf, ReplyOf
  <2>3. QED
    BY <1>2, <2>1, <2>2 DEF Dash!vars, Dash!flows, Dash!client, Dash!plant, flows
<1>7. ASSUME NEW k \in Conns, LinkFails(k), UNCHANGED data PROVE Dash!Next \/ UNCHANGED Dash!vars
  <2>1. /\ open[k] = Ends /\ client = k /\ open' = [open EXCEPT ![k] = {"client"}]
        /\ toClient' \in {toClient, [toClient EXCEPT ![k] = << >>]}
        /\ UNCHANGED <<listening, pump>>
    BY <1>3, <1>7 DEF LinkFails, Ends
  <2>2. LinkOf = "up" /\ LinkOf' = "broken"
    BY <1>1, <1>3, <2>1 DEF LinkOf, Ends
  <2>3. ReplyOf' \in {ReplyOf, "none"}
    <3>1. CASE toClient' = toClient
      BY <1>1, <3>1, ReplyKept
    <3>2. CASE toClient' = [toClient EXCEPT ![k] = << >>]
      BY <1>1, <1>3, <2>1, <3>2 DEF ReplyOf
    <3>3. QED
      BY <2>1, <3>1, <3>2
  <2>4. Dash!LinkFails
    BY <1>2, <2>1, <2>2, <2>3 DEF Dash!LinkFails, Dash!flows, flows, Dash!plant
  <2>5. QED
    BY <2>4 DEF Dash!Next
<1>8. QED
  BY <1>4, <1>5, <1>6, <1>7 DEF Breaks

-------------------------------------------------------------------------------
LEMMA InitDash == HmiInit => Dash!Init
<1> SUFFICES ASSUME HmiInit PROVE Dash!Init
  OBVIOUS
<1>1. /\ \A c \in Callers : pc[c] = "idle" /\ button[c[1]] = "idle"
      /\ lock = None /\ client = None /\ listening = TRUE /\ pump = FALSE
  BY FlowCallers DEF HmiInit, BridgeInit, Init, FlowsInit
<1>2. \A c \in Callers : PointOf(c) = "none"
  BY <1>1 DEF PointOf, Exchange
<1>3. CallOf = [c \in Callers |-> "none"]
  BY <1>2 DEF CallOf
<1>4. LockOf = None /\ LinkOf = "none" /\ ReplyOf = "none"
  BY <1>1, ServiceAssumption DEF LockOf, LinkOf, ReplyOf
<1>5. Dash!FlowsInit
  BY DEF HmiInit, FlowsInit, Dash!FlowsInit
<1>6. QED
  BY <1>1, <1>3, <1>4, <1>5, SamePage DEF Dash!Init

LEMMA StepDash == HmiInv /\ [HmiNext]_hmi => [Dash!Next]_(Dash!vars)
<1> SUFFICES ASSUME HmiInv, [HmiNext]_hmi PROVE Dash!Next \/ UNCHANGED Dash!vars
  OBVIOUS
<1>1. CASE PageNext
  BY <1>1, MapAsks, MapRefresh, MapAlone, MapWorks, MapThrows, MapCancelPoll, MapGetsLine DEF PageNext
<1>2. CASE WorkerNext
  <2>1. BridgeInv'
    BY StepHmiInv DEF HmiInv
  <2>2. QED
    BY <1>2, <2>1, MapServe, MapBreaks DEF WorkerNext
<1>3. CASE UNCHANGED hmi
  <2>1. UNCHANGED <<flows, pc, button, lock, client, open, toClient, seen, listening, pump>>
    BY <1>3 DEF hmi, bridge, vars, service, calls, link, peer, data, flows
  <2>2. UNCHANGED <<CallOf, LockOf, LinkOf, ReplyOf>>
    BY <2>1, SeenStill, LinkKept, ReplyKept DEF LockOf
  <2>3. QED
    BY <2>1, <2>2 DEF Dash!vars, Dash!flows, Dash!client, Dash!plant, flows
<1>4. QED
  BY <1>1, <1>2, <1>3 DEF HmiNext

(* The pages over the real client, connections and Worker do nothing that      *)
(* HomeDashboard does not allow: each step is one of its steps, or one that no *)
(* page can see.                                                               *)
THEOREM PagesOverBridge == HmiSpec => IsDashboard
  BY InitHmiInv, StepHmiInv, InitDash, StepDash, PTL DEF HmiSpec, IsDashboard, Dash!Spec

(* And they ask no more of the bridge than it gives any caller: what is proved *)
(* of PlcBridge holds of the pages.                                            *)
THEOREM PagesAreCallers == HmiSpec => BridgeSpec /\ IsRemotePlant /\ []StopHolds
<1>1. HmiInit => BridgeInit
  BY DEF HmiInit
<1>2. HmiSpec => BridgeSpec
  BY <1>1, StepBridge, PTL DEF HmiSpec, BridgeSpec
<1>3. QED
  BY <1>2, EndToEnd, StopsHold, PTL
===============================================================================
