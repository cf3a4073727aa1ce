---------------------------- MODULE DashboardBridge ----------------------------
(***************************************************************************)
(* The pages of the Web HMI over the bridge: every call a flow of a page   *)
(* makes is a call of the one NetworkPlcService, over the connections and  *)
(* the Worker of PlcBridge.  HomeDashboard tells the same story with a     *)
(* lock, a link and a reply in place of that detail; the mapping below     *)
(* shows that this is all a page can see of it.  The service lives as long *)
(* as the pages: it is not disposed of here.                               *)
(***************************************************************************)
EXTENDS PlcBridge, HomePage

(* The singleton is called by every flow, the poll alone passes a token.       *)
ASSUME HmiAssumption ==
  /\ Callers = Flows
  /\ Cancellable = Dashboards \X {"poll"}
  /\ \A d \in Dashboards :
       /\ Asks[<<d, "init">>] = {"GET_STATUS"} /\ Asks[<<d, "poll">>] = {"GET_STATUS"}
       /\ Asks[<<d, "button">>] = P!PumpCommands \union {"GET_STATUS"}

hmi == <<bridge, flows>>

HmiInit == BridgeInit /\ FlowsInit

-------------------------------------------------------------------------------
(* The command line that a flow sends next                                     *)
Wanted(d, t) ==
  IF ~Commanding(d, t) THEN "GET_STATUS"
  ELSE IF button[d] = "start" THEN "START_PUMP" ELSE "STOP_PUMP"

Ask(d, t, command) ==
  /\ Call(<<d, t>>)
  /\ asked' = [asked EXCEPT ![Request(<<d, t>>)'] = command]

Open(d) ==
  /\ \A t \in Tasks : pc[<<d, t>>] = "idle"
  /\ button[d] = "idle"
  /\ OpenPage(d)
  /\ Ask(d, "init", "GET_STATUS")

Close(d) == ClosePage(d) /\ UNCHANGED bridge

Press(d) == PressButton(d) /\ Ask(d, "button", Wanted(d, "button")')

Tick(d) == TimerTicks(d) /\ Ask(d, "poll", "GET_STATUS")

TickCancelled(d) ==
  /\ poll[d] = "waiting"
  /\ PollCancelled(d)
  /\ UNCHANGED bridge

(* A button handler reads the status after its command. *)
Refresh(d) ==
  /\ button[d] = "refresh"
  /\ Ask(d, "button", "GET_STATUS")
  /\ UNCHANGED flows

-------------------------------------------------------------------------------
(* A call gets its line, and returns what it says or throws what it is not.    *)
GetsLine(d, t) ==
  LET c == <<d, t>>
  IN  /\ Answer(c)
      /\ IF outcome'[c] = "ok" THEN CallReturns(d, t, told'[c] = TRUE) ELSE CallThrows(d, t)

Works(d, t) ==
  LET c == <<d, t>>
  IN  /\ \/ AlreadyConnected(c) \/ NeedsConnection(c) \/ FindConnected(c)
         \/ StartConnecting(c) \/ ConnectSucceeds(c) \/ BeginExchange(c) \/ Write(c)
      /\ Records(c)
      /\ UNCHANGED flows

(* Nobody listens, the channel has gone, or the connection is broken.          *)
Throws(d, t) ==
  LET c == <<d, t>>
  IN  /\ \/ ConnectFails(c) /\ ~listening
         \/ FindChannelGone(c)
         \/ ExchangeFails(c) /\ Broken
      /\ Records(c)
      /\ CallThrows(d, t)

(* The token of the poll is cancelled, wherever its call awaits.               *)
CancelPoll(d) ==
  LET c == <<d, "poll">>
  IN  /\ ConnectFails(c) \/ ExchangeFails(c) \/ WaitFails(c)
      /\ Records(c)
      /\ PollCancelled(d)

PageNext ==
  \E d \in Dashboards :
    \/ Open(d) \/ Close(d) \/ Press(d) \/ Refresh(d)
    \/ Tick(d) \/ TickCancelled(d) \/ CancelPoll(d)
    \/ \E t \in Tasks : GetsLine(d, t) \/ Works(d, t) \/ Throws(d, t)

Breaks ==
  /\ StopListening \/ \E k \in Conns : LinkFails(k) \/ PeerCloses(k)
  /\ UNCHANGED data

WorkerNext ==
  /\ Breaks \/ WorkerRestarts \/ \E k \in Conns : Serve(k)
  /\ UNCHANGED flows

HmiNext == PageNext \/ WorkerNext

HmiSpec == HmiInit /\ [][HmiNext]_hmi

-------------------------------------------------------------------------------
(* What a page can see of the service: a handler that has still to read the    *)
(* status is about to call, and the lock is that of an exchange.               *)
PointOf(c) ==
  CASE pc[c] \in Exchange                                -> "exchanging"
    [] pc[c] = "waitIO"                                  -> "waiting"
    [] pc[c] \in {"ensure", "waitConnect", "connecting"} -> "ensuring"
    [] OTHER -> IF c[2] = "button" /\ button[c[1]] = "refresh" THEN "ensuring" ELSE "none"

CallOf == [c \in Callers |-> PointOf(c)]

LockOf == IF lock \in Callers /\ pc[lock] \in Exchange THEN lock ELSE None

LinkOf ==
  IF client \notin Conns THEN "none" ELSE IF "server" \in open[client] THEN "up" ELSE "broken"

ReplyOf ==
  IF client \notin Conns \/ toClient[client] = << >> THEN "none"
  ELSE LET line == Head(toClient[client])
       IN  IF ~line.ok THEN "refused" ELSE IF seen[line.to] = TRUE THEN "on" ELSE "off"

Dash == INSTANCE HomeDashboard
  WITH WorkerMayFail <- TRUE,
       call <- CallOf, lock <- LockOf, link <- LinkOf, reply <- ReplyOf, worker <- listening

(* Whatever the pages do to each other through the service they share, over    *)
(* connections that break and a Worker that comes and goes, a page sees the    *)
(* lock, the link and the replies of HomeDashboard and nothing else: in        *)
(* particular each flow is given the reply to its own command.                 *)
IsDashboard == Dash!Spec
================================================================================
