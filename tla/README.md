# Formal models of PlcBridge

This directory holds TLA+ models of PlcBridge, TLC configurations that check them on small
instances, and proofs that TLAPS checks for every instance. Paths below are relative to `src/`.

## 1. The system

PlcBridge is two processes. The **Worker** owns a simulated PLC, polls it, and serves it over TCP
with a line protocol. The **Web HMI** is a Blazor Server application whose dashboards read the
plant and switch its pump through one shared TCP connection to the Worker.

    browser -- circuit -- Home.razor --+
    browser -- circuit -- Home.razor --+-- NetworkPlcService == TCP == TcpPlcServer -- PlcCommandProcessor --+-- SimulatedPlcService
                                           (one per process)                              PlcPollingWorker --+

| Component | State | Operations | Talks to | What is hard | What makes it correct |
|---|---|---|---|---|---|
| `SimulatedPlcService` | three fields under `_syncLock` | status, two reads, start, stop | called by every TCP handler and the polling worker, concurrently | multi-field updates, cancellation during the simulated latency, range ends | the plant changes as a whole, at one instant per call, and only for calls that were not cancelled |
| `PlcCommandProcessor` | none | one handler per command | simulator | an exception becomes `ERR`, a cancellation does not | a reply says what was done |
| `TcpPlcServer` | listener, one task per client | accept, read line, process, reply, shut down | network, processor | handlers run on after the accept loop ends; executed but never answered | each line is executed once, replies in order |
| `PlcPollingWorker`, `Worker/Program.cs` | host life cycle | poll with backoff, start, stop by ESC or signal | simulator, host | a cancellation escaping from the loop, a signal while `Main` waits for a key | polling goes on until shutdown, shutdown ends |
| `NetworkPlcService` | `_client`, `_stream`, `_reader`, `_writer`, semaphore `_lock` | connect, exchange, reset, dispose; the five operations on top | every dashboard; TCP | two separate acquisitions of the lock, stale connections, cancellation in the middle of an exchange, requests of unknown fate | a reply reaches the call it answers, nothing is sent twice, the service recovers |
| `Home.razor` | `_status`, timer, token source | initialise, poll every second, start, stop, dispose | `NetworkPlcService`, the circuit | a failed poll ends the loop, disposal during initialisation, one dashboard disturbing another | the display follows the plant while the page is open and stops when it is closed |
| `ReconnectModal.razor.js` | dialog, one listener | retry, resume, reload | Blazor runtime | retries racing with visibility events | the page ends up connected or reloaded |
| `TcpSettings`, models, layouts, `WebHmi/Program.cs` | configuration | none | | | |
| Bootstrap under `wwwroot/lib` | third party | | | | |

The failures the code has to live with are those of its environment: the Worker stops and starts
again, a connection breaks with a request or a reply under way, a dashboard is closed in the middle
of a poll. Everything else is the interleaving of asynchronous calls.

`PROJECT.json` lists the places where each of these bites, line by line, and the property that
watches each.

## 2. Modules

| Module | Models | Role |
|---|---|---|
| `PlcStatus` | `IPlcService`, `PlcSystemStatus` | domain: operations, status values, what an operation reports |
| `PlcMemory` | | abstract specification: a plant whose calls act at one instant each |
| `SimulatedPlcService` | `SimulatedPlcService.cs` | the simulator, its critical sections cut at every store |
| `AtMostOnceCall` | | abstract specification: a remote call executed at most once |
| `NetworkPlcService` | `NetworkPlcService.cs` | the client with an external TCP link and peer |
| `PlcCommands` | `PlcCommandProcessor.cs` | the command lines, what each does and what it is answered |
| `LineServer` | | abstract specification: what a client of the bridge may rely on |
| `TcpPlcServer` | `TcpPlcServer.cs`, `PlcCommandProcessor.cs` | the serving end, with external clients |
| `HomePage` | `Home.razor` | what a page keeps and does between its calls; shared by the next and by `DashboardBridge` |
| `HomeDashboard` | `Home.razor` | the pages over a short model of the client: a lock, a connection, a reply |
| `RemotePlant` | | abstract specification: what the bridge promises to a caller in the HMI |
| `PlcBridge` | `NetworkPlcService.cs` with the Worker behind it | composition from end to end |
| `DashboardBridge` | `Home.razor` over `NetworkPlcService.cs` and the Worker | composition of the pages with the bridge; implements `HomeDashboard` |
| `WorkerHost` | `Worker/Program.cs`, `PlcPollingWorker.cs` | the process of the Worker |
| `ReconnectModal` | `ReconnectModal.razor.js` | the dialog of a page that has lost its circuit |
| `MC...` | | instances for TLC |
| `...Proofs` | | theorems and proofs |

### SimulatedPlcService

A call goes from `idle` to `delay` (the token check and `Task.Delay`), where it may be cancelled,
then into the lock. A read draws its two deltas on entry (`updating`), stores the temperature
(`temperatureStored`), stores the pressure (`stored`), and builds its answer from the fields as it
leaves; a pump command sets the flag (`switched`) and leaves. Values are tenths of a degree and of
a bar: the code rounds to one decimal, so a delta of at most 0.5 degrees is one of -5..5 tenths and
the double arithmetic is exact at that resolution. Entering requires `SyncLockFree`; the model
keeps the steps inside the lock separate, so that atomicity is a result and not an assumption.

`IsAtomicMemory` is a refinement: the plant of `PlcMemory` is mapped to the fields, except inside
a read, where it already has the values the read is about to store.

### NetworkPlcService

A call starts at `ensure`, looks at the fields without the lock (`AlreadyConnected`,
`NeedsConnection`), possibly waits for the lock to connect (`waitConnect`, `connecting`), then
waits for it again (`waitIO`), writes and reads. Each `await` is a point where other callers run:

* `client` is `_client`: null, a `TcpClient` that has not connected (`Fresh`: line 42 assigns the
  field before line 43 connects), or a connection. `channel` stands for `_stream`, `_reader` and
  `_writer`, which are assigned and nulled together.
* `leaked` counts the `TcpClient`s that no field refers to and nobody has disposed of. A
  `ConnectAsync` that fails leaves its `TcpClient` in `_client`: the exception leaves
  `EnsureConnectedAsync` outside the `try` whose `catch` resets, and the next attempt assigns a new
  one over it (`NewTcpClient`). The socket such a `TcpClient` has opened is closed by its finalizer
  at best, of which nothing is assumed. No action reads `leaked`.
* `Connected` is `TcpClient.Connected`, which says how the last operation on the socket went and
  nothing of what the peer did since; it turns false while an exchange is failing (`SeenBroken`).
* `ResetConnection` closes the client's end of the connection `client` refers to. The peer may
  still execute what was sent on it (`PeerServes` after the client's end is closed).
* `FindChannelGone` is the `InvalidOperationException` of line 70: another call has reset the
  connection since this one saw it.
* `Dispose` takes no lock. After it `WaitAsync` and `Release` throw; a caller queued on the
  semaphore is never woken, which is why `CallsReturn` excludes that case.
* `StreamWriter.Dispose` flushes what a cancelled `WriteLineAsync` left in its buffer, so a
  cancelled write may have been sent: `Write` followed by `ExchangeFails`.

The peer and the link are external: lines are executed or refused in the order they arrive on a
connection, a connection may fail (`LinkFails`, keeping or losing what is under way), and the peer
may stop and start listening. A request is a caller and the number of its call, a reply names the
request it answers; the code has no such names, which is the point of `ReplyMatchesCall`. The
commands themselves play no role in the client and are left out. A connection identity is used
again once both ends have closed and nothing is under way on it.

### TcpPlcServer

`loop` is `ExecuteAsync`, `handler[k]` the `HandleClientAsync` of connection `k`: `queued` in the
backlog of the listener until it is accepted, then `reading`, `processing` and `replying`, the three
awaits, and `ended`. `command` and `response` are the locals of the handler between awaits. What
happens at each await is one action per outcome:

* `Read`, `FindEnd` (null line, or an exception of the stream: both end the handler) and
  `ReadCancelled`;
* `Process`, `ProcessThrows` (an exception of the plant becomes `ERR:INTERNAL_SERVER_ERROR`) and
  `ProcessCancelled` (an `OperationCanceledException` does not, and ends the handler unanswered);
* `Write`, after which line 84 looks at the token, and `WriteFails`.

A handler that ends closes its socket (`EndHandlers`). If lines were waiting to be read the closing
resets the connection, and the client may lose replies that had reached it. `StopAccepting` and
`AcceptFails` are the two ways out of the accept loop; both stop the listener, which resets the
connections it had not accepted, and leave the handlers running, since nobody awaits them. `Listen`
may fail: line 43 is outside the `try`.

The plant is that of `PlcMemory`, reduced to the pump: a command acts at one instant, the result
that `IsAtomicMemory` establishes for the simulator. A reply is its command, `OK` or `ERR`, and the
pump. `SimulatedPlcService` never throws anything but a cancellation; `PlantMayThrow` stands for
another `IPlcService`, which the `catch` of line 43 is there for. `Window` is how many replies fit
in the buffers of a connection before `WriteLineAsync` waits.

Clients may send ahead of the replies, half-close, close (losing or not what they sent last) and,
when they are in `SlowClients`, never receive.

`IsLineServer` refines `LineServer`: a line held by a handler is mapped to one not executed yet, a
reply it holds to one on its way. `LineServer` has one atomic `Execute` per line; there `Process` is
an `Execute`, `ProcessThrows` a `Refuse`, and every way for a handler to end is a `Finish`.

### HomePage and HomeDashboard

Each page has three asynchronous flows that make calls: `OnInitializedAsync`, `PollDataAsync` and
the handler of a button. `HomePage` is the component without its calls: `page`, `timer`, `poll`,
`button` and `status`, where `timer` stands for `_timer` with `_cts`, which live and die together,
and what a flow does when its call returns (`CallReturns`), throws (`CallThrows`) or is cancelled
(`PollCancelled`).

`HomeDashboard` adds the client as the pages can tell it. `call[<<d, t>>]` is where flow `t` of page
`d` is inside it: `ensuring` (looks for a connection, and makes one under the lock), `waiting` (past
`EnsureConnectedAsync`, waits for the lock again) or `exchanging`; `link` is the connection in use
and `reply` the line its holder can read. The streams, the sockets and the lines that wait on
connections already given up are left to `DashboardBridge`.

An exception leaving
the initialisation or a button handler is unhandled, and Blazor ends the circuit, which disposes of
the page (`CircuitEnds`); one leaving the poll loop is lost with the discarded task of line 107.
Only the poll passes a token, so only it can be cancelled (`CancelPoll`), and in the middle of an
exchange this resets the connection that all pages use. A page that is disposed of while it is
loading becomes `abandoned`, any other `closed`; its flows run on in both cases, and `Open` reuses
the place only of a page that has nothing left running. The first, static rendering of a page is
covered: it is one that opens and closes without being touched.

Of the status the pump is kept. `Stale(d)` is an open page showing a pump that is not so.
`DisplayFollows` says that this does not last as long as the poll loop lives, `LiveDisplay` that it
never lasts. `PollingFollowsPage` ties the timer and the poll loop to the page: alive, or faulted,
while it is open, cancelled once it is closed.

### PlcBridge

`PlcBridge` extends `NetworkPlcService` and keeps every action of it, with what they mean to the
plant: `Call` is an `Invoke` with a command out of `Asks`, `Answer` a `Read` whose line gives the
typed method its result, `Continue` every other step of a call, `Serve` a `PeerServes` in which the
Worker executes the line. The Worker is taken as `LineServer` describes it, the specification that
`TcpPlcServer` is proved to implement: a line acts at one instant and its reply is what it did or
found. `GiveResult` reads the reply line, not the request the caller has in mind: a reply given to
the wrong call would show. A line sent on a connection that the client has given up may still be
executed.

In `NetworkPlcService` a peer that has stopped listening may start again. The accept loop of
`TcpPlcServer` never does, so this is a new process of the Worker (`WorkerRestarts`): the
connections of the old one and the lines it had not executed are gone, and its plant starts again
with the pump off. The death of the old process is `StopListening` with a `LinkFails` that loses
what was under way.

`IsRemotePlant` refines `RemotePlant`, with the same variables and `made` of the client: a command
acts once, after its call; a call that returns normally has acted; a status is the pump as its own
command found it. A failed call may act at any later time, even after calls that came later, and
this is what the code does. `StopHolds` is what is left of the order of commands: after an
acknowledged `STOP_PUMP` the pump runs only by another caller, or by an older `START_PUMP` whose
caller was told it had failed. Clients of the Worker other than the HMI are left out here; they are
in `TcpPlcServer` and `HomeDashboard`.

### DashboardBridge

Here every call a flow makes is a call of `PlcBridge`: the callers are the flows, `Ask` is its
`Call` with the command the flow wants, `GetsLine` its `Answer` followed by what the flow does with
the result, `Works`, `Throws` and `CancelPoll` are the other steps of a call, sorted by whether the
flow sees nothing, an exception or its own cancellation. A call and the continuation of the flow
that awaits it are one step, except between the two calls of a button handler (`Refresh`), so the
pages may do anything in between. The service is a singleton that outlives the pages; its disposal
is in `NetworkPlcService` and `PlcBridge`.

`IsDashboard` maps this to `HomeDashboard`. `CallOf` forgets at which await inside a phase a call
is; `LockOf` is the lock of an exchange, that of `EnsureConnectedAsync` being seen as the instant at
which the connection is made; `LinkOf` asks whether the Worker's end of the connection in use is
open; `ReplyOf` reads the line that waits on it. Stating this corrected `HomeDashboard`, which had
no call that finds a connection without waiting for the lock, no `ERR` reply and no connection that
survives the end of the listener: all of these happen to a page. A command that the Worker executes
on a connection already given up is `OtherClient` to the pages.

### WorkerHost

`main` is where `Main` is, `poll` and `server` are the tasks of the two background services, each
with the token the host cancels for it. The .NET host is external, and is used as the version the
projects reference behaves: `StartAsync` queues `ExecuteAsync` and does not wait for it;
`StopAsync` cancels and awaits the services in the reverse order of their registration, until its
timeout; a signal, or a service that throws, only raises `ApplicationStopping` (`closing`), which
`Main` never looks at. `Main` leaves its loop by ESC (`Escape`) or by an exception of the console
(`ConsoleFails`), which disposes of the host without stopping it.

The poll is `reading` while it is in the plant, `pausing` in line 47 and `backingOff` in line 54.
The plant is called without the token, so only `PlantMayHang` can keep the shutdown waiting, until
`ShutdownTimeout`. Signals during the start of the host, before `Main` waits, are left out. A
cancellation thrown by the plant itself is too: the simulator throws one only for a token.

### ReconnectModal

The script runs one callback at a time and can be left only at an `await`, so a call of `retry` or
`resume` is one step up to its await (`ClickRetry`, `ClickResume`, the listener in
`VisibilityChange`) and one step per outcome after it (`Reconnected`, `CircuitLost`, `Recovered`,
`RetryThrows`, `Resumed`, `ResumeThrows`). Calls in flight have no local state but the await they
are at, and are counted. `class` is the CSS class by which the runtime announces its state and
which decides what buttons are shown; `dialog` is the element, which Escape closes without the
script (`Dismiss`). `listening` is the registration of the visibility listener: adding the same
function twice registers it once.

The runtime, the browser, the server and the user are external. The contract taken from the
comments of the script is liberal: `reconnect` returns or throws according to whether the server
is reachable when it settles, returns false at any time, and `resumeCircuit` may be refused, also
on a page that has its circuit again. `overlaps` counts the clicks made during another call. What
goes wrong then (a page reloaded that had just recovered, several reconnections at once) is
excluded from `ReloadNeedsOutage` and `OneRetryUnlessClicked` in proportion; what the visits of the
user can do is not.

## 3. Runs

| Run | Instance | Shows |
|---|---|---|
| `simulated_plc` | 2 threads, 3 temperatures, 2 pressures, steps of one tenth | `TypeOK`, `IsAtomicMemory`, `CallsReturn` |
| `network_client` | 2 callers with 2 calls each that do not cancel, 2 connections, 2 failures, disposal | `TypeOK`, `CallsReturn`, `Reconnects` |
| `tcp_server` | 2 connections with 2 lines each, one client starts the pump and may stop receiving, the other one stops or reads it or sends what is no command; plant may throw | `TypeOK`, `IsLineServer`, `Answered`, `HandlersEnd` |
| `tcp_client_left` | as `network_client` | violates `NoTcpClientLeft` |
| `dashboards` | 2 pages, one with its buttons, another client and a Worker that stays up; or the page with the buttons alone, where Worker and link fail and recover | `TypeOK`, `PollingFollowsPage`, `DisplayFollows`, `ClosedStopsPolling` |
| `dashboard_live_display` | 2 pages, Worker stays up | violates `LiveDisplay` |
| `dashboard_zombie` | 1 page, Worker stays up | violates `DisposedStopsPolling` |
| `plc_bridge` | 2 callers with 2 calls each, one starts and stops and may cancel, one starts and reads; 2 connections, 2 failures, disposal | `ReplyMatchesCall`, `IdleChannelIsClean`, `NoConnectionLeft`, `IsAtMostOnceCall`, `IsRemotePlant`, `StopHolds` |
| `dashboard_bridge` | 1 page with its three flows, 2 calls each, 2 connections, 1 failure | `IsDashboard` |
| `worker_host` | plant may throw or not return, port may be taken, console may fail | `TypeOK`, `ShutdownIsClean`, `ShutdownEnds`, `PollsUntilStopped` |
| `worker_signal` | plant may throw, port may be taken | violates `ClosingEndsPolling` |
| `reconnect_modal` | up to 3 clicks during another call | `TypeOK`, `DialogMatchesConnection`, `FailedIsRetried`, `OneRetryUnlessClicked`, `ReloadNeedsOutage`, `OutagesEnd` |

**The four violations** are disagreements between the code and what it says of itself.

* `NoTcpClientLeft`, "resetta il canale in caso di errore di comunicazione" (`README.md:282`):
  every attempt to connect to a Worker that is down, after the first, drops the `TcpClient` of the
  one before without disposing of it (`NetworkPlcService.cs:42`). `NoConnectionLeft` is what does
  hold: connections that were made are closed when the service stops referring to them.

* `LiveDisplay`, "in tempo reale" (`Home.razor:16`): the poll loop catches cancellation only, and
  its task is discarded, so any other exception silently ends the polling of a page that stays
  open. No failure of the Worker is needed. Two pages poll; one is closed in the middle of its
  exchange, which resets the shared connection; the poll of the other one has passed
  `EnsureConnectedAsync`, gets the lock, finds the fields null and throws.
* `DisposedStopsPolling`, "Chiusura pulita" (`Home.razor:122`): a page disposed of while
  `OnInitializedAsync` awaits its first status has nothing to cancel yet; the initialisation then
  goes on to create a timer that nobody will ever stop.
* `ClosingEndsPolling`, "Continua a girare finché non viene richiesta la chiusura dell'app"
  (`PlcPollingWorker.cs:31`): Ctrl+C and SIGTERM request the closing of the application, and the
  host suppresses their default action; `Main` waits for ESC and nothing else, so the process polls
  and serves on. The same happens when the listener cannot start: `StartAsync` does not wait for it,
  so `Main` reports its success (`Worker/Program.cs:53`) and waits for ESC without a server.

**Bounds.** Two threads and three temperatures show every overlap of two critical sections and both
ends of a range being reached and left. Two calls per caller let a call fail and the next one of
the same caller meet what it left behind; two connections let a request wait on an abandoned
connection while another is in use; two failures allow the peer to stop listening and a connection
to break, or two connections to break one after the other. Two connections and two lines let a
client send ahead while another one changes the pump in between, and a window of one reply blocks
the second `WriteLineAsync` of a client that does not receive; a third connection or line repeats
these.

Two pages are one that disturbs and one that is disturbed; `Operated` keeps the buttons to
one of them, since the other client of `OtherClient` does to the pump what a second page's buttons
would. `MCDashboards` chooses between two pages without failures and one page with them, because
both at once exceed what TLC can do for a temporal property; the invariants of the pages are proved
for both at once. The actions it takes away are under no fairness. A page runs at most one button
handler at a time, where the code lets a second click start another.

In the bridge two callers with two calls each let one of them start, stop, fail and be
executed late while the other one changes the pump or reads it, and two failures are a connection
lost with a Worker that stops. The three flows of one page are three callers of the client, one of
which cancels; with two calls each the poll is cancelled in the middle of an exchange on a
connection the button is about to use, and the handler reads the status after its command; the
interplay of two pages at this depth is left to the proof. The Worker host has no bound. In the
dialog, three overlapping clicks let every pair of calls in flight overlap, with a third one that
settles in between; visits and outages are not bounded. The proofs hold for every value.

**Not caught.** A poll and a button handler may both be about to write the display, and the older
status may be the one written last; the next poll repairs this, so neither `DisplayFollows` nor
`IsDashboard` sees it. Overlapping clicks on the dialog may reload a page that has just recovered or
start several reconnections: `ReloadNeedsOutage` and `OneRetryUnlessClicked` excuse as much as the
overlaps explain, and so say nothing of these cases themselves.

**Deadlock** is not checked in the network, bridge and dashboard-over-bridge runs: the calls are
bounded, so the model stops once they are all made, and after a disposal a queued caller does wait
for ever. Nor in the server's: a
server that has been stopped has nothing left to do. Nor in the Worker host's: its process ends.

**Fairness.** Inside `lock` a thread keeps running (weak), and a waiting thread gets a lock that is
free again and again (strong: `Monitor` and `SemaphoreSlim` queue their waiters). A continuation
whose await can complete runs (weak). The peer reads the lines that reach it and notices that a
connection was closed (weak); nothing is assumed to make links fail or recover, nor callers to call
or cancel. A peer that stays connected and silent is excluded by this: the code sets no timeout, so
with such a peer every caller waits for ever.

In the server the loop and every handler run when they can (weak: the thread pool), and clients
outside `SlowClients` receive what reaches them. In the dashboards the lock is handed to its
waiters (strong, as above), its holder proceeds and timers tick (weak); nobody has to open or close
a page or to press a button, and nobody has to leave the pump alone.

In the Worker host `Main` and the tasks run when they can, and the plant returns or throws, unless
it may hang: then the timeout of the host elapses instead. Nobody has to press ESC. For
`OutagesEnd` calls settle, the attempts of the runtime end, a reload takes place, and the user
keeps leaving and revisiting the page, as line 17 of the script hopes for, and clicks Resume when it
is offered (all weak); the property itself assumes that the server stays reachable from some time
on. Nobody has to click Retry.

## 4. Proofs

`SimulatedPlcServiceProofs`. Types are inductive by themselves (`ClampInRange` for the sensors).
`LockInv` says that `_syncLock` names the one thread inside the lock; with it `StepRefines` maps
every step to a step of `PlcMemory` or to a stutter: entering the lock is where the call acts,
stores are stutters because the mapping has anticipated them, leaving is the return.

`NetworkPlcServiceProofs`. None of the properties is inductive. `IInv` adds what they rest on:
who holds the lock is at a point inside it (`LockInv`); the fields agree and only the connection
they refer to is open (`FieldsInv`); at most one line waits on a connection, on the connection in
use it is the request of the call that is reading, and elsewhere a request that was written and not
executed (`RequestInv`), on one connection only (`DistinctInv`); a reply waits only for the call
that is reading (`ReplyInv`); a request not yet written is not executed (`LedgerInv`).
`ConnectionsClosed` follows from `FieldsInv`; of a `TcpClient` that never connected nothing is
proved, since `NoTcpClientLeft` is violated. `QueuesShrink` settles the queue invariants at once for
every action that only removes lines; the two that add some, `Write` and `PeerServes`, are proved
apart. `AtMostOnce` then maps `PeerServes` to the execution of a request and every return to success
or failure of the call.

`TcpPlcServerProofs`. Types and the bound on `received` need three more facts (`IInv`): a handler
holds a line exactly while it processes and a reply exactly while it writes (`HoldsInv`); nothing
waits on a connection where nobody will take it (`IdleInv`); replies received, on their way or still
to come are no more than the lines sent (`CountInv`). `Serves` then maps every step to `LineServer`.
`Mapping` and `Frame` reduce the mapped variables to what they are at one connection (`Phase`,
`Todo`, `Owed`), so that each action is settled by what it does there; `Cons`, `Uncons` and
`Prefixes` are the facts about queues this takes, and `EndRefines` treats the end of any set of
handlers once, for all the actions that end some.

`HomeDashboardProofs`. The lock names the one flow inside an exchange because a flow calls only when
its page says so (`CallInv`). `PageInv` strengthens `PollingFollowsPage` to an inductive statement:
no timer and no poll loop while the page loads, a timer that runs and a loop that has not been told
to end while it is open, a cancelled timer once it is closed. The abandoned page is missing from
that list, which is where `DisposedStopsPolling` fails.

`PlcBridgeProofs`. A step of the bridge is one of the client's (`StepClient`), so `IInv` and its
proof are reused as they stand. Over it `StepKinds` reduces every step to a call, a return, an
execution, a restart or nothing at all; what a reply says is the pump its own request saw because
`ReplyInv` ties it to the call that reads it. `FateInv` and `SeenInv` relate the fate of a request
to its execution, and with them each kind is a step of `RemotePlant` (`StepRemote`). `StopHolds` is
not inductive: `StartInv` adds that a pump which is on was started by an executed `START_PUMP`, and
that an acknowledged one has no executed `STOP_PUMP` of its caller after it (`Unstopped`).

`DashboardBridgeProofs`. `StepBridge` shows that a step of the pages is a step of the bridge or
leaves it alone, so the invariant of `PlcBridgeProofs` holds here, and with it `IsRemotePlant` and
`StopHolds` for the flows of the pages (`PagesAreCallers`). The mapping to `HomeDashboard` needs
three more facts (`HmiInv`): types (`PagesOK`), the command of a call that is under way is the one
its flow wants (`CommandInv`), and there is no connection while a call connects and one while a call
exchanges (`ServiceInv`). Each action then has a
lemma that names the action of `HomeDashboard` it maps to (`MapAsks`, `MapWorks`, `MapThrows`,
`MapCancelPoll`, `MapGetsLine`, `MapServe`, `MapBreaks`). Two of them carry the weight: `MapGetsLine`
uses `OwnLine`, that the line a flow reads is the reply to its own command, and `MapServe` tells the
execution of the command of the flow that is reading (`Serve`, `Refuse`) from that of an abandoned
one (`MapLate`, a step of `OtherClient` or a stutter). By `PagesOverBridge` what holds of every
behaviour of `HomeDashboard` under the mapping, `PollingFollowsPage` with it, holds of the pages over
the real client.

`WorkerHostProofs`. `StopInv` carries the end of the polling over to the time when the server is
stopped: a service that is over stays so, and what was not over was cut by the timeout.

`ReconnectModalProofs`. `CallsInv` refines the bound of `OneRetryUnlessClicked` by what the dialog
shows: while the runtime is connected, tries by itself or is rejected, every call in flight and the
listener stem from an overlapping click; once it has given up, or the session is paused, one more
may be there. `ReloadNeedsOutage` rests on it too. Numbers and flags are proved in separate steps,
as the provers take them.

The assumptions are those of the modules: ranges contain the starting values (`RangesAssumption`),
`None` and `Fresh` are not callers, connections, lines, flows, commands or flags (`NoneAssumption`,
`ServiceAssumption`, `ServerAssumption`, `DashboardAssumption`, `BridgeAssumption`), callers ask
commands of the plant (`BridgeAssumption`), only pages that exist have their buttons pressed
(`PageAssumption`), the callers of the service are the flows of the pages, of which the poll alone
passes a token (`HmiAssumption`), bounds are numbers (`OverlapsAssumption`) and switches
are Boolean (`HostAssumption`).

Liveness is only model-checked: fairness and `ENABLED` are outside the prover's fragment.

## 5. Plan

1. Done: simulator and network client, their abstract specifications and proofs.
2. Done: TCP server with the command processor, `LineServer`, the proof that one implements the
   other.
3. Done: the dashboards over the shared client, and their types proved.
4. Done: the bridge from end to end, `RemotePlant`, and the proof that one implements the other.
5. Done: the process of the Worker, and its clean shutdown proved.
6. Done: the reconnection dialog, and its safety proved.
7. Done: the pages over the bridge, and the proof that `HomeDashboard` is all they can see of it.
8. Left: a proof that `TcpPlcServer` with its queues is a peer of `PlcBridge` (today the step
   between them is `LineServer`, read as an assumption of `Serve`). The server uses a connection
   once and ends several at a time, the client counts failures and names its requests, so this
   takes a common refinement of the two rather than a mapping.

A module for the formatting and parsing of replies was planned and dropped: sensor values are
rounded to one decimal before they are formatted with one, so the conversions lose nothing, and the
one thing parsing may hide, a line of another kind read as zeros, is in `ParsedPump`.

## 6. Not modelled

Logging, dependency injection, configuration binding, markup, and Bootstrap. A peer that is
connected and never answers: the client sets no timeout. A process of the Worker that ends by an
exception of its console is modelled but nothing is claimed of it. The doubles of the
sensors are exact tenths. Bytes, encodings and the byte-order mark that both `StreamWriter`s send
first (and both `StreamReader`s skip) are below the level of lines.
