-------------------------- MODULE NetworkPlcService --------------------------
(***************************************************************************)
(* NetworkPlcService, the client end of the bridge: one TCP connection     *)
(* shared by every caller of a singleton, a semaphore (_lock) that is      *)
(* taken once to connect and once more, after having been released, to     *)
(* exchange a request for a reply, and a reset of the connection whenever  *)
(* an exchange does not end with a reply.  The peer and the TCP link are   *)
(* external: a request line is executed when the peer serves it, the link  *)
(* may go down and the peer may stop listening, within a budget.           *)
(*                                                                         *)
(* A request is the pair of a caller and the number of its call; a reply   *)
(* is the request it answers and whether it is OK or ERR.                  *)
(***************************************************************************)
EXTENDS Integers, Sequences

CONSTANTS
  Callers,      \* concurrent users of the service: polls and button handlers
  Cancellable,  \* those that pass a token that may be cancelled
  Conns,        \* TCP connections; one is used again once both ends forgot it
  MaxCalls,     \* bound on the calls each caller makes
  MaxFaults,    \* bound on the failures of the link and of the peer
  None,         \* nobody, a field that is null
  Fresh         \* a TcpClient that has not connected

ASSUME ServiceAssumption ==
  /\ Cancellable \subseteq Callers
  /\ MaxCalls \in Nat /\ MaxFaults \in Nat
  /\ None \notin Callers \union Conns
  /\ Fresh \notin Conns \union {None}

VARIABLES
  lock,       \* who holds _lock, or None
  client,     \* _client: None, Fresh or the connection of the TcpClient
  channel,    \* _stream, _reader and _writer: None or the connection they use
  disposed,   \* DisposeAsync has run
  leaked,     \* how many TcpClients no field refers to and nobody disposed of
  pc,         \* pc[c]: where c's call is
  made,       \* made[c]: how many calls c has made
  outcome,    \* outcome[c]: how c's last call ended
  answered,   \* answered[c]: the request whose reply c's last call was given
  open,       \* open[k]: the ends of connection k that have not closed it
  toServer,   \* toServer[k]: request lines the peer has not read
  toClient,   \* toClient[k]: reply lines the service has not read
  listening,  \* the peer accepts connections
  faults,     \* failures so far
  executed    \* executed[r]: how many times the peer has executed r

service == <<lock, client, channel, disposed, leaked>>
calls   == <<pc, made, outcome, answered>>
link    == <<open, toServer, toClient>>
peer    == <<listening, faults, executed>>
vars    == <<service, calls, link, peer>>

Requests == Callers \X (1..MaxCalls)
Replies  == [to : Requests, ok : BOOLEAN]
Ends     == {"client", "server"}

(* Points of a call.  ensure: about to look at the fields (line 32); waitConnect *)
(* and waitIO: at the two WaitAsync; connecting: inside ConnectAsync; writing    *)
(* and reading: inside the two awaits of the exchange.                           *)
Waiting   == {"waitConnect", "waitIO"}
Exchange  == {"writing", "reading"}
Locked    == Exchange \union {"connecting"}
Unsent    == Waiting \union {"ensure", "connecting", "writing"}
Points    == Unsent \union {"idle", "reading"}

ServiceTypeOK ==
  /\ lock \in Callers \union {None}
  /\ client \in Conns \union {None, Fresh}
  /\ channel \in Conns \union {None}
  /\ disposed \in BOOLEAN
  /\ leaked \in Nat

CallsTypeOK ==
  /\ pc \in [Callers -> Points]
  /\ made \in [Callers -> 0..MaxCalls]
  /\ outcome \in [Callers -> {"none", "pending", "ok", "failed"}]
  /\ answered \in [Callers -> Requests \union {None}]

LinkTypeOK ==
  /\ open \in [Conns -> SUBSET Ends]
  /\ toServer \in [Conns -> Seq(Requests)]
  /\ toClient \in [Conns -> Seq(Replies)]

PeerTypeOK ==
  /\ listening \in BOOLEAN
  /\ faults \in 0..MaxFaults
  /\ executed \in [Requests -> Nat]

TypeOK == ServiceTypeOK /\ CallsTypeOK /\ LinkTypeOK /\ PeerTypeOK

Init ==
  /\ lock = None /\ client = None /\ channel = None /\ disposed = FALSE /\ leaked = 0
  /\ pc = [c \in Callers |-> "idle"]
  /\ made = [c \in Callers |-> 0]
  /\ outcome = [c \in Callers |-> "none"]
  /\ answered = [c \in Callers |-> None]
  /\ open = [k \in Conns |-> {}]
  /\ toServer = [k \in Conns |-> << >>]
  /\ toClient = [k \in Conns |-> << >>]
  /\ listening = TRUE /\ faults = 0
  /\ executed = [r \in Requests |-> 0]

-----------------------------------------------------------------------------
Request(c) == <<c, made[c]>>

Goto(c, point) == pc' = [pc EXCEPT ![c] = point]

Return(c, how) ==
  /\ Goto(c, "idle")
  /\ outcome' = [outcome EXCEPT ![c] = how]

(* _client is { Connected: true }: the property keeps the result of the last  *)
(* operation on the socket, so it says nothing of what the peer has done since. *)
Connected == client \in Conns

(* While an exchange is finding out that its connection is gone, and has not  *)
(* reset it yet, the property is already false.                               *)
SeenBroken ==
  /\ Connected /\ "server" \notin open[client]
  /\ lock \in Callers /\ pc[lock] \in Exchange

(* The client's end is closed, with the replies it had not read. *)
CloseClientEnd ==
  /\ open' = [k \in Conns |-> IF k = client THEN open[k] \ {"client"} ELSE open[k]]
  /\ toClient' = [k \in Conns |-> IF k = client THEN << >> ELSE toClient[k]]

(* ResetConnectionAsync: what the fields refer to is disposed, and they are nulled. *)
ResetConnection ==
  /\ client' = None
  /\ channel' = None
  /\ CloseClientEnd

(* _lock.WaitAsync returns: the semaphore is free and not disposed. *)
LockIgnored == ~disposed
LockFree == lock = None /\ ~disposed

(* The finally blocks. *)
ReleaseForgotten == UNCHANGED lock
Release == lock' = None

-----------------------------------------------------------------------------
(* A caller enters one of the methods of IPlcService. *)
Invoke(c) ==
  /\ pc[c] = "idle"
  /\ made[c] < MaxCalls
  /\ Goto(c, "ensure")
  /\ made' = [made EXCEPT ![c] = @ + 1]
  /\ outcome' = [outcome EXCEPT ![c] = "pending"]
  /\ answered' = [answered EXCEPT ![c] = None]
  /\ UNCHANGED <<service, link, peer>>

(* The first check of EnsureConnectedAsync, made without the lock. *)
AlreadyConnected(c) ==
  /\ pc[c] = "ensure"
  /\ Connected /\ channel # None
  /\ Goto(c, "waitIO")
  /\ UNCHANGED <<service, made, outcome, answered, link, peer>>

NeedsConnection(c) ==
  /\ pc[c] = "ensure"
  /\ ~Connected \/ channel = None \/ SeenBroken
  /\ Goto(c, "waitConnect")
  /\ UNCHANGED <<service, made, outcome, answered, link, peer>>

RecheckSkipped == FALSE
Recheck == Connected

(* Inside the lock the connection is looked at again: another caller may have *)
(* made it.                                                                   *)
FindConnected(c) ==
  /\ pc[c] = "waitConnect"
  /\ LockFree
  /\ Recheck
  /\ Goto(c, "waitIO")
  /\ UNCHANGED <<service, made, outcome, answered, link, peer>>

StreamsOpenedAtOnce == channel' = Fresh
StreamsNotYetOpen == UNCHANGED channel

(* Line 42 assigns over what the field held: the TcpClient of an attempt that  *)
(* failed is still there, and its socket open.                                 *)
NewTcpClient ==
  /\ client' = Fresh
  /\ leaked' = IF client = None THEN leaked ELSE leaked + 1

StartConnecting(c) ==
  /\ pc[c] = "waitConnect"
  /\ LockFree
  /\ ~Recheck
  /\ lock' = c
  /\ NewTcpClient
  /\ StreamsNotYetOpen
  /\ Goto(c, "connecting")
  /\ UNCHANGED <<disposed, made, outcome, answered, link, peer>>

(* ConnectAsync returns and the streams are opened.  After DisposeAsync the   *)
(* release of the semaphore throws.                                           *)
ConnectSucceeds(c) ==
  /\ pc[c] = "connecting"
  /\ client = Fresh
  /\ listening
  /\ \E k \in Conns :
       /\ open[k] = {} /\ toServer[k] = << >> /\ toClient[k] = << >>
       /\ client' = k
       /\ channel' = k
       /\ open' = [open EXCEPT ![k] = Ends]
  /\ Release
  /\ IF disposed THEN Return(c, "failed") ELSE Goto(c, "waitIO") /\ UNCHANGED outcome
  /\ UNCHANGED <<disposed, leaked, made, answered, toServer, toClient, peer>>

(* ConnectAsync throws, is cancelled, or its TcpClient was disposed: the field *)
(* keeps the TcpClient that did not connect.                                   *)
ConnectFails(c) ==
  /\ pc[c] = "connecting"
  /\ ~listening \/ client = None \/ c \in Cancellable
  /\ Release
  /\ Return(c, "failed")
  /\ UNCHANGED <<client, channel, disposed, leaked, made, answered, link, peer>>

(* The second WaitAsync, of SendAndReceiveAsync. *)
BeginExchange(c) ==
  /\ pc[c] = "waitIO"
  /\ LockFree
  /\ channel # None
  /\ lock' = c
  /\ Goto(c, "writing")
  /\ UNCHANGED <<client, channel, disposed, leaked, made, outcome, answered, link, peer>>

(* "Canale di comunicazione TCP non inizializzato": since the check of         *)
(* EnsureConnectedAsync another call has reset the connection.                 *)
FindChannelGone(c) ==
  /\ pc[c] = "waitIO"
  /\ LockFree
  /\ channel = None
  /\ ResetConnection
  /\ Return(c, "failed")
  /\ UNCHANGED <<lock, disposed, leaked, made, answered, toServer, peer>>

(* WriteLineAsync: the line is on its way, or lost when the peer has gone. *)
Write(c) ==
  /\ pc[c] = "writing"
  /\ channel # None
  /\ toServer' = IF "server" \in open[channel]
                 THEN [toServer EXCEPT ![channel] = Append(@, Request(c))]
                 ELSE toServer
  /\ Goto(c, "reading")
  /\ UNCHANGED <<service, made, outcome, answered, open, toClient, peer>>

(* ReadLineAsync returns a line.  A reply that is not OK makes the typed       *)
(* method throw, outside the try: the connection is kept.                      *)
Read(c) ==
  /\ pc[c] = "reading"
  /\ channel # None
  /\ toClient[channel] # << >>
  /\ LET reply == Head(toClient[channel])
     IN  /\ answered' = [answered EXCEPT ![c] = reply.to]
         /\ Return(c, IF reply.ok THEN "ok" ELSE "failed")
  /\ toClient' = [toClient EXCEPT ![channel] = Tail(@)]
  /\ Release
  /\ UNCHANGED <<client, channel, disposed, leaked, made, open, toServer, peer>>

(* The write or the read throws, the read finds the end of the stream, or the  *)
(* token is cancelled in either.  A write that is cancelled after its line was *)
(* buffered is flushed by the disposal of the writer: that is Write, then this. *)
Broken == channel \notin {k \in Conns : "server" \in open[k]}

NoReset == UNCHANGED <<client, channel, open, toClient>>
ResetOnErrorOnly == IF Broken THEN ResetConnection ELSE NoReset
ResetOnException == ResetConnection

TryAgain(c) == Goto(c, "ensure") /\ UNCHANGED outcome
Rethrow(c) == Return(c, "failed")

ExchangeFails(c) ==
  /\ pc[c] \in Exchange
  /\ Broken \/ c \in Cancellable
  /\ ResetOnException
  /\ Release
  /\ Rethrow(c)
  /\ UNCHANGED <<disposed, leaked, made, answered, toServer, peer>>

(* WaitAsync throws before the try: the connection is left alone.  After       *)
(* DisposeAsync a call that reaches it throws; a call already queued is        *)
(* forgotten, which is why nothing makes this step happen.                     *)
WaitFails(c) ==
  /\ pc[c] \in Waiting
  /\ disposed \/ c \in Cancellable
  /\ Return(c, "failed")
  /\ UNCHANGED <<service, made, answered, link, peer>>

(* DisposeAsync takes no lock.  A call that has just taken it may still create *)
(* its TcpClient afterwards, in place of one that DisposeAsync disposed of.    *)
Dispose ==
  /\ ~disposed
  /\ disposed' = TRUE
  /\ channel' = None
  /\ \/ client' = None /\ UNCHANGED leaked
     \/ /\ client = Fresh /\ lock \in Callers
        /\ client' = Fresh
        /\ leaked' \in {leaked, leaked - 1} \intersect Nat
  /\ CloseClientEnd
  /\ UNCHANGED <<lock, calls, toServer, peer>>

-----------------------------------------------------------------------------
(* The peer reads one line, executes it or refuses it with ERR, and answers on *)
(* the connection it came from, if that is still up.                           *)
PeerServes(k) ==
  /\ toServer[k] # << >>
  /\ \E ok \in BOOLEAN :
       LET r == Head(toServer[k])
       IN  /\ executed' = IF ok THEN [executed EXCEPT ![r] = @ + 1] ELSE executed
           /\ toClient' = IF open[k] = Ends
                          THEN [toClient EXCEPT ![k] = Append(@, [to |-> r, ok |-> ok])]
                          ELSE toClient
  /\ toServer' = [toServer EXCEPT ![k] = Tail(@)]
  /\ UNCHANGED <<service, calls, open, listening, faults>>

(* The far end of a connection in use goes away: requests and replies under    *)
(* way are lost or not.                                                        *)
LinkFails(k) ==
  /\ open[k] = Ends
  /\ faults < MaxFaults
  /\ faults' = faults + 1
  /\ open' = [open EXCEPT ![k] = {"client"}]
  /\ toServer' \in {toServer, [toServer EXCEPT ![k] = << >>]}
  /\ toClient' \in {toClient, [toClient EXCEPT ![k] = << >>]}
  /\ UNCHANGED <<service, calls, listening, executed>>

(* The peer notices that the client has closed: it reads what was sent before, *)
(* or loses it with the connection.                                            *)
PeerCloses(k) ==
  /\ open[k] = {"server"}
  /\ open' = [open EXCEPT ![k] = {}]
  /\ toServer' \in {toServer, [toServer EXCEPT ![k] = << >>]}
  /\ UNCHANGED <<service, calls, toClient, peer>>

StopListening ==
  /\ listening
  /\ faults < MaxFaults
  /\ faults' = faults + 1
  /\ listening' = FALSE
  /\ UNCHANGED <<service, calls, link, executed>>

StartListening ==
  /\ ~listening
  /\ listening' = TRUE
  /\ UNCHANGED <<service, calls, link, faults, executed>>

-----------------------------------------------------------------------------
Acquire(c) ==
  \/ FindConnected(c) \/ StartConnecting(c)
  \/ BeginExchange(c) \/ FindChannelGone(c)

Proceed(c) ==
  \/ AlreadyConnected(c) \/ NeedsConnection(c)
  \/ ConnectSucceeds(c) \/ ConnectFails(c)
  \/ Write(c) \/ Read(c) \/ ExchangeFails(c)

ClientNext ==
  \/ \E c \in Callers : Invoke(c) \/ Acquire(c) \/ Proceed(c) \/ WaitFails(c)
  \/ Dispose

PeerNext ==
  \/ \E k \in Conns : PeerServes(k) \/ LinkFails(k) \/ PeerCloses(k)
  \/ StopListening \/ StartListening

Next == ClientNext \/ PeerNext

Spec == Init /\ [][Next]_vars

(* SemaphoreSlim queues its waiters, an await that can complete does, and the  *)
(* peer reads the lines that reach it and the closing of the connection.       *)
Fairness ==
  /\ \A c \in Callers : SF_vars(Acquire(c)) /\ WF_vars(Proceed(c))
  /\ \A k \in Conns : WF_vars(PeerServes(k)) /\ WF_vars(PeerCloses(k))

FairSpec == Spec /\ Fairness

-----------------------------------------------------------------------------
(* A call is never given the reply to another request, although all of them    *)
(* share one stream of untagged lines: neither to a request of another caller  *)
(* nor to an earlier one of its own that failed or was cancelled.              *)
ReplyMatchesCall ==
  \A c \in Callers : answered[c] # None => answered[c] = Request(c)

(* Whoever takes the lock for an exchange finds a connection with nothing      *)
(* under way on it: what an interrupted exchange left behind went with its     *)
(* connection.                                                                 *)
IdleChannelIsClean ==
  lock = None /\ channel # None => toServer[channel] = << >> /\ toClient[channel] = << >>

(* The service never has two connections open: one it no longer refers to has  *)
(* been closed, whoever raced with whom to connect (line 38).                  *)
NoConnectionLeft == \A k \in Conns : "client" \in open[k] => client = k

(* "resetta il canale in caso di errore di comunicazione" (README.md:282): no  *)
(* TcpClient is left to the garbage collector, that of an attempt to connect   *)
(* that failed included.                                                       *)
NoTcpClientLeft == leaked = 0

AMO == INSTANCE AtMostOnceCall

(* A call is a remote call executed at most once: retried by nobody, executed  *)
(* if it returned normally, whatever the link does.                            *)
IsAtMostOnceCall == AMO!Spec

(* Every call returns, unless the service is disposed of while it waits.       *)
CallsReturn == \A c \in Callers : pc[c] # "idle" ~> pc[c] = "idle" \/ disposed

(* Nothing fails any more; and besides, no failure is left that the service   *)
(* has not met yet.                                                           *)
Quiet == listening /\ faults = MaxFaults
Healthy == Quiet /\ (Connected => open[client] = Ends)

(* "resetta il canale in caso di errore di comunicazione, consentendo una      *)
(* successiva riconnessione" (README.md:282): whatever failed before, a call   *)
(* on a broken connection leaves the service without it, and from then on      *)
(* every call gets its answer.                                                 *)
Reconnects ==
  \A c \in Callers :
    /\ pc[c] = "ensure" /\ Quiet ~> Healthy \/ disposed
    /\ pc[c] = "ensure" /\ Healthy ~> answered[c] = Request(c) \/ disposed
=============================================================================
