----------------------------- MODULE TcpPlcServer -----------------------------
(***************************************************************************)
(* TcpPlcServer with PlcCommandProcessor, the serving end of the bridge: a *)
(* loop that accepts connections and a handler per connection, started and *)
(* not awaited, that reads a line, has it processed and writes the reply.  *)
(* The plant behind the processor is PlcMemory's: a command acts at one    *)
(* instant.  The clients and their TCP links are external.                 *)
(***************************************************************************)
EXTENDS PlcCommands, Naturals, Sequences

CONSTANTS
  Conns,        \* connections that clients make, each once
  SlowClients,  \* those whose client may stop receiving
  Lines,        \* Lines[k]: the commands that the client of k sends
  MaxLines,     \* bound on the lines sent on a connection
  Window,       \* replies that fit in the buffers of a connection
  PlantMayThrow,\* an operation of IPlcService may throw
  None          \* no line, no reply

ASSUME ServerAssumption ==
  /\ SlowClients \subseteq Conns
  /\ \A k \in Conns : Lines[k] \subseteq Commands
  /\ MaxLines \in Nat /\ Window \in Nat \ {0}
  /\ PlantMayThrow \in BOOLEAN
  /\ None \notin Commands \union Replies

VARIABLES
  loop,       \* ExecuteAsync: "starting", "accepting" or "ended"
  stopping,   \* stoppingToken is cancelled
  handler,    \* handler[k]: HandleClientAsync; "queued" until k is accepted
  command,    \* command[k]: rawCommand while it is processed, else None
  response,   \* response[k]: the reply being written, else None
  pump,       \* the pump of the plant
  client,     \* client[k]: "none", "open", "finished" (sends no more), "closed"
  toServer,   \* toServer[k]: lines the handler has not read
  toClient,   \* toClient[k]: replies the client has not received
  sent,       \* sent[k]: how many lines the client has sent
  received    \* received[k]: how many replies it has received

server  == <<loop, stopping>>
tasks   == <<handler, command, response>>
clients == <<client, sent, received>>
link    == <<toServer, toClient>>
vars    == <<server, tasks, pump, clients, link>>

Active == {"reading", "processing", "replying"}

TypeOK ==
  /\ loop \in {"starting", "accepting", "ended"}
  /\ stopping \in BOOLEAN
  /\ handler \in [Conns -> Active \union {"none", "queued", "ended"}]
  /\ command \in [Conns -> Commands \union {None}]
  /\ response \in [Conns -> Replies \union {None}]
  /\ pump \in BOOLEAN
  /\ client \in [Conns -> {"none", "open", "finished", "closed"}]
  /\ toServer \in [Conns -> Seq(Commands)]
  /\ toClient \in [Conns -> Seq(Replies)]
  /\ \A k \in Conns : Len(toClient[k]) <= Window
  /\ sent \in [Conns -> 0..MaxLines]
  /\ received \in [Conns -> 0..MaxLines]

Init ==
  /\ loop = "starting" /\ stopping = FALSE
  /\ handler = [k \in Conns |-> "none"]
  /\ command = [k \in Conns |-> None]
  /\ response = [k \in Conns |-> None]
  /\ pump = FALSE
  /\ client = [k \in Conns |-> "none"]
  /\ toServer = [k \in Conns |-> << >>]
  /\ toClient = [k \in Conns |-> << >>]
  /\ sent = [k \in Conns |-> 0]
  /\ received = [k \in Conns |-> 0]

-----------------------------------------------------------------------------
(* TcpListener.Start returns, or throws because the port is taken: that call  *)
(* is outside the try, and the service is over before it has served anyone.   *)
Listen ==
  /\ loop = "starting"
  /\ loop' \in {"accepting", "ended"}
  /\ UNCHANGED <<stopping, tasks, pump, clients, link>>

(* The handlers of these connections end: their streams and clients are       *)
(* disposed.  What was not read is lost, and then the client may lose replies *)
(* it has not received.                                                       *)
EndHandlers(ended) ==
  /\ handler' = [k \in Conns |-> IF k \in ended THEN "ended" ELSE handler[k]]
  /\ command' = [k \in Conns |-> IF k \in ended THEN None ELSE command[k]]
  /\ response' = [k \in Conns |-> IF k \in ended THEN None ELSE response[k]]
  /\ toServer' = [k \in Conns |-> IF k \in ended THEN << >> ELSE toServer[k]]
  /\ \E reset \in SUBSET {k \in ended : toServer[k] # << >>} :
       toClient' = [k \in Conns |-> IF k \in reset THEN << >> ELSE toClient[k]]

AcceptorBusy == \E j \in Conns : handler[j] \in Active
LoopWaitsForHandler == loop = "accepting" /\ ~AcceptorBusy
LoopAccepts == loop = "accepting"

(* AcceptTcpClientAsync returns and the handler runs to its first read.  The   *)
(* token may be cancelled by then: the handler ends without reading.           *)
Accept(k) ==
  /\ LoopAccepts
  /\ handler[k] = "queued"
  /\ \/ /\ ~stopping
        /\ handler' = [handler EXCEPT ![k] = "reading"]
        /\ UNCHANGED <<command, response, link>>
     \/ stopping /\ EndHandlers({k})
  /\ UNCHANGED <<server, pump, clients>>

(* The token is cancelled, or the accept fails: in both cases the listener is  *)
(* stopped, the connections it had not accepted are reset, and the handlers go *)
(* on.                                                                         *)
EndLoop ==
  /\ loop = "accepting"
  /\ loop' = "ended"
  /\ EndHandlers({k \in Conns : handler[k] = "queued"})
  /\ UNCHANGED <<stopping, pump, clients>>

StopAccepting == stopping /\ EndLoop
AcceptFails == ~stopping /\ EndLoop

Stop ==
  /\ ~stopping
  /\ stopping' = TRUE
  /\ UNCHANGED <<loop, tasks, pump, clients, link>>

-----------------------------------------------------------------------------
(* ReadLineAsync returns a line. *)
Read(k) ==
  /\ handler[k] = "reading"
  /\ toServer[k] # << >>
  /\ handler' = [handler EXCEPT ![k] = "processing"]
  /\ command' = [command EXCEPT ![k] = Head(toServer[k])]
  /\ toServer' = [toServer EXCEPT ![k] = Tail(@)]
  /\ UNCHANGED <<server, response, pump, clients, toClient>>

(* The end of the stream, or an error of it: both end the loop of the handler. *)
FindEnd(k) ==
  /\ handler[k] = "reading"
  /\ toServer[k] = << >>
  /\ client[k] \in {"finished", "closed"}
  /\ EndHandlers({k})
  /\ UNCHANGED <<server, pump, clients>>

Respond(k, reply) ==
  /\ handler' = [handler EXCEPT ![k] = "replying"]
  /\ command' = [command EXCEPT ![k] = None]
  /\ response' = [response EXCEPT ![k] = reply]
  /\ UNCHANGED <<server, clients, link>>

(* ProcessCommandAsync returns the reply of the handler of the command, or of  *)
(* a line that is none.                                                        *)
Process(k) ==
  /\ handler[k] = "processing"
  /\ pump' = Effect(command[k], pump)
  /\ Respond(k, Reply(command[k], pump'))

(* The operation of the plant throws, before it did anything. *)
ProcessThrows(k) ==
  /\ handler[k] = "processing"
  /\ command[k] \in PlantCommands
  /\ PlantMayThrow
  /\ Respond(k, Refusal(command[k]))
  /\ UNCHANGED pump

TooLateToCancel(k) == pump' = Effect(command[k], pump)
NotExecuted(k) == UNCHANGED pump

(* The operation of the plant is cancelled before it did anything: the         *)
(* processor lets that exception through, and the handler ends.                *)
ProcessCancelled(k) ==
  /\ handler[k] = "processing"
  /\ command[k] \in PlantCommands
  /\ stopping
  /\ NotExecuted(k)
  /\ EndHandlers({k})
  /\ UNCHANGED <<server, clients>>

RoomIgnored(k) == TRUE
Room(k) == Len(toClient[k]) < Window

(* WriteLineAsync returns, at once when the client has closed and the reply is *)
(* lost; then the token is looked at before the next read.                     *)
Write(k) ==
  /\ handler[k] = "replying"
  /\ Room(k)
  /\ LET written == IF client[k] = "closed" THEN toClient
                    ELSE [toClient EXCEPT ![k] = Append(@, response[k])]
     IN  \/ /\ ~stopping
            /\ handler' = [handler EXCEPT ![k] = "reading"]
            /\ response' = [response EXCEPT ![k] = None]
            /\ toClient' = written
            /\ UNCHANGED <<command, toServer>>
         \/ /\ stopping
            /\ handler' = [handler EXCEPT ![k] = "ended"]
            /\ response' = [response EXCEPT ![k] = None]
            /\ toServer' = [toServer EXCEPT ![k] = << >>]
            /\ toClient' \in {written, IF toServer[k] = << >> THEN written
                                       ELSE [toClient EXCEPT ![k] = << >>]}
            /\ UNCHANGED command
  /\ UNCHANGED <<server, pump, clients>>

(* ReadLineAsync is cancelled. *)
ReadCancelled(k) ==
  /\ handler[k] = "reading"
  /\ stopping
  /\ EndHandlers({k})
  /\ UNCHANGED <<server, pump, clients>>

WriteWithoutToken(k) == client[k] = "closed"
WriteMayFail(k) == stopping \/ client[k] = "closed"

(* WriteLineAsync is cancelled, or throws because the client has closed: the   *)
(* command was executed and is not answered.                                   *)
WriteFails(k) ==
  /\ handler[k] = "replying"
  /\ WriteMayFail(k)
  /\ EndHandlers({k})
  /\ UNCHANGED <<server, pump, clients>>

-----------------------------------------------------------------------------
(* The clients *)
Connect(k) ==
  /\ loop = "accepting"
  /\ client[k] = "none"
  /\ client' = [client EXCEPT ![k] = "open"]
  /\ handler' = [handler EXCEPT ![k] = "queued"]
  /\ UNCHANGED <<server, command, response, pump, sent, received, link>>

(* A client may send its next line before it has the reply to the last. *)
Send(k) ==
  /\ client[k] = "open"
  /\ handler[k] # "ended"
  /\ sent[k] < MaxLines
  /\ sent' = [sent EXCEPT ![k] = @ + 1]
  /\ \E line \in Lines[k] : toServer' = [toServer EXCEPT ![k] = Append(@, line)]
  /\ UNCHANGED <<server, tasks, pump, client, received, toClient>>

Receive(k) ==
  /\ client[k] \in {"open", "finished"}
  /\ toClient[k] # << >>
  /\ toClient' = [toClient EXCEPT ![k] = Tail(@)]
  /\ received' = [received EXCEPT ![k] = @ + 1]
  /\ UNCHANGED <<server, tasks, pump, client, sent, toServer>>

(* The client shuts down its sending side. *)
FinishSending(k) ==
  /\ client[k] = "open"
  /\ client' = [client EXCEPT ![k] = "finished"]
  /\ UNCHANGED <<server, tasks, pump, sent, received, link>>

(* The client closes: what it sent arrives, or is lost with the connection. *)
Close(k) ==
  /\ client[k] \in {"open", "finished"}
  /\ client' = [client EXCEPT ![k] = "closed"]
  /\ toClient' = [toClient EXCEPT ![k] = << >>]
  /\ toServer' \in {toServer, [toServer EXCEPT ![k] = << >>]}
  /\ UNCHANGED <<server, tasks, pump, sent, received>>

-----------------------------------------------------------------------------
Handle(k) ==
  \/ Read(k) \/ FindEnd(k) \/ ReadCancelled(k)
  \/ Process(k) \/ ProcessThrows(k) \/ ProcessCancelled(k)
  \/ Write(k) \/ WriteFails(k)

ServerNext ==
  \/ Listen \/ StopAccepting \/ AcceptFails \/ Stop
  \/ \E k \in Conns : Accept(k) \/ Handle(k)

ClientNext ==
  \E k \in Conns : Connect(k) \/ Send(k) \/ Receive(k) \/ FinishSending(k) \/ Close(k)

Next == ServerNext \/ ClientNext

Spec == Init /\ [][Next]_vars

(* The thread pool runs every continuation that can run, and a client that is *)
(* not slow reads the replies that reach it.                                  *)
Fairness ==
  /\ WF_vars(Listen) /\ WF_vars(StopAccepting)
  /\ \A k \in Conns : WF_vars(Accept(k)) /\ WF_vars(Handle(k))
  /\ \A k \in Conns \ SlowClients : WF_vars(Receive(k))

FairSpec == Spec /\ Fairness

-----------------------------------------------------------------------------
AbsState == [k \in Conns |->
  CASE client[k] = "none"                                -> "none"
    [] client[k] # "none" /\ handler[k] = "ended"        -> "over"
    [] client[k] = "closed" /\ handler[k] # "ended"      -> "left"
    [] OTHER                                             -> "open"]

(* A line the handler holds is still to be executed, a reply it holds is still *)
(* to be received unless the client has gone.                                  *)
AbsRequests == [k \in Conns |->
  IF command[k] = None THEN toServer[k] ELSE <<command[k]>> \o toServer[k]]

AbsReplies == [k \in Conns |->
  IF response[k] = None \/ client[k] = "closed" THEN toClient[k]
  ELSE Append(toClient[k], response[k])]

Abstract == INSTANCE LineServer
  WITH state <- AbsState, requests <- AbsRequests, replies <- AbsReplies

(* Whatever the clients do and whenever the server is stopped or the plant     *)
(* throws, the lines of a connection are executed one by one and in order,     *)
(* each answered by what it did or else by nothing, and an ERR reply or a      *)
(* cancellation means that the plant was left alone.                           *)
IsLineServer == Abstract!Spec

(* "accetta connessioni concorrenti da client esterni" (README.md:12): every   *)
(* connection is accepted unless the listener is closed, and every line of an  *)
(* accepted one is answered, also after the listener has failed, and however   *)
(* slowly the other clients receive their replies.                             *)
Answered ==
  \A k \in Conns \ SlowClients :
    /\ handler[k] = "queued" ~> handler[k] \in Active \/ loop = "ended"
    /\ \A n \in 1..MaxLines :
         handler[k] \in Active /\ sent[k] >= n ~>
           received[k] >= n \/ client[k] = "closed" \/ stopping

(* No handler is left behind by a client that went away, nor by a server that  *)
(* is stopped ("CancellationToken per uno shutdown pulito", README.md:22),     *)
(* even when its client does not receive.                                      *)
HandlersEnd ==
  \A k \in Conns :
    client[k] = "closed" \/ (stopping /\ handler[k] \in Active) ~> handler[k] = "ended"
=============================================================================
