------------------------------ MODULE PlcBridge ------------------------------
(***************************************************************************)
(* The bridge from end to end: NetworkPlcService with its connections, and *)
(* behind them the Worker with its plant.  The client's module leaves open *)
(* what is asked and answered; here every request is a command, the peer   *)
(* is the Worker as LineServer describes it (which TcpPlcServer            *)
(* implements), and the typed methods take what they return from the reply *)
(* line they read.  A line acts on the pump as it is executed, also when   *)
(* its connection has been given up and its caller has been told so.       *)
(***************************************************************************)
EXTENDS NetworkPlcService

CONSTANTS
  Asks   \* Asks[c]: the commands c may call

P == INSTANCE PlcCommands

ASSUME BridgeAssumption ==
  /\ \A c \in Callers : Asks[c] \subseteq P!PlantCommands
  /\ None \notin P!PlantCommands /\ None \notin {"pending", "ok", "failed"}
  /\ None \notin BOOLEAN

VARIABLES
  pump,    \* the pump of the plant
  asked,   \* asked[r]: the command of the request r, None before its call
  fate,    \* fate[r]: how the call of r ended
  seen,    \* seen[r]: the flag of PUMP= in the reply to r, as its command left it
  told,    \* told[c]: the pump in the last status c was given
  onBy     \* the request that last started the pump

data == <<pump, asked, fate, seen, told, onBy>>
bridge == <<vars, data>>

BridgeInit ==
  /\ Init
  /\ pump = FALSE
  /\ asked = [r \in Requests |-> None]
  /\ fate = [r \in Requests |-> None]
  /\ seen = [r \in Requests |-> None]
  /\ told = [c \in Callers |-> None]
  /\ onBy = None

-------------------------------------------------------------------------------
(* A method of IPlcService is called: StartPumpAsync sends START_PUMP, ...     *)
Call(c) ==
  /\ Invoke(c)
  /\ \E command \in Asks[c] : asked' = [asked EXCEPT ![Request(c)'] = command]
  /\ fate' = [fate EXCEPT ![Request(c)'] = "pending"]
  /\ UNCHANGED <<pump, seen, told, onBy>>

(* GetSystemStatusAsync on a line that begins with "OK:": without a part PUMP= *)
(* it would return false.                                                      *)
ParsedPump(r) == asked[r] = "GET_STATUS" /\ seen[r]

(* A typed method has its line: another than OK is an exception.               *)
GiveResult(c, reply) ==
  told' = IF reply.ok /\ asked[Request(c)] = "GET_STATUS"
          THEN [told EXCEPT ![c] = ParsedPump(reply.to)] ELSE told

Answer(c) ==
  /\ Read(c)
  /\ GiveResult(c, Head(toClient[channel]))
  /\ fate' = [fate EXCEPT ![Request(c)] = outcome'[c]]
  /\ UNCHANGED <<pump, asked, seen, onBy>>

(* How a step that reads no line ends the call, if it does                     *)
Records(c) ==
  /\ fate' = IF outcome' = outcome THEN fate ELSE [fate EXCEPT ![Request(c)] = outcome'[c]]
  /\ UNCHANGED <<pump, asked, seen, told, onBy>>

(* The other steps of a call: those that end it make it fail.                  *)
Continue(c) ==
  /\ \/ Acquire(c) \/ WaitFails(c) \/ AlreadyConnected(c) \/ NeedsConnection(c)
     \/ ConnectSucceeds(c) \/ ConnectFails(c) \/ Write(c) \/ ExchangeFails(c)
  /\ Records(c)

(* The Worker executes the line, or refuses it: see LineServer.                *)
Execute(r) ==
  /\ pump' = P!Effect(asked[r], pump)
  /\ seen' = [seen EXCEPT ![r] = pump']
  /\ onBy' = IF asked[r] = "START_PUMP" THEN r ELSE onBy

Refuse == UNCHANGED <<pump, seen, onBy>>

Serve(k) ==
  /\ PeerServes(k)
  /\ IF executed' = executed THEN Refuse ELSE Execute(Head(toServer[k]))
  /\ UNCHANGED <<asked, fate, told>>

(* Only a new process of the Worker listens again: the connections of the old  *)
(* one are gone with the lines it had not executed, and its plant with them.   *)
WorkerRestarts ==
  /\ StartListening
  /\ \A k \in Conns : "server" \notin open[k] /\ toServer[k] = << >>
  /\ pump' = FALSE
  /\ UNCHANGED <<asked, fate, seen, told, onBy>>

(* The links, the end of the Worker's listener, the disposal of the service.   *)
Elsewhere ==
  /\ Dispose \/ StopListening \/ \E k \in Conns : LinkFails(k) \/ PeerCloses(k)
  /\ UNCHANGED data

BridgeNext ==
  \/ \E c \in Callers : Call(c) \/ Answer(c) \/ Continue(c)
  \/ \E k \in Conns : Serve(k)
  \/ WorkerRestarts \/ Elsewhere

BridgeSpec == BridgeInit /\ [][BridgeNext]_bridge

-------------------------------------------------------------------------------
Remote == INSTANCE RemotePlant

(* From end to end, over connections that fail and whatever the callers do to  *)
(* each other by cancelling, a command acts at most once, a status is the pump *)
(* at an instant of its call, and what was acknowledged was done.              *)
IsRemotePlant == Remote!Spec

(* After an acknowledged STOP_PUMP the pump runs again only by a command of    *)
(* another caller, or by an earlier START_PUMP of the same caller that was     *)
(* reported as failed: never by one it was told had been done.                 *)
StopHolds ==
  \A c \in Callers :
    /\ made[c] > 0 /\ fate[Request(c)] = "ok" /\ asked[Request(c)] = "STOP_PUMP" /\ pump
    => onBy[1] # c \/ fate[onBy] = "failed"
===============================================================================
