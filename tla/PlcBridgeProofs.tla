--------------------------- MODULE PlcBridgeProofs ---------------------------
(***************************************************************************)
(* Proofs about the bridge from end to end, for every set of callers and   *)
(* of connections, whatever each caller asks, and every bound on calls and *)
(* failures.  The invariant of the client is reused as it stands; over it, *)
(* every step is one of a few kinds, from which the refinement and the      *)
(* invariants of the plant's side follow.                                  *)
(***************************************************************************)
EXTENDS PlcBridge, NetworkPlcServiceProofs

Fates == {"pending", "ok", "failed"}

DataTypes ==
  /\ asked \in [Requests -> P!PlantCommands \union {None}]
  /\ fate \in [Requests -> Fates \union {None}]
  /\ seen \in [Requests -> BOOLEAN \union {None}]

(* The fate of a request is how its call ended, and an acknowledged one has   *)
(* been executed.                                                             *)
FateInv ==
  \A r \in Requests :
    /\ r[2] < made[r[1]] => fate[r] \in {"ok", "failed"}
    /\ r[2] = made[r[1]] => fate[r] = outcome[r[1]] /\ fate[r] \in Fates
    /\ fate[r] = "ok" => executed[r] = 1

(* A request has seen the pump when it is executed.                           *)
SeenInv ==
  \A r \in Requests :
    /\ executed[r] = 0 => seen[r] = None
    /\ executed[r] = 1 => seen[r] \in BOOLEAN

(* A later STOP_PUMP of the same caller has not been executed.                *)
Unstopped(r) ==
  \A s \in Requests :
    s[1] = r[1] /\ s[2] > r[2] /\ asked[s] = "STOP_PUMP" => executed[s] = 0

(* The pump is on by a START_PUMP, and by an acknowledged one only as long as *)
(* its caller has not stopped it since.                                       *)
StartInv ==
  pump => /\ onBy \in Requests
          /\ asked[onBy] = "START_PUMP"
          /\ executed[onBy] = 1
          /\ fate[onBy] = "ok" => Unstopped(onBy)

DataInv == DataTypes /\ FateInv /\ SeenInv /\ StartInv
BridgeInv == IInv /\ pump \in BOOLEAN /\ DataInv

-------------------------------------------------------------------------------
(* What a step does to the calls, to the plant and to what is known of both.   *)
Calls(c, command) ==
  /\ outcome[c] # "pending" /\ made[c] < MaxCalls /\ command \in P!PlantCommands
  /\ made' = [made EXCEPT ![c] = @ + 1]
  /\ outcome' = [outcome EXCEPT ![c] = "pending"]
  /\ asked' = [asked EXCEPT ![<<c, made'[c]>>] = command]
  /\ fate' = [fate EXCEPT ![<<c, made'[c]>>] = "pending"]
  /\ UNCHANGED <<executed, pump, seen, told, onBy>>

Returns(c, how) ==
  /\ outcome[c] = "pending" /\ Request(c) \in Requests
  /\ how = "ok" => executed[Request(c)] = 1
  /\ outcome' = [outcome EXCEPT ![c] = how]
  /\ fate' = [fate EXCEPT ![Request(c)] = how]
  /\ told' = IF how = "ok" /\ asked[Request(c)] = "GET_STATUS"
             THEN [told EXCEPT ![c] = seen[Request(c)]] ELSE told
  /\ UNCHANGED <<made, executed, pump, asked, seen, onBy>>

Acts(r) ==
  /\ r[2] <= made[r[1]] /\ executed[r] = 0
  /\ executed' = [executed EXCEPT ![r] = 1]
  /\ Execute(r)
  /\ UNCHANGED <<made, outcome, asked, fate, told>>

Restarts ==
  /\ pump' = FALSE
  /\ UNCHANGED <<made, outcome, executed, asked, fate, seen, told, onBy>>

Stays == UNCHANGED <<made, outcome, executed, data>>

Kinds ==
  \/ \E c \in Callers : \E command \in P!PlantCommands : Calls(c, command)
  \/ \E c \in Callers : Returns(c, "ok") \/ Returns(c, "failed")
  \/ \E r \in Requests : Acts(r)
  \/ Restarts \/ Stays

LEMMA CallKind ==
  ASSUME BridgeInv, NEW c \in Callers, Call(c)
  PROVE  Kinds
<1>1. PICK command \in Asks[c] : asked' = [asked EXCEPT ![Request(c)'] = command]
  BY DEF Call
<1>2. command \in P!PlantCommands
  BY <1>1, BridgeAssumption
<1>3. Request(c)' = <<c, made'[c]>>
  BY DEF Request
<1>4. outcome[c] # "pending"
  BY DEF Call, Invoke, BridgeInv, IInv, CallInv
<1>5. Calls(c, command)
  BY <1>1, <1>2, <1>3, <1>4 DEF Call, Invoke, Calls, peer
<1>6. QED
  BY <1>2, <1>5 DEF Kinds

LEMMA AnswerKind ==
  ASSUME BridgeInv, NEW c \in Callers, Answer(c)
  PROVE  Kinds
<1> DEFINE r == Request(c)
           reply == Head(toClient[channel])
<1>1. channel \in Conns /\ lock = c /\ pc[c] = "reading" /\ toClient[channel] # << >>
  BY DEF Answer, Read, BridgeInv, IInv, TypeOK, ServiceTypeOK, LockInv, Locked, Exchange
<1>2. r \in Requests
  BY <1>1, RequestType DEF BridgeInv
<1>3. reply.to = r /\ (reply.ok => executed[r] = 1)
  BY <1>1 DEF BridgeInv, IInv, ReplyInv
<1>4. outcome[c] = "pending"
  BY <1>1 DEF BridgeInv, IInv, CallInv
<1>5. outcome \in [Callers -> {"none", "pending", "ok", "failed"}]
  BY DEF BridgeInv, IInv, TypeOK, CallsTypeOK
<1>6. outcome' = [outcome EXCEPT ![c] = IF reply.ok THEN "ok" ELSE "failed"]
  BY DEF Answer, Read, Return
<1>7. fate' = [fate EXCEPT ![r] = IF reply.ok THEN "ok" ELSE "failed"]
  BY <1>5, <1>6 DEF Answer
<1>8. UNCHANGED <<made, executed, pump, asked, seen, onBy>>
  BY DEF Answer, Read, peer
<1>9. CASE reply.ok
  <2>1. seen[r] \in BOOLEAN
    BY <1>2, <1>3, <1>9 DEF BridgeInv, DataInv, SeenInv
  <2>2. asked[r] = "GET_STATUS" => ParsedPump(reply.to) = seen[r]
    BY <2>1, <1>3, Zenon DEF ParsedPump
  <2>3. told' = IF asked[r] = "GET_STATUS" THEN [told EXCEPT ![c] = seen[r]] ELSE told
    BY <2>2, <1>9 DEF Answer, GiveResult
  <2>4. Returns(c, "ok")
    BY <1>2, <1>3, <1>4, <1>6, <1>7, <1>8, <1>9, <2>3 DEF Returns
  <2>5. QED
    BY <2>4 DEF Kinds
<1>10. CASE ~reply.ok
  <2>1. told' = told
    BY <1>10 DEF Answer, GiveResult
  <2>2. Returns(c, "failed")
    BY <1>2, <1>4, <1>6, <1>7, <1>8, <1>10, <2>1 DEF Returns
  <2>3. QED
    BY <2>2 DEF Kinds
<1>11. QED
  BY <1>9, <1>10

LEMMA ContinueKind ==
  ASSUME BridgeInv, NEW c \in Callers, Continue(c)
  PROVE  Kinds
<1>1. UNCHANGED <<made, executed>> /\ pc[c] # "idle"
  BY DEF Continue, Acquire, WaitFails, AlreadyConnected, NeedsConnection, ConnectSucceeds,
         ConnectFails, Write, ExchangeFails, FindConnected, StartConnecting, BeginExchange,
         FindChannelGone, Waiting, Exchange, peer
<1>2. outcome' = outcome \/ outcome' = [outcome EXCEPT ![c] = "failed"]
  BY DEF Continue, Acquire, WaitFails, AlreadyConnected, NeedsConnection, ConnectSucceeds,
         ConnectFails, Write, ExchangeFails, Rethrow, FindConnected, StartConnecting,
         BeginExchange, FindChannelGone, Return
<1>3. CASE outcome' = outcome
  <2>1. Stays
    BY <1>1, <1>3 DEF Continue, Records, Stays, data
  <2>2. QED
    BY <2>1 DEF Kinds
<1>4. CASE outcome' # outcome
  <2>1. outcome \in [Callers -> {"none", "pending", "ok", "failed"}]
    BY DEF BridgeInv, IInv, TypeOK, CallsTypeOK
  <2>2. outcome'[c] = "failed" /\ outcome[c] = "pending"
    BY <1>1, <1>2, <1>4, <2>1 DEF BridgeInv, IInv, CallInv
  <2>3. Request(c) \in Requests
    BY <1>1, RequestType DEF BridgeInv
  <2>4. Returns(c, "failed")
    BY <1>1, <1>2, <1>4, <2>2, <2>3 DEF Continue, Records, Returns
  <2>5. QED
    BY <2>4 DEF Kinds
<1>5. QED
  BY <1>3, <1>4

LEMMA ServeKind ==
  ASSUME BridgeInv, NEW k \in Conns, Serve(k)
  PROVE  Kinds
<1> DEFINE r == Head(toServer[k])
<1>1. r \in Requests
  BY Lines DEF Serve, PeerServes, BridgeInv, IInv, TypeOK, LinkTypeOK
<1>2. ~NotSent(r) /\ executed[r] = 0
  BY DEF Serve, PeerServes, BridgeInv, IInv, RequestInv
<1>3. r[2] <= made[r[1]]
  BY <1>1, <1>2, ServiceAssumption
     DEF NotSent, BridgeInv, IInv, TypeOK, CallsTypeOK, Requests
<1>4. executed' = [executed EXCEPT ![r] = 1] \/ executed' = executed
  BY <1>2 DEF Serve, PeerServes
<1>5. UNCHANGED <<made, outcome, asked, fate, told>>
  BY DEF Serve, PeerServes, calls
<1>6. CASE executed' = executed
  <2>1. Stays
    BY <1>5, <1>6 DEF Serve, Refuse, Stays, data
  <2>2. QED
    BY <2>1 DEF Kinds
<1>7. CASE executed' # executed
  <2>1. Acts(r)
    BY <1>2, <1>3, <1>4, <1>5, <1>7 DEF Serve, Acts
  <2>2. QED
    BY <1>1, <2>1 DEF Kinds
<1>8. QED
  BY <1>6, <1>7

LEMMA StepKinds == BridgeInv /\ [BridgeNext]_bridge => Kinds
<1> SUFFICES ASSUME BridgeInv, [BridgeNext]_bridge PROVE Kinds
  OBVIOUS
<1>1. CASE Elsewhere
  <2>1. Stays
    BY <1>1 DEF Elsewhere, Dispose, StopListening, LinkFails, PeerCloses,
                Stays, service, calls, link, peer
  <2>2. QED
    BY <2>1 DEF Kinds
<1>2. CASE WorkerRestarts
  <2>1. Restarts
    BY <1>2 DEF WorkerRestarts, StartListening, Restarts, calls
  <2>2. QED
    BY <2>1 DEF Kinds
<1>3. CASE UNCHANGED bridge
  BY <1>3 DEF bridge, vars, calls, peer, data, Kinds, Stays
<1>4. QED
  BY <1>1, <1>2, <1>3, CallKind, AnswerKind, ContinueKind, ServeKind DEF BridgeNext

(* To the client, a step of the bridge is one of its own.                      *)
LEMMA StepClient == [BridgeNext]_bridge => [Next]_vars
<1> SUFFICES ASSUME [BridgeNext]_bridge PROVE [Next]_vars
  OBVIOUS
<1>1. ASSUME NEW c \in Callers, Call(c) \/ Answer(c) \/ Continue(c) PROVE Next
  BY <1>1 DEF Call, Answer, Continue, Next, ClientNext, Proceed
<1>2. ASSUME NEW k \in Conns, Serve(k) PROVE Next
  BY <1>2 DEF Serve, Next, PeerNext
<1>3. CASE Elsewhere \/ WorkerRestarts
  BY <1>3 DEF Elsewhere, WorkerRestarts, Next, ClientNext, PeerNext
<1>4. CASE UNCHANGED bridge
  BY <1>4 DEF bridge
<1>5. QED
  BY <1>1, <1>2, <1>3, <1>4 DEF BridgeNext

-------------------------------------------------------------------------------
(* The two parts of a request, and its place among those of its caller.        *)
LEMMA Pairs ==
  /\ \A r \in Requests : r = <<r[1], r[2]>> /\ r[1] \in Callers /\ r[2] \in 1..MaxCalls
  /\ \A c \in Callers, n \in 1..MaxCalls :
       <<c, n>> \in Requests /\ <<c, n>>[1] = c /\ <<c, n>>[2] = n
  BY DEF Requests

LEMMA DataInit == BridgeInit => BridgeInv
<1> SUFFICES ASSUME BridgeInit PROVE BridgeInv
  OBVIOUS
<1>1. IInv
  BY InitIInv DEF BridgeInit
<1>2. pump \in BOOLEAN /\ StartInv
  BY DEF BridgeInit, StartInv
<1>3. DataTypes
  BY DEF BridgeInit, DataTypes
<1>4. FateInv
  <2>1. \A r \in Requests : fate[r] = None
    BY DEF BridgeInit
  <2>2. \A r \in Requests : r[2] > made[r[1]]
    BY Pairs, ServiceAssumption DEF BridgeInit, Init
  <2>3. \A r \in Requests : r[2] \in Nat /\ made[r[1]] \in Nat
    BY Pairs, ServiceAssumption DEF BridgeInit, Init
  <2>4. QED
    BY <2>1, <2>2, <2>3, BridgeAssumption DEF FateInv
<1>5. SeenInv
  BY DEF BridgeInit, Init, SeenInv
<1>6. QED
  BY <1>1, <1>2, <1>3, <1>4, <1>5 DEF BridgeInv, DataInv

LEMMA CallsInv ==
  ASSUME BridgeInv, NEW c \in Callers, NEW command \in P!PlantCommands, Calls(c, command)
  PROVE  DataInv' /\ pump' \in BOOLEAN
<1> DEFINE n == made[c] + 1
           q == <<c, n>>
<1>0. /\ made \in [Callers -> 0..MaxCalls] /\ MaxCalls \in Nat
      /\ outcome \in [Callers -> {"none", "pending", "ok", "failed"}]
  BY ServiceAssumption DEF BridgeInv, IInv, TypeOK, CallsTypeOK
<1>1. /\ n \in 1..MaxCalls /\ made' = [made EXCEPT ![c] = n]
      /\ asked' = [asked EXCEPT ![q] = command] /\ fate' = [fate EXCEPT ![q] = "pending"]
  BY <1>0 DEF Calls
<1>2. q \in Requests /\ q[1] = c /\ q[2] = n
  BY <1>1, Pairs
<1>3. executed[q] = 0
  BY <1>0, <1>2 DEF BridgeInv, IInv, LedgerInv, NotSent
<1> HIDE DEF q
<1>4. DataTypes'
  <2>1. asked' \in [Requests -> P!PlantCommands \union {None}]
    BY <1>1, <1>2 DEF BridgeInv, DataInv, DataTypes
  <2>2. fate' \in [Requests -> Fates \union {None}]
    BY <1>1, <1>2 DEF BridgeInv, DataInv, DataTypes, Fates
  <2>3. seen' \in [Requests -> BOOLEAN \union {None}]
    BY DEF Calls, BridgeInv, DataInv, DataTypes
  <2>4. QED
    BY <2>1, <2>2, <2>3 DEF DataTypes
<1>5. FateInv'
  <2> SUFFICES ASSUME NEW r \in Requests
               PROVE  /\ r[2] < made'[r[1]] => fate'[r] \in {"ok", "failed"}
                      /\ r[2] = made'[r[1]] => fate'[r] = outcome'[r[1]] /\ fate'[r] \in Fates
                      /\ fate'[r] = "ok" => executed'[r] = 1
    BY DEF FateInv
  <2>1. r = <<r[1], r[2]>> /\ r[1] \in Callers /\ r[2] \in 1..MaxCalls
    BY Pairs
  <2>2. /\ r[2] < made[r[1]] => fate[r] \in {"ok", "failed"}
        /\ r[2] = made[r[1]] => fate[r] = outcome[r[1]] /\ fate[r] \in Fates
        /\ fate[r] = "ok" => executed[r] = 1
    BY DEF BridgeInv, DataInv, FateInv
  <2>3. /\ outcome[c] # "pending" /\ outcome' = [outcome EXCEPT ![c] = "pending"]
        /\ UNCHANGED executed
    BY DEF Calls
  <2>4. fate \in [Requests -> Fates \union {None}]
    BY DEF BridgeInv, DataInv, DataTypes
  <2>5. CASE r = q
    BY <1>0, <1>1, <1>2, <2>3, <2>4, <2>5 DEF Fates
  <2>6. CASE r # q /\ r[1] = c
    <3>1. r[2] # n
      BY <2>1, <2>6 DEF q
    <3>2. made'[r[1]] = n /\ fate'[r] = fate[r]
      BY <1>0, <1>1, <1>2, <2>4, <2>6
    <3>3. r[2] < n => fate[r] \in {"ok", "failed"}
      BY <1>0, <2>1, <2>2, <2>3, <2>6 DEF Fates
    <3>4. QED
      BY <1>0, <2>1, <2>2, <2>3, <3>1, <3>2, <3>3
  <2>7. CASE r[1] # c
    BY <1>0, <1>1, <1>2, <2>1, <2>2, <2>3, <2>4, <2>7
  <2>8. QED
    BY <2>5, <2>6, <2>7
<1>6. SeenInv'
  BY DEF Calls, BridgeInv, DataInv, SeenInv
<1>7. StartInv'
  <2> SUFFICES ASSUME pump' PROVE /\ onBy' \in Requests
                                  /\ asked'[onBy'] = "START_PUMP"
                                  /\ executed'[onBy'] = 1
                                  /\ fate'[onBy'] = "ok" => Unstopped(onBy)'
    BY DEF StartInv
  <2>1. pump /\ UNCHANGED <<executed, onBy>>
    BY DEF Calls
  <2>2. /\ onBy \in Requests /\ asked[onBy] = "START_PUMP" /\ executed[onBy] = 1
        /\ fate[onBy] = "ok" => Unstopped(onBy)
    BY <2>1 DEF BridgeInv, DataInv, StartInv
  <2>3. /\ \A s \in Requests : s # q => asked'[s] = asked[s] /\ fate'[s] = fate[s]
        /\ onBy # q
    BY <1>1, <1>2, <1>3, <2>2 DEF BridgeInv, DataInv, DataTypes
  <2>4. QED
    BY <1>2, <1>3, <2>1, <2>2, <2>3 DEF Unstopped
<1>8. QED
  BY <1>4, <1>5, <1>6, <1>7 DEF DataInv, Calls, BridgeInv

LEMMA ReturnsInv ==
  ASSUME BridgeInv, NEW c \in Callers, NEW how \in {"ok", "failed"}, Returns(c, how)
  PROVE  DataInv' /\ pump' \in BOOLEAN
<1> DEFINE q == Request(c)
<1>0. /\ made \in [Callers -> 0..MaxCalls] /\ MaxCalls \in Nat
      /\ outcome \in [Callers -> {"none", "pending", "ok", "failed"}]
      /\ fate \in [Requests -> Fates \union {None}]
  BY ServiceAssumption DEF BridgeInv, IInv, TypeOK, CallsTypeOK, DataInv, DataTypes
<1>1. /\ UNCHANGED <<made, executed, pump, asked, seen, onBy>>
      /\ q \in Requests /\ fate' = [fate EXCEPT ![q] = how]
      /\ outcome' = [outcome EXCEPT ![c] = how] /\ (how = "ok" => executed[q] = 1)
  BY DEF Returns
<1>2. q[1] = c /\ q[2] = made[c]
  BY DEF Request
<1>3. \A r \in Requests : r[1] = c /\ r[2] = made[c] => r = q
  BY Pairs DEF Request
<1> HIDE DEF q
<1>4. DataTypes'
  BY <1>0, <1>1 DEF BridgeInv, DataInv, DataTypes, Fates
<1>5. FateInv'
  <2> SUFFICES ASSUME NEW r \in Requests
               PROVE  /\ r[2] < made'[r[1]] => fate'[r] \in {"ok", "failed"}
                      /\ r[2] = made'[r[1]] => fate'[r] = outcome'[r[1]] /\ fate'[r] \in Fates
                      /\ fate'[r] = "ok" => executed'[r] = 1
    BY DEF FateInv
  <2>1. /\ r[2] < made[r[1]] => fate[r] \in {"ok", "failed"}
        /\ r[2] = made[r[1]] => fate[r] = outcome[r[1]] /\ fate[r] \in Fates
        /\ fate[r] = "ok" => executed[r] = 1
        /\ r[1] \in Callers /\ r[2] \in Int
    BY Pairs DEF BridgeInv, DataInv, FateInv
  <2>2. CASE r = q
    BY <1>0, <1>1, <1>2, <2>1, <2>2 DEF Fates
  <2>3. CASE r # q
    BY <1>0, <1>1, <1>2, <1>3, <2>1, <2>3
  <2>4. QED
    BY <2>2, <2>3
<1>6. SeenInv'
  BY <1>1 DEF BridgeInv, DataInv, SeenInv
<1>7. StartInv'
  <2> SUFFICES ASSUME pump' PROVE /\ onBy' \in Requests
                                  /\ asked'[onBy'] = "START_PUMP"
                                  /\ executed'[onBy'] = 1
                                  /\ fate'[onBy'] = "ok" => Unstopped(onBy)'
    BY DEF StartInv
  <2>1. /\ onBy \in Requests /\ asked[onBy] = "START_PUMP" /\ executed[onBy] = 1
        /\ fate[onBy] = "ok" => Unstopped(onBy)
    BY <1>1 DEF BridgeInv, DataInv, StartInv
  <2>2. Unstopped(onBy)' <=> Unstopped(onBy)
    BY <1>1 DEF Unstopped
  <2>3. CASE onBy = q
    <3>1. \A s \in Requests : s[1] = c /\ s[2] > made[c] => executed[s] = 0
      BY DEF BridgeInv, IInv, LedgerInv, NotSent
    <3>2. Unstopped(onBy)
      BY <1>2, <2>3, <3>1 DEF Unstopped
    <3>3. QED
      BY <1>1, <2>1, <2>2, <3>2
  <2>4. CASE onBy # q
    BY <1>0, <1>1, <2>1, <2>2, <2>4
  <2>5. QED
    BY <2>3, <2>4
<1>8. QED
  BY <1>1, <1>4, <1>5, <1>6, <1>7 DEF DataInv, BridgeInv

(* What a command leaves of the pump: numbers and flags apart, for the provers. *)
LEMMA PumpAfter ==
  ASSUME BridgeInv, NEW r \in Requests, Execute(r)
  PROVE  /\ pump' \in BOOLEAN
         /\ asked[r] = "STOP_PUMP" => ~pump'
         /\ pump' /\ asked[r] # "START_PUMP" => pump
<1>1. pump' = P!Effect(asked[r], pump)
  BY DEF Execute
<1>2. pump' \in BOOLEAN
  BY <1>1, Zenon DEF P!Effect
<1>3. "STOP_PUMP" # "START_PUMP"
  OBVIOUS
<1>4. asked[r] = "STOP_PUMP" => ~pump'
  BY <1>1, <1>3, Zenon DEF P!Effect
<1>5. pump' /\ asked[r] # "START_PUMP" => pump
  BY <1>1, Zenon DEF P!Effect
<1>6. QED
  BY <1>2, <1>4, <1>5

LEMMA ActsInv ==
  ASSUME BridgeInv, NEW q \in Requests, Acts(q)
  PROVE  DataInv' /\ pump' \in BOOLEAN
<1>0. /\ executed \in [Requests -> Nat] /\ seen \in [Requests -> BOOLEAN \union {None}]
      /\ executed[q] = 0 /\ executed' = [executed EXCEPT ![q] = 1]
      /\ seen' = [seen EXCEPT ![q] = pump']
      /\ UNCHANGED <<made, outcome, asked, fate>>
  BY DEF Acts, Execute, BridgeInv, IInv, TypeOK, PeerTypeOK, DataInv, DataTypes
<1>1. pump' \in BOOLEAN
  BY PumpAfter DEF Acts
<1>2. DataTypes'
  <2>1. pump' \in BOOLEAN \union {None}
    BY <1>1
  <2>2. seen' \in [Requests -> BOOLEAN \union {None}]
    BY <1>0, <2>1
  <2>3. QED
    BY <1>0, <2>2 DEF BridgeInv, DataInv, DataTypes
<1>3. FateInv'
  <2>1. \A r \in Requests : executed[r] = 1 => executed'[r] = 1
    BY <1>0
  <2>2. QED
    BY <1>0, <2>1 DEF BridgeInv, DataInv, FateInv
<1>4. SeenInv'
  <2> SUFFICES ASSUME NEW r \in Requests
               PROVE  /\ executed'[r] = 0 => seen'[r] = None
                      /\ executed'[r] = 1 => seen'[r] \in BOOLEAN
    BY DEF SeenInv
  <2>1. CASE r = q
    <3>1. executed'[r] = 1
      BY <1>0, <2>1
    <3>2. seen'[r] = pump'
      BY <1>0, <2>1, Zenon
    <3>3. seen'[r] \in BOOLEAN
      BY <1>1, <3>2, Zenon
    <3>4. QED
      BY <3>1, <3>3
  <2>2. CASE r # q
    BY <1>0, <2>2 DEF BridgeInv, DataInv, SeenInv
  <2>3. QED
    BY <2>1, <2>2
<1>5. StartInv'
  <2> SUFFICES ASSUME pump' PROVE /\ onBy' \in Requests
                                  /\ asked'[onBy'] = "START_PUMP"
                                  /\ executed'[onBy'] = 1
                                  /\ fate'[onBy'] = "ok" => Unstopped(onBy)'
    BY DEF StartInv
  <2>1. asked[q] # "STOP_PUMP" /\ (asked[q] # "START_PUMP" => pump)
    BY PumpAfter DEF Acts
  <2>2. fate[q] # "ok"
    BY <1>0 DEF BridgeInv, DataInv, FateInv
  <2>3. CASE asked[q] = "START_PUMP"
    <3>1. onBy' = q
      BY <2>3 DEF Acts, Execute
    <3>2. QED
      BY <1>0, <2>2, <2>3, <3>1
  <2>4. CASE asked[q] # "START_PUMP"
    <3>1. onBy' = onBy
      BY <2>4 DEF Acts, Execute
    <3>2. /\ onBy \in Requests /\ asked[onBy] = "START_PUMP" /\ executed[onBy] = 1
          /\ fate[onBy] = "ok" => Unstopped(onBy)
      BY <2>1, <2>4 DEF BridgeInv, DataInv, StartInv
    <3>3. fate[onBy] = "ok" => Unstopped(onBy)'
      BY <1>0, <2>1, <3>1, <3>2 DEF Unstopped
    <3>4. QED
      BY <1>0, <3>1, <3>2, <3>3
  <2>5. QED
    BY <2>3, <2>4
<1>6. QED
  BY <1>1, <1>2, <1>3, <1>4, <1>5 DEF DataInv

LEMMA StepBridgeInv == BridgeInv /\ [BridgeNext]_bridge => BridgeInv'
<1> SUFFICES ASSUME BridgeInv, [BridgeNext]_bridge PROVE BridgeInv'
  OBVIOUS
<1>1. IInv'
  BY StepClient, StepIInv DEF BridgeInv
<1>2. DataInv' /\ pump' \in BOOLEAN
  <2>1. CASE Stays
    <3>1. /\ pump' = pump /\ asked' = asked /\ fate' = fate /\ seen' = seen /\ onBy' = onBy
          /\ made' = made /\ outcome' = outcome /\ executed' = executed
      BY <2>1 DEF Stays, data
    <3>2. QED
      BY <3>1 DEF BridgeInv, DataInv, DataTypes, FateInv, SeenInv, StartInv, Unstopped
  <2>2. CASE Restarts
    <3>1. /\ ~pump' /\ asked' = asked /\ fate' = fate /\ seen' = seen
          /\ made' = made /\ outcome' = outcome /\ executed' = executed
      BY <2>2 DEF Restarts
    <3>2. DataInv'
      BY <3>1 DEF BridgeInv, DataInv, DataTypes, FateInv, SeenInv, StartInv
    <3>3. pump' \in BOOLEAN
      BY <2>2, Zenon DEF Restarts
    <3>4. QED
      BY <3>2, <3>3
  <2>3. QED
    BY <2>1, <2>2, StepKinds, CallsInv, ReturnsInv, ActsInv DEF Kinds
<1>3. QED
  BY <1>1, <1>2 DEF BridgeInv

LEMMA AlwaysBridgeInv == BridgeSpec => []BridgeInv
  BY DataInit, StepBridgeInv, PTL DEF BridgeSpec

-------------------------------------------------------------------------------
LEMMA InitRemote == BridgeInit => Remote!Init
  BY DEF BridgeInit, Init, Remote!Init, Remote!Requests, Requests

LEMMA StepRemote == BridgeInv /\ [BridgeNext]_bridge => [Remote!Next]_(Remote!vars)
<1> SUFFICES ASSUME BridgeInv, [BridgeNext]_bridge PROVE [Remote!Next]_(Remote!vars)
  OBVIOUS
<1>0. Remote!Requests = Requests /\ Remote!PlantCommands = P!PlantCommands
  BY DEF Remote!Requests, Requests, Remote!PlantCommands, P!PlantCommands,
         Remote!ReadCommands, P!ReadCommands, Remote!PumpCommands, P!PumpCommands
<1>1. ASSUME NEW c \in Callers, NEW command \in P!PlantCommands, Calls(c, command)
      PROVE  Remote!Call(c, command)
  BY <1>1 DEF Calls, Remote!Call
<1>2. ASSUME NEW c \in Callers, Returns(c, "ok") PROVE Remote!Succeed(c)
  <2>1. Request(c) \in Requests /\ executed[Request(c)] = 1
    BY <1>2 DEF Returns
  <2>2. seen[Request(c)] \in BOOLEAN
    BY <2>1 DEF BridgeInv, DataInv, SeenInv
  <2>3. seen[Request(c)] # None
    BY <2>2, BridgeAssumption
  <2>4. fate[Request(c)] = outcome[c]
    BY <2>1 DEF BridgeInv, DataInv, FateInv, Request
  <2>5. QED
    BY <1>0, <1>2, <2>1, <2>3, <2>4 DEF Returns, Request, Remote!Succeed
<1>3. ASSUME NEW c \in Callers, Returns(c, "failed") PROVE Remote!Fail(c)
  <2>1. Request(c) \in Requests
    BY <1>3 DEF Returns
  <2>2. fate[Request(c)] = outcome[c]
    BY <2>1 DEF BridgeInv, DataInv, FateInv, Request
  <2>3. QED
    BY <1>0, <1>3, <2>1, <2>2 DEF Returns, Request, Remote!Fail
<1>4. ASSUME NEW r \in Requests, Acts(r) PROVE Remote!Act(r)
  <2>1. executed[r] = 0 /\ r[2] <= made[r[1]]
    BY <1>4 DEF Acts
  <2>2. seen[r] = None
    BY <2>1 DEF BridgeInv, DataInv, SeenInv
  <2>3. fate[r] # "ok" /\ fate[r] \in Fates
    <3>1. /\ r[2] < made[r[1]] => fate[r] \in {"ok", "failed"}
          /\ r[2] = made[r[1]] => fate[r] \in Fates
          /\ fate[r] = "ok" => executed[r] = 1
      BY DEF BridgeInv, DataInv, FateInv
    <3>2. r[2] \in Nat /\ made[r[1]] \in Nat
      BY Pairs, ServiceAssumption DEF BridgeInv, IInv, TypeOK, CallsTypeOK
    <3>3. QED
      BY <2>1, <3>1, <3>2 DEF Fates
  <2>4. P!Effect(asked[r], pump) = Remote!Effect(asked[r], pump)
    BY DEF P!Effect, Remote!Effect
  <2>5. pump' = Remote!Effect(asked[r], pump)
    BY <1>4, <2>4 DEF Acts, Execute
  <2>6. QED
    BY <1>4, <2>2, <2>3, <2>5 DEF Acts, Execute, Remote!Act, Fates
<1>5. CASE Restarts
  BY <1>5 DEF Restarts, Remote!Restart, Remote!Next
<1>6. CASE Stays
  BY <1>6 DEF Stays, data, Remote!vars
<1>7. QED
  BY <1>0, <1>1, <1>2, <1>3, <1>4, <1>5, <1>6, StepKinds DEF Kinds, Remote!Next

(* Each step of the bridge is a step that RemotePlant allows, or one it does   *)
(* not see: reconnections, cancellations, lost lines and late executions       *)
(* included.                                                                   *)
THEOREM EndToEnd == BridgeSpec => IsRemotePlant
  BY AlwaysBridgeInv, InitRemote, StepRemote, PTL
     DEF BridgeSpec, IsRemotePlant, Remote!Spec

(* After an acknowledged STOP_PUMP no acknowledged START_PUMP of the same      *)
(* caller has the pump running.                                                *)
THEOREM StopsHold == BridgeSpec => []StopHolds
<1>1. BridgeInv => StopHolds
  <2> SUFFICES ASSUME BridgeInv, NEW c \in Callers, made[c] > 0, fate[Request(c)] = "ok",
                      asked[Request(c)] = "STOP_PUMP", pump, onBy[1] = c
               PROVE  fate[onBy] = "failed"
    BY DEF StopHolds
  <2>1. made[c] \in 0..MaxCalls /\ MaxCalls \in Nat
    BY ServiceAssumption DEF BridgeInv, IInv, TypeOK, CallsTypeOK
  <2>2. Request(c) \in Requests /\ Request(c)[1] = c /\ Request(c)[2] = made[c]
    BY <2>1, Pairs DEF Request
  <2>3. executed[Request(c)] = 1
    BY <2>2 DEF BridgeInv, DataInv, FateInv
  <2>4. /\ onBy \in Requests /\ asked[onBy] = "START_PUMP" /\ executed[onBy] = 1
        /\ fate[onBy] = "ok" => Unstopped(onBy)
    BY DEF BridgeInv, DataInv, StartInv
  <2>5. onBy = <<c, onBy[2]>> /\ onBy[2] \in 1..MaxCalls
    BY <2>4, Pairs
  <2>6. onBy[2] # made[c]
    BY <2>4, <2>5 DEF Request
  <2>7. ~(onBy[2] > made[c])
    BY <2>4 DEF BridgeInv, IInv, LedgerInv, NotSent
  <2>8. onBy[2] < made[c]
    BY <2>1, <2>5, <2>6, <2>7
  <2>9. fate[onBy] # "ok"
    BY <2>2, <2>3, <2>4, <2>8 DEF Unstopped
  <2>10. QED
    BY <2>4, <2>8, <2>9 DEF BridgeInv, DataInv, FateInv
<1>2. QED
  BY <1>1, AlwaysBridgeInv, PTL
=============================================================================
