----------------------- MODULE NetworkPlcServiceProofs -----------------------
(***************************************************************************)
(* Proofs about NetworkPlcService, for every set of callers and of         *)
(* connections and every bound on calls and failures: its types, that a    *)
(* call is only ever given the reply to its own request, and that it       *)
(* implements the remote call executed at most once.                       *)
(***************************************************************************)
EXTENDS NetworkPlcService, SequenceTheorems, TLAPS

(* The semaphore is held by the one call that connects or exchanges.          *)
LockInv == \A c \in Callers : pc[c] \in Locked <=> lock = c

(* The streams are those of the connected client, and no other connection has *)
(* the client's end open.                                                     *)
FieldsInv ==
  /\ channel = IF client \in Conns THEN client ELSE None
  /\ \A k \in Conns : "client" \in open[k] <=> client = k

(* A call in progress is pending, and has a number.                           *)
CallInv ==
  \A c \in Callers :
    /\ outcome[c] = "pending" <=> pc[c] # "idle"
    /\ pc[c] # "idle" => made[c] \in 1..MaxCalls
    /\ answered[c] # None => pc[c] = "idle" /\ answered[c] = Request(c)
    /\ outcome[c] = "ok" => Request(c) \in Requests /\ executed[Request(c)] = 1

(* A request that has not been written yet, or belongs to a later call.       *)
NotSent(r) ==
  \/ r[2] > made[r[1]]
  \/ r[2] = made[r[1]] /\ pc[r[1]] \in Unsent

(* No request is executed twice, nor before it is written.                    *)
LedgerInv ==
  \A r \in Requests :
    /\ executed[r] \in {0, 1}
    /\ NotSent(r) => executed[r] = 0

(* At most one request line waits on a connection: one that was written and   *)
(* has not been executed.  On the connection in use it is the request of the  *)
(* call that is reading.                                                      *)
RequestInv ==
  \A k \in Conns : toServer[k] # << >> =>
    /\ Len(toServer[k]) = 1
    /\ ~NotSent(Head(toServer[k]))
    /\ executed[Head(toServer[k])] = 0
    /\ client = k =>
         lock \in Callers /\ pc[lock] = "reading" /\ Head(toServer[k]) = Request(lock)

(* No request waits on two connections.                                       *)
DistinctInv ==
  \A j, k \in Conns :
    toServer[j] # << >> /\ toServer[k] # << >> /\ Head(toServer[j]) = Head(toServer[k])
      => j = k

(* A reply line waits only on the connection in use, alone, and is the reply  *)
(* to the call that is reading.                                               *)
ReplyInv ==
  \A k \in Conns : toClient[k] # << >> =>
    /\ Len(toClient[k]) = 1
    /\ client = k /\ lock \in Callers /\ pc[lock] = "reading"
    /\ toServer[k] = << >>
    /\ Head(toClient[k]).to = Request(lock)
    /\ Head(toClient[k]).ok => executed[Request(lock)] = 1

IInv ==
  /\ TypeOK /\ LockInv /\ FieldsInv /\ CallInv
  /\ LedgerInv /\ RequestInv /\ DistinctInv /\ ReplyInv

-----------------------------------------------------------------------------
(* Lines on a connection: appending to an empty stream, reading the only line. *)
LEMMA Lines ==
  ASSUME NEW S
  PROVE  /\ \A x \in S : Append(<< >>, x) = <<x>> /\ <<x>> \in Seq(S)
         /\ \A s \in Seq(S), x \in S : Append(s, x) \in Seq(S)
         /\ \A s \in Seq(S) : s # << >> => Head(s) \in S /\ Tail(s) \in Seq(S)
         /\ \A s \in Seq(S) : Len(s) = 1 => Tail(s) = << >>
<1>1. \A x \in S : Append(<< >>, x) = <<x>> /\ <<x>> \in Seq(S)
  OBVIOUS
<1>2. \A s \in Seq(S), x \in S : Append(s, x) \in Seq(S)
  OBVIOUS
<1>3. \A s \in Seq(S) : s # << >> => Head(s) \in S /\ Tail(s) \in Seq(S)
  BY HeadTailProperties
<1>4. ASSUME NEW s \in Seq(S), Len(s) = 1 PROVE Tail(s) = << >>
  <2>1. s # << >>
    BY <1>4, EmptySeq
  <2>2. Tail(s) \in Seq(S) /\ Len(Tail(s)) = 0
    BY <1>4, <2>1, HeadTailProperties
  <2>3. QED
    BY <2>2, EmptySeq
<1>5. QED
  BY <1>1, <1>2, <1>3, <1>4

LEMMA InitIInv == Init => IInv
<1> SUFFICES ASSUME Init PROVE IInv
  OBVIOUS
<1>1. TypeOK
  <2>1. ServiceTypeOK /\ PeerTypeOK
    <3>1. lock = None /\ client = None /\ channel = None /\ disposed \in BOOLEAN /\ leaked \in Nat
      BY DEF Init
    <3>2. faults \in 0..MaxFaults /\ executed \in [Requests -> Nat]
      BY ServiceAssumption DEF Init
    <3>3. listening \in BOOLEAN
      BY DEF Init
    <3>4. QED
      BY <3>1, <3>2, <3>3 DEF ServiceTypeOK, PeerTypeOK
  <2>2. CallsTypeOK
    BY ServiceAssumption DEF Init, CallsTypeOK, Points
  <2>3. LinkTypeOK
    BY EmptySeq DEF Init, LinkTypeOK
  <2>4. QED
    BY <2>1, <2>2, <2>3 DEF TypeOK
<1>2. LockInv /\ FieldsInv /\ CallInv
  BY ServiceAssumption
     DEF Init, LockInv, FieldsInv, CallInv, Locked, Exchange
<1>3. LedgerInv /\ RequestInv /\ DistinctInv /\ ReplyInv
  BY DEF Init, LedgerInv, RequestInv, DistinctInv, ReplyInv
<1>4. QED
  BY <1>1, <1>2, <1>3 DEF IInv

-----------------------------------------------------------------------------
(* The call that takes a step is in progress, so that its request is one.      *)
LEMMA RequestType ==
  ASSUME IInv, NEW c \in Callers, pc[c] # "idle"
  PROVE  Request(c) \in Requests
  BY ServiceAssumption DEF IInv, CallInv, Request, Requests

LEMMA CloseTypes ==
  ASSUME LinkTypeOK, CloseClientEnd, UNCHANGED toServer
  PROVE  LinkTypeOK'
<1>1. open' \in [Conns -> SUBSET Ends]
  BY DEF LinkTypeOK, CloseClientEnd
<1>2. toClient' \in [Conns -> Seq(Replies)]
  <2>1. << >> \in Seq(Replies)
    BY EmptySeq
  <2>2. QED
    BY <2>1 DEF LinkTypeOK, CloseClientEnd
<1>3. QED
  BY <1>1, <1>2 DEF LinkTypeOK

LEMMA TypesStep == IInv /\ [Next]_vars => TypeOK'
<1> SUFFICES ASSUME IInv, [Next]_vars PROVE TypeOK'
  OBVIOUS
<1> USE ServiceAssumption DEF IInv, TypeOK, service, calls, link, peer
<1>1. ASSUME NEW c \in Callers, Invoke(c) PROVE TypeOK'
  <2>1. CallsTypeOK'
    BY <1>1 DEF CallsTypeOK, Invoke, Goto, Points, Unsent, Waiting, Exchange
  <2>2. ServiceTypeOK' /\ LinkTypeOK' /\ PeerTypeOK'
    BY <1>1 DEF ServiceTypeOK, LinkTypeOK, PeerTypeOK, Invoke
  <2>3. QED
    BY <2>1, <2>2
<1>2. ASSUME NEW c \in Callers, AlreadyConnected(c) PROVE TypeOK'
  <2>1. CallsTypeOK'
    BY <1>2
       DEF CallsTypeOK, AlreadyConnected, Goto, Connected, Points, Unsent, Waiting,
           Exchange
  <2>2. ServiceTypeOK' /\ LinkTypeOK' /\ PeerTypeOK'
    BY <1>2 DEF ServiceTypeOK, LinkTypeOK, PeerTypeOK, AlreadyConnected
  <2>3. QED
    BY <2>1, <2>2
<1>3. ASSUME NEW c \in Callers, NeedsConnection(c) PROVE TypeOK'
  <2>1. CallsTypeOK'
    BY <1>3 DEF CallsTypeOK, NeedsConnection, Goto, Points, Unsent, Waiting, Exchange
  <2>2. ServiceTypeOK' /\ LinkTypeOK' /\ PeerTypeOK'
    BY <1>3 DEF ServiceTypeOK, LinkTypeOK, PeerTypeOK, NeedsConnection
  <2>3. QED
    BY <2>1, <2>2
<1>4. ASSUME NEW c \in Callers, FindConnected(c) PROVE TypeOK'
  <2>1. CallsTypeOK'
    BY <1>4 DEF CallsTypeOK, FindConnected, Goto, Points, Unsent, Waiting, Exchange
  <2>2. ServiceTypeOK' /\ LinkTypeOK' /\ PeerTypeOK'
    BY <1>4 DEF ServiceTypeOK, LinkTypeOK, PeerTypeOK, FindConnected
  <2>3. QED
    BY <2>1, <2>2
<1>5. ASSUME NEW c \in Callers, StartConnecting(c) PROVE TypeOK'
  <2>1. ServiceTypeOK'
    BY <1>5
       DEF ServiceTypeOK, StartConnecting, NewTcpClient, Goto, LockFree, Recheck, Connected,
           StreamsNotYetOpen
  <2>2. CallsTypeOK'
    BY <1>5
       DEF CallsTypeOK, StartConnecting, Goto, LockFree, Recheck, Connected,
           StreamsNotYetOpen, Points, Unsent, Waiting, Exchange
  <2>3. LinkTypeOK' /\ PeerTypeOK'
    BY <1>5 DEF LinkTypeOK, PeerTypeOK, StartConnecting
  <2>4. QED
    BY <2>1, <2>2, <2>3
<1>6. ASSUME NEW c \in Callers, ConnectSucceeds(c) PROVE TypeOK'
  <2>1. ServiceTypeOK'
    BY <1>6 DEF ServiceTypeOK, ConnectSucceeds, Goto, Return, Release
  <2>2. CallsTypeOK'
    <3>1. CASE disposed
      BY <1>6, <3>1 DEF CallsTypeOK, ConnectSucceeds, Goto, Return, Points
    <3>2. CASE ~disposed
      BY <1>6, <3>2 DEF CallsTypeOK, ConnectSucceeds, Goto, Points, Unsent, Waiting
    <3>3. QED
      BY <3>1, <3>2
  <2>3. LinkTypeOK'
    <3>1. PICK k \in Conns : open' = [open EXCEPT ![k] = Ends]
      BY <1>6 DEF ConnectSucceeds
    <3>2. open' \in [Conns -> SUBSET Ends]
      BY <3>1 DEF LinkTypeOK
    <3>3. QED
      BY <1>6, <3>2 DEF LinkTypeOK, ConnectSucceeds
  <2>4. PeerTypeOK'
    BY <1>6 DEF PeerTypeOK, ConnectSucceeds
  <2>5. QED
    BY <2>1, <2>2, <2>3, <2>4
<1>7. ASSUME NEW c \in Callers, ConnectFails(c) PROVE TypeOK'
  <2>1. ServiceTypeOK'
    BY <1>7 DEF ServiceTypeOK, ConnectFails, Goto, Return, Release
  <2>2. CallsTypeOK'
    BY <1>7
       DEF CallsTypeOK, ConnectFails, Goto, Return, Release, Points, Unsent, Waiting,
           Exchange
  <2>3. LinkTypeOK' /\ PeerTypeOK'
    BY <1>7 DEF LinkTypeOK, PeerTypeOK, ConnectFails
  <2>4. QED
    BY <2>1, <2>2, <2>3
<1>8. ASSUME NEW c \in Callers, BeginExchange(c) PROVE TypeOK'
  <2>1. ServiceTypeOK'
    BY <1>8 DEF ServiceTypeOK, BeginExchange, Goto, LockFree
  <2>2. CallsTypeOK'
    BY <1>8
       DEF CallsTypeOK, BeginExchange, Goto, LockFree, Points, Unsent, Waiting, Exchange
  <2>3. LinkTypeOK' /\ PeerTypeOK'
    BY <1>8 DEF LinkTypeOK, PeerTypeOK, BeginExchange
  <2>4. QED
    BY <2>1, <2>2, <2>3
<1>9. ASSUME NEW c \in Callers, FindChannelGone(c) PROVE TypeOK'
  <2>1. ServiceTypeOK'
    BY <1>9
       DEF ServiceTypeOK, FindChannelGone, Goto, Return, LockFree, ResetConnection,
           CloseClientEnd
  <2>2. CallsTypeOK'
    BY <1>9
       DEF CallsTypeOK, FindChannelGone, Goto, Return, LockFree, ResetConnection,
           CloseClientEnd, Points, Unsent, Waiting, Exchange
  <2>3. LinkTypeOK'
    BY <1>9, CloseTypes DEF FindChannelGone, ResetConnection
  <2>4. PeerTypeOK'
    BY <1>9 DEF PeerTypeOK, FindChannelGone
  <2>5. QED
    BY <2>1, <2>2, <2>3, <2>4
<1>10. ASSUME NEW c \in Callers, Write(c) PROVE TypeOK'
  <2>1. CallsTypeOK'
    BY <1>10 DEF CallsTypeOK, Write, Goto, Points, Unsent, Waiting, Exchange
  <2>2. LinkTypeOK'
    <3>1. Request(c) \in Requests
      BY <1>10, RequestType DEF Write
    <3>2. \A s \in Seq(Requests) : Append(s, Request(c)) \in Seq(Requests)
      BY <3>1, Lines
    <3>3. toServer' \in [Conns -> Seq(Requests)]
      BY <1>10, <3>2 DEF Write, LinkTypeOK
    <3>4. QED
      BY <1>10, <3>3 DEF Write, LinkTypeOK
  <2>3. ServiceTypeOK' /\ PeerTypeOK'
    BY <1>10 DEF ServiceTypeOK, PeerTypeOK, Write
  <2>4. QED
    BY <2>1, <2>2, <2>3
<1>11. ASSUME NEW c \in Callers, Read(c) PROVE TypeOK'
  <2>1. ServiceTypeOK'
    BY <1>11 DEF ServiceTypeOK, Read, Goto, Return, Release
  <2>2. CallsTypeOK'
    <3>1. channel \in Conns
      BY <1>11 DEF Read, ServiceTypeOK
    <3>2. Head(toClient[channel]) \in Replies
      BY <1>11, <3>1, Lines DEF Read, LinkTypeOK
    <3>3. Head(toClient[channel]).to \in Requests
      BY <3>2 DEF Replies
    <3>4. answered' \in [Callers -> Requests \union {None}]
      BY <1>11, <3>3 DEF Read, CallsTypeOK
    <3>5. outcome' \in [Callers -> {"none", "pending", "ok", "failed"}]
          /\ pc' \in [Callers -> Points]
      BY <1>11 DEF Read, Return, Goto, CallsTypeOK, Points
    <3>6. QED
      BY <1>11, <3>4, <3>5 DEF Read, CallsTypeOK
  <2>3. LinkTypeOK'
    <3>1. channel \in Conns
      BY <1>11 DEF Read, ServiceTypeOK
    <3>2. Tail(toClient[channel]) \in Seq(Replies)
      BY <1>11, <3>1, Lines DEF Read, LinkTypeOK
    <3>3. QED
      BY <1>11, <3>2 DEF Read, LinkTypeOK
  <2>4. PeerTypeOK'
    BY <1>11 DEF PeerTypeOK, Read
  <2>5. QED
    BY <2>1, <2>2, <2>3, <2>4
<1>12. ASSUME NEW c \in Callers, ExchangeFails(c) PROVE TypeOK'
  <2>1. ServiceTypeOK'
    BY <1>12
       DEF ServiceTypeOK, ExchangeFails, Goto, Return, Release, ResetOnException,
           ResetConnection, CloseClientEnd, Rethrow
  <2>2. CallsTypeOK'
    BY <1>12
       DEF CallsTypeOK, ExchangeFails, Goto, Return, Release, ResetOnException,
           ResetConnection, CloseClientEnd, Rethrow, Points, Unsent, Waiting, Exchange
  <2>3. LinkTypeOK'
    BY <1>12, CloseTypes DEF ExchangeFails, ResetOnException, ResetConnection
  <2>4. PeerTypeOK'
    BY <1>12 DEF PeerTypeOK, ExchangeFails
  <2>5. QED
    BY <2>1, <2>2, <2>3, <2>4
<1>13. ASSUME NEW c \in Callers, WaitFails(c) PROVE TypeOK'
  <2>1. CallsTypeOK'
    BY <1>13 DEF CallsTypeOK, WaitFails, Goto, Return, Points, Unsent, Waiting, Exchange
  <2>2. ServiceTypeOK' /\ LinkTypeOK' /\ PeerTypeOK'
    BY <1>13 DEF ServiceTypeOK, LinkTypeOK, PeerTypeOK, WaitFails
  <2>3. QED
    BY <2>1, <2>2
<1>14. ASSUME Dispose PROVE TypeOK'
  <2>1. ServiceTypeOK'
    BY <1>14 DEF ServiceTypeOK, Dispose, CloseClientEnd
  <2>2. LinkTypeOK'
    BY <1>14, CloseTypes DEF Dispose
  <2>3. CallsTypeOK' /\ PeerTypeOK'
    BY <1>14 DEF CallsTypeOK, PeerTypeOK, Dispose
  <2>4. QED
    BY <2>1, <2>2, <2>3
<1>15. ASSUME NEW k \in Conns, PeerServes(k) PROVE TypeOK'
  <2>1. LinkTypeOK'
    <3>1. toServer[k] \in Seq(Requests) /\ toServer[k] # << >> /\ toClient[k] \in Seq(Replies)
      BY <1>15 DEF PeerServes, LinkTypeOK
    <3>2. Head(toServer[k]) \in Requests /\ Tail(toServer[k]) \in Seq(Requests)
      BY <3>1, Lines
    <3>3. PICK ok \in BOOLEAN :
            toClient' = IF open[k] = Ends
                        THEN [toClient EXCEPT
                                ![k] = Append(@, [to |-> Head(toServer[k]), ok |-> ok])]
                        ELSE toClient
      BY <1>15 DEF PeerServes
    <3>4. [to |-> Head(toServer[k]), ok |-> ok] \in Replies
      BY <3>2 DEF Replies
    <3>5. Append(toClient[k], [to |-> Head(toServer[k]), ok |-> ok]) \in Seq(Replies)
      BY <3>1, <3>4, Lines
    <3>6. toClient' \in [Conns -> Seq(Replies)]
      BY <3>3, <3>5 DEF LinkTypeOK
    <3>7. QED
      BY <1>15, <3>2, <3>6 DEF PeerServes, LinkTypeOK
  <2>2. PeerTypeOK'
    <3>1. Head(toServer[k]) \in Requests
      BY <1>15, Lines DEF PeerServes, LinkTypeOK
    <3>2. executed' \in [Requests -> Nat]
      BY <1>15, <3>1 DEF PeerServes, PeerTypeOK
    <3>3. QED
      BY <1>15, <3>2 DEF PeerServes, PeerTypeOK
  <2>3. ServiceTypeOK' /\ CallsTypeOK'
    BY <1>15 DEF ServiceTypeOK, CallsTypeOK, PeerServes
  <2>4. QED
    BY <2>1, <2>2, <2>3
<1>16. ASSUME NEW k \in Conns, LinkFails(k) PROVE TypeOK'
  <2>1. LinkTypeOK'
    <3>1. [toServer EXCEPT ![k] = << >>] \in [Conns -> Seq(Requests)]
          /\ [toClient EXCEPT ![k] = << >>] \in [Conns -> Seq(Replies)]
      BY EmptySeq DEF LinkTypeOK
    <3>2. open' \in [Conns -> SUBSET Ends]
      BY <1>16 DEF LinkFails, LinkTypeOK, Ends
    <3>3. QED
      BY <1>16, <3>1, <3>2 DEF LinkFails, LinkTypeOK
  <2>2. PeerTypeOK'
    BY <1>16 DEF PeerTypeOK, LinkFails
  <2>3. ServiceTypeOK' /\ CallsTypeOK'
    BY <1>16 DEF ServiceTypeOK, CallsTypeOK, LinkFails
  <2>4. QED
    BY <2>1, <2>2, <2>3
<1>17. ASSUME NEW k \in Conns, PeerCloses(k) PROVE TypeOK'
  <2>1. LinkTypeOK'
    <3>1. [toServer EXCEPT ![k] = << >>] \in [Conns -> Seq(Requests)]
      BY EmptySeq DEF LinkTypeOK
    <3>2. open' \in [Conns -> SUBSET Ends]
      BY <1>17 DEF PeerCloses, LinkTypeOK
    <3>3. QED
      BY <1>17, <3>1, <3>2 DEF PeerCloses, LinkTypeOK
  <2>2. ServiceTypeOK' /\ CallsTypeOK' /\ PeerTypeOK'
    BY <1>17 DEF ServiceTypeOK, CallsTypeOK, PeerTypeOK, PeerCloses
  <2>3. QED
    BY <2>1, <2>2
<1>18. ASSUME StopListening PROVE TypeOK'
  <2>1. PeerTypeOK'
    <3>1. faults' \in 0..MaxFaults
      BY <1>18 DEF StopListening, PeerTypeOK
    <3>2. QED
      BY <1>18, <3>1 DEF StopListening, PeerTypeOK
  <2>2. ServiceTypeOK' /\ CallsTypeOK' /\ LinkTypeOK'
    BY <1>18 DEF ServiceTypeOK, CallsTypeOK, LinkTypeOK, StopListening
  <2>3. QED
    BY <2>1, <2>2
<1>19. ASSUME StartListening PROVE TypeOK'
  <2>1. PeerTypeOK'
    BY <1>19 DEF PeerTypeOK, StartListening
  <2>2. ServiceTypeOK' /\ CallsTypeOK' /\ LinkTypeOK'
    BY <1>19 DEF ServiceTypeOK, CallsTypeOK, LinkTypeOK, StartListening
  <2>3. QED
    BY <2>1, <2>2
<1>20. CASE UNCHANGED vars
  BY <1>20 DEF vars, ServiceTypeOK, CallsTypeOK, LinkTypeOK, PeerTypeOK
<1>21. QED
  BY <1>1, <1>2, <1>3, <1>4, <1>5, <1>6, <1>7, <1>8, <1>9, <1>10, <1>11, <1>12,
     <1>13, <1>14, <1>15, <1>16, <1>17, <1>18, <1>19, <1>20
     DEF Next, ClientNext, PeerNext, Acquire, Proceed

-----------------------------------------------------------------------------
(* A step that only takes lines away, and leaves the call that is reading      *)
(* where it is as long as its connection has any, keeps what is known of them. *)
LEMMA QueuesShrink ==
  ASSUME TypeOK, RequestInv, DistinctInv, ReplyInv,
         UNCHANGED executed,
         \A r \in Requests : NotSent(r)' => NotSent(r),
         \A k \in Conns : /\ toServer'[k] \in {toServer[k], << >>}
                          /\ toClient'[k] \in {toClient[k], << >>},
         \A k \in Conns : toClient'[k] # << >> => client' = k,
         \A k \in Conns :
           client' = k /\ (toServer'[k] # << >> \/ toClient'[k] # << >>) =>
             /\ client = k /\ lock' = lock
             /\ pc[lock] = "reading" => pc'[lock] = "reading"
             /\ made'[lock] = made[lock]
  PROVE  RequestInv' /\ DistinctInv' /\ ReplyInv'
<1>1. RequestInv'
  <2> SUFFICES ASSUME NEW k \in Conns, toServer'[k] # << >>
               PROVE  /\ Len(toServer'[k]) = 1
                      /\ ~NotSent(Head(toServer[k]))'
                      /\ executed'[Head(toServer'[k])] = 0
                      /\ client' = k =>
                           lock' \in Callers /\ pc'[lock'] = "reading"
                           /\ Head(toServer'[k]) = Request(lock)'
    BY DEF RequestInv
  <2>1. toServer'[k] = toServer[k]
    OBVIOUS
  <2>2. Head(toServer[k]) \in Requests
    BY <2>1, Lines DEF TypeOK, LinkTypeOK
  <2>3. QED
    BY <2>1, <2>2 DEF RequestInv, Request
<1>2. DistinctInv'
  BY DEF DistinctInv
<1>3. ReplyInv'
  BY DEF ReplyInv, Request
<1>4. QED
  BY <1>1, <1>2, <1>3

LEMMA StepIInv == IInv /\ [Next]_vars => IInv'
<1> SUFFICES ASSUME IInv, [Next]_vars PROVE IInv'
  OBVIOUS
<1>0. TypeOK'
  BY TypesStep
<1> USE ServiceAssumption
    DEF IInv, TypeOK, ServiceTypeOK, CallsTypeOK, LinkTypeOK, PeerTypeOK,
        service, calls, link, peer
<1>1. ASSUME NEW c \in Callers, Invoke(c) PROVE IInv'
  <2>1. LockInv' /\ FieldsInv'
    BY <1>1
       DEF LockInv, FieldsInv, Invoke, Goto, Points, Unsent, Waiting, Locked, Exchange,
           Ends
  <2>2. CallInv'
    BY <1>1
       DEF CallInv, Invoke, Goto, Request, Requests, Points, Unsent, Waiting, Locked,
           Exchange
  <2>3. LedgerInv'
    BY <1>1
       DEF LedgerInv, Invoke, Goto, NotSent, Requests, Points, Unsent, Waiting, Locked,
           Exchange
  <2>4. RequestInv' /\ DistinctInv' /\ ReplyInv'
    <3>1. UNCHANGED executed /\ \A r \in Requests : NotSent(r)' => NotSent(r)
      BY <1>1
         DEF Invoke, Goto, NotSent, Requests, Points, Unsent, Waiting, Locked, Exchange
    <3>2. \A j \in Conns : /\ toServer'[j] \in {toServer[j], << >>}
                           /\ toClient'[j] \in {toClient[j], << >>}
      BY <1>1, Lines DEF ReplyInv, Invoke, Goto
    <3>3. \A j \in Conns : toClient'[j] # << >> => client' = j
      BY <1>1, <3>2, Lines
         DEF LockInv, FieldsInv, ReplyInv, Invoke, Goto, Points, Unsent, Waiting,
             Locked, Exchange
    <3>4. \A j \in Conns :
            client' = j /\ (toServer'[j] # << >> \/ toClient'[j] # << >>) =>
              /\ client = j /\ lock' = lock
              /\ pc[lock] = "reading" => pc'[lock] = "reading"
              /\ made'[lock] = made[lock]
      BY <1>1, <3>2, <3>3, Lines
         DEF LockInv, FieldsInv, RequestInv, ReplyInv, Invoke, Goto, Points, Unsent,
             Waiting, Locked, Exchange
    <3>5. QED
      BY <3>1, <3>2, <3>3, <3>4, QueuesShrink
  <2>5. QED
    BY <1>0, <2>1, <2>2, <2>3, <2>4
<1>2. ASSUME NEW c \in Callers, AlreadyConnected(c) PROVE IInv'
  <2>1. LockInv' /\ FieldsInv'
    BY <1>2
       DEF LockInv, FieldsInv, AlreadyConnected, Goto, Connected, Points, Unsent,
           Waiting, Locked, Exchange, Ends
  <2>2. CallInv'
    BY <1>2
       DEF CallInv, AlreadyConnected, Goto, Connected, Request, Requests, Points,
           Unsent, Waiting, Locked, Exchange
  <2>3. LedgerInv'
    BY <1>2
       DEF LedgerInv, AlreadyConnected, Goto, Connected, NotSent, Requests, Points,
           Unsent, Waiting, Locked, Exchange
  <2>4. RequestInv' /\ DistinctInv' /\ ReplyInv'
    <3>1. UNCHANGED executed /\ \A r \in Requests : NotSent(r)' => NotSent(r)
      BY <1>2
         DEF AlreadyConnected, Goto, Connected, NotSent, Requests, Points, Unsent,
             Waiting, Locked, Exchange
    <3>2. \A j \in Conns : /\ toServer'[j] \in {toServer[j], << >>}
                           /\ toClient'[j] \in {toClient[j], << >>}
      BY <1>2, Lines DEF ReplyInv, AlreadyConnected, Goto, Connected
    <3>3. \A j \in Conns : toClient'[j] # << >> => client' = j
      BY <1>2, <3>2, Lines
         DEF LockInv, FieldsInv, ReplyInv, AlreadyConnected, Goto, Connected, Points,
             Unsent, Waiting, Locked, Exchange
    <3>4. \A j \in Conns :
            client' = j /\ (toServer'[j] # << >> \/ toClient'[j] # << >>) =>
              /\ client = j /\ lock' = lock
              /\ pc[lock] = "reading" => pc'[lock] = "reading"
              /\ made'[lock] = made[lock]
      BY <1>2, <3>2, <3>3, Lines
         DEF LockInv, FieldsInv, RequestInv, ReplyInv, AlreadyConnected, Goto,
             Connected, Points, Unsent, Waiting, Locked, Exchange
    <3>5. QED
      BY <3>1, <3>2, <3>3, <3>4, QueuesShrink
  <2>5. QED
    BY <1>0, <2>1, <2>2, <2>3, <2>4
<1>3. ASSUME NEW c \in Callers, NeedsConnection(c) PROVE IInv'
  <2>1. LockInv' /\ FieldsInv'
    BY <1>3
       DEF LockInv, FieldsInv, NeedsConnection, Goto, Points, Unsent, Waiting, Locked,
           Exchange, Ends
  <2>2. CallInv'
    BY <1>3
       DEF CallInv, NeedsConnection, Goto, Request, Requests, Points, Unsent, Waiting,
           Locked, Exchange
  <2>3. LedgerInv'
    BY <1>3
       DEF LedgerInv, NeedsConnection, Goto, NotSent, Requests, Points, Unsent, Waiting,
           Locked, Exchange
  <2>4. RequestInv' /\ DistinctInv' /\ ReplyInv'
    <3>1. UNCHANGED executed /\ \A r \in Requests : NotSent(r)' => NotSent(r)
      BY <1>3
         DEF NeedsConnection, Goto, NotSent, Requests, Points, Unsent, Waiting, Locked,
             Exchange
    <3>2. \A j \in Conns : /\ toServer'[j] \in {toServer[j], << >>}
                           /\ toClient'[j] \in {toClient[j], << >>}
      BY <1>3, Lines DEF ReplyInv, NeedsConnection, Goto
    <3>3. \A j \in Conns : toClient'[j] # << >> => client' = j
      BY <1>3, <3>2, Lines
         DEF LockInv, FieldsInv, ReplyInv, NeedsConnection, Goto, Points, Unsent,
             Waiting, Locked, Exchange
    <3>4. \A j \in Conns :
            client' = j /\ (toServer'[j] # << >> \/ toClient'[j] # << >>) =>
              /\ client = j /\ lock' = lock
              /\ pc[lock] = "reading" => pc'[lock] = "reading"
              /\ made'[lock] = made[lock]
      BY <1>3, <3>2, <3>3, Lines
         DEF LockInv, FieldsInv, RequestInv, ReplyInv, NeedsConnection, Goto, Points,
             Unsent, Waiting, Locked, Exchange
    <3>5. QED
      BY <3>1, <3>2, <3>3, <3>4, QueuesShrink
  <2>5. QED
    BY <1>0, <2>1, <2>2, <2>3, <2>4
<1>4. ASSUME NEW c \in Callers, FindConnected(c) PROVE IInv'
  <2>1. LockInv' /\ FieldsInv'
    BY <1>4
       DEF LockInv, FieldsInv, FindConnected, Goto, Points, Unsent, Waiting, Locked,
           Exchange, Ends
  <2>2. CallInv'
    BY <1>4
       DEF CallInv, FindConnected, Goto, Request, Requests, Points, Unsent, Waiting,
           Locked, Exchange
  <2>3. LedgerInv'
    BY <1>4
       DEF LedgerInv, FindConnected, Goto, NotSent, Requests, Points, Unsent, Waiting,
           Locked, Exchange
  <2>4. RequestInv' /\ DistinctInv' /\ ReplyInv'
    <3>1. UNCHANGED executed /\ \A r \in Requests : NotSent(r)' => NotSent(r)
      BY <1>4
         DEF FindConnected, Goto, NotSent, Requests, Points, Unsent, Waiting, Locked,
             Exchange
    <3>2. \A j \in Conns : /\ toServer'[j] \in {toServer[j], << >>}
                           /\ toClient'[j] \in {toClient[j], << >>}
      BY <1>4, Lines DEF ReplyInv, FindConnected, Goto
    <3>3. \A j \in Conns : toClient'[j] # << >> => client' = j
      BY <1>4, <3>2, Lines
         DEF LockInv, FieldsInv, ReplyInv, FindConnected, Goto, Points, Unsent, Waiting,
             Locked, Exchange
    <3>4. \A j \in Conns :
            client' = j /\ (toServer'[j] # << >> \/ toClient'[j] # << >>) =>
              /\ client = j /\ lock' = lock
              /\ pc[lock] = "reading" => pc'[lock] = "reading"
              /\ made'[lock] = made[lock]
      BY <1>4, <3>2, <3>3, Lines
         DEF LockInv, FieldsInv, RequestInv, ReplyInv, FindConnected, Goto, Points,
             Unsent, Waiting, Locked, Exchange
    <3>5. QED
      BY <3>1, <3>2, <3>3, <3>4, QueuesShrink
  <2>5. QED
    BY <1>0, <2>1, <2>2, <2>3, <2>4
<1>5. ASSUME NEW c \in Callers, StartConnecting(c) PROVE IInv'
  <2>1. LockInv' /\ FieldsInv'
    BY <1>5
       DEF LockInv, FieldsInv, StartConnecting, NewTcpClient, Goto, LockFree, Recheck, Connected,
           StreamsNotYetOpen, Points, Unsent, Waiting, Locked, Exchange, Ends
  <2>2. CallInv'
    BY <1>5
       DEF CallInv, StartConnecting, NewTcpClient, Goto, LockFree, Recheck, Connected,
           StreamsNotYetOpen, Request, Requests, Points, Unsent, Waiting, Locked,
           Exchange
  <2>3. LedgerInv'
    BY <1>5
       DEF LedgerInv, StartConnecting, Goto, LockFree, Recheck, Connected,
           StreamsNotYetOpen, NotSent, Requests, Points, Unsent, Waiting, Locked,
           Exchange
  <2>4. RequestInv' /\ DistinctInv' /\ ReplyInv'
    <3>1. UNCHANGED executed /\ \A r \in Requests : NotSent(r)' => NotSent(r)
      BY <1>5
         DEF StartConnecting, NewTcpClient, Goto, LockFree, Recheck, Connected, StreamsNotYetOpen,
             NotSent, Requests, Points, Unsent, Waiting, Locked, Exchange
    <3>2. \A j \in Conns : /\ toServer'[j] \in {toServer[j], << >>}
                           /\ toClient'[j] \in {toClient[j], << >>}
      BY <1>5, Lines
         DEF ReplyInv, StartConnecting, NewTcpClient, Goto, LockFree, Recheck, Connected,
             StreamsNotYetOpen
    <3>3. \A j \in Conns : toClient'[j] # << >> => client' = j
      BY <1>5, <3>2, Lines
         DEF LockInv, FieldsInv, ReplyInv, StartConnecting, NewTcpClient, Goto, LockFree, Recheck,
             Connected, StreamsNotYetOpen, Points, Unsent, Waiting, Locked, Exchange
    <3>4. \A j \in Conns :
            client' = j /\ (toServer'[j] # << >> \/ toClient'[j] # << >>) =>
              /\ client = j /\ lock' = lock
              /\ pc[lock] = "reading" => pc'[lock] = "reading"
              /\ made'[lock] = made[lock]
      BY <1>5, <3>2, <3>3, Lines
         DEF LockInv, FieldsInv, RequestInv, ReplyInv, StartConnecting, NewTcpClient, Goto, LockFree,
             Recheck, Connected, StreamsNotYetOpen, Points, Unsent, Waiting, Locked,
             Exchange
    <3>5. QED
      BY <3>1, <3>2, <3>3, <3>4, QueuesShrink
  <2>5. QED
    BY <1>0, <2>1, <2>2, <2>3, <2>4
<1>6. ASSUME NEW c \in Callers, ConnectSucceeds(c) PROVE IInv'
  <2>1. LockInv' /\ FieldsInv'
    <3>1. PICK k \in Conns : /\ open[k] = {} /\ client' = k /\ channel' = k
                            /\ open' = [open EXCEPT ![k] = Ends]
      BY <1>6 DEF ConnectSucceeds
    <3>2. \A j \in Conns : "client" \notin open[j]
      BY <1>6 DEF FieldsInv, ConnectSucceeds
    <3>3. FieldsInv'
      BY <3>1, <3>2 DEF FieldsInv, Ends
    <3>4. lock = c /\ lock' = None
      BY <1>6 DEF LockInv, ConnectSucceeds, Release, Locked
    <3>5. pc' = [pc EXCEPT ![c] = "idle"] \/ pc' = [pc EXCEPT ![c] = "waitIO"]
      BY <1>6 DEF ConnectSucceeds, Goto, Return
    <3>6. LockInv'
      BY <3>4, <3>5 DEF LockInv, Locked, Exchange
    <3>7. QED
      BY <3>3, <3>6
  <2>2. CallInv'
    BY <1>6
       DEF CallInv, ConnectSucceeds, Goto, Return, Release, Request, Requests, Points,
           Unsent, Waiting, Locked, Exchange
  <2>3. LedgerInv'
    BY <1>6
       DEF LedgerInv, ConnectSucceeds, Goto, Return, Release, NotSent, Requests, Points,
           Unsent, Waiting, Locked, Exchange
  <2>4. RequestInv' /\ DistinctInv' /\ ReplyInv'
    <3>1. UNCHANGED executed /\ \A r \in Requests : NotSent(r)' => NotSent(r)
      BY <1>6
         DEF ConnectSucceeds, Goto, Return, Release, NotSent, Requests, Points, Unsent,
             Waiting, Locked, Exchange
    <3>2. \A j \in Conns : /\ toServer'[j] \in {toServer[j], << >>}
                           /\ toClient'[j] \in {toClient[j], << >>}
      BY <1>6, Lines DEF ReplyInv, ConnectSucceeds, Goto, Return, Release
    <3>3. \A j \in Conns : toClient'[j] # << >> => client' = j
      BY <1>6, <3>2, Lines
         DEF LockInv, FieldsInv, ReplyInv, ConnectSucceeds, Goto, Return, Release,
             Points, Unsent, Waiting, Locked, Exchange
    <3>4. \A j \in Conns :
            client' = j /\ (toServer'[j] # << >> \/ toClient'[j] # << >>) =>
              /\ client = j /\ lock' = lock
              /\ pc[lock] = "reading" => pc'[lock] = "reading"
              /\ made'[lock] = made[lock]
      BY <1>6, <3>2, <3>3, Lines
         DEF LockInv, FieldsInv, RequestInv, ReplyInv, ConnectSucceeds, Goto, Return,
             Release, Points, Unsent, Waiting, Locked, Exchange
    <3>5. QED
      BY <3>1, <3>2, <3>3, <3>4, QueuesShrink
  <2>5. QED
    BY <1>0, <2>1, <2>2, <2>3, <2>4
<1>7. ASSUME NEW c \in Callers, ConnectFails(c) PROVE IInv'
  <2>1. LockInv' /\ FieldsInv'
    BY <1>7
       DEF LockInv, FieldsInv, ConnectFails, Goto, Return, Release, Points, Unsent,
           Waiting, Locked, Exchange, Ends
  <2>2. CallInv'
    BY <1>7
       DEF CallInv, ConnectFails, Goto, Return, Release, Request, Requests, Points,
           Unsent, Waiting, Locked, Exchange
  <2>3. LedgerInv'
    BY <1>7
       DEF LedgerInv, ConnectFails, Goto, Return, Release, NotSent, Requests, Points,
           Unsent, Waiting, Locked, Exchange
  <2>4. RequestInv' /\ DistinctInv' /\ ReplyInv'
    <3>1. UNCHANGED executed /\ \A r \in Requests : NotSent(r)' => NotSent(r)
      BY <1>7
         DEF ConnectFails, Goto, Return, Release, NotSent, Requests, Points, Unsent,
             Waiting, Locked, Exchange
    <3>2. \A j \in Conns : /\ toServer'[j] \in {toServer[j], << >>}
                           /\ toClient'[j] \in {toClient[j], << >>}
      BY <1>7, Lines DEF ReplyInv, ConnectFails, Goto, Return, Release
    <3>3. \A j \in Conns : toClient'[j] # << >> => client' = j
      BY <1>7, <3>2, Lines
         DEF LockInv, FieldsInv, ReplyInv, ConnectFails, Goto, Return, Release, Points,
             Unsent, Waiting, Locked, Exchange
    <3>4. \A j \in Conns :
            client' = j /\ (toServer'[j] # << >> \/ toClient'[j] # << >>) =>
              /\ client = j /\ lock' = lock
              /\ pc[lock] = "reading" => pc'[lock] = "reading"
              /\ made'[lock] = made[lock]
      BY <1>7, <3>2, <3>3, Lines
         DEF LockInv, FieldsInv, RequestInv, ReplyInv, ConnectFails, Goto, Return,
             Release, Points, Unsent, Waiting, Locked, Exchange
    <3>5. QED
      BY <3>1, <3>2, <3>3, <3>4, QueuesShrink
  <2>5. QED
    BY <1>0, <2>1, <2>2, <2>3, <2>4
<1>8. ASSUME NEW c \in Callers, BeginExchange(c) PROVE IInv'
  <2>1. LockInv' /\ FieldsInv'
    BY <1>8
       DEF LockInv, FieldsInv, BeginExchange, Goto, LockFree, Points, Unsent, Waiting,
           Locked, Exchange, Ends
  <2>2. CallInv'
    BY <1>8
       DEF CallInv, BeginExchange, Goto, LockFree, Request, Requests, Points, Unsent,
           Waiting, Locked, Exchange
  <2>3. LedgerInv'
    BY <1>8
       DEF LedgerInv, BeginExchange, Goto, LockFree, NotSent, Requests, Points, Unsent,
           Waiting, Locked, Exchange
  <2>4. RequestInv' /\ DistinctInv' /\ ReplyInv'
    <3>1. UNCHANGED executed /\ \A r \in Requests : NotSent(r)' => NotSent(r)
      BY <1>8
         DEF BeginExchange, Goto, LockFree, NotSent, Requests, Points, Unsent, Waiting,
             Locked, Exchange
    <3>2. \A j \in Conns : /\ toServer'[j] \in {toServer[j], << >>}
                           /\ toClient'[j] \in {toClient[j], << >>}
      BY <1>8, Lines DEF ReplyInv, BeginExchange, Goto, LockFree
    <3>3. \A j \in Conns : toClient'[j] # << >> => client' = j
      BY <1>8, <3>2, Lines
         DEF LockInv, FieldsInv, ReplyInv, BeginExchange, Goto, LockFree, Points,
             Unsent, Waiting, Locked, Exchange
    <3>4. \A j \in Conns :
            client' = j /\ (toServer'[j] # << >> \/ toClient'[j] # << >>) =>
              /\ client = j /\ lock' = lock
              /\ pc[lock] = "reading" => pc'[lock] = "reading"
              /\ made'[lock] = made[lock]
      BY <1>8, <3>2, <3>3, Lines
         DEF LockInv, FieldsInv, RequestInv, ReplyInv, BeginExchange, Goto, LockFree,
             Points, Unsent, Waiting, Locked, Exchange
    <3>5. QED
      BY <3>1, <3>2, <3>3, <3>4, QueuesShrink
  <2>5. QED
    BY <1>0, <2>1, <2>2, <2>3, <2>4
<1>9. ASSUME NEW c \in Callers, FindChannelGone(c) PROVE IInv'
  <2>1. LockInv' /\ FieldsInv'
    BY <1>9
       DEF LockInv, FieldsInv, FindChannelGone, Goto, Return, LockFree, ResetConnection,
           CloseClientEnd, Points, Unsent, Waiting, Locked, Exchange, Ends
  <2>2. CallInv'
    BY <1>9
       DEF CallInv, FindChannelGone, Goto, Return, LockFree, ResetConnection,
           CloseClientEnd, Request, Requests, Points, Unsent, Waiting, Locked, Exchange
  <2>3. LedgerInv'
    BY <1>9
       DEF LedgerInv, FindChannelGone, Goto, Return, LockFree, ResetConnection,
           CloseClientEnd, NotSent, Requests, Points, Unsent, Waiting, Locked, Exchange
  <2>4. RequestInv' /\ DistinctInv' /\ ReplyInv'
    <3>1. UNCHANGED executed /\ \A r \in Requests : NotSent(r)' => NotSent(r)
      BY <1>9
         DEF FindChannelGone, Goto, Return, LockFree, ResetConnection, CloseClientEnd,
             NotSent, Requests, Points, Unsent, Waiting, Locked, Exchange
    <3>2. \A j \in Conns : /\ toServer'[j] \in {toServer[j], << >>}
                           /\ toClient'[j] \in {toClient[j], << >>}
      BY <1>9, Lines
         DEF ReplyInv, FindChannelGone, Goto, Return, LockFree, ResetConnection,
             CloseClientEnd
    <3>3. \A j \in Conns : toClient'[j] # << >> => client' = j
      BY <1>9, <3>2, Lines
         DEF LockInv, FieldsInv, ReplyInv, FindChannelGone, Goto, Return, LockFree,
             ResetConnection, CloseClientEnd, Points, Unsent, Waiting, Locked, Exchange
    <3>4. \A j \in Conns :
            client' = j /\ (toServer'[j] # << >> \/ toClient'[j] # << >>) =>
              /\ client = j /\ lock' = lock
              /\ pc[lock] = "reading" => pc'[lock] = "reading"
              /\ made'[lock] = made[lock]
      BY <1>9, <3>2, <3>3, Lines
         DEF LockInv, FieldsInv, RequestInv, ReplyInv, FindChannelGone, Goto, Return,
             LockFree, ResetConnection, CloseClientEnd, Points, Unsent, Waiting, Locked,
             Exchange
    <3>5. QED
      BY <3>1, <3>2, <3>3, <3>4, QueuesShrink
  <2>5. QED
    BY <1>0, <2>1, <2>2, <2>3, <2>4
<1>10. ASSUME NEW c \in Callers, Write(c) PROVE IInv'
  <2>1. LockInv' /\ FieldsInv'
    BY <1>10
       DEF LockInv, FieldsInv, Write, Goto, Points, Unsent, Waiting, Locked, Exchange,
           Ends
  <2>2. CallInv'
    BY <1>10
       DEF CallInv, Write, Goto, Request, Requests, Points, Unsent, Waiting, Locked,
           Exchange
  <2>3. LedgerInv'
    BY <1>10
       DEF LedgerInv, Write, Goto, NotSent, Requests, Points, Unsent, Waiting, Locked,
           Exchange
  <2>4. RequestInv' /\ DistinctInv' /\ ReplyInv'
    <3>1. /\ channel \in Conns /\ client = channel /\ lock = c
          /\ UNCHANGED <<client, lock, made, executed, toClient>>
          /\ pc' = [pc EXCEPT ![c] = "reading"]
      BY <1>10, ServiceAssumption
         DEF Write, Goto, ServiceTypeOK, LockInv, FieldsInv, Locked, Exchange
    <3>2. toServer[channel] = << >> /\ toClient[channel] = << >>
      BY <1>10, <3>1 DEF Write, RequestInv, ReplyInv
    <3>3. /\ Request(c) \in Requests /\ executed[Request(c)] = 0 /\ NotSent(Request(c))
          /\ \A r \in Requests : NotSent(r)' => NotSent(r)
          /\ ~NotSent(Request(c))'
      <4>1. Request(c) \in Requests /\ NotSent(Request(c))
        BY <1>10, RequestType DEF Write, NotSent, Request, Unsent
      <4>2. executed[Request(c)] = 0
        BY <4>1 DEF LedgerInv
      <4>3. pc'[c] = "reading" /\ \A x \in Callers : x # c => pc'[x] = pc[x]
        BY <3>1 DEF CallsTypeOK
      <4>4. ~NotSent(Request(c))'
        BY <3>1, <4>1, <4>3 DEF NotSent, Request, Requests, CallsTypeOK, Unsent, Waiting
      <4>5. \A r \in Requests : NotSent(r)' => NotSent(r)
        BY <3>1, <4>3 DEF NotSent, Requests, Unsent, Waiting
      <4>6. QED
        BY <4>1, <4>2, <4>4, <4>5
    <3>4. \A k \in Conns : toServer'[k] # << >> =>
            \/ toServer'[k] = toServer[k]
            \/ k = channel /\ toServer'[k] = <<Request(c)>>
      BY <1>10, <3>1, <3>2, <3>3, Lines DEF Write, LinkTypeOK
    <3>5. \A k \in Conns : toServer[k] # << >> => Head(toServer[k]) # Request(c)
      BY <3>3 DEF RequestInv
    <3>6. /\ Len(<<Request(c)>>) = 1 /\ Head(<<Request(c)>>) = Request(c)
          /\ \A k \in Conns : toServer[k] # << >> => Head(toServer[k]) \in Requests
      BY Lines DEF LinkTypeOK
    <3>7. Request(c)' = Request(c) /\ pc'[c] = "reading"
      BY <3>1 DEF Request, CallsTypeOK
    <3>8. RequestInv'
      BY <3>1, <3>2, <3>3, <3>4, <3>6, <3>7 DEF RequestInv
    <3>9. DistinctInv'
      BY <3>1, <3>2, <3>4, <3>5, <3>6 DEF DistinctInv
    <3>10. ReplyInv'
      BY <1>10, <3>1, <3>2 DEF Write, ReplyInv
    <3>11. QED
      BY <3>8, <3>9, <3>10
  <2>5. QED
    BY <1>0, <2>1, <2>2, <2>3, <2>4
<1>11. ASSUME NEW c \in Callers, Read(c) PROVE IInv'
  <2>1. LockInv' /\ FieldsInv'
    BY <1>11
       DEF LockInv, FieldsInv, Read, Goto, Return, Release, Points, Unsent, Waiting,
           Locked, Exchange, Ends
  <2>2. CallInv'
    <3>1. channel \in Conns /\ lock = c
      BY <1>11 DEF Read, LockInv, Locked, Exchange
    <3>2. /\ Head(toClient[channel]).to = Request(c)
          /\ Head(toClient[channel]).ok => executed[Request(c)] = 1
      BY <1>11, <3>1 DEF Read, ReplyInv
    <3>3. Request(c) \in Requests
      BY <1>11, RequestType DEF Read
    <3>4. /\ pc' = [pc EXCEPT ![c] = "idle"] /\ made' = made /\ executed' = executed
          /\ answered' = [answered EXCEPT ![c] = Request(c)]
          /\ \/ outcome' = [outcome EXCEPT ![c] = "failed"]
             \/ outcome' = [outcome EXCEPT ![c] = "ok"] /\ executed[Request(c)] = 1
      BY <1>11, <3>2 DEF Read, Return, Goto
    <3>5. QED
      BY <3>3, <3>4 DEF CallInv, Request
  <2>3. LedgerInv'
    BY <1>11
       DEF LedgerInv, Read, Goto, Return, Release, NotSent, Requests, Points, Unsent,
           Waiting, Locked, Exchange
  <2>4. RequestInv' /\ DistinctInv' /\ ReplyInv'
    <3>1. UNCHANGED executed /\ \A r \in Requests : NotSent(r)' => NotSent(r)
      BY <1>11
         DEF Read, Goto, Return, Release, NotSent, Requests, Points, Unsent, Waiting,
             Locked, Exchange
    <3>2. \A j \in Conns : /\ toServer'[j] \in {toServer[j], << >>}
                           /\ toClient'[j] \in {toClient[j], << >>}
      BY <1>11, Lines DEF ReplyInv, Read, Goto, Return, Release
    <3>3. \A j \in Conns : toClient'[j] # << >> => client' = j
      BY <1>11, <3>2, Lines
         DEF LockInv, FieldsInv, ReplyInv, Read, Goto, Return, Release, Points, Unsent,
             Waiting, Locked, Exchange
    <3>4. \A j \in Conns :
            client' = j /\ (toServer'[j] # << >> \/ toClient'[j] # << >>) =>
              /\ client = j /\ lock' = lock
              /\ pc[lock] = "reading" => pc'[lock] = "reading"
              /\ made'[lock] = made[lock]
      BY <1>11, <3>2, <3>3, Lines
         DEF LockInv, FieldsInv, RequestInv, ReplyInv, Read, Goto, Return, Release,
             Points, Unsent, Waiting, Locked, Exchange
    <3>5. QED
      BY <3>1, <3>2, <3>3, <3>4, QueuesShrink
  <2>5. QED
    BY <1>0, <2>1, <2>2, <2>3, <2>4
<1>12. ASSUME NEW c \in Callers, ExchangeFails(c) PROVE IInv'
  <2>1. LockInv' /\ FieldsInv'
    BY <1>12
       DEF LockInv, FieldsInv, ExchangeFails, Goto, Return, Release, ResetOnException,
           ResetConnection, CloseClientEnd, Rethrow, Points, Unsent, Waiting, Locked,
           Exchange, Ends
  <2>2. CallInv'
    BY <1>12
       DEF CallInv, ExchangeFails, Goto, Return, Release, ResetOnException,
           ResetConnection, CloseClientEnd, Rethrow, Request, Requests, Points, Unsent,
           Waiting, Locked, Exchange
  <2>3. LedgerInv'
    BY <1>12
       DEF LedgerInv, ExchangeFails, Goto, Return, Release, ResetOnException,
           ResetConnection, CloseClientEnd, Rethrow, NotSent, Requests, Points, Unsent,
           Waiting, Locked, Exchange
  <2>4. RequestInv' /\ DistinctInv' /\ ReplyInv'
    <3>1. UNCHANGED executed /\ \A r \in Requests : NotSent(r)' => NotSent(r)
      BY <1>12
         DEF ExchangeFails, Goto, Return, Release, ResetOnException, ResetConnection,
             CloseClientEnd, Rethrow, NotSent, Requests, Points, Unsent, Waiting,
             Locked, Exchange
    <3>2. \A j \in Conns : /\ toServer'[j] \in {toServer[j], << >>}
                           /\ toClient'[j] \in {toClient[j], << >>}
      BY <1>12, Lines
         DEF ReplyInv, ExchangeFails, Goto, Return, Release, ResetOnException,
             ResetConnection, CloseClientEnd, Rethrow
    <3>3. \A j \in Conns : toClient'[j] # << >> => client' = j
      BY <1>12, <3>2, Lines
         DEF LockInv, FieldsInv, ReplyInv, ExchangeFails, Goto, Return, Release,
             ResetOnException, ResetConnection, CloseClientEnd, Rethrow, Points, Unsent,
             Waiting, Locked, Exchange
    <3>4. \A j \in Conns :
            client' = j /\ (toServer'[j] # << >> \/ toClient'[j] # << >>) =>
              /\ client = j /\ lock' = lock
              /\ pc[lock] = "reading" => pc'[lock] = "reading"
              /\ made'[lock] = made[lock]
      BY <1>12, <3>2, <3>3, Lines
         DEF LockInv, FieldsInv, RequestInv, ReplyInv, ExchangeFails, Goto, Return,
             Release, ResetOnException, ResetConnection, CloseClientEnd, Rethrow,
             Points, Unsent, Waiting, Locked, Exchange
    <3>5. QED
      BY <3>1, <3>2, <3>3, <3>4, QueuesShrink
  <2>5. QED
    BY <1>0, <2>1, <2>2, <2>3, <2>4
<1>13. ASSUME NEW c \in Callers, WaitFails(c) PROVE IInv'
  <2>1. LockInv' /\ FieldsInv'
    BY <1>13
       DEF LockInv, FieldsInv, WaitFails, Goto, Return, Points, Unsent, Waiting, Locked,
           Exchange, Ends
  <2>2. CallInv'
    BY <1>13
       DEF CallInv, WaitFails, Goto, Return, Request, Requests, Points, Unsent, Waiting,
           Locked, Exchange
  <2>3. LedgerInv'
    BY <1>13
       DEF LedgerInv, WaitFails, Goto, Return, NotSent, Requests, Points, Unsent,
           Waiting, Locked, Exchange
  <2>4. RequestInv' /\ DistinctInv' /\ ReplyInv'
    <3>1. UNCHANGED executed /\ \A r \in Requests : NotSent(r)' => NotSent(r)
      BY <1>13
         DEF WaitFails, Goto, Return, NotSent, Requests, Points, Unsent, Waiting,
             Locked, Exchange
    <3>2. \A j \in Conns : /\ toServer'[j] \in {toServer[j], << >>}
                           /\ toClient'[j] \in {toClient[j], << >>}
      BY <1>13, Lines DEF ReplyInv, WaitFails, Goto, Return
    <3>3. \A j \in Conns : toClient'[j] # << >> => client' = j
      BY <1>13, <3>2, Lines
         DEF LockInv, FieldsInv, ReplyInv, WaitFails, Goto, Return, Points, Unsent,
             Waiting, Locked, Exchange
    <3>4. \A j \in Conns :
            client' = j /\ (toServer'[j] # << >> \/ toClient'[j] # << >>) =>
              /\ client = j /\ lock' = lock
              /\ pc[lock] = "reading" => pc'[lock] = "reading"
              /\ made'[lock] = made[lock]
      BY <1>13, <3>2, <3>3, Lines
         DEF LockInv, FieldsInv, RequestInv, ReplyInv, WaitFails, Goto, Return, Points,
             Unsent, Waiting, Locked, Exchange
    <3>5. QED
      BY <3>1, <3>2, <3>3, <3>4, QueuesShrink
  <2>5. QED
    BY <1>0, <2>1, <2>2, <2>3, <2>4
<1>14. ASSUME Dispose PROVE IInv'
  <2>1. LockInv' /\ FieldsInv'
    BY <1>14
       DEF LockInv, FieldsInv, Dispose, CloseClientEnd, Points, Unsent, Waiting, Locked,
           Exchange, Ends
  <2>2. CallInv'
    BY <1>14
       DEF CallInv, Dispose, CloseClientEnd, Request, Requests, Points, Unsent, Waiting,
           Locked, Exchange
  <2>3. LedgerInv'
    BY <1>14
       DEF LedgerInv, Dispose, CloseClientEnd, NotSent, Requests, Points, Unsent,
           Waiting, Locked, Exchange
  <2>4. RequestInv' /\ DistinctInv' /\ ReplyInv'
    <3>1. UNCHANGED executed /\ \A r \in Requests : NotSent(r)' => NotSent(r)
      BY <1>14
         DEF Dispose, CloseClientEnd, NotSent, Requests, Points, Unsent, Waiting,
             Locked, Exchange
    <3>2. \A j \in Conns : /\ toServer'[j] \in {toServer[j], << >>}
                           /\ toClient'[j] \in {toClient[j], << >>}
      BY <1>14, Lines DEF ReplyInv, Dispose, CloseClientEnd
    <3>3. \A j \in Conns : toClient'[j] # << >> => client' = j
      BY <1>14, <3>2, Lines
         DEF LockInv, FieldsInv, ReplyInv, Dispose, CloseClientEnd, Points, Unsent,
             Waiting, Locked, Exchange
    <3>4. \A j \in Conns :
            client' = j /\ (toServer'[j] # << >> \/ toClient'[j] # << >>) =>
              /\ client = j /\ lock' = lock
              /\ pc[lock] = "reading" => pc'[lock] = "reading"
              /\ made'[lock] = made[lock]
      BY <1>14, <3>2, <3>3, Lines
         DEF LockInv, FieldsInv, RequestInv, ReplyInv, Dispose, CloseClientEnd, Points,
             Unsent, Waiting, Locked, Exchange
    <3>5. QED
      BY <3>1, <3>2, <3>3, <3>4, QueuesShrink
  <2>5. QED
    BY <1>0, <2>1, <2>2, <2>3, <2>4
<1>15. ASSUME NEW k \in Conns, PeerServes(k) PROVE IInv'
  <2>1. LockInv' /\ FieldsInv'
    BY <1>15
       DEF LockInv, FieldsInv, PeerServes, Points, Unsent, Waiting, Locked, Exchange,
           Ends
  <2>2. CallInv'
    <3>1. UNCHANGED <<pc, made, outcome, answered>>
      BY <1>15 DEF PeerServes
    <3>2. Head(toServer[k]) \in Requests /\ executed[Head(toServer[k])] = 0
      BY <1>15, Lines DEF PeerServes, LinkTypeOK, RequestInv
    <3>3. \A r \in Requests : executed[r] = 1 => executed'[r] = 1
      BY <1>15, <3>2 DEF PeerServes
    <3>4. QED
      BY <3>1, <3>3 DEF CallInv, Request
  <2>3. LedgerInv'
    BY <1>15
       DEF LedgerInv, PeerServes, RequestInv, NotSent, Requests, Points, Unsent,
           Waiting, Locked, Exchange
  <2>4. RequestInv' /\ DistinctInv' /\ ReplyInv'
    <3> DEFINE r == Head(toServer[k])
    <3>1. /\ toServer[k] # << >> /\ r \in Requests
          /\ Tail(toServer[k]) = << >> /\ toServer' = [toServer EXCEPT ![k] = << >>]
      BY <1>15, Lines DEF PeerServes, RequestInv
    <3>2. /\ \A j \in Conns : toServer[j] # << >> => Head(toServer[j]) \in Requests
          /\ \A q \in Requests : q # r => executed'[q] = executed[q]
      BY <1>15, <3>1, Lines DEF PeerServes
    <3>3. /\ UNCHANGED <<lock, client, pc, made>>
          /\ \A q \in Requests : NotSent(q)' <=> NotSent(q)
      BY <1>15 DEF PeerServes, NotSent
    <3>4. RequestInv'
      <4> SUFFICES ASSUME NEW j \in Conns, toServer'[j] # << >>
                   PROVE  /\ Len(toServer'[j]) = 1
                          /\ ~NotSent(Head(toServer[j]))'
                          /\ executed'[Head(toServer'[j])] = 0
                          /\ client' = j =>
                               lock' \in Callers /\ pc'[lock'] = "reading"
                               /\ Head(toServer'[j]) = Request(lock)'
        BY DEF RequestInv
      <4>1. j # k /\ toServer'[j] = toServer[j]
        BY <3>1
      <4>2. Head(toServer[j]) # r
        BY <3>1, <4>1 DEF DistinctInv
      <4>3. QED
        BY <3>2, <3>3, <4>1, <4>2 DEF RequestInv, Request
    <3>5. DistinctInv'
      BY <3>1 DEF DistinctInv
    <3>6. ReplyInv'
      <4> SUFFICES ASSUME NEW j \in Conns, toClient'[j] # << >>
                   PROVE  /\ Len(toClient'[j]) = 1
                          /\ client' = j /\ lock' \in Callers /\ pc'[lock'] = "reading"
                          /\ toServer'[j] = << >>
                          /\ Head(toClient'[j]).to = Request(lock)'
                          /\ Head(toClient'[j]).ok => executed'[Request(lock)'] = 1
        BY DEF ReplyInv
      <4>1. Request(lock)' = Request(lock)
        BY <3>3 DEF Request
      <4>2. CASE j # k
        <5>1. toClient'[j] = toClient[j] /\ toServer'[j] = toServer[j]
          BY <1>15, <3>1, <4>2 DEF PeerServes
        <5>2. /\ Len(toClient[j]) = 1 /\ client = j
              /\ lock \in Callers /\ pc[lock] = "reading" /\ toServer[j] = << >>
              /\ Head(toClient[j]).to = Request(lock)
              /\ Head(toClient[j]).ok => executed[Request(lock)] = 1
          BY <5>1 DEF ReplyInv
        <5>3. executed[Request(lock)] = 1 => Request(lock) # r
          BY <3>1 DEF RequestInv
        <5>4. Request(lock) \in Requests
          BY <5>2, RequestType
        <5>5. QED
          BY <3>2, <3>3, <4>1, <5>1, <5>2, <5>3, <5>4
      <4>3. CASE j = k
        <5>1. toClient[k] = << >>
          BY <3>1 DEF ReplyInv
        <5>2. open[k] = Ends
          BY <1>15, <4>3, <5>1 DEF PeerServes
        <5>3. client = k
          BY <5>2 DEF FieldsInv, Ends
        <5>4. lock \in Callers /\ pc[lock] = "reading" /\ r = Request(lock)
              /\ executed[r] = 0
          BY <3>1, <5>3 DEF RequestInv
        <5>5. PICK ok \in BOOLEAN :
                /\ executed' = IF ok THEN [executed EXCEPT ![r] = @ + 1] ELSE executed
                /\ toClient' = [toClient EXCEPT ![k] = Append(@, [to |-> r, ok |-> ok])]
          BY <1>15, <5>2 DEF PeerServes
        <5>6. toClient'[k] = <<[to |-> r, ok |-> ok]>>
          BY <5>1, <5>5
        <5>7. Len(toClient'[k]) = 1 /\ Head(toClient'[k]).to = r /\ Head(toClient'[k]).ok = ok
          BY <5>6
        <5>8. ok => executed'[r] = 1
          BY <3>1, <5>4, <5>5
        <5>9. QED
          BY <3>1, <3>3, <4>1, <4>3, <5>3, <5>4, <5>7, <5>8
      <4>4. QED
        BY <4>2, <4>3
    <3>7. QED
      BY <3>4, <3>5, <3>6
  <2>5. QED
    BY <1>0, <2>1, <2>2, <2>3, <2>4
<1>16. ASSUME NEW k \in Conns, LinkFails(k) PROVE IInv'
  <2>1. LockInv' /\ FieldsInv'
    BY <1>16
       DEF LockInv, FieldsInv, LinkFails, Points, Unsent, Waiting, Locked, Exchange,
           Ends
  <2>2. CallInv'
    BY <1>16
       DEF CallInv, LinkFails, Request, Requests, Points, Unsent, Waiting, Locked,
           Exchange
  <2>3. LedgerInv'
    BY <1>16
       DEF LedgerInv, LinkFails, NotSent, Requests, Points, Unsent, Waiting, Locked,
           Exchange
  <2>4. RequestInv' /\ DistinctInv' /\ ReplyInv'
    <3>1. UNCHANGED executed /\ \A r \in Requests : NotSent(r)' => NotSent(r)
      BY <1>16
         DEF LinkFails, NotSent, Requests, Points, Unsent, Waiting, Locked, Exchange
    <3>2. \A j \in Conns : /\ toServer'[j] \in {toServer[j], << >>}
                           /\ toClient'[j] \in {toClient[j], << >>}
      BY <1>16, Lines DEF ReplyInv, LinkFails
    <3>3. \A j \in Conns : toClient'[j] # << >> => client' = j
      BY <1>16, <3>2, Lines
         DEF LockInv, FieldsInv, ReplyInv, LinkFails, Points, Unsent, Waiting, Locked,
             Exchange
    <3>4. \A j \in Conns :
            client' = j /\ (toServer'[j] # << >> \/ toClient'[j] # << >>) =>
              /\ client = j /\ lock' = lock
              /\ pc[lock] = "reading" => pc'[lock] = "reading"
              /\ made'[lock] = made[lock]
      BY <1>16, <3>2, <3>3, Lines
         DEF LockInv, FieldsInv, RequestInv, ReplyInv, LinkFails, Points, Unsent,
             Waiting, Locked, Exchange
    <3>5. QED
      BY <3>1, <3>2, <3>3, <3>4, QueuesShrink
  <2>5. QED
    BY <1>0, <2>1, <2>2, <2>3, <2>4
<1>17. ASSUME NEW k \in Conns, PeerCloses(k) PROVE IInv'
  <2>1. LockInv' /\ FieldsInv'
    BY <1>17
       DEF LockInv, FieldsInv, PeerCloses, Points, Unsent, Waiting, Locked, Exchange,
           Ends
  <2>2. CallInv'
    BY <1>17
       DEF CallInv, PeerCloses, Request, Requests, Points, Unsent, Waiting, Locked,
           Exchange
  <2>3. LedgerInv'
    BY <1>17
       DEF LedgerInv, PeerCloses, NotSent, Requests, Points, Unsent, Waiting, Locked,
           Exchange
  <2>4. RequestInv' /\ DistinctInv' /\ ReplyInv'
    <3>1. UNCHANGED executed /\ \A r \in Requests : NotSent(r)' => NotSent(r)
      BY <1>17
         DEF PeerCloses, NotSent, Requests, Points, Unsent, Waiting, Locked, Exchange
    <3>2. \A j \in Conns : /\ toServer'[j] \in {toServer[j], << >>}
                           /\ toClient'[j] \in {toClient[j], << >>}
      BY <1>17, Lines DEF ReplyInv, PeerCloses
    <3>3. \A j \in Conns : toClient'[j] # << >> => client' = j
      BY <1>17, <3>2, Lines
         DEF LockInv, FieldsInv, ReplyInv, PeerCloses, Points, Unsent, Waiting, Locked,
             Exchange
    <3>4. \A j \in Conns :
            client' = j /\ (toServer'[j] # << >> \/ toClient'[j] # << >>) =>
              /\ client = j /\ lock' = lock
              /\ pc[lock] = "reading" => pc'[lock] = "reading"
              /\ made'[lock] = made[lock]
      BY <1>17, <3>2, <3>3, Lines
         DEF LockInv, FieldsInv, RequestInv, ReplyInv, PeerCloses, Points, Unsent,
             Waiting, Locked, Exchange
    <3>5. QED
      BY <3>1, <3>2, <3>3, <3>4, QueuesShrink
  <2>5. QED
    BY <1>0, <2>1, <2>2, <2>3, <2>4
<1>18. ASSUME StopListening PROVE IInv'
  <2>1. LockInv' /\ FieldsInv'
    BY <1>18
       DEF LockInv, FieldsInv, StopListening, Points, Unsent, Waiting, Locked, Exchange,
           Ends
  <2>2. CallInv'
    BY <1>18
       DEF CallInv, StopListening, Request, Requests, Points, Unsent, Waiting, Locked,
           Exchange
  <2>3. LedgerInv'
    BY <1>18
       DEF LedgerInv, StopListening, NotSent, Requests, Points, Unsent, Waiting, Locked,
           Exchange
  <2>4. RequestInv' /\ DistinctInv' /\ ReplyInv'
    <3>1. UNCHANGED executed /\ \A r \in Requests : NotSent(r)' => NotSent(r)
      BY <1>18
         DEF StopListening, NotSent, Requests, Points, Unsent, Waiting, Locked, Exchange
    <3>2. \A j \in Conns : /\ toServer'[j] \in {toServer[j], << >>}
                           /\ toClient'[j] \in {toClient[j], << >>}
      BY <1>18, Lines DEF ReplyInv, StopListening
    <3>3. \A j \in Conns : toClient'[j] # << >> => client' = j
      BY <1>18, <3>2, Lines
         DEF LockInv, FieldsInv, ReplyInv, StopListening, Points, Unsent, Waiting,
             Locked, Exchange
    <3>4. \A j \in Conns :
            client' = j /\ (toServer'[j] # << >> \/ toClient'[j] # << >>) =>
              /\ client = j /\ lock' = lock
              /\ pc[lock] = "reading" => pc'[lock] = "reading"
              /\ made'[lock] = made[lock]
      BY <1>18, <3>2, <3>3, Lines
         DEF LockInv, FieldsInv, RequestInv, ReplyInv, StopListening, Points, Unsent,
             Waiting, Locked, Exchange
    <3>5. QED
      BY <3>1, <3>2, <3>3, <3>4, QueuesShrink
  <2>5. QED
    BY <1>0, <2>1, <2>2, <2>3, <2>4
<1>19. ASSUME StartListening PROVE IInv'
  <2>1. LockInv' /\ FieldsInv'
    BY <1>19
       DEF LockInv, FieldsInv, StartListening, Points, Unsent, Waiting, Locked,
           Exchange, Ends
  <2>2. CallInv'
    BY <1>19
       DEF CallInv, StartListening, Request, Requests, Points, Unsent, Waiting, Locked,
           Exchange
  <2>3. LedgerInv'
    BY <1>19
       DEF LedgerInv, StartListening, NotSent, Requests, Points, Unsent, Waiting,
           Locked, Exchange
  <2>4. RequestInv' /\ DistinctInv' /\ ReplyInv'
    <3>1. UNCHANGED executed /\ \A r \in Requests : NotSent(r)' => NotSent(r)
      BY <1>19
         DEF StartListening, NotSent, Requests, Points, Unsent, Waiting, Locked,
             Exchange
    <3>2. \A j \in Conns : /\ toServer'[j] \in {toServer[j], << >>}
                           /\ toClient'[j] \in {toClient[j], << >>}
      BY <1>19, Lines DEF ReplyInv, StartListening
    <3>3. \A j \in Conns : toClient'[j] # << >> => client' = j
      BY <1>19, <3>2, Lines
         DEF LockInv, FieldsInv, ReplyInv, StartListening, Points, Unsent, Waiting,
             Locked, Exchange
    <3>4. \A j \in Conns :
            client' = j /\ (toServer'[j] # << >> \/ toClient'[j] # << >>) =>
              /\ client = j /\ lock' = lock
              /\ pc[lock] = "reading" => pc'[lock] = "reading"
              /\ made'[lock] = made[lock]
      BY <1>19, <3>2, <3>3, Lines
         DEF LockInv, FieldsInv, RequestInv, ReplyInv, StartListening, Points, Unsent,
             Waiting, Locked, Exchange
    <3>5. QED
      BY <3>1, <3>2, <3>3, <3>4, QueuesShrink
  <2>5. QED
    BY <1>0, <2>1, <2>2, <2>3, <2>4
<1>20. CASE UNCHANGED vars
  BY <1>20 DEF vars, LockInv, FieldsInv, CallInv, LedgerInv, RequestInv, DistinctInv, ReplyInv,
               NotSent, Request
<1>21. QED
  BY <1>1, <1>2, <1>3, <1>4, <1>5, <1>6, <1>7, <1>8, <1>9, <1>10, <1>11, <1>12,
     <1>13, <1>14, <1>15, <1>16, <1>17, <1>18, <1>19, <1>20
     DEF Next, ClientNext, PeerNext, Acquire, Proceed

-----------------------------------------------------------------------------
(* Every variable keeps its type: the fields refer to a connection or to      *)
(* nothing, and only requests and replies travel on the connections.          *)
THEOREM TypeCorrect == Spec => []TypeOK
<1>1. IInv => TypeOK
  BY DEF IInv
<1>2. QED
  BY <1>1, InitIInv, StepIInv, PTL DEF Spec

(* No call is given the reply to another request, whatever fails and whoever  *)
(* cancels: SendAndReceiveAsync and its reset.                                *)
THEOREM RepliesMatch == Spec => []ReplyMatchesCall
<1>1. IInv => ReplyMatchesCall
  BY DEF IInv, CallInv, ReplyMatchesCall
<1>2. QED
  BY <1>1, InitIInv, StepIInv, PTL DEF Spec

(* An exchange always starts on a connection with nothing under way.          *)
THEOREM ChannelClean == Spec => []IdleChannelIsClean
<1>1. IInv => IdleChannelIsClean
  BY ServiceAssumption
     DEF IInv, TypeOK, ServiceTypeOK, RequestInv, ReplyInv, FieldsInv, IdleChannelIsClean
<1>2. QED
  BY <1>1, InitIInv, StepIInv, PTL DEF Spec

(* The service never has a connection open that it no longer refers to.  Of a *)
(* TcpClient that did not connect this is not so: see NoTcpClientLeft.        *)
THEOREM ConnectionsClosed == Spec => []NoConnectionLeft
<1>1. IInv => NoConnectionLeft
  BY DEF IInv, FieldsInv, NoConnectionLeft
<1>2. QED
  BY <1>1, InitIInv, StepIInv, PTL DEF Spec

-----------------------------------------------------------------------------
LEMMA InitAtMostOnce == Init => AMO!Init
  BY DEF Init, AMO!Init, AMO!Requests, Requests

LEMMA StepAtMostOnce == IInv /\ [Next]_vars => [AMO!Next]_(AMO!vars)
<1> SUFFICES ASSUME IInv, [Next]_vars PROVE [AMO!Next]_(AMO!vars)
  OBVIOUS
<1> USE DEF service, calls, link, peer
<1> DEFINE Stutter == UNCHANGED <<made, outcome, executed>>
<1>1. ASSUME NEW c \in Callers, Invoke(c) PROVE AMO!Invoke(c)
  BY <1>1 DEF Invoke, AMO!Invoke, IInv, CallInv
<1>2. ASSUME NEW c \in Callers,
             \/ AlreadyConnected(c) \/ NeedsConnection(c) \/ FindConnected(c)
             \/ StartConnecting(c) \/ BeginExchange(c) \/ Write(c)
      PROVE  Stutter
  BY <1>2 DEF AlreadyConnected, NeedsConnection, FindConnected, StartConnecting,
              BeginExchange, Write
<1>3. ASSUME NEW c \in Callers, ConnectSucceeds(c) PROVE AMO!Fail(c) \/ Stutter
  BY <1>3 DEF ConnectSucceeds, Return, AMO!Fail, IInv, CallInv
<1>4. ASSUME NEW c \in Callers,
             \/ ConnectFails(c) \/ FindChannelGone(c) \/ ExchangeFails(c) \/ WaitFails(c)
      PROVE  AMO!Fail(c)
  <2>1. pc[c] # "idle" /\ UNCHANGED <<made, executed>>
        /\ outcome' = [outcome EXCEPT ![c] = "failed"]
    BY <1>4 DEF ConnectFails, FindChannelGone, ExchangeFails, Rethrow, WaitFails, Return,
                Exchange, Waiting
  <2>2. QED
    BY <2>1 DEF AMO!Fail, IInv, CallInv
<1>5. ASSUME NEW c \in Callers, Read(c) PROVE AMO!Succeed(c) \/ AMO!Fail(c)
  <2>1. channel \in Conns /\ lock = c
    BY <1>5 DEF Read, IInv, TypeOK, ServiceTypeOK, LockInv, Locked, Exchange
  <2>2. Head(toClient[channel]).ok => executed[<<c, made[c]>>] = 1
    BY <1>5, <2>1 DEF Read, IInv, ReplyInv, Request
  <2>3. outcome[c] = "pending" /\ UNCHANGED <<made, executed>>
    BY <1>5 DEF Read, IInv, CallInv
  <2>4. CASE Head(toClient[channel]).ok
    BY <1>5, <2>2, <2>3, <2>4 DEF Read, Return, AMO!Succeed
  <2>5. CASE ~Head(toClient[channel]).ok
    BY <1>5, <2>3, <2>5 DEF Read, Return, AMO!Fail
  <2>6. QED
    BY <2>4, <2>5
<1>6. ASSUME NEW k \in Conns, PeerServes(k)
      PROVE  Stutter \/ \E r \in AMO!Requests : AMO!Execute(r)
  <2> DEFINE r == Head(toServer[k])
  <2>1. r \in Requests /\ r \in AMO!Requests
    BY <1>6, Lines DEF PeerServes, IInv, TypeOK, LinkTypeOK, Requests, AMO!Requests
  <2>2. ~NotSent(r) /\ executed[r] = 0
    BY <1>6 DEF PeerServes, IInv, RequestInv
  <2>3. r[2] <= made[r[1]]
    BY <2>1, <2>2, ServiceAssumption
       DEF NotSent, IInv, TypeOK, CallsTypeOK, Requests
  <2>4. executed' = [executed EXCEPT ![r] = 1] \/ executed' = executed
    BY <1>6, <2>2 DEF PeerServes
  <2>5. UNCHANGED <<made, outcome>>
    BY <1>6 DEF PeerServes
  <2>6. QED
    BY <2>1, <2>2, <2>3, <2>4, <2>5 DEF AMO!Execute
<1>7. ASSUME NEW k \in Conns, LinkFails(k) \/ PeerCloses(k) PROVE Stutter
  BY <1>7 DEF LinkFails, PeerCloses
<1>8. ASSUME Dispose \/ StopListening \/ StartListening PROVE Stutter
  BY <1>8 DEF Dispose, StopListening, StartListening
<1>9. CASE UNCHANGED vars
  BY <1>9 DEF vars, AMO!vars
<1>10. QED
  BY <1>1, <1>2, <1>3, <1>4, <1>5, <1>6, <1>7, <1>8, <1>9
     DEF Next, ClientNext, PeerNext, Acquire, Proceed, AMO!Next, AMO!vars

(* A call is executed at most once, after it was made, and was executed if it *)
(* returned normally: nothing in SendAndReceiveAsync sends a line twice, and  *)
(* no reply of an abandoned request survives the reset.                       *)
THEOREM AtMostOnce == Spec => IsAtMostOnceCall
  BY InitIInv, StepIInv, InitAtMostOnce, StepAtMostOnce, PTL
     DEF Spec, IsAtMostOnceCall, AMO!Spec
=============================================================================
