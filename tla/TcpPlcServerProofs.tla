-------------------------- MODULE TcpPlcServerProofs --------------------------
(***************************************************************************)
(* Proofs about TcpPlcServer, for every set of connections and every bound *)
(* on lines and buffers: its types, and that it serves the lines of every  *)
(* connection as LineServer promises.                                      *)
(***************************************************************************)
EXTENDS TcpPlcServer, SequenceTheorems, TLAPS

(* A handler holds a line exactly while it is processed, and a reply exactly   *)
(* while it is written.                                                        *)
HoldsInv ==
  \A k \in Conns :
    /\ command[k] # None <=> handler[k] = "processing"
    /\ response[k] # None <=> handler[k] = "replying"

(* Nothing waits where nobody will take it.                                    *)
IdleInv ==
  \A k \in Conns :
    /\ client[k] = "none" <=> handler[k] = "none"
    /\ handler[k] \in {"none", "ended"} => toServer[k] = << >>
    /\ client[k] \in {"none", "closed"} => toClient[k] = << >>

(* The line or the reply that a handler holds                                  *)
Held(k) == IF handler[k] \in {"processing", "replying"} THEN 1 ELSE 0

Waiting(k) == Len(toServer[k])
Unread(k) == Len(toClient[k])

(* No line is answered twice: whatever was received or is under way comes from *)
(* a line of its own.                                                          *)
CountInv ==
  \A k \in Conns :
    received[k] + Unread(k) + Held(k) + Waiting(k) <= sent[k]

IInv == TypeOK /\ HoldsInv /\ IdleInv /\ CountInv

-----------------------------------------------------------------------------
(* What a step does to a queue of lines                                        *)
LEMMA Queues ==
  ASSUME NEW S
  PROVE  /\ << >> \in Seq(S) /\ Len(<< >>) = 0
         /\ \A s \in Seq(S) :
              /\ Len(s) \in Nat
              /\ s # << >> => /\ Head(s) \in S /\ Tail(s) \in Seq(S)
                             /\ Len(s) >= 1 /\ Len(Tail(s)) = Len(s) - 1
              /\ \A x \in S : Append(s, x) \in Seq(S) /\ Len(Append(s, x)) = Len(s) + 1
<1>1. << >> \in Seq(S) /\ Len(<< >>) = 0
  BY EmptySeq
<1>2. ASSUME NEW s \in Seq(S) PROVE Len(s) \in Nat
  BY <1>2, LenProperties
<1>3. ASSUME NEW s \in Seq(S), s # << >>
      PROVE  /\ Head(s) \in S /\ Tail(s) \in Seq(S)
             /\ Len(s) >= 1 /\ Len(Tail(s)) = Len(s) - 1
  BY <1>3, EmptySeq, HeadTailProperties
<1>4. ASSUME NEW s \in Seq(S), NEW x \in S
      PROVE  Append(s, x) \in Seq(S) /\ Len(Append(s, x)) = Len(s) + 1
  BY <1>4, AppendProperties
<1>5. QED
  BY <1>1, <1>2, <1>3, <1>4

LEMMA ReplyTypes ==
  ASSUME NEW line \in Commands, NEW on \in BOOLEAN
  PROVE  /\ Reply(line, on) \in Replies /\ Refusal(line) \in Replies
         /\ Effect(line, on) \in BOOLEAN
<1>1. Reply(line, on) \in Replies /\ Refusal(line) \in Replies
  BY DEF Reply, Refusal, Replies
<1>2. Effect(line, on) \in BOOLEAN
  BY DEF Effect
<1>3. QED
  BY <1>1, <1>2

LEMMA InitIInv == Init => IInv
<1> SUFFICES ASSUME Init PROVE IInv
  OBVIOUS
<1>1. << >> \in Seq(Commands) /\ << >> \in Seq(Replies) /\ Len(<< >>) = 0
  BY Queues
<1>2. TypeOK
  <2>1. \A k \in Conns : Len(toClient[k]) <= Window
    BY <1>1, ServerAssumption DEF Init
  <2>2. sent \in [Conns -> 0..MaxLines] /\ received \in [Conns -> 0..MaxLines]
    BY ServerAssumption DEF Init
  <2>3. QED
    BY <1>1, <2>1, <2>2 DEF Init, TypeOK
<1>3. HoldsInv /\ IdleInv
  BY DEF Init, HoldsInv, IdleInv
<1>4. CountInv
  BY <1>1 DEF Init, CountInv, Held, Unread, Waiting
<1>5. QED
  BY <1>2, <1>3, <1>4 DEF IInv

-----------------------------------------------------------------------------
(* Ending handlers leaves the invariant: what they held is forgotten, the      *)
(* queues only get shorter.                                                    *)
LEMMA EndIInv ==
  ASSUME IInv, NEW ended \in SUBSET Conns, EndHandlers(ended),
         \A k \in ended : handler[k] # "none",
         UNCHANGED clients,
         loop' \in {"starting", "accepting", "ended"}, stopping' \in BOOLEAN,
         pump' \in BOOLEAN
  PROVE  IInv'
<1> USE DEF clients
<1>1. \A k \in Conns :
        /\ toServer'[k] \in {toServer[k], << >>} /\ toClient'[k] \in {toClient[k], << >>}
        /\ k \in ended => toServer'[k] = << >> /\ handler'[k] = "ended"
                         /\ command'[k] = None /\ response'[k] = None
        /\ k \notin ended => /\ toServer'[k] = toServer[k] /\ handler'[k] = handler[k]
                             /\ command'[k] = command[k] /\ response'[k] = response[k]
  BY DEF EndHandlers
<1>2. \A k \in Conns :
        /\ toServer[k] \in Seq(Commands) /\ Len(toServer[k]) \in Nat
        /\ toClient[k] \in Seq(Replies) /\ Len(toClient[k]) \in Nat
        /\ received[k] \in Nat /\ sent[k] \in Nat
  BY Queues DEF IInv, TypeOK
<1>3. << >> \in Seq(Commands) /\ << >> \in Seq(Replies) /\ Len(<< >>) = 0
  BY Queues
<1>4. TypeOK'
  <2>1. handler' \in [Conns -> Active \union {"none", "queued", "ended"}]
        /\ command' \in [Conns -> Commands \union {None}]
        /\ response' \in [Conns -> Replies \union {None}]
    BY DEF EndHandlers, IInv, TypeOK
  <2>2. toServer' \in [Conns -> Seq(Commands)] /\ toClient' \in [Conns -> Seq(Replies)]
    BY <1>3 DEF EndHandlers, IInv, TypeOK
  <2>3. \A k \in Conns : Len(toClient'[k]) <= Window
    BY <1>1, <1>3, ServerAssumption DEF IInv, TypeOK
  <2>4. QED
    BY <2>1, <2>2, <2>3 DEF IInv, TypeOK
<1>5. HoldsInv'
  BY <1>1 DEF IInv, HoldsInv
<1>6. IdleInv'
  BY <1>1 DEF IInv, IdleInv
<1>7. CountInv'
  <2> SUFFICES ASSUME NEW k \in Conns
               PROVE  received'[k] + Unread(k)' + Held(k)' + Waiting(k)' <= sent'[k]
    BY DEF CountInv
  <2>1. Unread(k)' <= Unread(k) /\ Waiting(k)' <= Waiting(k)
    BY <1>1, <1>2, <1>3 DEF Unread, Waiting
  <2>2. /\ Unread(k) \in Nat /\ Waiting(k) \in Nat /\ Held(k) \in Nat
        /\ Unread(k)' \in Nat /\ Waiting(k)' \in Nat /\ Held(k)' \in Nat
    BY <1>1, <1>2, <1>3 DEF Unread, Waiting, Held
  <2>3. Held(k)' <= Held(k)
    BY <1>1 DEF Held
  <2>4. received[k] + Unread(k) + Held(k) + Waiting(k) <= sent[k]
    BY DEF IInv, CountInv
  <2>5. received'[k] = received[k] /\ sent'[k] = sent[k]
    OBVIOUS
  <2>6. QED
    BY <1>2, <2>1, <2>2, <2>3, <2>4, <2>5
<1>8. QED
  BY <1>4, <1>5, <1>6, <1>7 DEF IInv

-----------------------------------------------------------------------------
LEMMA StepIInv == IInv /\ [Next]_vars => IInv'
<1> SUFFICES ASSUME IInv, [Next]_vars PROVE IInv'
  OBVIOUS
<1> USE DEF server, tasks, clients, link
<1>1. TypeOK /\ HoldsInv /\ IdleInv /\ CountInv
  BY DEF IInv
<1>2. /\ << >> \in Seq(Commands) /\ << >> \in Seq(Replies) /\ Len(<< >>) = 0
      /\ \A k \in Conns : /\ toServer[k] \in Seq(Commands) /\ Len(toServer[k]) \in Nat
                          /\ toClient[k] \in Seq(Replies) /\ Len(toClient[k]) \in Nat
  BY Queues, <1>1 DEF TypeOK
<1>3. \A k \in Conns : /\ Unread(k) \in Nat /\ Waiting(k) \in Nat /\ Held(k) \in Nat
                       /\ sent[k] \in Nat /\ received[k] \in Nat
                       /\ received[k] + Unread(k) + Held(k) + Waiting(k) <= sent[k]
  BY <1>1, <1>2 DEF TypeOK, Unread, Waiting, Held, CountInv
<1>4. CASE Listen \/ Stop
  <2>1. UNCHANGED <<tasks, pump, clients, link>>
    BY <1>4 DEF Listen, Stop
  <2>2. loop' \in {"starting", "accepting", "ended"} /\ stopping' \in BOOLEAN
    BY <1>1, <1>4 DEF Listen, Stop, TypeOK
  <2>3. QED
    BY <1>1, <2>1, <2>2
       DEF IInv, TypeOK, HoldsInv, IdleInv, CountInv, Unread, Waiting, Held
<1>5. ASSUME NEW k \in Conns, Accept(k) PROVE IInv'
  <2>1. CASE stopping
    <3>1. EndHandlers({k}) /\ handler[k] = "queued" /\ UNCHANGED <<server, pump, clients>>
      BY <1>5, <2>1 DEF Accept
    <3>2. QED
      BY <1>1, <3>1, EndIInv DEF TypeOK
  <2>2. CASE ~stopping
    <3>1. /\ handler[k] = "queued" /\ handler' = [handler EXCEPT ![k] = "reading"]
          /\ UNCHANGED <<server, command, response, pump, clients, link>>
      BY <1>5, <2>2 DEF Accept
    <3>2. TypeOK'
      BY <1>1, <3>1 DEF TypeOK, Active
    <3>3. HoldsInv' /\ IdleInv'
      BY <1>1, <3>1 DEF TypeOK, HoldsInv, IdleInv
    <3>4. CountInv'
      BY <1>1, <3>1 DEF TypeOK, CountInv, Held, Unread, Waiting
    <3>5. QED
      BY <3>2, <3>3, <3>4 DEF IInv
  <2>3. QED
    BY <2>1, <2>2
<1>6. CASE EndLoop
  <2> DEFINE queued == {k \in Conns : handler[k] = "queued"}
  <2>1. EndHandlers(queued) /\ UNCHANGED <<stopping, pump, clients>> /\ loop' = "ended"
    BY <1>6 DEF EndLoop
  <2>2. queued \in SUBSET Conns /\ \A k \in queued : handler[k] # "none"
    OBVIOUS
  <2>3. QED
    BY <1>1, <2>1, <2>2, EndIInv DEF TypeOK
<1>7. ASSUME NEW k \in Conns,
             FindEnd(k) \/ ReadCancelled(k) \/ ProcessCancelled(k) \/ WriteFails(k)
      PROVE  IInv'
  <2>1. EndHandlers({k}) /\ handler[k] # "none" /\ UNCHANGED <<server, pump, clients>>
    BY <1>7 DEF FindEnd, ReadCancelled, ProcessCancelled, NotExecuted, WriteFails
  <2>2. QED
    BY <1>1, <2>1, EndIInv DEF TypeOK
<1>8. ASSUME NEW k \in Conns, Read(k) PROVE IInv'
  <2>1. /\ handler[k] = "reading" /\ toServer[k] # << >>
        /\ handler' = [handler EXCEPT ![k] = "processing"]
        /\ command' = [command EXCEPT ![k] = Head(toServer[k])]
        /\ toServer' = [toServer EXCEPT ![k] = Tail(@)]
        /\ UNCHANGED <<server, response, pump, clients, toClient>>
    BY <1>8 DEF Read
  <2>2. /\ Head(toServer[k]) \in Commands /\ Tail(toServer[k]) \in Seq(Commands)
        /\ Len(Tail(toServer[k])) = Len(toServer[k]) - 1 /\ Len(toServer[k]) >= 1
    BY <1>2, <2>1, Queues
  <2>3. TypeOK'
    BY <1>1, <2>1, <2>2 DEF TypeOK, Active
  <2>4. HoldsInv'
    BY <1>1, <2>1, <2>2, ServerAssumption DEF TypeOK, HoldsInv
  <2>5. IdleInv'
    BY <1>1, <2>1 DEF TypeOK, IdleInv
  <2>6. CountInv'
    <3>1. \A j \in Conns \ {k} : /\ Unread(j)' = Unread(j) /\ Waiting(j)' = Waiting(j)
                                 /\ Held(j)' = Held(j)
      BY <1>1, <2>1 DEF TypeOK, Unread, Waiting, Held
    <3>2. /\ Unread(k)' = Unread(k) /\ Waiting(k)' = Waiting(k) - 1
          /\ Held(k)' = 1 /\ Held(k) = 0
      BY <1>1, <2>1, <2>2 DEF TypeOK, Unread, Waiting, Held
    <3>3. QED
      BY <1>3, <2>1, <3>1, <3>2 DEF CountInv
  <2>7. QED
    BY <2>3, <2>4, <2>5, <2>6 DEF IInv
<1>9. ASSUME NEW k \in Conns, Process(k) \/ ProcessThrows(k) PROVE IInv'
  <2>1. handler[k] = "processing" /\ command[k] \in Commands
    BY <1>1, <1>9 DEF Process, ProcessThrows, TypeOK, HoldsInv
  <2>2. PICK reply \in Replies : Respond(k, reply) /\ pump' \in BOOLEAN
    <3>1. CASE Process(k)
      <4>1. pump' = Effect(command[k], pump) /\ Respond(k, Reply(command[k], pump'))
        BY <3>1 DEF Process
      <4>2. pump' \in BOOLEAN
        BY <1>1, <2>1, <4>1, ReplyTypes DEF TypeOK
      <4>3. QED
        BY <2>1, <4>1, <4>2, ReplyTypes
    <3>2. CASE ProcessThrows(k)
      BY <1>1, <2>1, <3>2, ReplyTypes DEF ProcessThrows, TypeOK
    <3>3. QED
      BY <1>9, <3>1, <3>2
  <2>3. /\ handler' = [handler EXCEPT ![k] = "replying"]
        /\ command' = [command EXCEPT ![k] = None]
        /\ response' = [response EXCEPT ![k] = reply]
        /\ UNCHANGED <<server, clients, link>>
    BY <2>2 DEF Respond
  <2>4. TypeOK'
    BY <1>1, <2>2, <2>3 DEF TypeOK, Active
  <2>5. HoldsInv'
    BY <1>1, <2>2, <2>3, ServerAssumption DEF TypeOK, HoldsInv
  <2>6. IdleInv'
    BY <1>1, <2>1, <2>3 DEF TypeOK, IdleInv
  <2>7. CountInv'
    BY <1>1, <2>1, <2>3 DEF TypeOK, CountInv, Unread, Waiting, Held
  <2>8. QED
    BY <2>4, <2>5, <2>6, <2>7 DEF IInv
<1>10. ASSUME NEW k \in Conns, Write(k) PROVE IInv'
  <2> DEFINE written == IF client[k] = "closed" THEN toClient
                        ELSE [toClient EXCEPT ![k] = Append(@, response[k])]
  <2>1. /\ handler[k] = "replying" /\ Len(toClient[k]) < Window
        /\ response' = [response EXCEPT ![k] = None]
        /\ UNCHANGED <<server, command, pump, clients>>
        /\ \/ /\ handler' = [handler EXCEPT ![k] = "reading"]
              /\ toServer' = toServer
           \/ /\ handler' = [handler EXCEPT ![k] = "ended"]
              /\ toServer' = [toServer EXCEPT ![k] = << >>]
        /\ toClient' \in {written, [toClient EXCEPT ![k] = << >>]}
    BY <1>10 DEF Write, Room
  <2>2. response[k] \in Replies
    BY <1>1, <2>1 DEF TypeOK, HoldsInv
  <2>3. /\ Append(toClient[k], response[k]) \in Seq(Replies)
        /\ Len(Append(toClient[k], response[k])) = Len(toClient[k]) + 1
    BY <1>2, <2>2, Queues
  <2>4. \A j \in Conns \ {k} :
          /\ handler'[j] = handler[j] /\ toServer'[j] = toServer[j]
          /\ toClient'[j] = toClient[j] /\ response'[j] = response[j]
    BY <1>1, <2>1 DEF TypeOK
  <2>5. /\ handler'[k] \in {"reading", "ended"}
        /\ handler'[k] = "ended" => toServer'[k] = << >>
        /\ toServer'[k] \in {toServer[k], << >>}
        /\ toClient'[k] \in {toClient[k], << >>, Append(toClient[k], response[k])}
        /\ client[k] = "closed" => toClient'[k] \in {toClient[k], << >>}
        /\ response'[k] = None
    BY <1>1, <2>1 DEF TypeOK
  <2>6. TypeOK'
    <3>1. handler' \in [Conns -> Active \union {"none", "queued", "ended"}]
          /\ response' \in [Conns -> Replies \union {None}]
      BY <1>1, <2>1 DEF TypeOK, Active
    <3>2. toServer' \in [Conns -> Seq(Commands)]
      BY <1>1, <1>2, <2>1 DEF TypeOK
    <3>3. toClient' \in [Conns -> Seq(Replies)]
      BY <1>1, <1>2, <2>1, <2>3 DEF TypeOK
    <3>4. ASSUME NEW j \in Conns PROVE Len(toClient'[j]) <= Window
      <4>1. CASE j = k
        BY <1>2, <2>1, <2>3, <2>5, <4>1, ServerAssumption
      <4>2. CASE j # k
        BY <1>1, <2>4, <4>2 DEF TypeOK
      <4>3. QED
        BY <4>1, <4>2
    <3>5. QED
      BY <1>1, <2>1, <3>1, <3>2, <3>3, <3>4 DEF TypeOK
  <2>7. HoldsInv'
    BY <1>1, <2>1, <2>4, <2>5 DEF HoldsInv
  <2>8. IdleInv'
    BY <1>1, <2>1, <2>4, <2>5 DEF IdleInv
  <2>9. CountInv'
    <3>1. \A j \in Conns \ {k} : /\ Unread(j)' = Unread(j) /\ Waiting(j)' = Waiting(j)
                                 /\ Held(j)' = Held(j)
      BY <2>4 DEF Unread, Waiting, Held
    <3>2. Held(k)' = 0 /\ Held(k) = 1
      BY <2>1, <2>5 DEF Held
    <3>3. Waiting(k)' \in {Waiting(k), 0}
      BY <1>2, <2>5 DEF Waiting
    <3>4. Unread(k)' \in {Unread(k), 0, Unread(k) + 1}
      BY <1>2, <2>3, <2>5 DEF Unread
    <3>5. QED
      BY <1>3, <2>1, <3>1, <3>2, <3>3, <3>4 DEF CountInv
  <2>10. QED
    BY <2>6, <2>7, <2>8, <2>9 DEF IInv
<1>11. ASSUME NEW k \in Conns, Connect(k) PROVE IInv'
  <2>1. /\ client[k] = "none" /\ client' = [client EXCEPT ![k] = "open"]
        /\ handler' = [handler EXCEPT ![k] = "queued"]
        /\ UNCHANGED <<server, command, response, pump, sent, received, link>>
    BY <1>11 DEF Connect
  <2>2. handler[k] = "none" /\ toServer[k] = << >>
    BY <1>1, <2>1 DEF IdleInv
  <2>3. TypeOK'
    BY <1>1, <2>1 DEF TypeOK
  <2>4. HoldsInv' /\ IdleInv'
    BY <1>1, <2>1, <2>2 DEF TypeOK, HoldsInv, IdleInv
  <2>5. CountInv'
    BY <1>1, <2>1, <2>2 DEF TypeOK, CountInv, Unread, Waiting, Held
  <2>6. QED
    BY <2>3, <2>4, <2>5 DEF IInv
<1>12. ASSUME NEW k \in Conns, Send(k) PROVE IInv'
  <2>1. /\ client[k] = "open" /\ handler[k] # "ended" /\ sent[k] < MaxLines
        /\ sent' = [sent EXCEPT ![k] = @ + 1]
        /\ UNCHANGED <<server, tasks, pump, client, received, toClient>>
    BY <1>12 DEF Send
  <2>2. PICK line \in Lines[k] : toServer' = [toServer EXCEPT ![k] = Append(@, line)]
    BY <1>12 DEF Send
  <2>3. /\ Append(toServer[k], line) \in Seq(Commands)
        /\ Len(Append(toServer[k], line)) = Len(toServer[k]) + 1
    BY <1>2, ServerAssumption, Queues
  <2>4. TypeOK'
    <3>1. toServer' \in [Conns -> Seq(Commands)]
      BY <1>1, <2>2, <2>3 DEF TypeOK
    <3>2. sent' \in [Conns -> 0..MaxLines]
      BY <1>1, <2>1, ServerAssumption DEF TypeOK
    <3>3. QED
      BY <1>1, <2>1, <3>1, <3>2 DEF TypeOK
  <2>5. HoldsInv'
    BY <1>1, <2>1 DEF HoldsInv
  <2>6. IdleInv'
    BY <1>1, <2>1, <2>2 DEF TypeOK, IdleInv
  <2>7. CountInv'
    <3>1. \A j \in Conns : Unread(j)' = Unread(j) /\ Held(j)' = Held(j)
      BY <2>1 DEF Unread, Held
    <3>2. \A j \in Conns \ {k} : Waiting(j)' = Waiting(j) /\ sent'[j] = sent[j]
      BY <1>1, <2>1, <2>2 DEF TypeOK, Waiting
    <3>3. Waiting(k)' = Waiting(k) + 1 /\ sent'[k] = sent[k] + 1
      BY <1>1, <2>1, <2>2, <2>3 DEF TypeOK, Waiting
    <3>4. QED
      BY <1>3, <2>1, <3>1, <3>2, <3>3 DEF CountInv
  <2>8. QED
    BY <2>4, <2>5, <2>6, <2>7 DEF IInv
<1>13. ASSUME NEW k \in Conns, Receive(k) PROVE IInv'
  <2>1. /\ client[k] \in {"open", "finished"} /\ toClient[k] # << >>
        /\ toClient' = [toClient EXCEPT ![k] = Tail(@)]
        /\ received' = [received EXCEPT ![k] = @ + 1]
        /\ UNCHANGED <<server, tasks, pump, client, sent, toServer>>
    BY <1>13 DEF Receive
  <2>2. /\ Tail(toClient[k]) \in Seq(Replies) /\ Len(toClient[k]) >= 1
        /\ Len(Tail(toClient[k])) = Len(toClient[k]) - 1
    BY <1>2, <2>1, Queues
  <2>3. \A j \in Conns : Waiting(j)' = Waiting(j) /\ Held(j)' = Held(j)
    BY <2>1 DEF Waiting, Held
  <2>4. \A j \in Conns \ {k} : Unread(j)' = Unread(j) /\ received'[j] = received[j]
    BY <1>1, <2>1 DEF TypeOK, Unread
  <2>5. Unread(k)' = Unread(k) - 1 /\ Unread(k) >= 1 /\ received'[k] = received[k] + 1
    BY <1>1, <2>1, <2>2 DEF TypeOK, Unread
  <2>6. CountInv'
    <3> SUFFICES ASSUME NEW j \in Conns
                 PROVE  received'[j] + Unread(j)' + Held(j)' + Waiting(j)' <= sent'[j]
      BY DEF CountInv
    <3>1. /\ received[j] + Unread(j) + Held(j) + Waiting(j) <= sent[j]
          /\ sent'[j] = sent[j] /\ Waiting(j)' = Waiting(j) /\ Held(j)' = Held(j)
      BY <1>3, <2>1, <2>3
    <3>2. /\ received[j] \in Nat /\ sent[j] \in Nat
          /\ Unread(j) \in Nat /\ Held(j) \in Nat /\ Waiting(j) \in Nat
      BY <1>3
    <3>3. CASE j = k
      <4>1. Unread(j)' = Unread(j) - 1 /\ received'[j] = received[j] + 1
        BY <2>5, <3>3
      <4>2. QED
        BY <3>1, <3>2, <4>1
    <3>4. CASE j # k
      <4>1. Unread(j)' = Unread(j) /\ received'[j] = received[j]
        BY <2>4, <3>4
      <4>2. QED
        BY <3>1, <3>2, <4>1
    <3>5. QED
      BY <3>3, <3>4
  <2>7. TypeOK'
    <3>1. toClient' \in [Conns -> Seq(Replies)]
      BY <1>1, <2>1, <2>2 DEF TypeOK
    <3>2. ASSUME NEW j \in Conns PROVE Len(toClient'[j]) <= Window
      <4>1. Unread(j) <= Window
        BY <1>1 DEF TypeOK, Unread
      <4>2. Unread(j)' <= Window
        BY <1>3, <2>4, <2>5, <4>1, ServerAssumption
      <4>3. QED
        BY <4>2 DEF Unread
    <3>3. received' \in [Conns -> 0..MaxLines]
      <4>1. received[k] + 1 \in 0..MaxLines
        <5>1. sent[k] \in 0..MaxLines
          BY <1>1 DEF TypeOK
        <5>2. QED
          BY <1>3, <2>5, <5>1, ServerAssumption
      <4>2. QED
        BY <1>1, <2>1, <4>1 DEF TypeOK
    <3>4. QED
      BY <1>1, <2>1, <3>1, <3>2, <3>3 DEF TypeOK
  <2>8. HoldsInv'
    BY <1>1, <2>1 DEF HoldsInv
  <2>9. IdleInv'
    BY <1>1, <2>1 DEF TypeOK, IdleInv
  <2>10. QED
    BY <2>6, <2>7, <2>8, <2>9 DEF IInv
<1>14. ASSUME NEW k \in Conns, FinishSending(k) PROVE IInv'
  <2>1. /\ client[k] = "open" /\ client' = [client EXCEPT ![k] = "finished"]
        /\ UNCHANGED <<server, tasks, pump, sent, received, link>>
    BY <1>14 DEF FinishSending
  <2>2. TypeOK'
    BY <1>1, <2>1 DEF TypeOK
  <2>3. HoldsInv' /\ IdleInv'
    BY <1>1, <2>1 DEF TypeOK, HoldsInv, IdleInv
  <2>4. CountInv'
    BY <1>1, <2>1 DEF CountInv, Unread, Waiting, Held
  <2>5. QED
    BY <2>2, <2>3, <2>4 DEF IInv
<1>15. ASSUME NEW k \in Conns, Close(k) PROVE IInv'
  <2>1. /\ client[k] \in {"open", "finished"} /\ client' = [client EXCEPT ![k] = "closed"]
        /\ toClient' = [toClient EXCEPT ![k] = << >>]
        /\ toServer' \in {toServer, [toServer EXCEPT ![k] = << >>]}
        /\ UNCHANGED <<server, tasks, pump, sent, received>>
    BY <1>15 DEF Close
  <2>2. \A j \in Conns : /\ toClient'[j] \in {toClient[j], << >>}
                         /\ toServer'[j] \in {toServer[j], << >>}
    BY <1>1, <2>1 DEF TypeOK
  <2>3. TypeOK'
    <3>1. toClient' \in [Conns -> Seq(Replies)] /\ toServer' \in [Conns -> Seq(Commands)]
      BY <1>1, <1>2, <2>1 DEF TypeOK
    <3>2. \A j \in Conns : Len(toClient'[j]) <= Window
      BY <1>1, <1>2, <2>2, ServerAssumption DEF TypeOK
    <3>3. QED
      BY <1>1, <2>1, <3>1, <3>2 DEF TypeOK
  <2>4. HoldsInv'
    BY <1>1, <2>1 DEF HoldsInv
  <2>5. IdleInv'
    BY <1>1, <2>1, <2>2 DEF TypeOK, IdleInv
  <2>6. CountInv'
    <3>1. \A j \in Conns : /\ Unread(j)' \in {Unread(j), 0}
                           /\ Waiting(j)' \in {Waiting(j), 0}
                           /\ Held(j)' = Held(j)
      BY <1>2, <2>1, <2>2 DEF Unread, Waiting, Held
    <3>2. QED
      BY <1>3, <2>1, <3>1 DEF CountInv
  <2>7. QED
    BY <2>3, <2>4, <2>5, <2>6 DEF IInv
<1>16. CASE UNCHANGED vars
  BY <1>1, <1>16
     DEF vars, IInv, TypeOK, HoldsInv, IdleInv, CountInv, Unread, Waiting, Held
<1>17. QED
  BY <1>4, <1>5, <1>6, <1>7, <1>8, <1>9, <1>10, <1>11, <1>12, <1>13, <1>14, <1>15, <1>16
     DEF Next, ServerNext, ClientNext, Handle, StopAccepting, AcceptFails

-----------------------------------------------------------------------------
(* Every variable keeps its type; in particular the replies under way never    *)
(* exceed what the connection holds, and no client receives more replies than  *)
(* it sent lines.                                                              *)
THEOREM TypeCorrect == Spec => []TypeOK
<1>1. IInv => TypeOK
  BY DEF IInv
<1>2. QED
  BY <1>1, InitIInv, StepIInv, PTL DEF Spec

(* A line in front of others, as a handler holds one                          *)
LEMMA Cons ==
  ASSUME NEW S, NEW c \in S, NEW s \in Seq(S)
  PROVE  /\ <<c>> \o s \in Seq(S) /\ <<c>> \o s # << >>
         /\ Head(<<c>> \o s) = c /\ Tail(<<c>> \o s) = s
         /\ SubSeq(<<c>> \o s, 1, 1) = <<c>> /\ 1 \in 0..Len(<<c>> \o s)
         /\ \A x \in S : Append(<<c>> \o s, x) = <<c>> \o Append(s, x)
<1> DEFINE t == <<c>> \o s
<1>1. <<c>> \in Seq(S) /\ Len(<<c>>) = 1 /\ <<c>>[1] = c
  OBVIOUS
<1>2. /\ t \in Seq(S) /\ Len(t) = 1 + Len(s)
      /\ \A i \in 1 .. 1 + Len(s) : t[i] = IF i <= 1 THEN <<c>>[i] ELSE s[i - 1]
  BY <1>1, ConcatProperties
<1>3. Len(s) \in Nat /\ Len(t) >= 1
  BY <1>2, LenProperties
<1>4. t # << >>
  BY <1>3, EmptySeq
<1>5. t[1] = c
  BY <1>1, <1>2, <1>3
<1> HIDE DEF t
<1>6. Tail(t) = s
  <2>1. /\ Tail(t) \in Seq(S) /\ Len(Tail(t)) = Len(s)
        /\ \A i \in 1 .. Len(Tail(t)) : Tail(t)[i] = t[i + 1]
    BY <1>2, <1>3, <1>4, HeadTailProperties
  <2>2. \A i \in 1 .. Len(s) : t[i + 1] = s[i]
    BY <1>2, <1>3
  <2>3. QED
    BY <2>1, <2>2, SeqEqual
<1>7. SubSeq(t, 1, 1) = <<c>>
  <2>1. SubSeq(t, 1, 1) \in Seq(S) /\ Len(SubSeq(t, 1, 1)) = 1 /\ SubSeq(t, 1, 1)[1] = c
    BY <1>5, SubSeqProperties
  <2>2. \A i \in 1..1 : SubSeq(t, 1, 1)[i] = <<c>>[i]
    BY <1>1, <2>1
  <2>3. QED
    BY <1>1, <2>1, <2>2, SeqEqual
<1>8. ASSUME NEW x \in S PROVE Append(t, x) = <<c>> \o Append(s, x)
  <2>1. <<x>> \in Seq(S) /\ Append(t, x) = t \o <<x>> /\ Append(s, x) = s \o <<x>>
    BY <1>2, AppendIsConcat
  <2>2. QED
    BY <1>1, <2>1, ConcatAssociative DEF t
<1>9. Head(t) = c /\ 1 \in 0..Len(t)
  BY <1>2, <1>3, <1>4, <1>5
<1>10. QED
  BY <1>2, <1>4, <1>6, <1>7, <1>8, <1>9 DEF t

(* Reading a line leaves the lines as they were, with the first one apart.     *)
LEMMA Uncons ==
  ASSUME NEW S, NEW s \in Seq(S), s # << >>
  PROVE  <<Head(s)>> \o Tail(s) = s
<1>1. Len(s) \in Nat \ {0} /\ s \in [1..Len(s) -> S]
  BY EmptySeq, LenProperties
<1>2. SubSeq(s, 1, Len(s)) = <<s[1]>> \o SubSeq(s, 2, Len(s))
  BY <1>1, SubSeqRecursiveFirst
<1>3. SubSeq(s, 1, Len(s)) = s /\ Tail(s) = SubSeq(s, 2, Len(s)) /\ Head(s) = s[1]
  BY SubSeqFull, TailIsSubSeq
<1>4. QED
  BY <1>2, <1>3

(* What may remain of the replies owed when a connection ends                  *)
LEMMA Prefixes ==
  ASSUME NEW S, NEW s \in Seq(S)
  PROVE  /\ 0 \in 0..Len(s) /\ SubSeq(s, 1, 0) = << >>
         /\ Len(s) \in 0..Len(s) /\ SubSeq(s, 1, Len(s)) = s
         /\ \A x \in S : /\ Len(s) \in 0..Len(Append(s, x))
                         /\ SubSeq(Append(s, x), 1, Len(s)) = s
<1>1. Len(s) \in Nat
  BY LenProperties
<1>2. SubSeq(s, 1, 0) = << >>
  BY SubSeqEmpty
<1>3. SubSeq(s, 1, Len(s)) = s
  BY SubSeqFull
<1>4. ASSUME NEW x \in S
      PROVE  Len(s) \in 0..Len(Append(s, x)) /\ SubSeq(Append(s, x), 1, Len(s)) = s
  <2> DEFINE a == Append(s, x)
             u == SubSeq(a, 1, Len(s))
  <2>1. /\ a \in Seq(S) /\ Len(a) = Len(s) + 1
        /\ \A i \in 1..Len(s) : a[i] = s[i] /\ a[i] \in S
    BY AppendProperties, ElementOfSeq
  <2>2. Len(s) \in 0..Len(a)
    BY <1>1, <2>1
  <2> HIDE DEF a
  <2>3. /\ u \in Seq(S) /\ Len(u) = IF 1 <= Len(s) THEN Len(s) - 1 + 1 ELSE 0
        /\ \A i \in 1..Len(s) - 1 + 1 : u[i] = a[1 + i - 1]
    BY <1>1, <2>1, SubSeqProperties
  <2> HIDE DEF u
  <2>4. Len(u) = Len(s) /\ \A i \in 1..Len(s) : u[i] = s[i]
    BY <1>1, <2>1, <2>3
  <2>5. u = s
    BY <2>3, <2>4, SeqEqual
  <2>6. QED
    BY <2>2, <2>5 DEF a, u
<1>5. QED
  BY <1>1, <1>2, <1>3, <1>4
-----------------------------------------------------------------------------
(* The three parts of LineServer's state, for one connection                   *)
Phase(k) ==
  CASE client[k] = "none"                           -> "none"
    [] client[k] # "none" /\ handler[k] = "ended"   -> "over"
    [] client[k] = "closed" /\ handler[k] # "ended" -> "left"
    [] OTHER                                        -> "open"
Todo(k) == IF command[k] = None THEN toServer[k] ELSE <<command[k]>> \o toServer[k]
Owed(k) == IF response[k] = None \/ client[k] = "closed" THEN toClient[k]
           ELSE Append(toClient[k], response[k])

LEMMA Mapping ==
  /\ AbsState = [k \in Conns |-> Phase(k)]
  /\ AbsRequests = [k \in Conns |-> Todo(k)]
  /\ AbsReplies = [k \in Conns |-> Owed(k)]
  BY DEF AbsState, AbsRequests, AbsReplies, Phase, Todo, Owed

LEMMA MappingAfter ==
  /\ AbsState' = [k \in Conns |-> Phase(k)']
  /\ AbsRequests' = [k \in Conns |-> Todo(k)']
  /\ AbsReplies' = [k \in Conns |-> Owed(k)']
  BY DEF AbsState, AbsRequests, AbsReplies, Phase, Todo, Owed

(* A step that only touches k changes LineServer's state at k only.            *)
LEMMA Frame ==
  ASSUME NEW k \in Conns,
         \A j \in Conns \ {k} :
           /\ handler'[j] = handler[j] /\ command'[j] = command[j]
           /\ response'[j] = response[j] /\ client'[j] = client[j]
           /\ toServer'[j] = toServer[j] /\ toClient'[j] = toClient[j]
  PROVE  /\ AbsState' = [AbsState EXCEPT ![k] = Phase(k)']
         /\ AbsRequests' = [AbsRequests EXCEPT ![k] = Todo(k)']
         /\ AbsReplies' = [AbsReplies EXCEPT ![k] = Owed(k)']
<1>1. \A j \in Conns \ {k} :
        Phase(j)' = Phase(j) /\ Todo(j)' = Todo(j) /\ Owed(j)' = Owed(j)
  BY DEF Phase, Todo, Owed
<1>2. QED
  BY <1>1, Mapping, MappingAfter

LEMMA Unchanged ==
  ASSUME NEW k \in Conns
  PROVE  /\ Phase(k)' = Phase(k) => [AbsState EXCEPT ![k] = Phase(k)'] = AbsState
         /\ Todo(k)' = Todo(k) => [AbsRequests EXCEPT ![k] = Todo(k)'] = AbsRequests
         /\ Owed(k)' = Owed(k) => [AbsReplies EXCEPT ![k] = Owed(k)'] = AbsReplies
  BY Mapping

(* Both modules take commands and replies from PlcCommands.                    *)
LEMMA SameCommands ==
  /\ Abstract!Commands = Commands /\ Abstract!PlantCommands = PlantCommands
  /\ \A c \in Commands, on \in BOOLEAN :
       /\ Abstract!Effect(c, on) = Effect(c, on)
       /\ Abstract!Reply(c, on) = Reply(c, on)
       /\ Abstract!Refusal(c) = Refusal(c)
<1>1. Abstract!Commands = Commands /\ Abstract!PlantCommands = PlantCommands
  BY DEF Abstract!Commands, Abstract!PlantCommands, Abstract!ReadCommands,
         Abstract!PumpCommands, Commands, PlantCommands, ReadCommands, PumpCommands
<1>2. ASSUME NEW c \in Commands, NEW on \in BOOLEAN
      PROVE  Abstract!Effect(c, on) = Effect(c, on)
  BY DEF Abstract!Effect, Effect
<1>3. ASSUME NEW c \in Commands, NEW on \in BOOLEAN
      PROVE  Abstract!Reply(c, on) = Reply(c, on)
  BY <1>1 DEF Abstract!Reply, Reply
<1>4. ASSUME NEW c \in Commands PROVE Abstract!Refusal(c) = Refusal(c)
  BY DEF Abstract!Refusal, Refusal
<1>5. QED
  BY <1>1, <1>2, <1>3, <1>4

LEMMA InitRefines == Init => Abstract!Init
<1> SUFFICES ASSUME Init PROVE Abstract!Init
  OBVIOUS
<1>1. \A k \in Conns : Phase(k) = "none" /\ Todo(k) = << >> /\ Owed(k) = << >>
  BY DEF Init, Phase, Todo, Owed
<1>2. QED
  BY <1>1, Mapping DEF Init, Abstract!Init

(* The connections whose handlers end are those that LineServer finishes.      *)
LEMMA EndRefines ==
  ASSUME IInv, NEW ended \in SUBSET Conns, EndHandlers(ended),
         \A k \in ended : handler[k] \notin {"none", "ended"},
         UNCHANGED <<pump, clients>>
  PROVE  Abstract!Finish(ended) \/ UNCHANGED <<AbsState, AbsRequests, AbsReplies>>
<1> USE DEF clients
<1>1. TypeOK /\ HoldsInv /\ IdleInv
  BY DEF IInv
<1>2. \A k \in Conns :
        /\ toClient'[k] \in {toClient[k], << >>}
        /\ k \in ended => toServer'[k] = << >> /\ handler'[k] = "ended"
                         /\ command'[k] = None /\ response'[k] = None
        /\ k \notin ended => /\ toServer'[k] = toServer[k] /\ handler'[k] = handler[k]
                             /\ command'[k] = command[k] /\ response'[k] = response[k]
                             /\ toClient'[k] = toClient[k]
  BY DEF EndHandlers
<1>3. \A k \in Conns \ ended :
        Phase(k)' = Phase(k) /\ Todo(k)' = Todo(k) /\ Owed(k)' = Owed(k)
  BY <1>2 DEF Phase, Todo, Owed
<1>4. \A k \in ended : /\ Phase(k)' = "over" /\ Todo(k)' = << >>
                       /\ Phase(k) \in {"open", "left"}
  BY <1>1, <1>2 DEF IdleInv, Phase, Todo
<1>5. ASSUME NEW k \in ended
      PROVE  \E n \in 0..Len(Owed(k)) : Owed(k)' = SubSeq(Owed(k), 1, n)
  <2>1. Owed(k)' \in {toClient[k], << >>}
    BY <1>2 DEF Owed
  <2>2. toClient[k] \in Seq(Replies)
    BY <1>1 DEF TypeOK
  <2>3. CASE Owed(k) = toClient[k]
    <3>1. /\ 0 \in 0..Len(Owed(k)) /\ SubSeq(Owed(k), 1, 0) = << >>
          /\ Len(Owed(k)) \in 0..Len(Owed(k)) /\ SubSeq(Owed(k), 1, Len(Owed(k))) = Owed(k)
      BY <2>2, <2>3, Prefixes
    <3>2. QED
      BY <2>1, <2>3, <3>1
  <2>4. CASE response[k] # None /\ Owed(k) = Append(toClient[k], response[k])
    <3>1. response[k] \in Replies
      BY <1>1, <2>4 DEF TypeOK
    <3>2. Owed(k) \in Seq(Replies)
      BY <2>2, <2>4, <3>1, AppendProperties
    <3>3. 0 \in 0..Len(Owed(k)) /\ SubSeq(Owed(k), 1, 0) = << >>
      BY <3>2, Prefixes
    <3>4. Len(toClient[k]) \in 0..Len(Owed(k))
          /\ SubSeq(Owed(k), 1, Len(toClient[k])) = toClient[k]
      BY <2>2, <2>4, <3>1, Prefixes
    <3>5. QED
      BY <2>1, <3>3, <3>4
  <2>5. QED
    BY <2>3, <2>4 DEF Owed
<1>6. CASE ended = {}
  BY <1>3, <1>6, Mapping, MappingAfter
<1>7. CASE ended # {}
  <2>1. \A k \in ended : AbsState[k] \in {"open", "left"}
    BY <1>4, Mapping
  <2>2. AbsState' = [k \in Conns |-> IF k \in ended THEN "over" ELSE AbsState[k]]
    BY <1>3, <1>4, Mapping, MappingAfter
  <2>3. AbsRequests' = [k \in Conns |-> IF k \in ended THEN << >> ELSE AbsRequests[k]]
    BY <1>3, <1>4, Mapping, MappingAfter
  <2>4. \A k \in Conns \ ended : AbsReplies'[k] = AbsReplies[k]
    BY <1>3, Mapping, MappingAfter
  <2>5. \A k \in ended :
          \E n \in 0..Len(AbsReplies[k]) : AbsReplies'[k] = SubSeq(AbsReplies[k], 1, n)
    BY <1>5, Mapping, MappingAfter
  <2>6. DOMAIN AbsReplies' = Conns
    BY MappingAfter
  <2>7. QED
    BY <1>7, <2>1, <2>2, <2>3, <2>4, <2>5, <2>6 DEF Abstract!Finish
<1>8. QED
  BY <1>6, <1>7

LEMMA StepRefines == IInv /\ [Next]_vars => [Abstract!Next]_(Abstract!vars)
<1> SUFFICES ASSUME IInv, [Next]_vars PROVE [Abstract!Next]_(Abstract!vars)
  OBVIOUS
<1> USE DEF server, tasks, clients, link
<1> DEFINE Stutter == UNCHANGED <<pump, AbsState, AbsRequests, AbsReplies>>
           Ends == \E ended \in SUBSET Conns : Abstract!Finish(ended)
<1>1. TypeOK /\ HoldsInv /\ IdleInv
  BY DEF IInv
<1>2. \A k \in Conns : /\ toServer[k] \in Seq(Commands) /\ toClient[k] \in Seq(Replies)
                       /\ command[k] \in Commands \union {None}
                       /\ response[k] \in Replies \union {None}
  BY <1>1 DEF TypeOK
<1>3. CASE Listen \/ Stop
  <2>1. UNCHANGED <<tasks, pump, clients, link>>
    BY <1>3 DEF Listen, Stop
  <2>2. Stutter
    BY <2>1 DEF AbsState, AbsRequests, AbsReplies
  <2>3. QED
    BY <2>2 DEF Abstract!vars
<1>4. ASSUME NEW k \in Conns, Accept(k) PROVE Stutter \/ Ends
  <2>1. CASE stopping
    <3>1. EndHandlers({k}) /\ handler[k] = "queued" /\ UNCHANGED <<pump, clients>>
      BY <1>4, <2>1 DEF Accept
    <3>2. QED
      BY <3>1, EndRefines
  <2>2. CASE ~stopping
    <3>1. /\ handler[k] = "queued" /\ handler' = [handler EXCEPT ![k] = "reading"]
          /\ UNCHANGED <<command, response, pump, clients, link>>
      BY <1>4, <2>2 DEF Accept
    <3>2. Phase(k)' = Phase(k) /\ Todo(k)' = Todo(k) /\ Owed(k)' = Owed(k)
      BY <1>1, <3>1 DEF TypeOK, IdleInv, Phase, Todo, Owed
    <3>3. QED
      BY <1>1, <3>1, <3>2, Frame, Unchanged DEF TypeOK
  <2>3. QED
    BY <2>1, <2>2
<1>5. CASE EndLoop
  <2> DEFINE queued == {k \in Conns : handler[k] = "queued"}
  <2>1. EndHandlers(queued) /\ UNCHANGED <<pump, clients>>
    BY <1>5 DEF EndLoop
  <2>2. queued \in SUBSET Conns /\ \A k \in queued : handler[k] \notin {"none", "ended"}
    OBVIOUS
  <2> HIDE DEF queued
  <2>3. Abstract!Finish(queued) \/ Stutter
    BY <2>1, <2>2, EndRefines
  <2>4. QED
    BY <2>2, <2>3 DEF Abstract!Next, Abstract!vars
<1>6. ASSUME NEW k \in Conns,
             FindEnd(k) \/ ReadCancelled(k) \/ ProcessCancelled(k) \/ WriteFails(k)
      PROVE  Stutter \/ Ends
  <2>1. /\ EndHandlers({k}) /\ handler[k] \notin {"none", "ended"}
        /\ UNCHANGED <<pump, clients>>
    BY <1>6 DEF FindEnd, ReadCancelled, ProcessCancelled, NotExecuted, WriteFails
  <2>2. QED
    BY <2>1, EndRefines
<1>7. ASSUME NEW k \in Conns, Read(k) PROVE Stutter
  <2>1. /\ handler[k] = "reading" /\ toServer[k] # << >>
        /\ handler' = [handler EXCEPT ![k] = "processing"]
        /\ command' = [command EXCEPT ![k] = Head(toServer[k])]
        /\ toServer' = [toServer EXCEPT ![k] = Tail(@)]
        /\ UNCHANGED <<response, pump, clients, toClient>>
    BY <1>7 DEF Read
  <2>2. command[k] = None /\ Head(toServer[k]) \in Commands
    BY <1>1, <1>2, <2>1, Queues DEF HoldsInv
  <2>3. Todo(k) = toServer[k] /\ Todo(k)' = <<Head(toServer[k])>> \o Tail(toServer[k])
    BY <1>1, <2>1, <2>2, ServerAssumption DEF TypeOK, Todo
  <2>4. Todo(k)' = Todo(k)
    BY <1>2, <2>1, <2>3, Uncons
  <2>5. Phase(k)' = Phase(k) /\ Owed(k)' = Owed(k)
    BY <1>1, <2>1 DEF TypeOK, Phase, Owed
  <2>6. QED
    BY <1>1, <2>1, <2>4, <2>5, Frame, Unchanged DEF TypeOK
<1>8. ASSUME NEW k \in Conns, NEW reply \in Replies, Respond(k, reply),
             handler[k] = "processing"
      PROVE  /\ AbsRequests[k] # << >> /\ Head(AbsRequests[k]) = command[k]
             /\ AbsRequests' = [AbsRequests EXCEPT ![k] = Tail(@)]
             /\ AbsState' = AbsState
             /\ Abstract!Answer(k, reply)
  <2>1. /\ handler' = [handler EXCEPT ![k] = "replying"]
        /\ command' = [command EXCEPT ![k] = None]
        /\ response' = [response EXCEPT ![k] = reply]
        /\ UNCHANGED <<clients, link>>
    BY <1>8 DEF Respond
  <2>2. command[k] \in Commands /\ command[k] # None /\ response[k] = None
        /\ client[k] # "none" /\ reply # None
    BY <1>1, <1>2, <1>8, ServerAssumption DEF HoldsInv, IdleInv
  <2>3. Todo(k) = <<command[k]>> \o toServer[k] /\ Todo(k)' = toServer[k]
    BY <1>1, <2>1, <2>2 DEF TypeOK, Todo
  <2>4. Todo(k) # << >> /\ Head(Todo(k)) = command[k] /\ Todo(k)' = Tail(Todo(k))
    BY <1>2, <2>2, <2>3, Cons
  <2>5. Phase(k)' = Phase(k) /\ (Phase(k) = "open" <=> client[k] # "closed")
    BY <1>1, <1>8, <2>1, <2>2 DEF TypeOK, Phase
  <2>6. Owed(k)' = IF Phase(k) = "open" THEN Append(Owed(k), reply) ELSE Owed(k)
    BY <1>1, <2>1, <2>2, <2>5 DEF TypeOK, Owed
  <2>7. /\ AbsState' = [AbsState EXCEPT ![k] = Phase(k)']
        /\ AbsRequests' = [AbsRequests EXCEPT ![k] = Todo(k)']
        /\ AbsReplies' = [AbsReplies EXCEPT ![k] = Owed(k)']
    BY <1>1, <2>1, Frame DEF TypeOK
  <2>8. AbsState[k] = Phase(k) /\ AbsRequests[k] = Todo(k) /\ AbsReplies[k] = Owed(k)
    BY Mapping
  <2>9. AbsState' = AbsState
    BY <2>5, <2>7, Unchanged
  <2>10. Abstract!Answer(k, reply)
    <3>1. CASE Phase(k) = "open"
      BY <2>6, <2>7, <2>8, <3>1 DEF Abstract!Answer
    <3>2. CASE Phase(k) # "open"
      BY <2>6, <2>7, <2>8, <3>2, Unchanged DEF Abstract!Answer
    <3>3. QED
      BY <3>1, <3>2
  <2>11. QED
    BY <2>4, <2>7, <2>8, <2>9, <2>10
<1>9. ASSUME NEW k \in Conns, Process(k) PROVE Abstract!Execute(k)
  <2>1. /\ handler[k] = "processing" /\ pump' = Effect(command[k], pump)
        /\ Respond(k, Reply(command[k], pump'))
    BY <1>9 DEF Process
  <2>2. command[k] \in Commands /\ pump \in BOOLEAN
    BY <1>1, <1>2, <2>1 DEF TypeOK, HoldsInv
  <2>3. pump' \in BOOLEAN
    BY <2>1, <2>2, ReplyTypes
  <2>4. Reply(command[k], pump') \in Replies
    BY <2>2, <2>3, ReplyTypes
  <2>5. /\ AbsRequests[k] # << >> /\ Head(AbsRequests[k]) = command[k]
        /\ AbsRequests' = [AbsRequests EXCEPT ![k] = Tail(@)]
        /\ AbsState' = AbsState
        /\ Abstract!Answer(k, Reply(command[k], pump'))
    BY <1>8, <2>1, <2>4
  <2>6. /\ Abstract!Effect(command[k], pump) = Effect(command[k], pump)
        /\ Abstract!Reply(command[k], pump') = Reply(command[k], pump')
    BY <2>2, <2>3, SameCommands
  <2>7. QED
    BY <2>1, <2>5, <2>6 DEF Abstract!Execute
<1>10. ASSUME NEW k \in Conns, ProcessThrows(k) PROVE Abstract!Refuse(k)
  <2>1. /\ handler[k] = "processing" /\ command[k] \in PlantCommands
        /\ Respond(k, Refusal(command[k])) /\ pump' = pump
    BY <1>10 DEF ProcessThrows
  <2>2. command[k] \in Commands
    BY <2>1 DEF Commands
  <2>3. Refusal(command[k]) \in Replies
    BY <2>2, ReplyTypes
  <2>4. /\ AbsRequests[k] # << >> /\ Head(AbsRequests[k]) = command[k]
        /\ AbsRequests' = [AbsRequests EXCEPT ![k] = Tail(@)]
        /\ AbsState' = AbsState
        /\ Abstract!Answer(k, Refusal(command[k]))
    BY <1>8, <2>1, <2>3
  <2>5. QED
    BY <2>1, <2>2, <2>4, SameCommands DEF Abstract!Refuse
<1>11. ASSUME NEW k \in Conns, Write(k) PROVE Stutter \/ Ends
  <2> DEFINE written == IF client[k] = "closed" THEN toClient
                        ELSE [toClient EXCEPT ![k] = Append(@, response[k])]
  <2>1. /\ handler[k] = "replying" /\ response' = [response EXCEPT ![k] = None]
        /\ UNCHANGED <<command, pump, clients>>
    BY <1>11 DEF Write
  <2>2. /\ response[k] # None /\ response[k] \in Replies /\ command[k] = None
        /\ client[k] # "none"
    BY <1>1, <1>2, <2>1 DEF HoldsInv, IdleInv
  <2>3. written \in [Conns -> Seq(Replies)] /\ written[k] = Owed(k)
        /\ \A j \in Conns \ {k} : written[j] = toClient[j]
    <3>1. Append(toClient[k], response[k]) \in Seq(Replies)
      BY <1>2, <2>2, AppendProperties
    <3>2. QED
      BY <1>1, <2>2, <3>1 DEF TypeOK, Owed
  <2>4. CASE ~stopping
    <3>1. /\ handler' = [handler EXCEPT ![k] = "reading"]
          /\ toClient' = written /\ toServer' = toServer
      BY <1>11, <2>4 DEF Write
    <3>2. Phase(k)' = Phase(k) /\ Todo(k)' = Todo(k)
      BY <1>1, <2>1, <3>1 DEF TypeOK, Phase, Todo
    <3>3. Owed(k)' = Owed(k)
      <4>1. Owed(k)' = toClient'[k]
        BY <1>1, <2>1 DEF TypeOK, Owed
      <4>2. QED
        BY <2>3, <3>1, <4>1
    <3>4. \A j \in Conns \ {k} :
            /\ handler'[j] = handler[j] /\ command'[j] = command[j]
            /\ response'[j] = response[j] /\ client'[j] = client[j]
            /\ toServer'[j] = toServer[j] /\ toClient'[j] = toClient[j]
      BY <1>1, <2>1, <2>3, <3>1 DEF TypeOK
    <3>5. QED
      BY <2>1, <3>2, <3>3, <3>4, Frame, Unchanged
  <2>5. CASE stopping
    <3>1. /\ handler' = [handler EXCEPT ![k] = "ended"]
          /\ toServer' = [toServer EXCEPT ![k] = << >>]
          /\ toClient' \in {written, [toClient EXCEPT ![k] = << >>]}
      BY <1>11, <2>5 DEF Write
    <3>2. Phase(k)' = "over" /\ Phase(k) \in {"open", "left"} /\ Todo(k)' = << >>
      BY <1>1, <2>1, <2>2, <3>1 DEF TypeOK, Phase, Todo
    <3>3. Owed(k)' \in {Owed(k), << >>}
      <4>1. Owed(k)' = toClient'[k]
        BY <1>1, <2>1 DEF TypeOK, Owed
      <4>2. toClient'[k] \in {written[k], << >>}
        BY <1>1, <3>1 DEF TypeOK
      <4>3. QED
        BY <2>3, <4>1, <4>2
    <3>4. \E n \in 0..Len(Owed(k)) : Owed(k)' = SubSeq(Owed(k), 1, n)
      <4>1. Owed(k) \in Seq(Replies)
        BY <2>3
      <4>2. /\ 0 \in 0..Len(Owed(k)) /\ SubSeq(Owed(k), 1, 0) = << >>
            /\ Len(Owed(k)) \in 0..Len(Owed(k)) /\ SubSeq(Owed(k), 1, Len(Owed(k))) = Owed(k)
        BY <4>1, Prefixes
      <4>3. QED
        BY <3>3, <4>2
    <3>5. \A j \in Conns \ {k} :
            /\ handler'[j] = handler[j] /\ command'[j] = command[j]
            /\ response'[j] = response[j] /\ client'[j] = client[j]
            /\ toServer'[j] = toServer[j] /\ toClient'[j] = toClient[j]
      BY <1>1, <2>1, <2>3, <3>1 DEF TypeOK
    <3>6. /\ AbsState' = [AbsState EXCEPT ![k] = "over"]
          /\ AbsRequests' = [AbsRequests EXCEPT ![k] = << >>]
          /\ AbsReplies' = [AbsReplies EXCEPT ![k] = Owed(k)']
      BY <3>2, <3>5, Frame
    <3>7. Abstract!Finish({k})
      BY <2>1, <3>2, <3>4, <3>6, Mapping DEF Abstract!Finish
    <3>8. QED
      BY <3>7
  <2>6. QED
    BY <2>4, <2>5
<1>12. ASSUME NEW k \in Conns, Connect(k) PROVE Abstract!Connect(k)
  <2>1. /\ client[k] = "none" /\ client' = [client EXCEPT ![k] = "open"]
        /\ handler' = [handler EXCEPT ![k] = "queued"]
        /\ UNCHANGED <<command, response, pump, link>>
    BY <1>12 DEF Connect
  <2>2. Phase(k) = "none" /\ Phase(k)' = "open"
    BY <1>1, <2>1 DEF TypeOK, Phase
  <2>3. Todo(k)' = Todo(k) /\ Owed(k)' = Owed(k)
    <3>1. response[k] = None
      BY <1>1, <2>1 DEF HoldsInv, IdleInv
    <3>2. QED
      BY <1>1, <2>1, <3>1 DEF TypeOK, Todo, Owed
  <2>4. /\ AbsState' = [AbsState EXCEPT ![k] = Phase(k)']
        /\ AbsRequests' = [AbsRequests EXCEPT ![k] = Todo(k)']
        /\ AbsReplies' = [AbsReplies EXCEPT ![k] = Owed(k)']
    BY <1>1, <2>1, Frame DEF TypeOK
  <2>5. QED
    BY <2>1, <2>2, <2>3, <2>4, Mapping, Unchanged DEF Abstract!Connect
<1>13. ASSUME NEW k \in Conns, Send(k)
       PROVE  \E line \in Abstract!Commands : Abstract!Send(k, line)
  <2>1. /\ client[k] = "open" /\ handler[k] # "ended"
        /\ UNCHANGED <<tasks, pump, client, toClient>>
    BY <1>13 DEF Send
  <2>2. PICK line \in Lines[k] : toServer' = [toServer EXCEPT ![k] = Append(@, line)]
    BY <1>13 DEF Send
  <2>3. line \in Commands
    BY ServerAssumption
  <2>4. Phase(k) = "open" /\ Phase(k)' = Phase(k) /\ Owed(k)' = Owed(k)
    BY <1>1, <2>1 DEF TypeOK, Phase, Owed
  <2>5. Todo(k)' = Append(Todo(k), line)
    <3>1. toServer'[k] = Append(toServer[k], line)
      BY <1>1, <2>2 DEF TypeOK
    <3>2. CASE command[k] = None
      BY <2>1, <3>1, <3>2 DEF Todo
    <3>3. CASE command[k] # None
      <4>1. Append(<<command[k]>> \o toServer[k], line)
              = <<command[k]>> \o Append(toServer[k], line)
        BY <1>2, <2>3, <3>3, Cons
      <4>2. QED
        BY <2>1, <3>1, <3>3, <4>1 DEF Todo
    <3>4. QED
      BY <3>2, <3>3
  <2>6. /\ AbsState' = [AbsState EXCEPT ![k] = Phase(k)']
        /\ AbsRequests' = [AbsRequests EXCEPT ![k] = Todo(k)']
        /\ AbsReplies' = [AbsReplies EXCEPT ![k] = Owed(k)']
    BY <1>1, <2>1, <2>2, Frame DEF TypeOK
  <2>7. Abstract!Send(k, line)
    BY <2>1, <2>4, <2>5, <2>6, Mapping, Unchanged DEF Abstract!Send
  <2>8. QED
    BY <2>3, <2>7, SameCommands
<1>14. ASSUME NEW k \in Conns, Receive(k) PROVE Abstract!Receive(k)
  <2>1. /\ client[k] \in {"open", "finished"} /\ toClient[k] # << >>
        /\ toClient' = [toClient EXCEPT ![k] = Tail(@)]
        /\ UNCHANGED <<tasks, pump, client, toServer>>
    BY <1>14 DEF Receive
  <2>2. Phase(k)' = Phase(k) /\ Todo(k)' = Todo(k)
    BY <2>1 DEF Phase, Todo
  <2>3. Owed(k) # << >> /\ Owed(k)' = Tail(Owed(k))
    <3>1. toClient'[k] = Tail(toClient[k])
      BY <1>1, <2>1 DEF TypeOK
    <3>2. CASE response[k] = None
      BY <2>1, <3>1, <3>2 DEF Owed
    <3>3. CASE response[k] # None
      <4>1. /\ Append(toClient[k], response[k]) # << >>
            /\ Tail(Append(toClient[k], response[k])) = Append(Tail(toClient[k]), response[k])
        BY <1>2, <2>1, <3>3, AppendProperties, HeadTailAppend
      <4>2. QED
        BY <2>1, <3>1, <3>3, <4>1 DEF Owed
    <3>4. QED
      BY <3>2, <3>3
  <2>4. /\ AbsState' = [AbsState EXCEPT ![k] = Phase(k)']
        /\ AbsRequests' = [AbsRequests EXCEPT ![k] = Todo(k)']
        /\ AbsReplies' = [AbsReplies EXCEPT ![k] = Owed(k)']
    BY <1>1, <2>1, Frame DEF TypeOK
  <2>5. QED
    BY <2>1, <2>2, <2>3, <2>4, Mapping, Unchanged DEF Abstract!Receive
<1>15. ASSUME NEW k \in Conns, FinishSending(k) PROVE Stutter
  <2>1. /\ client[k] = "open" /\ client' = [client EXCEPT ![k] = "finished"]
        /\ UNCHANGED <<tasks, pump, link>>
    BY <1>15 DEF FinishSending
  <2>2. Phase(k)' = Phase(k) /\ Todo(k)' = Todo(k) /\ Owed(k)' = Owed(k)
    BY <1>1, <2>1 DEF TypeOK, Phase, Todo, Owed
  <2>3. QED
    BY <1>1, <2>1, <2>2, Frame, Unchanged DEF TypeOK
<1>16. ASSUME NEW k \in Conns, Close(k) PROVE Abstract!Leave(k)
  <2>1. /\ client[k] \in {"open", "finished"} /\ client' = [client EXCEPT ![k] = "closed"]
        /\ toClient' = [toClient EXCEPT ![k] = << >>]
        /\ toServer' \in {toServer, [toServer EXCEPT ![k] = << >>]}
        /\ UNCHANGED <<tasks, pump>>
    BY <1>16 DEF Close
  <2>2. /\ Phase(k) \in {"open", "over"}
        /\ Phase(k)' = IF Phase(k) = "open" THEN "left" ELSE Phase(k)
    BY <1>1, <2>1 DEF TypeOK, Phase
  <2>3. Owed(k)' = << >>
    BY <1>1, <2>1 DEF TypeOK, Owed
  <2>4. toServer'[k] \in {toServer[k], << >>} /\ command' = command
    BY <1>1, <2>1 DEF TypeOK
  <2>5. \E n \in 0..Len(Todo(k)) : Todo(k)' = SubSeq(Todo(k), 1, n)
    <3>1. CASE command[k] = None
      <4>1. Todo(k) = toServer[k] /\ Todo(k)' \in {toServer[k], << >>}
        BY <2>4, <3>1 DEF Todo
      <4>2. QED
        <5>1. /\ 0 \in 0..Len(Todo(k)) /\ SubSeq(Todo(k), 1, 0) = << >>
              /\ Len(Todo(k)) \in 0..Len(Todo(k))
              /\ SubSeq(Todo(k), 1, Len(Todo(k))) = Todo(k)
          BY <1>2, <4>1, Prefixes
        <5>2. QED
          BY <4>1, <5>1
    <3>2. CASE command[k] # None
      <4>1. Todo(k) = <<command[k]>> \o toServer[k] /\ command[k] \in Commands
        BY <1>2, <3>2 DEF Todo
      <4>2. Todo(k)' \in {Todo(k), <<command[k]>> \o << >>}
        BY <2>4, <3>2 DEF Todo
      <4>3. <<command[k]>> \o << >> = <<command[k]>> /\ Todo(k) \in Seq(Commands)
        BY <1>2, <4>1, Cons, ConcatEmptySeq
      <4>4. /\ 1 \in 0..Len(Todo(k)) /\ SubSeq(Todo(k), 1, 1) = <<command[k]>>
            /\ Len(Todo(k)) \in 0..Len(Todo(k)) /\ SubSeq(Todo(k), 1, Len(Todo(k))) = Todo(k)
        <5>1. toServer[k] \in Seq(Commands)
          BY <1>2
        <5>2. 1 \in 0..Len(Todo(k)) /\ SubSeq(Todo(k), 1, 1) = <<command[k]>>
          BY <4>1, <5>1, Cons
        <5>3. Len(Todo(k)) \in 0..Len(Todo(k)) /\ SubSeq(Todo(k), 1, Len(Todo(k))) = Todo(k)
          BY <4>3, Prefixes
        <5>4. QED
          BY <5>2, <5>3
      <4>5. Todo(k)' = Todo(k) \/ Todo(k)' = <<command[k]>>
        BY <4>2, <4>3
      <4>6. CASE Todo(k)' = Todo(k)
        <5>1. Todo(k)' = SubSeq(Todo(k), 1, Len(Todo(k)))
          BY <4>4, <4>6
        <5>2. QED
          BY <4>4, <5>1
      <4>7. CASE Todo(k)' = <<command[k]>>
        <5>1. Todo(k)' = SubSeq(Todo(k), 1, 1)
          BY <4>4, <4>7
        <5>2. QED
          BY <4>4, <5>1
      <4>8. QED
        BY <4>5, <4>6, <4>7
    <3>3. QED
      BY <3>1, <3>2
  <2>6. /\ AbsState' = [AbsState EXCEPT ![k] = Phase(k)']
        /\ AbsRequests' = [AbsRequests EXCEPT ![k] = Todo(k)']
        /\ AbsReplies' = [AbsReplies EXCEPT ![k] = Owed(k)']
    BY <1>1, <2>1, Frame DEF TypeOK
  <2>7. AbsState[k] = Phase(k) /\ AbsRequests[k] = Todo(k)
    BY Mapping
  <2>8. QED
    BY <2>1, <2>2, <2>3, <2>5, <2>6, <2>7 DEF Abstract!Leave
<1>17. CASE UNCHANGED vars
  BY <1>17 DEF vars, Abstract!vars, AbsState, AbsRequests, AbsReplies
<1>18. QED
  <2>1. Ends => Abstract!Next
    BY DEF Abstract!Next
  <2>2. Stutter => UNCHANGED Abstract!vars
    BY DEF Abstract!vars
  <2> HIDE DEF Stutter, Ends
  <2>3. \A k \in Conns : /\ Accept(k) => Stutter \/ Ends
                         /\ Handle(k) => Stutter \/ Ends \/ Abstract!Next
    BY <1>4, <1>6, <1>7, <1>9, <1>10, <1>11 DEF Handle, Abstract!Next
  <2>4. ServerNext => [Abstract!Next]_(Abstract!vars)
    BY <1>3, <1>5, <2>1, <2>2, <2>3 DEF ServerNext, StopAccepting, AcceptFails
  <2>5. ClientNext => [Abstract!Next]_(Abstract!vars)
    BY <1>12, <1>13, <1>14, <1>15, <1>16, <2>2 DEF ClientNext, Abstract!Next
  <2>6. QED
    BY <1>17, <2>4, <2>5 DEF Next

(* The lines of a connection are executed one by one, in order and at most     *)
(* once, and answered by what they did: HandleClientAsync with                 *)
(* ProcessCommandAsync, for any number of connections.                         *)
THEOREM Serves == Spec => IsLineServer
  BY InitIInv, StepIInv, InitRefines, StepRefines, PTL
     DEF Spec, IsLineServer, Abstract!Spec
=============================================================================
