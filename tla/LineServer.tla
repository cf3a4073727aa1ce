------------------------------ MODULE LineServer ------------------------------
(***************************************************************************)
(* What a client of the bridge may rely on.  The lines of one connection   *)
(* are executed one by one, in the order they were sent, each at one       *)
(* instant and at most once; every line that is executed is answered, in   *)
(* the same order, by what it did to the plant or read from it; a line     *)
(* that is refused did nothing.  When a connection is over, lines that     *)
(* were not executed never will be, and the last replies may be lost.      *)
(* Connections share nothing but the plant.                                *)
(***************************************************************************)
EXTENDS PlcCommands, Naturals, Sequences

CONSTANTS Conns   \* connections, each made once

VARIABLES
  pump,       \* the pump of the plant
  state,      \* state[k]: "none", "open", "left" (by the client) or "over"
  requests,   \* requests[k]: lines of k not executed yet
  replies     \* replies[k]: answers its client has not received yet

vars == <<pump, state, requests, replies>>

TypeOK ==
  /\ pump \in BOOLEAN
  /\ state \in [Conns -> {"none", "open", "left", "over"}]
  /\ requests \in [Conns -> Seq(Commands)]
  /\ replies \in [Conns -> Seq(Replies)]

Init ==
  /\ pump = FALSE
  /\ state = [k \in Conns |-> "none"]
  /\ requests = [k \in Conns |-> << >>]
  /\ replies = [k \in Conns |-> << >>]

Connect(k) ==
  /\ state[k] = "none"
  /\ state' = [state EXCEPT ![k] = "open"]
  /\ UNCHANGED <<pump, requests, replies>>

Send(k, command) ==
  /\ state[k] = "open"
  /\ requests' = [requests EXCEPT ![k] = Append(@, command)]
  /\ UNCHANGED <<pump, state, replies>>

Answer(k, reply) ==
  replies' = IF state[k] = "open" THEN [replies EXCEPT ![k] = Append(@, reply)] ELSE replies

Execute(k) ==
  /\ requests[k] # << >>
  /\ pump' = Effect(Head(requests[k]), pump)
  /\ Answer(k, Reply(Head(requests[k]), pump'))
  /\ requests' = [requests EXCEPT ![k] = Tail(@)]
  /\ UNCHANGED state

Refuse(k) ==
  /\ requests[k] # << >>
  /\ Head(requests[k]) \in PlantCommands
  /\ Answer(k, Refusal(Head(requests[k])))
  /\ requests' = [requests EXCEPT ![k] = Tail(@)]
  /\ UNCHANGED <<pump, state>>

Receive(k) ==
  /\ replies[k] # << >>
  /\ replies' = [replies EXCEPT ![k] = Tail(@)]
  /\ UNCHANGED <<pump, state, requests>>

(* The client goes away: what it sent last may be lost, the rest is executed. *)
Leave(k) ==
  /\ state[k] \in {"open", "over"}
  /\ state' = [state EXCEPT ![k] = IF @ = "open" THEN "left" ELSE @]
  /\ \E n \in 0..Len(requests[k]) : requests' = [requests EXCEPT ![k] = SubSeq(@, 1, n)]
  /\ replies' = [replies EXCEPT ![k] = << >>]
  /\ UNCHANGED pump

(* The server ends these connections. *)
Finish(ended) ==
  /\ ended # {}
  /\ \A k \in ended : state[k] \in {"open", "left"}
  /\ state' = [k \in Conns |-> IF k \in ended THEN "over" ELSE state[k]]
  /\ requests' = [k \in Conns |-> IF k \in ended THEN << >> ELSE requests[k]]
  /\ \A k \in Conns \ ended : replies'[k] = replies[k]
  /\ \A k \in ended :
       \E n \in 0..Len(replies[k]) : replies'[k] = SubSeq(replies[k], 1, n)
  /\ DOMAIN replies' = Conns
  /\ UNCHANGED pump

Next ==
  \/ \E k \in Conns :
       \/ Connect(k) \/ \E command \in Commands : Send(k, command)
       \/ Execute(k) \/ Refuse(k) \/ Receive(k) \/ Leave(k)
  \/ \E ended \in SUBSET Conns : Finish(ended)

Spec == Init /\ [][Next]_vars
===============================================================================
