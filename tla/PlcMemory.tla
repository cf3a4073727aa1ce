------------------------------ MODULE PlcMemory ------------------------------
(***************************************************************************)
(* What IPlcService promises its callers about the machine behind it: the  *)
(* state of the plant is one value, every call acts on it at one instant   *)
(* between its invocation and its return, and a cancelled call does not    *)
(* act at all.  A read moves the two sensors by at most one step and       *)
(* reports the values it left behind; a pump command sets the flag.        *)
(***************************************************************************)
EXTENDS PlcStatus

VARIABLES
  plant,    \* the status of the machine
  phase,    \* phase[c]: "idle", "pending" or "done" (executed, not yet returned)
  op,       \* op[c]: the operation of c's call, None between calls
  answer    \* answer[c]: what c's current or last call reported to it

vars == <<plant, phase, op, answer>>

TypeOK ==
  /\ plant \in Statuses
  /\ phase \in [Callers -> {"idle", "pending", "done"}]
  /\ op \in [Callers -> Ops \union {None}]
  /\ answer \in [Callers -> Statuses]

Init ==
  /\ plant = StartStatus
  /\ phase = [c \in Callers |-> "idle"]
  /\ op = [c \in Callers |-> None]
  /\ answer = [c \in Callers |-> StartStatus]

Invoke(c, o) ==
  /\ phase[c] = "idle"
  /\ phase' = [phase EXCEPT ![c] = "pending"]
  /\ op' = [op EXCEPT ![c] = o]
  /\ answer' = [answer EXCEPT ![c] = StartStatus]
  /\ UNCHANGED plant

ExecuteRead(c) ==
  /\ phase[c] = "pending"
  /\ op[c] \in ReadOps
  /\ \E dt \in -TempStep..TempStep, dp \in -PressStep..PressStep :
       plant' = [temperature   |-> Clamp(plant.temperature + dt, TempLo, TempHi),
                 pressure      |-> Clamp(plant.pressure + dp, PressLo, PressHi),
                 isPumpRunning |-> plant.isPumpRunning]
  /\ answer' = [answer EXCEPT ![c] = Answer(op[c], plant')]
  /\ phase' = [phase EXCEPT ![c] = "done"]
  /\ UNCHANGED op

ExecutePump(c) ==
  /\ phase[c] = "pending"
  /\ op[c] \in PumpOps
  /\ plant' = [plant EXCEPT !.isPumpRunning = (op[c] = "StartPump")]
  /\ phase' = [phase EXCEPT ![c] = "done"]
  /\ UNCHANGED <<op, answer>>

Return(c) ==
  /\ phase[c] = "done"
  /\ phase' = [phase EXCEPT ![c] = "idle"]
  /\ op' = [op EXCEPT ![c] = None]
  /\ UNCHANGED <<plant, answer>>

(* A call that is cancelled before it acts leaves no trace in the plant. *)
Cancel(c) ==
  /\ phase[c] = "pending"
  /\ phase' = [phase EXCEPT ![c] = "idle"]
  /\ op' = [op EXCEPT ![c] = None]
  /\ UNCHANGED <<plant, answer>>

Next ==
  \E c \in Callers :
    \/ \E o \in Ops : Invoke(c, o)
    \/ ExecuteRead(c)
    \/ ExecutePump(c)
    \/ Return(c)
    \/ Cancel(c)

Spec == Init /\ [][Next]_vars
=============================================================================
