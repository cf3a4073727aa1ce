------------------------- MODULE SimulatedPlcService -------------------------
(***************************************************************************)
(* SimulatedPlcService: the state of the machine in three fields, updated  *)
(* under _syncLock.  Every operation is asynchronous: it checks its token, *)
(* waits for the simulated bus or relay (Task.Delay) and only then enters  *)
(* the lock.  The critical section of a read is cut where another thread   *)
(* could look if the lock did not keep it out: after the two random deltas *)
(* are drawn, after each sensor is stored, and when the fields are read    *)
(* for the answer.                                                         *)
(***************************************************************************)
EXTENDS PlcStatus

VARIABLES
  temperature, pressure, isPumpRunning,   \* the fields of the service
  syncLock,   \* the thread inside lock (_syncLock), or None
  pc,         \* pc[c]: where c's call is
  op,         \* op[c]: the operation of c's call, None between calls
  delta,      \* delta[c]: tempDelta and pressDelta, locals of UpdateSimulatedValues
  answer      \* answer[c]: what c's current or last call returned to it

fields == <<temperature, pressure, isPumpRunning>>
vars == <<temperature, pressure, isPumpRunning, syncLock, pc, op, delta, answer>>

NoDelta == [temperature |-> 0, pressure |-> 0]

Deltas == [temperature : -TempStep..TempStep, pressure : -PressStep..PressStep]

(* Points of a call inside lock (_syncLock) *)
ReadPoints == {"updating", "temperatureStored", "stored"}
LockPoints == ReadPoints \union {"switched"}

TypeOK ==
  /\ temperature \in TempLo..TempHi
  /\ pressure \in PressLo..PressHi
  /\ isPumpRunning \in BOOLEAN
  /\ syncLock \in Callers \union {None}
  /\ pc \in [Callers -> {"idle", "delay"} \union LockPoints]
  /\ op \in [Callers -> Ops \union {None}]
  /\ delta \in [Callers -> Deltas]
  /\ answer \in [Callers -> Statuses]

Init ==
  /\ temperature = TempStart
  /\ pressure = PressStart
  /\ isPumpRunning = FALSE
  /\ syncLock = None
  /\ pc = [c \in Callers |-> "idle"]
  /\ op = [c \in Callers |-> None]
  /\ delta = [c \in Callers |-> NoDelta]
  /\ answer = [c \in Callers |-> StartStatus]

-----------------------------------------------------------------------------
(* The token is not cancelled: the call starts its Task.Delay. *)
Call(c, o) ==
  /\ pc[c] = "idle"
  /\ pc' = [pc EXCEPT ![c] = "delay"]
  /\ op' = [op EXCEPT ![c] = o]
  /\ answer' = [answer EXCEPT ![c] = StartStatus]
  /\ UNCHANGED <<fields, syncLock, delta>>

(* ThrowIfCancellationRequested or Task.Delay throws.  Once the delay is over *)
(* the token is not looked at again.                                          *)
CancelDelay(c) ==
  /\ pc[c] = "delay"
  /\ pc' = [pc EXCEPT ![c] = "idle"]
  /\ op' = [op EXCEPT ![c] = None]
  /\ UNCHANGED <<fields, syncLock, delta, answer>>

SyncLockIgnored == TRUE
SyncLockFree == syncLock = None

ExitWithoutRelease == UNCHANGED syncLock
ExitLock == syncLock' = None

(* UpdateSimulatedValues draws its two deltas: NextDouble() * 1.0 - 0.5 and   *)
(* NextDouble() * 0.4 - 0.2, which rounding to a tenth makes -5..5 and -2..2. *)
EnterRead(c) ==
  /\ pc[c] = "delay"
  /\ op[c] \in ReadOps
  /\ SyncLockFree
  /\ syncLock' = c
  /\ \E d \in Deltas : delta' = [delta EXCEPT ![c] = d]
  /\ pc' = [pc EXCEPT ![c] = "updating"]
  /\ UNCHANGED <<fields, op, answer>>

UnclampedTemperature(d) == temperature + d.temperature
NewTemperature(d) == Clamp(temperature + d.temperature, TempLo, TempHi)
NewPressure(d) == Clamp(pressure + d.pressure, PressLo, PressHi)

StoreTemperature(c) ==
  /\ pc[c] = "updating"
  /\ temperature' = NewTemperature(delta[c])
  /\ pc' = [pc EXCEPT ![c] = "temperatureStored"]
  /\ UNCHANGED <<pressure, isPumpRunning, syncLock, op, delta, answer>>

StorePressure(c) ==
  /\ pc[c] = "temperatureStored"
  /\ pressure' = NewPressure(delta[c])
  /\ pc' = [pc EXCEPT ![c] = "stored"]
  /\ delta' = [delta EXCEPT ![c] = NoDelta]
  /\ UNCHANGED <<temperature, isPumpRunning, syncLock, op, answer>>

(* The PlcSystemStatus built from the three fields *)
Fields == [temperature |-> temperature, pressure |-> pressure,
           isPumpRunning |-> isPumpRunning]

LeaveRead(c) ==
  /\ pc[c] = "stored"
  /\ answer' = [answer EXCEPT ![c] = Answer(op[c], Fields)]
  /\ pc' = [pc EXCEPT ![c] = "idle"]
  /\ op' = [op EXCEPT ![c] = None]
  /\ ExitLock
  /\ UNCHANGED <<fields, delta>>

(* StartPumpAsync and StopPumpAsync set the flag under the lock. *)
EnterPump(c) ==
  /\ pc[c] = "delay"
  /\ op[c] \in PumpOps
  /\ SyncLockFree
  /\ syncLock' = c
  /\ isPumpRunning' = (op[c] = "StartPump")
  /\ pc' = [pc EXCEPT ![c] = "switched"]
  /\ UNCHANGED <<temperature, pressure, op, delta, answer>>

LeavePump(c) ==
  /\ pc[c] = "switched"
  /\ pc' = [pc EXCEPT ![c] = "idle"]
  /\ op' = [op EXCEPT ![c] = None]
  /\ ExitLock
  /\ UNCHANGED <<fields, delta, answer>>

Enter(c) == EnterRead(c) \/ EnterPump(c)
Inside(c) == StoreTemperature(c) \/ StorePressure(c) \/ LeaveRead(c) \/ LeavePump(c)

Next ==
  \E c \in Callers :
    \/ \E o \in Ops : Call(c, o)
    \/ CancelDelay(c)
    \/ Enter(c)
    \/ Inside(c)

Spec == Init /\ [][Next]_vars

(* A thread inside the lock keeps running, and a thread that finds the lock   *)
(* free again and again gets it: Monitor queues its waiters.                  *)
Fairness == \A c \in Callers : SF_vars(Enter(c)) /\ WF_vars(Inside(c))

FairSpec == Spec /\ Fairness

-----------------------------------------------------------------------------
(* Where the atomic memory is while a read is inside the lock: already at the *)
(* values the read is about to store.                                         *)
AbsPlant ==
  LET d == delta[syncLock]
      inside(points) == syncLock \in Callers /\ pc[syncLock] \in points
  IN  [temperature   |-> IF inside({"updating"}) THEN NewTemperature(d)
                         ELSE temperature,
       pressure      |-> IF inside({"updating", "temperatureStored"}) THEN NewPressure(d)
                         ELSE pressure,
       isPumpRunning |-> isPumpRunning]

AbsPhase == [c \in Callers |->
  CASE pc[c] = "idle"  -> "idle"
    [] pc[c] = "delay" -> "pending"
    [] OTHER           -> "done"]

AbsAnswer == [c \in Callers |->
  IF pc[c] \in ReadPoints THEN Answer(op[c], AbsPlant) ELSE answer[c]]

Memory == INSTANCE PlcMemory WITH plant <- AbsPlant, phase <- AbsPhase, answer <- AbsAnswer

(* "Implementazione concreta thread-safe": however the threads interleave,    *)
(* every operation of the simulator acts on the plant as a whole at one       *)
(* instant, a status is never a mix of two updates, and a cancelled call      *)
(* changes nothing.                                                           *)
IsAtomicMemory == Memory!Spec

(* Every call comes back: no path through the lock keeps it.                  *)
CallsReturn == \A c \in Callers : pc[c] # "idle" ~> pc[c] = "idle"
=============================================================================
