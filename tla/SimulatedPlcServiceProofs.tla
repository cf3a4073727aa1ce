---------------------- MODULE SimulatedPlcServiceProofs ----------------------
(***************************************************************************)
(* Proofs about SimulatedPlcService, for every set of callers, every range *)
(* of the sensors and every size of their moves: its types, the mutual     *)
(* exclusion of _syncLock, and that it implements the atomic memory.       *)
(***************************************************************************)
EXTENDS SimulatedPlcService, TLAPS

(* Clamp keeps every integer inside its range: Math.Clamp in                  *)
(* UpdateSimulatedValues.                                                     *)
LEMMA ClampInRange ==
  ASSUME NEW lo \in Int, NEW hi \in Int, NEW x \in Int, lo <= hi
  PROVE  Clamp(x, lo, hi) \in lo..hi
  BY DEF Clamp

(* A move of a sensor inside its range stays inside it.                       *)
LEMMA NewValuesInRange ==
  ASSUME temperature \in TempLo..TempHi, pressure \in PressLo..PressHi,
         NEW d \in Deltas
  PROVE  /\ NewTemperature(d) \in TempLo..TempHi
         /\ NewPressure(d) \in PressLo..PressHi
<1>1. /\ TempLo \in Int /\ TempHi \in Int /\ PressLo \in Int /\ PressHi \in Int
      /\ TempLo <= TempHi /\ PressLo <= PressHi
      /\ TempStep \in Nat /\ PressStep \in Nat
  BY RangesAssumption
<1>2. temperature + d.temperature \in Int /\ pressure + d.pressure \in Int
  BY <1>1 DEF Deltas
<1>3. QED
  BY <1>1, <1>2, ClampInRange DEF NewTemperature, NewPressure

LEMMA StartStatusType == StartStatus \in Statuses
  BY RangesAssumption DEF StartStatus, Statuses

(* Every operation answers with a status whose fields are in their ranges.    *)
LEMMA AnswerType ==
  ASSUME NEW s \in Statuses, NEW o
  PROVE  Answer(o, s) \in Statuses
<1>1. CASE o = "GetSystemStatus"
  BY <1>1 DEF Answer
<1>2. CASE o = "ReadTemperature"
  <2>1. Answer(o, s) = [StartStatus EXCEPT !.temperature = s.temperature]
    BY <1>2 DEF Answer
  <2>2. QED
    BY <2>1, StartStatusType DEF Statuses
<1>3. CASE o = "ReadPressure"
  <2>1. Answer(o, s) = [StartStatus EXCEPT !.pressure = s.pressure]
    BY <1>3 DEF Answer
  <2>2. QED
    BY <2>1, StartStatusType DEF Statuses
<1>4. CASE o \notin {"GetSystemStatus", "ReadTemperature", "ReadPressure"}
  BY <1>4, StartStatusType DEF Answer
<1>5. QED
  BY <1>1, <1>2, <1>3, <1>4

-----------------------------------------------------------------------------
LEMMA InitTypeOK == Init => TypeOK
<1>1. NoDelta \in Deltas
  BY RangesAssumption DEF NoDelta, Deltas
<1>2. QED
  BY <1>1, StartStatusType, RangesAssumption DEF Init, TypeOK

LEMMA NextTypeOK == TypeOK /\ [Next]_vars => TypeOK'
<1> SUFFICES ASSUME TypeOK, [Next]_vars PROVE TypeOK'
  OBVIOUS
<1>1. ASSUME NEW c \in Callers, NEW o \in Ops, Call(c, o) PROVE TypeOK'
  BY <1>1, StartStatusType DEF TypeOK, Call, fields
<1>2. ASSUME NEW c \in Callers, CancelDelay(c) PROVE TypeOK'
  BY <1>2 DEF TypeOK, CancelDelay, fields
<1>3. ASSUME NEW c \in Callers, EnterRead(c) PROVE TypeOK'
  BY <1>3 DEF TypeOK, EnterRead, fields, LockPoints, ReadPoints
<1>4. ASSUME NEW c \in Callers, EnterPump(c) PROVE TypeOK'
  BY <1>4 DEF TypeOK, EnterPump, LockPoints
<1>5. ASSUME NEW c \in Callers, StoreTemperature(c) PROVE TypeOK'
  <2>1. delta[c] \in Deltas
    BY DEF TypeOK
  <2>2. temperature' \in TempLo..TempHi
    BY <1>5, <2>1, NewValuesInRange DEF TypeOK, StoreTemperature
  <2>3. QED
    BY <1>5, <2>2 DEF TypeOK, StoreTemperature, LockPoints, ReadPoints
<1>6. ASSUME NEW c \in Callers, StorePressure(c) PROVE TypeOK'
  <2>1. delta[c] \in Deltas /\ NoDelta \in Deltas
    BY RangesAssumption DEF TypeOK, NoDelta, Deltas
  <2>2. pressure' \in PressLo..PressHi
    BY <1>6, <2>1, NewValuesInRange DEF TypeOK, StorePressure
  <2>3. QED
    BY <1>6, <2>1, <2>2 DEF TypeOK, StorePressure, LockPoints, ReadPoints
<1>7. ASSUME NEW c \in Callers, LeaveRead(c) PROVE TypeOK'
  <2>1. Fields \in Statuses
    BY DEF TypeOK, Fields, Statuses
  <2>2. Answer(op[c], Fields) \in Statuses
    BY <2>1, AnswerType
  <2>3. QED
    BY <1>7, <2>2 DEF TypeOK, LeaveRead, ExitLock, fields
<1>8. ASSUME NEW c \in Callers, LeavePump(c) PROVE TypeOK'
  BY <1>8 DEF TypeOK, LeavePump, ExitLock, fields
<1>9. CASE UNCHANGED vars
  BY <1>9 DEF TypeOK, vars
<1>10. QED
  BY <1>1, <1>2, <1>3, <1>4, <1>5, <1>6, <1>7, <1>8, <1>9 DEF Next, Enter, Inside

(* The fields stay in the ranges the simulator clamps them to, whatever the   *)
(* interleaving of the calls.                                                 *)
THEOREM TypeCorrect == Spec => []TypeOK
  BY InitTypeOK, NextTypeOK, PTL DEF Spec

-----------------------------------------------------------------------------
(* The thread that _syncLock names is the one thread inside the lock.         *)
LockInv == \A c \in Callers : pc[c] \in LockPoints <=> syncLock = c

IInv == TypeOK /\ LockInv

LEMMA InitIInv == Init => IInv
  BY InitTypeOK, NoneAssumption DEF Init, IInv, LockInv, LockPoints, ReadPoints

LEMMA NextIInv == IInv /\ [Next]_vars => IInv'
<1> SUFFICES ASSUME IInv, [Next]_vars PROVE LockInv'
  BY NextTypeOK DEF IInv
<1> USE DEF IInv, LockInv, TypeOK, LockPoints, ReadPoints
<1>1. ASSUME NEW c \in Callers, NEW o \in Ops, Call(c, o) PROVE LockInv'
  BY <1>1 DEF Call
<1>2. ASSUME NEW c \in Callers, CancelDelay(c) PROVE LockInv'
  BY <1>2 DEF CancelDelay
<1>3. ASSUME NEW c \in Callers, EnterRead(c) PROVE LockInv'
  BY <1>3, NoneAssumption DEF EnterRead, SyncLockFree
<1>4. ASSUME NEW c \in Callers, EnterPump(c) PROVE LockInv'
  BY <1>4, NoneAssumption DEF EnterPump, SyncLockFree
<1>5. ASSUME NEW c \in Callers, StoreTemperature(c) PROVE LockInv'
  BY <1>5 DEF StoreTemperature
<1>6. ASSUME NEW c \in Callers, StorePressure(c) PROVE LockInv'
  BY <1>6 DEF StorePressure
<1>7. ASSUME NEW c \in Callers, LeaveRead(c) PROVE LockInv'
  BY <1>7, NoneAssumption DEF LeaveRead, ExitLock
<1>8. ASSUME NEW c \in Callers, LeavePump(c) PROVE LockInv'
  BY <1>8, NoneAssumption DEF LeavePump, ExitLock
<1>9. CASE UNCHANGED vars
  BY <1>9 DEF vars
<1>10. QED
  BY <1>1, <1>2, <1>3, <1>4, <1>5, <1>6, <1>7, <1>8, <1>9 DEF Next, Enter, Inside

(* At most one thread is ever inside _syncLock, which is what the fields rely *)
(* on: they are plain doubles and a bool.                                     *)
THEOREM MutualExclusion ==
  Spec => [](\A c, d \in Callers :
               pc[c] \in LockPoints /\ pc[d] \in LockPoints => c = d)
<1>1. IInv => \A c, d \in Callers :
                pc[c] \in LockPoints /\ pc[d] \in LockPoints => c = d
  BY DEF IInv, LockInv
<1>2. QED
  BY <1>1, InitIInv, NextIInv, PTL DEF Spec

-----------------------------------------------------------------------------
(* What the refinement mapping is when nobody is inside a read, and at each   *)
(* point of one.                                                              *)
LEMMA AbsPlantAt ==
  ASSUME IInv
  PROVE  /\ (\A c \in Callers : pc[c] \notin {"updating", "temperatureStored"})
              => AbsPlant = Fields
         /\ \A c \in Callers :
              /\ pc[c] = "updating"
                   => AbsPlant = [temperature |-> NewTemperature(delta[c]),
                                  pressure |-> NewPressure(delta[c]),
                                  isPumpRunning |-> isPumpRunning]
              /\ pc[c] = "temperatureStored"
                   => AbsPlant = [temperature |-> temperature,
                                  pressure |-> NewPressure(delta[c]),
                                  isPumpRunning |-> isPumpRunning]
  BY DEF IInv, LockInv, LockPoints, ReadPoints, AbsPlant, Fields

LEMMA InitRefines == Init => Memory!Init
<1> SUFFICES ASSUME Init PROVE Memory!Init
  OBVIOUS
<1>1. AbsPlant = StartStatus
  BY DEF Init, AbsPlant, StartStatus
<1>2. AbsPhase = [c \in Callers |-> "idle"]
  BY DEF Init, AbsPhase
<1>3. AbsAnswer = [c \in Callers |-> StartStatus]
  BY DEF Init, AbsAnswer, ReadPoints
<1>4. QED
  BY <1>1, <1>2, <1>3 DEF Init, Memory!Init, StartStatus, Memory!StartStatus

(* The memory and the simulator describe the domain with the same operators.  *)
LEMMA SameDomain ==
  /\ Memory!StartStatus = StartStatus
  /\ Memory!ReadOps = ReadOps /\ Memory!PumpOps = PumpOps /\ Memory!Ops = Ops
  /\ \A x, lo, hi : Memory!Clamp(x, lo, hi) = Clamp(x, lo, hi)
  /\ \A o, s : Memory!Answer(o, s) = Answer(o, s)
<1>1. Memory!StartStatus = StartStatus
  BY DEF Memory!StartStatus, StartStatus
<1>2. \A o, s : Memory!Answer(o, s) = Answer(o, s)
  BY <1>1, Zenon DEF Memory!Answer, Answer
<1>3. QED
  BY <1>1, <1>2 DEF Memory!ReadOps, ReadOps, Memory!PumpOps, PumpOps, Memory!Ops, Ops,
                    Memory!Clamp, Clamp

LEMMA StepRefines == IInv /\ [Next]_vars => [Memory!Next]_(Memory!vars)
<1> SUFFICES ASSUME IInv, [Next]_vars PROVE [Memory!Next]_(Memory!vars)
  OBVIOUS
<1> USE DEF LockPoints, ReadPoints
<1>0. IInv'
  BY NextIInv
<1>1. ASSUME NEW c \in Callers, NEW o \in Ops, Call(c, o)
      PROVE  Memory!Invoke(c, o)
  <2>1. AbsPlant' = AbsPlant
    BY <1>1, NoneAssumption DEF Call, fields, AbsPlant, IInv, LockInv, TypeOK, NewTemperature, NewPressure
  <2>2. AbsPhase[c] = "idle" /\ AbsPhase' = [AbsPhase EXCEPT ![c] = "pending"]
    BY <1>1 DEF Call, AbsPhase, IInv, TypeOK
  <2>3. AbsAnswer' = [AbsAnswer EXCEPT ![c] = StartStatus]
    BY <1>1, <2>1 DEF Call, AbsAnswer, IInv, TypeOK
  <2>4. QED
    BY <1>1, <2>1, <2>2, <2>3 DEF Call, Memory!Invoke, StartStatus, Memory!StartStatus
<1>2. ASSUME NEW c \in Callers, CancelDelay(c) PROVE Memory!Cancel(c)
  <2>1. AbsPlant' = AbsPlant
    BY <1>2, NoneAssumption DEF CancelDelay, fields, AbsPlant, IInv, LockInv, TypeOK, NewTemperature, NewPressure
  <2>2. AbsPhase[c] = "pending" /\ AbsPhase' = [AbsPhase EXCEPT ![c] = "idle"]
    BY <1>2 DEF CancelDelay, AbsPhase, IInv, TypeOK
  <2>3. AbsAnswer' = AbsAnswer
    BY <1>2, <2>1 DEF CancelDelay, AbsAnswer, IInv, TypeOK
  <2>4. QED
    BY <1>2, <2>1, <2>2, <2>3 DEF CancelDelay, Memory!Cancel
<1>3. ASSUME NEW c \in Callers, EnterRead(c) PROVE Memory!ExecuteRead(c)
  <2>1. AbsPlant = Fields
    BY <1>3, NoneAssumption, AbsPlantAt DEF EnterRead, SyncLockFree, IInv, LockInv
  <2>2. PICK d \in Deltas : delta' = [delta EXCEPT ![c] = d]
    BY <1>3 DEF EnterRead
  <2>3. d.temperature \in -TempStep..TempStep /\ d.pressure \in -PressStep..PressStep
    BY <2>2 DEF Deltas
  <2>4. AbsPlant' = [temperature |-> NewTemperature(d), pressure |-> NewPressure(d),
                     isPumpRunning |-> isPumpRunning]
    <3>1. syncLock' = c /\ pc'[c] = "updating" /\ delta'[c] = d
          /\ temperature' = temperature /\ pressure' = pressure
          /\ isPumpRunning' = isPumpRunning
      BY <1>3, <2>2 DEF EnterRead, fields, IInv, TypeOK
    <3>2. AbsPlant' = [temperature |-> Clamp(temperature' + delta'[c].temperature, TempLo, TempHi),
                       pressure |-> Clamp(pressure' + delta'[c].pressure, PressLo, PressHi),
                       isPumpRunning |-> isPumpRunning']
      BY <3>1 DEF AbsPlant, NewTemperature, NewPressure
    <3>3. QED
      BY <3>1, <3>2 DEF NewTemperature, NewPressure
  <2>5. AbsPlant' = [temperature   |-> Clamp(AbsPlant.temperature + d.temperature, TempLo, TempHi),
                     pressure      |-> Clamp(AbsPlant.pressure + d.pressure, PressLo, PressHi),
                     isPumpRunning |-> AbsPlant.isPumpRunning]
    BY <2>1, <2>4 DEF Fields, NewTemperature, NewPressure
  <2>6. AbsPhase[c] = "pending" /\ AbsPhase' = [AbsPhase EXCEPT ![c] = "done"]
    BY <1>3 DEF EnterRead, AbsPhase, IInv, TypeOK
  <2>7. \A b \in Callers : pc[b] \notin LockPoints
    BY <1>3, NoneAssumption DEF EnterRead, SyncLockFree, IInv, LockInv
  <2>8. AbsAnswer' = [AbsAnswer EXCEPT ![c] = Answer(op[c], AbsPlant')]
    BY <1>3, <2>7 DEF EnterRead, AbsAnswer, IInv, TypeOK
  <2>9. QED
    BY <1>3, <2>3, <2>5, <2>6, <2>8, SameDomain DEF EnterRead, Memory!ExecuteRead
<1>4. ASSUME NEW c \in Callers, EnterPump(c) PROVE Memory!ExecutePump(c)
  <2>1. /\ \A b \in Callers : pc[b] \notin LockPoints
        /\ \A b \in Callers : pc'[b] \notin ReadPoints
    BY <1>4, NoneAssumption DEF EnterPump, SyncLockFree, IInv, LockInv, TypeOK
  <2>2. AbsPlant = Fields /\ AbsPlant' = Fields'
    BY <1>4, <2>1 DEF EnterPump, AbsPlant, Fields
  <2>3. AbsPlant' = [AbsPlant EXCEPT !.isPumpRunning = (op[c] = "StartPump")]
    BY <1>4, <2>2 DEF EnterPump, Fields
  <2>4. AbsPhase[c] = "pending" /\ AbsPhase' = [AbsPhase EXCEPT ![c] = "done"]
    BY <1>4 DEF EnterPump, AbsPhase, IInv, TypeOK
  <2>5. AbsAnswer' = AbsAnswer
    BY <1>4, <2>1 DEF EnterPump, AbsAnswer, IInv, TypeOK
  <2>6. QED
    BY <1>4, <2>3, <2>4, <2>5, SameDomain DEF EnterPump, Memory!ExecutePump
<1>5. ASSUME NEW c \in Callers, StoreTemperature(c) PROVE UNCHANGED Memory!vars
  <2>1. syncLock = c /\ UNCHANGED <<syncLock, op, delta, answer, pressure, isPumpRunning>>
        /\ pc[c] = "updating" /\ pc' = [pc EXCEPT ![c] = "temperatureStored"]
        /\ temperature' = NewTemperature(delta[c])
    BY <1>5 DEF StoreTemperature, IInv, LockInv
  <2>2. NewPressure(delta[c])' = NewPressure(delta[c])
    BY <2>1 DEF NewPressure
  <2>3. AbsPlant' = AbsPlant
    BY <2>1, <2>2 DEF AbsPlant, IInv, TypeOK
  <2>4. AbsPhase' = AbsPhase
    BY <2>1 DEF AbsPhase, IInv, TypeOK
  <2>5. AbsAnswer' = AbsAnswer
    BY <2>1, <2>3 DEF AbsAnswer, IInv, TypeOK
  <2>6. QED
    BY <2>1, <2>3, <2>4, <2>5 DEF Memory!vars
<1>6. ASSUME NEW c \in Callers, StorePressure(c) PROVE UNCHANGED Memory!vars
  <2>1. syncLock = c /\ UNCHANGED <<syncLock, op, answer, temperature, isPumpRunning>>
        /\ pc[c] = "temperatureStored" /\ pc' = [pc EXCEPT ![c] = "stored"]
        /\ pressure' = NewPressure(delta[c])
    BY <1>6 DEF StorePressure, IInv, LockInv
  <2>2. AbsPlant' = AbsPlant
    BY <2>1 DEF AbsPlant, IInv, TypeOK
  <2>3. AbsPhase' = AbsPhase
    BY <2>1 DEF AbsPhase, IInv, TypeOK
  <2>4. AbsAnswer' = AbsAnswer
    BY <2>1, <2>2 DEF AbsAnswer, IInv, TypeOK
  <2>5. QED
    BY <2>1, <2>2, <2>3, <2>4 DEF Memory!vars
<1>7. ASSUME NEW c \in Callers, LeaveRead(c) PROVE Memory!Return(c)
  <2>1. /\ \A b \in Callers : b # c => pc[b] \notin LockPoints
        /\ \A b \in Callers : pc'[b] \notin LockPoints
    BY <1>7 DEF LeaveRead, IInv, LockInv, TypeOK
  <2>2. AbsPlant = Fields /\ AbsPlant' = Fields /\ Fields' = Fields
    BY <1>7, <2>1, AbsPlantAt DEF LeaveRead, AbsPlant, Fields, fields, ExitLock
  <2>3. AbsPhase[c] = "done" /\ AbsPhase' = [AbsPhase EXCEPT ![c] = "idle"]
    BY <1>7 DEF LeaveRead, AbsPhase, IInv, TypeOK
  <2>4. AbsAnswer' = AbsAnswer
    BY <1>7, <2>1, <2>2 DEF LeaveRead, AbsAnswer, IInv, TypeOK
  <2>5. QED
    BY <1>7, <2>2, <2>3, <2>4 DEF LeaveRead, Memory!Return
<1>8. ASSUME NEW c \in Callers, LeavePump(c) PROVE Memory!Return(c)
  <2>1. /\ \A b \in Callers : pc[b] \notin ReadPoints
        /\ \A b \in Callers : pc'[b] \notin ReadPoints
    BY <1>8 DEF LeavePump, IInv, LockInv, TypeOK
  <2>2. AbsPlant' = AbsPlant
    BY <1>8, <2>1 DEF LeavePump, AbsPlant, fields
  <2>3. AbsPhase[c] = "done" /\ AbsPhase' = [AbsPhase EXCEPT ![c] = "idle"]
    BY <1>8 DEF LeavePump, AbsPhase, IInv, TypeOK
  <2>4. AbsAnswer' = AbsAnswer
    BY <1>8, <2>1 DEF LeavePump, AbsAnswer, IInv, TypeOK
  <2>5. QED
    BY <1>8, <2>2, <2>3, <2>4 DEF LeavePump, Memory!Return
<1>9. CASE UNCHANGED vars
  <2>1. AbsPlant' = AbsPlant
    BY <1>9 DEF vars, AbsPlant, NewTemperature, NewPressure
  <2>2. QED
    BY <1>9, <2>1 DEF vars, AbsPhase, AbsAnswer, Memory!vars
<1>10. QED
  BY <1>1, <1>2, <1>3, <1>4, <1>5, <1>6, <1>7, <1>8, <1>9, SameDomain
     DEF Next, Enter, Inside, Memory!Next

(* "Implementazione concreta thread-safe": the simulator implements the       *)
(* atomic memory, so whatever holds of calls that act at one instant holds of *)
(* its interleaved calls.                                                     *)
THEOREM AtomicMemory == Spec => IsAtomicMemory
  BY InitIInv, NextIInv, InitRefines, StepRefines, PTL DEF Spec, IsAtomicMemory, Memory!Spec
=============================================================================
