------------------------------ MODULE PlcStatus ------------------------------
(***************************************************************************)
(* The domain of PlcBridge.Core: the operations of IPlcService, the values *)
(* of a PlcSystemStatus and how an operation reports them.                 *)
(*                                                                         *)
(* Temperatures and pressures are integers: tenths of a degree and of a    *)
(* bar, which is the resolution the simulator rounds them to.              *)
(***************************************************************************)
EXTENDS Integers

CONSTANTS
  Callers,                       \* threads that hold a reference to the service
  TempLo, TempHi, TempStep,      \* range of the temperature, largest move of one read
  PressLo, PressHi, PressStep,   \* the same for the pressure
  TempStart, PressStart,         \* the values the service is constructed with
  None                           \* nobody, no operation

ASSUME RangesAssumption ==
  /\ TempLo \in Int /\ TempHi \in Int /\ TempStep \in Nat
  /\ PressLo \in Int /\ PressHi \in Int /\ PressStep \in Nat
  /\ TempStart \in TempLo..TempHi
  /\ PressStart \in PressLo..PressHi

ReadOps == {"GetSystemStatus", "ReadTemperature", "ReadPressure"}
PumpOps == {"StartPump", "StopPump"}
Ops     == ReadOps \union PumpOps

ASSUME NoneAssumption == None \notin Callers /\ None \notin Ops

Statuses == [temperature : TempLo..TempHi, pressure : PressLo..PressHi,
             isPumpRunning : BOOLEAN]

Clamp(x, lo, hi) == IF x < lo THEN lo ELSE IF x > hi THEN hi ELSE x

StartStatus == [temperature |-> TempStart, pressure |-> PressStart,
                isPumpRunning |-> FALSE]

(* The part of the status s that the operation o hands to its caller; the    *)
(* fields it does not report have their starting values.                     *)
Answer(o, s) ==
  CASE o = "GetSystemStatus" -> s
    [] o = "ReadTemperature" -> [StartStatus EXCEPT !.temperature = s.temperature]
    [] o = "ReadPressure"    -> [StartStatus EXCEPT !.pressure = s.pressure]
    [] OTHER                 -> StartStatus
=============================================================================
