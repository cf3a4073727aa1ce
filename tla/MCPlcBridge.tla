----------------------------- MODULE MCPlcBridge -----------------------------
(* One caller works the pump and may cancel, the other one switches it on    *)
(* and reads it.                                                             *)
EXTENDS PlcBridge

CONSTANTS a, b

MCCallers == {a, b}
MCAsks == [c \in MCCallers |-> IF c = a THEN {"START_PUMP", "STOP_PUMP"}
                               ELSE {"START_PUMP", "GET_STATUS"}]
===============================================================================
