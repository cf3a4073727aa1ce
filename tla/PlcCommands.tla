----------------------------- MODULE PlcCommands -----------------------------
(***************************************************************************)
(* The command lines of the bridge and what PlcCommandProcessor answers to *)
(* each.  Of the plant only the pump matters here: the sensors move by     *)
(* themselves and their values are the subject of PlcMemory.               *)
(***************************************************************************)

ReadCommands  == {"GET_STATUS", "READ_PRESSURE", "READ_TEMP"}
PumpCommands  == {"START_PUMP", "STOP_PUMP"}
PlantCommands == ReadCommands \union PumpCommands

(* A blank line and a line that is none of the commands, trimmed and in upper *)
(* case, are not handed to the plant.                                         *)
Commands == PlantCommands \union {"EMPTY", "UNKNOWN"}

(* A reply line: the command it answers, OK or ERR, the flag of PUMP=. *)
Replies == [to : Commands, ok : BOOLEAN, pump : BOOLEAN]

(* The pump after the command, when it was "on" before. *)
EffectWithoutStop(command, on) == command = "START_PUMP" \/ on
Effect(command, on) ==
  command = "START_PUMP" \/ (on /\ command # "STOP_PUMP")

(* The reply of a handler that returned, with the pump as it left it. *)
Reply(command, on) ==
  [to |-> command, ok |-> command \in PlantCommands, pump |-> command = "GET_STATUS" /\ on]

(* ERR:INTERNAL_SERVER_ERROR *)
Refusal(command) == [to |-> command, ok |-> FALSE, pump |-> FALSE]
=============================================================================
