---------------------------- MODULE MCTcpPlcServer ----------------------------
(* The client that may stop receiving switches the pump on, while the other  *)
(* one reads it, switches it too, or sends what is no command.               *)
EXTENDS TcpPlcServer

CONSTANTS slow, other

MCConns == {slow, other}
MCLines == [k \in MCConns |-> IF k = slow THEN {"START_PUMP"} ELSE {"GET_STATUS", "STOP_PUMP", "UNKNOWN"}]
=============================================================================
