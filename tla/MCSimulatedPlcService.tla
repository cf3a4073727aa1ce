------------------------ MODULE MCSimulatedPlcService ------------------------
(* Small instance of SimulatedPlcService: two threads (two connections of the *)
(* server, or one and the polling worker), sensors that have two values each. *)
EXTENDS SimulatedPlcService
=============================================================================
