------------------------- MODULE MCNetworkPlcService -------------------------
(* Small instances of NetworkPlcService: two callers of the shared service. *)
EXTENDS NetworkPlcService
=============================================================================
