---------------------------- MODULE MCDashboards ----------------------------
(***************************************************************************)
(* An instance of HomeDashboard that asks one question in two worlds,      *)
(* chosen at the start: several pages that disturb each other over a       *)
(* Worker that answers them, or the operated page alone, with a Worker and *)
(* a link that fail.  Both at once are out of reach of a temporal check.   *)
(***************************************************************************)
EXTENDS HomeDashboard

VARIABLE alone

MCInit == Init /\ alone \in BOOLEAN

Failure == LinkFails \/ WorkerStops \/ \E d \in Dashboards, t \in Tasks : Refuse(d, t)

MCNext ==
  /\ Next
  /\ IF alone THEN \A d \in Dashboards \ Operated : page'[d] = "absent" ELSE ~Failure
  /\ UNCHANGED alone

MCSpec == MCInit /\ [][MCNext]_<<vars, alone>> /\ Fairness
=============================================================================
