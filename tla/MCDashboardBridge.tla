-------------------------- MODULE MCDashboardBridge --------------------------
(* Small instances of DashboardBridge: what HmiAssumption says of the flows. *)
EXTENDS DashboardBridge

MCFlows == Dashboards \X Tasks
MCPolls == Dashboards \X {"poll"}
MCAsks == [c \in MCFlows |-> IF c[2] = "button" THEN P!PumpCommands \union {"GET_STATUS"}
                             ELSE {"GET_STATUS"}]
===============================================================================
