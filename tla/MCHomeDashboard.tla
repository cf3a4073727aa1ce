--------------------------- MODULE MCHomeDashboard ---------------------------
EXTENDS HomeDashboard
=============================================================================
