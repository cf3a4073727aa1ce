--------------------------- MODULE MCReconnectModal ---------------------------
EXTENDS ReconnectModal
===============================================================================
