----------------------------- MODULE MCWorkerHost -----------------------------
EXTENDS WorkerHost
===============================================================================
