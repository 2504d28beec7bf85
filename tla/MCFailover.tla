----------------------------- MODULE MCFailover -----------------------------
EXTENDS Failover
=============================================================================
