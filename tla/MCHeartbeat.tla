----------------------------- MODULE MCHeartbeat ----------------------------
EXTENDS Heartbeat
=============================================================================
