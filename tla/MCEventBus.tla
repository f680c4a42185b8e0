----------------------------- MODULE MCEventBus -----------------------------
EXTENDS EventBus
=============================================================================
