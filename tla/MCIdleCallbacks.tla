-------------------------- MODULE MCIdleCallbacks --------------------------
EXTENDS IdleCallbacks
=============================================================================
