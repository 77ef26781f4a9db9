--------------------------- MODULE MCGlobalTimers ---------------------------
EXTENDS GlobalTimers
=============================================================================
