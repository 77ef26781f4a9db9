-------------------------- MODULE MCParallelQueue ---------------------------
EXTENDS ParallelQueue
=============================================================================
