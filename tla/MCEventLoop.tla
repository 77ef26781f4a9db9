---------------------------- MODULE MCEventLoop -----------------------------
(* Small instances of EventLoop for TLC. *)
EXTENDS EventLoop

CONSTANTS t1, t2, t3, dom, timer, doc

WindowSource == [t \in Task |-> IF t = t2 THEN timer ELSE dom]
WindowDocument == [t \in Task |-> IF t = t1 THEN doc ELSE None]
WorkerDocument == [t \in Task |-> None]
=============================================================================
