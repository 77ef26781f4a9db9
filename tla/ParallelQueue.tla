---------------------------- MODULE ParallelQueue ---------------------------
(***************************************************************************)
(* infra/parallel-queue.ts: algorithm steps drained in series by callbacks *)
(* of the host.  Steps run to completion, and may enqueue further steps or *)
(* throw out of the drain.                                                 *)
(***************************************************************************)
EXTENDS Naturals, Sequences

CONSTANTS
  Steps,         \* algorithm steps
  None,
  MaxQueue       \* bound on the steps enqueued since the array was last emptied

ASSUME ParallelQueueAssumption ==
  /\ None \notin Steps
  /\ MaxQueue \in Nat

VARIABLES
  algorithmQueue, \* the array: taken steps stay in it until a drain completes
  algorithmIndex, \* how many of them were taken
  draining,       \* #draining
  drainScheduled, \* #drainScheduled
  callbacks,      \* drain callbacks the host holds
  refused,        \* history: the host refused the last drain it was asked for
  executing       \* the steps being executed

requestVars == <<drainScheduled, callbacks, refused>>
vars == <<algorithmQueue, algorithmIndex, draining, requestVars, executing>>

Init ==
  /\ algorithmQueue = <<>> /\ algorithmIndex = 0
  /\ draining = FALSE /\ drainScheduled = FALSE
  /\ callbacks = 0 /\ refused = FALSE
  /\ executing = None

\* Mutant: a request is not recorded, so that the next one is made again.
UnrecordedRequest(queue, index, busy, scheduled) ==
  IF index >= Len(queue) \/ busy
  THEN drainScheduled' = scheduled /\ UNCHANGED <<callbacks, refused>>
  ELSE drainScheduled' = TRUE /\ callbacks' = callbacks + 1 /\ refused' = FALSE

\* #requestDrain, for the array, the index and the flag its caller leaves.  The host
\* may refuse: the error reaches the caller, and the steps stay queued.
RequestDrain(queue, index, busy, scheduled) ==
  IF index >= Len(queue) \/ busy \/ scheduled
  THEN drainScheduled' = scheduled /\ UNCHANGED <<callbacks, refused>>
  ELSE \/ drainScheduled' = TRUE /\ callbacks' = callbacks + 1 /\ refused' = FALSE
       \/ drainScheduled' = FALSE /\ UNCHANGED callbacks /\ refused' = TRUE

\* By other code of the thread, or by the steps being executed.
Enqueue(s) ==
  /\ ~draining \/ executing # None
  /\ Len(algorithmQueue) < MaxQueue
  /\ algorithmQueue' = Append(algorithmQueue, s)
  /\ UNCHANGED <<algorithmIndex, draining, executing>>
  /\ RequestDrain(algorithmQueue', algorithmIndex, draining, drainScheduled)

BeginDrain ==
  /\ ~draining
  /\ callbacks > 0
  /\ callbacks' = callbacks - 1
  /\ drainScheduled' = FALSE
  /\ draining' = TRUE
  /\ UNCHANGED <<algorithmQueue, algorithmIndex, executing, refused>>

TakeSteps ==
  /\ draining /\ executing = None
  /\ algorithmIndex < Len(algorithmQueue)
  /\ executing' = algorithmQueue[algorithmIndex + 1]
  /\ algorithmIndex' = algorithmIndex + 1
  /\ UNCHANGED <<algorithmQueue, draining, requestVars>>

StepsReturn ==
  /\ executing # None
  /\ executing' = None
  /\ UNCHANGED <<algorithmQueue, algorithmIndex, draining, requestVars>>

\* Mutant: the error leaves the drain without a request for the steps behind it.
ThrowWithoutRequest ==
  /\ executing # None
  /\ executing' = None
  /\ draining' = FALSE
  /\ UNCHANGED <<algorithmQueue, algorithmIndex, requestVars>>

\* Mutant: steps that threw are tried again.
RetriedThrow ==
  /\ executing # None
  /\ executing' = None
  /\ draining' = FALSE
  /\ algorithmIndex' = algorithmIndex - 1
  /\ UNCHANGED algorithmQueue
  /\ RequestDrain(algorithmQueue, algorithmIndex', FALSE, drainScheduled)

\* The error leaves the drain, but not the steps behind it without a wake-up.
StepsThrow ==
  /\ executing # None
  /\ executing' = None
  /\ draining' = FALSE
  /\ UNCHANGED <<algorithmQueue, algorithmIndex>>
  /\ RequestDrain(algorithmQueue, algorithmIndex, FALSE, drainScheduled)

EndDrain ==
  /\ draining /\ executing = None
  /\ algorithmIndex >= Len(algorithmQueue)
  /\ algorithmQueue' = <<>> /\ algorithmIndex' = 0
  /\ draining' = FALSE
  /\ UNCHANGED executing
  /\ RequestDrain(<<>>, 0, FALSE, drainScheduled)

Drain == BeginDrain \/ TakeSteps \/ StepsReturn \/ StepsThrow \/ EndDrain

Next == Drain \/ \E s \in Steps : Enqueue(s)

Spec == Init /\ [][Next]_vars

\* The host runs the callbacks it accepted, and steps end.
FairSpec == Spec /\ WF_vars(Drain)
-----------------------------------------------------------------------------
TypeOK ==
  /\ algorithmQueue \in Seq(Steps)
  /\ algorithmIndex \in 0..Len(algorithmQueue)
  /\ draining \in BOOLEAN /\ drainScheduled \in BOOLEAN
  /\ callbacks \in Nat /\ refused \in BOOLEAN
  /\ executing \in Steps \cup {None}

\* One wake-up at a time, and never one that would enter a drain in progress
\* (#drain's reentrancy error cannot happen), whatever throws.
OneWakeup ==
  /\ callbacks = IF drainScheduled THEN 1 ELSE 0
  /\ drainScheduled => ~draining

\* Waiting steps have a wake-up unless the last one asked for was refused.
NoLostDrain ==
  ~draining /\ algorithmIndex < Len(algorithmQueue) => drainScheduled \/ refused

\* A drain is pending when one is needed, and no other, whatever throws and whenever
\* the host refuses.
DrainWhenNeeded == OneWakeup /\ NoLostDrain

\* The queue is a serial executor without early jobs.
Executor == INSTANCE SerialExecutor
  WITH Job <- Steps, Target <- {}, TargetOf <- [s \in Steps |-> None],
       waiting <- SubSeq(algorithmQueue, algorithmIndex + 1, Len(algorithmQueue)),
       now <- executing, nested <- None

\* Steps run once each, in order and one at a time, even when the host refuses drains.
SerialInOrder == Executor!SafeSpec

\* Unless the host refuses the last drain for good, no steps wait forever, whatever
\* throws before them.
ServesEveryStep == []<>~refused => Executor!Fairness
=============================================================================
