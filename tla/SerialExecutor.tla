--------------------------- MODULE SerialExecutor ---------------------------
(***************************************************************************)
(* What HTML's parallel queues promise: jobs run one at a time, in the     *)
(* order of their submission, and each job gets its turn.  A job tagged    *)
(* with a target may run early, nested in the job whose turn it is, but    *)
(* never before an earlier job of the same target.                         *)
(***************************************************************************)
EXTENDS Naturals, Sequences, SequencesExt

CONSTANTS
  Job,
  Target,   \* what tagged jobs are tagged with
  None,
  TargetOf  \* [Job -> Target \cup {None}]

VARIABLES
  waiting,  \* submitted jobs that have not started
  now,      \* the job whose turn it is
  nested    \* the tagged job running inside it

vars == <<waiting, now, nested>>

Init == waiting = <<>> /\ now = None /\ nested = None

Submit(j) ==
  /\ waiting' = Append(waiting, j)
  /\ UNCHANGED <<now, nested>>

Start ==
  /\ now = None /\ nested = None
  /\ waiting # <<>>
  /\ now' = Head(waiting)
  /\ waiting' = Tail(waiting)
  /\ UNCHANGED nested

Finish ==
  /\ now # None /\ nested = None
  /\ now' = None
  /\ UNCHANGED <<waiting, nested>>

Jump(i) ==
  /\ now # None /\ nested = None
  /\ TargetOf[waiting[i]] # None
  /\ \A k \in 1..(i - 1) : TargetOf[waiting[k]] # TargetOf[waiting[i]]
  /\ nested' = waiting[i]
  /\ waiting' = RemoveAt(waiting, i)
  /\ UNCHANGED now

EndJump ==
  /\ nested # None
  /\ nested' = None
  /\ UNCHANGED <<waiting, now>>

Next ==
  \/ \E j \in Job : Submit(j)
  \/ Start \/ Finish \/ EndJump
  \/ \E i \in DOMAIN waiting : Jump(i)

SafeSpec == Init /\ [][Next]_vars

\* Every job ends, and an executor with waiting jobs does not sleep.
Fairness == WF_vars(Start) /\ WF_vars(Finish) /\ WF_vars(EndJump)

Spec == SafeSpec /\ Fairness
=============================================================================
