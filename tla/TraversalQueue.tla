--------------------------- MODULE TraversalQueue ---------------------------
(***************************************************************************)
(* The session history traversal queue of a traversable                    *)
(* (session-history-traversal-queue.ts) and the synchronous navigation     *)
(* steps that jump it (Traversable.runSynchronousNavigationSteps).         *)
(*                                                                         *)
(* An algorithm may wait on a promise and keep the queue occupied, also    *)
(* while it runs tagged steps ahead of the queue; those may wait as well.  *)
(* The synchronous entries in progress are the stack `entries'.            *)
(***************************************************************************)
EXTENDS Naturals, Sequences, SequencesExt

CONSTANTS
  Steps,         \* traversal steps; appended again only after they have run
  Navigable,
  None,
  TargetOf,      \* targetNavigable: [Steps -> Navigable \cup {None}]
  MaxPending     \* bound on the pending algorithms

ASSUME TraversalQueueAssumption ==
  /\ None \notin Steps /\ None \notin Navigable
  /\ TargetOf \in [Steps -> Navigable \cup {None}]
  /\ MaxPending \in Nat

VARIABLES
  algorithmSet,   \* pending algorithms, in insertion order
  running,        \* #running
  executing,      \* #executing
  drainScheduled, \* #drainScheduled
  callbacks,      \* drain callbacks the host holds
  refused,        \* history: runInParallel refused the last drain it was asked for
  occupant,       \* the algorithm the drain dequeued, until it completes
  jumping,        \* a call of runSynchronousNavigationSteps is in progress
  jumper,         \* the steps it selected, until they complete
  nestedApply,    \* runningNestedApplyHistoryStep
  waitingSet,     \* waitingNavigables, the caller's live set
  entries         \* synchronous entries in progress, innermost last

requestVars == <<drainScheduled, callbacks, refused>>
queueVars == <<algorithmSet, requestVars>>
jumpVars == <<jumping, jumper, nestedApply>>
vars == <<queueVars, running, executing, occupant, jumpVars, waitingSet, entries>>

\* drain: #drain; steps: the occupant's own; jump, resume: the selection loop inside
\* and outside runSteps; nested: selected steps.  `before' is what runSteps restores.
Entry == [kind : {"drain", "steps", "jump", "resume", "nested"}, before : BOOLEAN]

Init ==
  /\ algorithmSet = <<>>
  /\ running = FALSE /\ executing = FALSE
  /\ drainScheduled = FALSE /\ callbacks = 0 /\ refused = FALSE
  /\ occupant = None
  /\ jumping = FALSE /\ jumper = None /\ nestedApply = FALSE
  /\ waitingSet = {}
  /\ entries = <<>>

AtRest == entries = <<>>
TopIs(kinds) == ~AtRest /\ Last(entries).kind \in kinds
Enter(kind) == Append(entries, [kind |-> kind, before |-> executing])

\* #requestDrain, for the pending algorithms and the flag its caller leaves.  The
\* drain may be refused: the error reaches the caller.
RequestDrain(pending, occupied) ==
  IF pending = <<>> \/ occupied \/ drainScheduled
  THEN UNCHANGED requestVars
  ELSE \/ drainScheduled' = TRUE /\ callbacks' = callbacks + 1 /\ refused' = FALSE
       \/ UNCHANGED <<drainScheduled, callbacks>> /\ refused' = TRUE

\* Mutant: the queue is released without looking for what came in meanwhile.
ReleaseOnly == running' = FALSE /\ UNCHANGED requestVars

\* #finish
Finish == running' = FALSE /\ RequestDrain(algorithmSet, FALSE)

\* Mutant: a waiting algorithm does not hold back the request.
EagerAppend(s) ==
  /\ AtRest \/ TopIs({"steps", "nested"})
  /\ s \notin ToSet(algorithmSet) \cup {occupant, jumper}
  /\ Len(algorithmSet) < MaxPending
  /\ algorithmSet' = Append(algorithmSet, s)
  /\ UNCHANGED <<running, executing, occupant, jumpVars, waitingSet, entries>>
  /\ RequestDrain(algorithmSet', executing)

\* By other code of the thread, or by the steps in progress.
AppendSteps(s) ==
  /\ AtRest \/ TopIs({"steps", "nested"})
  /\ s \notin ToSet(algorithmSet) \cup {occupant, jumper}
  /\ Len(algorithmSet) < MaxPending
  /\ algorithmSet' = Append(algorithmSet, s)
  /\ UNCHANGED <<running, executing, occupant, jumpVars, waitingSet, entries>>
  /\ RequestDrain(algorithmSet', running)
-----------------------------------------------------------------------------
(* The drain *)

BeginDrain ==
  /\ AtRest
  /\ callbacks > 0
  /\ callbacks' = callbacks - 1
  /\ drainScheduled' = FALSE
  /\ running' = TRUE
  /\ entries' = Enter("drain")
  /\ UNCHANGED <<algorithmSet, refused, executing, occupant, jumpVars, waitingSet>>

TakeAlgorithm ==
  /\ TopIs({"drain"})
  /\ algorithmSet # <<>>
  /\ occupant' = Head(algorithmSet)
  /\ algorithmSet' = Tail(algorithmSet)
  /\ entries' = Enter("steps")
  /\ executing' = TRUE
  /\ UNCHANGED <<running, requestVars, jumpVars, waitingSet>>

\* The occupant ends only after its own jump has.
OccupantReturns ==
  /\ TopIs({"steps"}) /\ ~jumping
  /\ executing' = Last(entries).before
  /\ entries' = Front(entries)
  /\ occupant' = None
  /\ UNCHANGED <<queueVars, running, jumpVars, waitingSet>>

\* The steps return a promise: the drain returns with the queue occupied.
OccupantWaits ==
  /\ TopIs({"steps"})
  /\ executing' = Last(entries).before
  /\ entries' = Front(Front(entries))
  /\ UNCHANGED <<queueVars, running, occupant, jumpVars, waitingSet>>

OccupantThrows ==
  /\ TopIs({"steps"}) /\ ~jumping
  /\ executing' = Last(entries).before
  /\ entries' = Front(Front(entries))
  /\ occupant' = None
  /\ UNCHANGED <<algorithmSet, jumpVars, waitingSet>>
  /\ Finish

\* The occupant's promise is fulfilled or rejected, and observed.
OccupantSettles ==
  /\ AtRest /\ occupant # None /\ ~jumping
  /\ occupant' = None
  /\ UNCHANGED <<algorithmSet, executing, jumpVars, waitingSet, entries>>
  /\ Finish

EndDrain ==
  /\ TopIs({"drain"})
  /\ algorithmSet = <<>>
  /\ entries' = Front(entries)
  /\ UNCHANGED <<algorithmSet, executing, occupant, jumpVars, waitingSet>>
  /\ Finish
-----------------------------------------------------------------------------
(* Synchronous navigations jump the queue *)

\* From the occupant's steps or their asynchronous continuation.  A call made while
\* one is in progress finds nestedApply set, or comes from the same activity.
BeginJump(w) ==
  /\ TopIs({"steps"}) \/ (AtRest /\ occupant # None)
  /\ ~jumping
  /\ jumping' = TRUE
  /\ waitingSet' = w
  /\ entries' = Enter("jump")
  /\ executing' = TRUE
  /\ UNCHANGED <<queueVars, running, occupant, jumper, nestedApply>>

\* The caller changes the set while selected steps run or wait.
ChangeWaiting(w) ==
  /\ jumping /\ (TopIs({"nested"}) \/ AtRest)
  /\ waitingSet' = w
  /\ UNCHANGED <<queueVars, running, executing, occupant, jumpVars, entries>>

Eligible(s) == TargetOf[s] # None /\ TargetOf[s] \notin waitingSet

\* Mutant: any eligible steps are taken.
AnyEligible(i) == Eligible(algorithmSet[i])

FirstEligible(i) ==
  /\ Eligible(algorithmSet[i])
  /\ \A k \in 1..(i - 1) : ~Eligible(algorithmSet[k])

TakeJumper ==
  /\ TopIs({"jump", "resume"})
  /\ \E i \in DOMAIN algorithmSet :
       /\ FirstEligible(i)
       /\ jumper' = algorithmSet[i]
       /\ algorithmSet' = RemoveAt(algorithmSet, i)
  /\ nestedApply' = TRUE
  /\ entries' = Enter("nested")
  /\ executing' = TRUE
  /\ UNCHANGED <<running, requestVars, occupant, jumping, waitingSet>>

EndJump ==
  /\ TopIs({"jump", "resume"})
  /\ \A i \in DOMAIN algorithmSet : ~Eligible(algorithmSet[i])
  /\ jumping' = FALSE
  /\ executing' = Last(entries).before
  /\ entries' = Front(entries)
  /\ UNCHANGED <<queueVars, running, occupant, jumper, nestedApply, waitingSet>>

JumperReturns ==
  /\ TopIs({"nested"})
  /\ jumper' = None /\ nestedApply' = FALSE
  /\ executing' = Last(entries).before
  /\ entries' = Front(entries)
  /\ UNCHANGED <<queueVars, running, occupant, jumping, waitingSet>>

\* Selected steps return a promise: the selection loop returns too.
JumperWaits ==
  /\ TopIs({"nested"})
  /\ executing' = Last(Front(entries)).before
  /\ entries' = Front(Front(entries))
  /\ UNCHANGED <<queueVars, running, occupant, jumpVars, waitingSet>>

\* Mutant: the error path restores the flag of the inner entry only.
HalfRestoredThrow ==
  /\ TopIs({"nested"})
  /\ jumper' = None /\ jumping' = FALSE /\ nestedApply' = FALSE
  /\ executing' = Last(entries).before
  /\ entries' = Front(Front(entries))
  /\ UNCHANGED <<queueVars, running, occupant, waitingSet>>

\* An error of selected steps ends the jump; what it left stays queued.
JumperThrows ==
  /\ TopIs({"nested"})
  /\ jumper' = None /\ jumping' = FALSE /\ nestedApply' = FALSE
  /\ executing' = Last(Front(entries)).before
  /\ entries' = Front(Front(entries))
  /\ UNCHANGED <<queueVars, running, occupant, waitingSet>>

\* The promise of waiting selected steps is fulfilled: the loop selects again, outside runSteps.
JumperSettles ==
  /\ AtRest /\ jumper # None
  /\ jumper' = None /\ nestedApply' = FALSE
  /\ entries' = Enter("resume")
  /\ UNCHANGED <<queueVars, running, executing, occupant, jumping, waitingSet>>

JumperRejects ==
  /\ AtRest /\ jumper # None
  /\ jumper' = None /\ jumping' = FALSE /\ nestedApply' = FALSE
  /\ UNCHANGED <<queueVars, running, executing, occupant, waitingSet, entries>>
-----------------------------------------------------------------------------
Drain == BeginDrain \/ TakeAlgorithm \/ EndDrain
EndOccupant == OccupantReturns \/ OccupantWaits \/ OccupantThrows
Jump == TakeJumper \/ EndJump
EndJumper == JumperReturns \/ JumperWaits \/ JumperThrows

Next ==
  \/ Drain \/ EndOccupant \/ OccupantSettles
  \/ Jump \/ EndJumper \/ JumperSettles \/ JumperRejects
  \/ \E s \in Steps : AppendSteps(s)
  \/ \E w \in SUBSET Navigable : BeginJump(w) \/ ChangeWaiting(w)

Spec == Init /\ [][Next]_vars

\* The host runs the drains it accepted, entries end, and promises settle.
FairSpec ==
  /\ Spec
  /\ WF_vars(Drain) /\ SF_vars(EndOccupant) /\ SF_vars(OccupantSettles)
  /\ WF_vars(Jump) /\ WF_vars(EndJumper) /\ WF_vars(JumperSettles \/ JumperRejects)
-----------------------------------------------------------------------------
Tagged == {s \in Steps : TargetOf[s] # None}

TypeOK ==
  /\ algorithmSet \in Seq(Steps)
  /\ running \in BOOLEAN /\ executing \in BOOLEAN
  /\ drainScheduled \in BOOLEAN /\ callbacks \in Nat /\ refused \in BOOLEAN
  /\ occupant \in Steps \cup {None}
  /\ jumper \in Tagged \cup {None}
  /\ jumping \in BOOLEAN /\ nestedApply \in BOOLEAN
  /\ waitingSet \subseteq Navigable
  /\ entries \in Seq(Entry)

\* One drain is pending at a time, and none while an algorithm occupies the queue:
\* a drain would run its successor next to a suspended algorithm.
OneWakeup ==
  /\ callbacks = IF drainScheduled THEN 1 ELSE 0
  /\ drainScheduled => ~running

\* Pending algorithms of a released queue have a drain coming, unless the last one asked
\* for was refused.
NoLostDrain == ~running /\ algorithmSet # <<>> => drainScheduled \/ refused

\* A drain is pending exactly when the queue is released with algorithms to run.
DrainWhenNeeded == OneWakeup /\ NoLostDrain

\* The queue says it is executing exactly while steps of its own are on the stack:
\* applyHistoryStep relies on it to tell its callers from suspended algorithms.
ExecutingInsideSteps ==
  executing <=> \E i \in DOMAIN entries : entries[i].kind \in {"steps", "jump", "nested"}

\* Selected steps run in an occupied queue, and the guard against nested
\* applications is set exactly while they run or wait.
JumpsAreGuarded ==
  /\ nestedApply <=> jumper # None
  /\ jumper # None => jumping
  /\ jumping => running /\ occupant # None

\* Both flags that its callers and nested applications trust are exact, through every
\* nesting, suspension and error.
FlagsAreExact == ExecutingInsideSteps /\ JumpsAreGuarded

\* The queue serializes, with early runs in the order of their target.
Executor == INSTANCE SerialExecutor
  WITH Job <- Steps, Target <- Navigable, waiting <- algorithmSet, now <- occupant, nested <- jumper

\* Suspension, nesting and errors lose, repeat, overlap or reorder no algorithm,
\* and steps of one navigable never overtake each other.
SerialWithJumps == Executor!SafeSpec

\* Provided every jump comes to an end and the host does not refuse for good, every
\* appended algorithm starts.
EveryAlgorithmStarts ==
  []<>~jumping /\ []<>~refused =>
    \A s \in Steps : s \in ToSet(algorithmSet) ~> s \notin ToSet(algorithmSet)
=============================================================================
