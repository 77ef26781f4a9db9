----------------------------- MODULE EventLoop ------------------------------
(***************************************************************************)
(* The event loop of one agent (browlet/scripting/event-loop.ts): task     *)
(* queues by source, host turns, microtask checkpoints, script entries,    *)
(* the pause and spin algorithms, and the shutdown of a closing worker.    *)
(*                                                                         *)
(* JavaScript runs to completion on one host thread.  The synchronous      *)
(* activities in progress are the stack `frames'; nothing but the top one  *)
(* acts, and a host turn starts only when the stack is empty.              *)
(***************************************************************************)
EXTENDS Integers, Sequences, SequencesExt

CONSTANTS
  Task,          \* task identities; one is reused once its steps have run
  Source,        \* task sources
  Document,      \* documents of this agent
  None,          \* null
  Microtask,     \* the Task object of the microtask being run
  HostEntry,     \* the temporary task of runScriptEvaluation
  SourceOf,      \* [Task -> Source]
  DocumentOf,    \* [Task -> Document \cup {None}]
  Gated,         \* tasks with an isRunnable condition of their own
  Owned,         \* tasks whose owner waits for steps or discardSteps
  IdleTask,      \* tasks only an idle period queues
  Spinner,       \* tasks whose steps may spin the event loop
  IsWindow,      \* WindowAgent, otherwise a dedicated or shared worker's
  Ambient,       \* stock Node microtask queue instead of an explicit one
  MaxMicrotasks, \* bound on pending microtasks
  MaxFrames      \* bound on nested synchronous activities

ASSUME ConstantAssumption ==
  /\ SourceOf \in [Task -> Source]
  /\ DocumentOf \in [Task -> Document \cup {None}]
  /\ {None, Microtask, HostEntry} \cap Task = {}
  /\ None # Microtask /\ None # HostEntry /\ Microtask # HostEntry
  /\ None \notin Document
  /\ Gated \subseteq Task /\ Owned \subseteq Task
  /\ IdleTask \subseteq Task /\ Spinner \subseteq Task
  /\ IsWindow \in BOOLEAN /\ Ambient \in BOOLEAN
  /\ MaxMicrotasks \in Nat /\ MaxFrames \in Nat

VARIABLES
  fate,                \* where each task is; a queued one is in its source's queue
  ahead,               \* the insertion order of the queues: the tasks ahead of each task
  queueOrder,          \* #taskQueues: the sources in the order their queues were created
  active,              \* the fully active documents
  enabled,             \* the gated tasks whose own condition holds
  microtasks,          \* jobs in the engine's microtask queue
  unannounced,         \* history: how many of them a nested direct evaluation left behind
  rejections,          \* #rejectedPromiseEnvironments is not empty
  current,             \* #currentlyRunningTask
  turnTask,            \* the task runTaskTurn took
  runningTaskTurn,     \* #runningTaskTurn
  performing,          \* #performingMicrotaskCheckpoint
  checkpointRequested, \* #microtaskCheckpointRequested
  idleRequested,       \* #idlePeriodRequested
  turnRequested,       \* #turnRequested
  paused,              \* #paused
  closing,             \* the worker global's closing flag
  destroyed,           \* #destroyed
  frames,              \* synchronous activities in progress, innermost last
  contexts,            \* the length of executionContextStack
  saved                \* how many script entries each spun task took with it

queueVars == <<fate, ahead, queueOrder>>
readiness == <<active, enabled>>
microtaskVars == <<microtasks, unannounced>>
checkpointVars == <<performing, checkpointRequested>>
stackVars == <<frames, contexts, saved>>
turnVars == <<turnTask, runningTaskTurn>>
lifeVars == <<paused, closing, destroyed>>
vars == <<queueVars, readiness, microtaskVars, rejections, current, turnVars,
          checkpointVars, idleRequested, turnRequested, lifeVars, stackVars>>

Frame == [kind : {"turn", "spun", "endTurn", "endCheckpoint", "script", "host",
                  "platform", "drain", "tick", "microtask", "pause"},
          flag : BOOLEAN,   \* script: it was entered with a task; microtask: the saved `performing'
          base : Nat]       \* contexts below this activity

Fate == {"idle", "queued", "running", "spun", "waiting", "lost"}

NewFrame(kind, flag) == [kind |-> kind, flag |-> flag, base |-> contexts]
AtRest == frames = <<>>
TopIs(kinds) == ~AtRest /\ Last(frames).kind \in kinds

\* Code that can call into the loop: author or host steps, not the loop's own tails.
Running == TopIs({"turn", "script", "platform", "microtask"})
HostCode == AtRest \/ Running \/ TopIs({"pause"})
Nestable == Len(frames) < MaxFrames

Init ==
  /\ fate = [t \in Task |-> "idle"]
  /\ ahead = [t \in Task |-> {}]
  /\ queueOrder = <<>>
  /\ active \in SUBSET Document
  /\ enabled = {}
  /\ microtasks = 0 /\ unannounced = 0
  /\ rejections = FALSE
  /\ current = None /\ turnTask = None
  /\ runningTaskTurn = FALSE /\ performing = FALSE
  /\ checkpointRequested = FALSE /\ idleRequested = FALSE /\ turnRequested = FALSE
  /\ paused = FALSE /\ closing = FALSE /\ destroyed = FALSE
  /\ frames = <<>> /\ contexts = 0
  /\ saved = [t \in Task |-> 0]

-----------------------------------------------------------------------------
(* Readiness and the request for a host turn *)

IsRunnable(t) ==
  /\ t \in Gated => t \in enabled
  /\ DocumentOf[t] # None => DocumentOf[t] \in active

Queue(s) == {t \in Task : fate[t] = "queued" /\ SourceOf[t] = s}
RunnableIn(s) == {t \in Queue(s) : IsRunnable(t)}
HasRunnableTasks == \E s \in Source : RunnableIn(s) # {}

WorkerReadyToFinish ==
  /\ ~IsWindow /\ closing
  /\ \A s \in Source : Queue(s) = {}

NeedsTurn ==
  /\ ~destroyed /\ ~paused
  /\ checkpointRequested \/ idleRequested \/ HasRunnableTasks \/ WorkerReadyToFinish

RequestTurnIfNeeded == turnRequested' = (turnRequested \/ NeedsTurn')

\* #getTaskQueue creates the queue of a source on first use.
OpenQueue(s) ==
  queueOrder' = IF s \in ToSet(queueOrder) THEN queueOrder ELSE Append(queueOrder, s)

\* A dropped task's owner, if it waits for one, is not told.
Dropped(t) == IF t \in Owned \/ fate[t] = "waiting" THEN "lost" ELSE "idle"

EnqueueTask(t) ==
  IF destroyed \/ closing
  THEN /\ fate' = [fate EXCEPT ![t] = Dropped(t)]
       /\ UNCHANGED <<ahead, queueOrder>>
  ELSE /\ fate' = [fate EXCEPT ![t] = "queued"]
       /\ ahead' = [ahead EXCEPT ![t] = Queue(SourceOf[t])]
       /\ OpenQueue(SourceOf[t])

\* Take the tasks ts out of their queues, each to its new fate.
Dequeue(ts, to) ==
  /\ fate' = [t \in Task |-> IF t \in ts THEN to[t] ELSE fate[t]]
  /\ ahead' = [t \in Task |-> IF t \in ts THEN {} ELSE ahead[t] \ ts]

\* Removal runs the owners' discardSteps: they know the task is gone.
Discard(ts) == Dequeue(ts, [t \in ts |-> "idle"])

QueueTask(t) ==
  /\ HostCode
  /\ t \notin IdleTask /\ fate[t] = "idle"
  /\ EnqueueTask(t)
  /\ UNCHANGED <<readiness, microtaskVars, rejections, current, turnVars, checkpointVars,
                 idleRequested, lifeVars, stackVars>>
  /\ RequestTurnIfNeeded

RemoveTask(t) ==
  /\ HostCode
  /\ fate[t] = "queued"
  /\ Discard({t})
  /\ UNCHANGED <<queueOrder, readiness, microtaskVars, rejections, current, turnVars,
                 checkpointVars, idleRequested, turnRequested, lifeVars, stackVars>>

RemoveTasksForDocument(d) ==
  /\ HostCode
  /\ Discard({t \in Task : fate[t] = "queued" /\ DocumentOf[t] = d})
  /\ UNCHANGED <<queueOrder, readiness, microtaskVars, rejections, current, turnVars,
                 checkpointVars, idleRequested, turnRequested, lifeVars, stackVars>>

\* Mutant: the idle flag is kept up to date, but no turn is requested.
SilentRunnabilityChange ==
  /\ \/ IsWindow /\ idleRequested' = TRUE
     \/ UNCHANGED idleRequested
  /\ UNCHANGED turnRequested

\* Some window of the agent may hold idle callbacks when readiness changes.
NotifyTaskRunnabilityChanged ==
  /\ \/ IsWindow /\ idleRequested' = TRUE
     \/ UNCHANGED idleRequested
  /\ RequestTurnIfNeeded

MakeFullyActive(d) ==
  /\ HostCode
  /\ d \notin active
  /\ active' = active \cup {d}
  /\ UNCHANGED <<queueVars, enabled, microtaskVars, rejections, current, turnVars,
                 checkpointVars, lifeVars, stackVars>>
  /\ NotifyTaskRunnabilityChanged

MakeInactive(d) ==
  /\ HostCode
  /\ d \in active
  /\ active' = active \ {d}
  /\ UNCHANGED <<queueVars, enabled, microtaskVars, rejections, current, turnVars, checkpointVars,
                 idleRequested, turnRequested, lifeVars, stackVars>>

EnableTask(t) ==
  /\ HostCode
  /\ t \in Gated \ enabled
  /\ enabled' = enabled \cup {t}
  /\ UNCHANGED <<queueVars, active, microtaskVars, rejections, current, turnVars, checkpointVars,
                 lifeVars, stackVars>>
  /\ NotifyTaskRunnabilityChanged

RequestIdlePeriod ==
  /\ HostCode /\ IsWindow
  /\ idleRequested' = TRUE
  /\ UNCHANGED <<queueVars, readiness, microtaskVars, rejections, current, turnVars,
                 checkpointVars, lifeVars, stackVars>>
  /\ RequestTurnIfNeeded

\* WorkerGlobalScope.close(): the queues are cleared without telling the owners.
Close ==
  /\ Running /\ ~IsWindow /\ ~closing
  /\ Dequeue({t \in Task : fate[t] = "queued"}, [t \in Task |-> Dropped(t)])
  /\ closing' = TRUE
  /\ UNCHANGED <<queueOrder, readiness, microtaskVars, rejections, current, turnVars,
                 checkpointVars, paused, destroyed, stackVars>>
  /\ NotifyTaskRunnabilityChanged
-----------------------------------------------------------------------------
(* Microtasks and checkpoints *)

\* performMicrotaskCheckpoint, called by the activity on top of fs.
BeginCheckpoint(fs) ==
  IF destroyed \/ paused \/ performing
  THEN frames' = fs /\ UNCHANGED checkpointVars
  ELSE /\ frames' = Append(fs, [kind |-> "drain", flag |-> FALSE, base |-> contexts'])
       /\ performing' = TRUE
       /\ checkpointRequested' = FALSE

\* Mutants: an outstanding request is taken to be for a checkpoint; a turn is
\* requested, but not a checkpoint.
CoalescedCheckpointRequest ==
  IF current = None /\ ~runningTaskTurn /\ ~performing /\ ~turnRequested
  THEN checkpointRequested' = TRUE /\ RequestTurnIfNeeded
  ELSE UNCHANGED <<checkpointRequested, turnRequested>>
TurnOnlyRequest ==
  turnRequested' = TRUE /\ UNCHANGED checkpointRequested

RequestMicrotaskCheckpoint ==
  IF current = None /\ ~runningTaskTurn /\ ~performing
  THEN checkpointRequested' = TRUE /\ RequestTurnIfNeeded
  ELSE UNCHANGED <<checkpointRequested, turnRequested>>

\* A direct evaluation inside a script entry that was made without a task: its
\* temporary task stands for a drain to come, but no later exit performs one.
NestedEvaluation ==
  /\ ~runningTaskTurn
  /\ \E i \in DOMAIN frames : frames[i].kind = "host" /\ frames[i].base > 0

QueueMicrotask ==
  /\ HostCode
  /\ ~destroyed
  /\ microtasks < MaxMicrotasks
  /\ microtasks' = microtasks + 1
  /\ unannounced' = IF NestedEvaluation THEN unannounced + 1 ELSE unannounced
  /\ UNCHANGED <<queueVars, readiness, rejections, current, turnVars, performing,
                 idleRequested, lifeVars, stackVars>>
  /\ RequestMicrotaskCheckpoint

ScheduleRejectedPromiseNotification ==
  /\ Running
  /\ ~destroyed
  /\ rejections' = TRUE
  /\ UNCHANGED <<queueVars, readiness, microtaskVars, current, turnVars, checkpointVars,
                 idleRequested, turnRequested, lifeVars, stackVars>>

RunMicrotask ==
  /\ TopIs({"drain", "tick"})
  /\ microtasks > 0
  /\ microtasks' = microtasks - 1
  /\ unannounced' = 0
  /\ frames' = Append(frames, NewFrame("microtask", performing))
  /\ performing' = TRUE
  /\ current' = Microtask
  /\ UNCHANGED <<queueVars, readiness, rejections, turnVars, checkpointRequested,
                 idleRequested, turnRequested, lifeVars, contexts, saved>>

\* Mutant: the finished microtask stays the current task.
MicrotaskStaysCurrent ==
  /\ TopIs({"microtask"})
  /\ frames' = Front(frames)
  /\ performing' = Last(frames).flag
  /\ UNCHANGED <<queueVars, readiness, microtaskVars, rejections, current, turnVars,
                 checkpointRequested, idleRequested, turnRequested, lifeVars, contexts, saved>>

MicrotaskReturns ==
  /\ TopIs({"microtask"})
  /\ frames' = Front(frames)
  /\ performing' = Last(frames).flag
  /\ current' = None
  /\ UNCHANGED <<queueVars, readiness, microtaskVars, rejections, turnVars, checkpointRequested,
                 idleRequested, turnRequested, lifeVars, contexts, saved>>

\* The queue is drained: notify the environments with rejected promises, each of
\* which queues a task when its list is not empty.
EndCheckpoint ==
  /\ TopIs({"drain"})
  /\ microtasks = 0
  /\ frames' = Front(frames)
  /\ performing' = FALSE
  /\ rejections' = FALSE
  /\ \/ /\ rejections
        /\ \E t \in Task \ IdleTask : fate[t] = "idle" /\ EnqueueTask(t)
     \/ UNCHANGED queueVars
  /\ UNCHANGED <<readiness, microtaskVars, current, turnVars, checkpointRequested,
                 idleRequested, lifeVars, contexts, saved>>
  /\ RequestTurnIfNeeded

\* performMicrotaskCheckpointIfStackEmpty: the parser, from its own steps.
ParserCheckpoint ==
  /\ AtRest \/ TopIs({"turn"})
  /\ contexts = 0 /\ Nestable
  /\ UNCHANGED contexts
  /\ BeginCheckpoint(frames)
  /\ UNCHANGED <<queueVars, readiness, microtaskVars, rejections, current, turnVars,
                 idleRequested, turnRequested, lifeVars, saved>>

\* Stock Node drains its one queue after every host callback, outside HTML's checkpoints.
NodeTick ==
  /\ Ambient
  /\ AtRest /\ microtasks > 0
  /\ frames' = <<NewFrame("tick", FALSE)>>
  /\ UNCHANGED <<queueVars, readiness, microtaskVars, rejections, current, turnVars,
                 checkpointVars, idleRequested, turnRequested, lifeVars, contexts, saved>>

NodeTickReturns ==
  /\ TopIs({"tick"})
  /\ microtasks = 0
  /\ frames' = Front(frames)
  /\ UNCHANGED <<queueVars, readiness, microtaskVars, rejections, current, turnVars,
                 checkpointVars, idleRequested, turnRequested, lifeVars, contexts, saved>>
-----------------------------------------------------------------------------
(* Script, host and platform entries *)

PrepareToRunScript ==
  /\ AtRest \/ Running
  /\ Nestable
  /\ frames' = Append(frames, NewFrame("script", current # None))
  /\ contexts' = contexts + 1
  /\ UNCHANGED <<queueVars, readiness, microtaskVars, rejections, current, turnVars,
                 checkpointVars, idleRequested, turnRequested, lifeVars, saved>>

\* Mutant: the checkpoint follows every script entry made with a task.
NestedCheckpointDue(entered) == entered \/ runningTaskTurn

CheckpointDue(entered) == (entered \/ runningTaskTurn) /\ contexts' = 0

CleanUpAfterRunningScript ==
  /\ TopIs({"script"})
  /\ contexts' = contexts - 1
  /\ IF CheckpointDue(Last(frames).flag)
     THEN BeginCheckpoint(Front(frames))
     ELSE frames' = Front(frames) /\ UNCHANGED checkpointVars
  /\ UNCHANGED <<queueVars, readiness, microtaskVars, rejections, current, turnVars,
                 idleRequested, turnRequested, lifeVars, saved>>

\* runScriptEvaluation with no current task: a temporary one stands in.  With a
\* current task it is PrepareToRunScript.
RunScriptEvaluation ==
  /\ AtRest \/ Running
  /\ current = None
  /\ Len(frames) + 1 < MaxFrames
  /\ current' = HostEntry
  /\ frames' = Append(Append(frames, NewFrame("host", FALSE)), NewFrame("script", TRUE))
  /\ contexts' = contexts + 1
  /\ UNCHANGED <<queueVars, readiness, microtaskVars, rejections, turnVars, checkpointVars,
                 idleRequested, turnRequested, lifeVars, saved>>

FinishHostScriptEntry ==
  /\ TopIs({"host"})
  /\ current' = None
  /\ frames' = Front(frames)
  /\ UNCHANGED <<queueVars, readiness, microtaskVars, rejections, turnVars, checkpointVars,
                 idleRequested, turnRequested, lifeVars, contexts, saved>>

RunPlatformCall ==
  /\ TopIs({"script", "platform"}) /\ Nestable
  /\ frames' = Append(frames, NewFrame("platform", FALSE))
  /\ contexts' = contexts + 1
  /\ UNCHANGED <<queueVars, readiness, microtaskVars, rejections, current, turnVars,
                 checkpointVars, idleRequested, turnRequested, lifeVars, saved>>

PlatformCallReturns ==
  /\ TopIs({"platform"})
  /\ frames' = Front(frames)
  /\ contexts' = contexts - 1
  /\ UNCHANGED <<queueVars, readiness, microtaskVars, rejections, current, turnVars,
                 checkpointVars, idleRequested, turnRequested, lifeVars, saved>>
-----------------------------------------------------------------------------
(* Pausing and spinning *)

\* pauseUntil throws, changing nothing, when there is no current task or the
\* loop is paused already.
Pause ==
  /\ Running /\ Nestable
  /\ current # None /\ ~paused
  /\ paused' = TRUE
  /\ frames' = Append(frames, NewFrame("pause", FALSE))
  /\ UNCHANGED <<queueVars, readiness, microtaskVars, rejections, current, turnVars, checkpointVars,
                 idleRequested, turnRequested, closing, destroyed, contexts, saved>>

Unpause ==
  /\ TopIs({"pause"})
  /\ paused' = FALSE
  /\ frames' = Front(frames)
  /\ UNCHANGED <<queueVars, readiness, microtaskVars, rejections, current, turnVars, checkpointVars,
                 idleRequested, closing, destroyed, contexts, saved>>
  /\ RequestTurnIfNeeded

\* The task's script entries are set aside for its continuation, a checkpoint
\* runs, and the task's steps return.
SpinUntil(t) ==
  /\ t \in Spinner /\ current = t /\ Running
  /\ \A i \in 2..Len(frames) : frames[i].kind = "script"
  /\ saved' = [saved EXCEPT ![t] = contexts]
  /\ fate' = [fate EXCEPT ![t] = "spun"]
  /\ contexts' = 0
  /\ BeginCheckpoint(<<[frames[1] EXCEPT !.kind = "spun"]>>)
  /\ UNCHANGED <<ahead, queueOrder, readiness, microtaskVars, rejections, current, turnVars,
                 idleRequested, turnRequested, lifeVars>>

\* The host turn spinUntil asked for registers the wait.
RegisterWait(t) ==
  /\ AtRest /\ ~destroyed
  /\ fate[t] = "spun"
  /\ fate' = [fate EXCEPT ![t] = "waiting"]
  /\ UNCHANGED <<ahead, queueOrder, readiness, microtaskVars, rejections, current, turnVars,
                 checkpointVars, idleRequested, turnRequested, lifeVars, stackVars>>

\* The wait calls ready(): the suspended task is queued again, once.
Ready(t) ==
  /\ HostCode
  /\ fate[t] = "waiting"
  /\ EnqueueTask(t)
  /\ UNCHANGED <<readiness, microtaskVars, rejections, current, turnVars, checkpointVars,
                 idleRequested, lifeVars, stackVars>>
  /\ RequestTurnIfNeeded
-----------------------------------------------------------------------------
(* Host turns *)

\* #startIdlePeriod: with no runnable task, a window may queue its idle task.
StartIdlePeriod ==
  /\ idleRequested' = FALSE
  /\ \/ /\ IsWindow /\ ~HasRunnableTasks
        /\ \E t \in IdleTask : fate[t] = "idle" /\ IsRunnable(t) /\ EnqueueTask(t)
     \/ UNCHANGED queueVars

\* #finishWorkerTurn: a closing worker with empty queues is destroyed.
FinishWorkerTurn ==
  IF ~destroyed /\ ~checkpointRequested /\ WorkerReadyToFinish
  THEN destroyed' = TRUE /\ rejections' = FALSE
  ELSE UNCHANGED <<destroyed, rejections>>

\* Mutant: the turn callback clears the request without looking for more work.
TurnCallbackStops == turnRequested' = FALSE

\* The host turn's finally block.
FinishTurnCallback == turnRequested' = NeedsTurn'

BeginHostTurn == AtRest /\ turnRequested /\ ~destroyed /\ ~paused

RunCheckpointTurn ==
  /\ BeginHostTurn
  /\ checkpointRequested
  /\ UNCHANGED contexts
  /\ BeginCheckpoint(<<NewFrame("endCheckpoint", FALSE)>>)
  /\ UNCHANGED <<queueVars, readiness, microtaskVars, rejections, current, turnVars,
                 idleRequested, turnRequested, lifeVars, saved>>

\* selectFirstTaskQueue: the earliest created queue with a runnable task.
SelectedSource(s) ==
  \E i \in DOMAIN queueOrder :
    /\ s = queueOrder[i] /\ RunnableIn(s) # {}
    /\ \A j \in 1..(i - 1) : RunnableIn(queueOrder[j]) = {}

\* The frames of a task turn whose steps start inside n resumed script entries.
TurnFrames(n) ==
  [i \in 1..(n + 1) |->
     IF i = 1 THEN [kind |-> "turn", flag |-> FALSE, base |-> 0]
              ELSE [kind |-> "script", flag |-> TRUE, base |-> i - 2]]

RunTaskTurn(t) ==
  /\ BeginHostTurn
  /\ ~checkpointRequested
  /\ t \in RunnableIn(SourceOf[t]) /\ SelectedSource(SourceOf[t])
  /\ ahead[t] \cap RunnableIn(SourceOf[t]) = {}
  /\ Dequeue({t}, [u \in {t} |-> "running"])
  /\ runningTaskTurn' = TRUE
  /\ turnTask' = t /\ current' = t
  /\ frames' = TurnFrames(saved[t])
  /\ contexts' = saved[t]
  /\ saved' = [saved EXCEPT ![t] = 0]
  /\ UNCHANGED <<queueOrder, readiness, microtaskVars, rejections, checkpointVars,
                 idleRequested, turnRequested, lifeVars>>

RunEmptyTurn ==
  /\ BeginHostTurn
  /\ ~checkpointRequested /\ ~HasRunnableTasks
  /\ StartIdlePeriod
  /\ FinishWorkerTurn
  /\ UNCHANGED <<readiness, microtaskVars, current, turnVars, checkpointVars, paused, closing,
                 stackVars>>
  /\ FinishTurnCallback

\* The task's steps return or throw; the turn's own checkpoint follows.
TaskStepsReturn ==
  /\ TopIs({"turn", "spun"})
  /\ current' = None
  /\ turnTask' = None
  /\ fate' = [fate EXCEPT ![turnTask] = IF @ = "running" THEN "idle" ELSE @]
  /\ UNCHANGED contexts
  /\ BeginCheckpoint(<<[frames[1] EXCEPT !.kind = "endTurn"]>>)
  /\ UNCHANGED <<ahead, queueOrder, readiness, microtaskVars, rejections, runningTaskTurn,
                 idleRequested, turnRequested, lifeVars, saved>>

HostTurnReturns ==
  /\ TopIs({"endTurn", "endCheckpoint"})
  /\ frames' = Front(frames)
  /\ runningTaskTurn' = FALSE
  /\ StartIdlePeriod
  /\ FinishWorkerTurn
  /\ UNCHANGED <<readiness, microtaskVars, current, turnTask, checkpointVars, paused, closing,
                 contexts, saved>>
  /\ FinishTurnCallback

\* Stock Node's tick throws out of the turn's own checkpoint: the notifications,
\* the idle period and the worker's completion are skipped.
HostTurnThrows ==
  /\ Ambient
  /\ TopIs({"drain"}) /\ Len(frames) = 2
  /\ frames[1].kind \in {"endTurn", "endCheckpoint"}
  /\ frames' = <<>>
  /\ performing' = FALSE /\ runningTaskTurn' = FALSE
  /\ UNCHANGED <<queueVars, readiness, microtaskVars, rejections, current, turnTask,
                 checkpointRequested, idleRequested, lifeVars, contexts, saved>>
  /\ FinishTurnCallback
-----------------------------------------------------------------------------
HostTurn ==
  \/ RunCheckpointTurn
  \/ \E t \in Task : RunTaskTurn(t)
  \/ RunEmptyTurn

\* The steps that bring the activities in progress to their end.
Unwind ==
  \/ RunMicrotask \/ MicrotaskReturns \/ EndCheckpoint
  \/ CleanUpAfterRunningScript \/ FinishHostScriptEntry \/ PlatformCallReturns
  \/ Unpause \/ TaskStepsReturn \/ HostTurnReturns \/ NodeTickReturns \/ HostTurnThrows

\* What author code, the host and the algorithms in parallel may do.
Environment ==
  \/ \E t \in Task : QueueTask(t) \/ RemoveTask(t) \/ EnableTask(t)
                     \/ SpinUntil(t) \/ RegisterWait(t) \/ Ready(t)
  \/ \E d \in Document : RemoveTasksForDocument(d) \/ MakeFullyActive(d) \/ MakeInactive(d)
  \/ RequestIdlePeriod \/ Close
  \/ QueueMicrotask \/ ScheduleRejectedPromiseNotification \/ ParserCheckpoint
  \/ PrepareToRunScript \/ RunScriptEvaluation \/ RunPlatformCall
  \/ Pause \/ NodeTick

Next == HostTurn \/ Unwind \/ Environment

Spec == Init /\ [][Next]_vars

\* The host runs every callback it was asked for: setImmediate is served however
\* many other callbacks come in between.
FairSpec == Spec /\ SF_vars(HostTurn) /\ WF_vars(Unwind)
-----------------------------------------------------------------------------
(* What the loop promises *)

TypeOK ==
  /\ fate \in [Task -> Fate]
  /\ ahead \in [Task -> SUBSET Task]
  /\ queueOrder \in Seq(Source)
  /\ active \subseteq Document /\ enabled \subseteq Gated
  /\ microtasks \in Nat /\ unannounced \in 0..microtasks /\ contexts \in Nat
  /\ current \in Task \cup {None, Microtask, HostEntry}
  /\ turnTask \in Task \cup {None}
  /\ rejections \in BOOLEAN /\ runningTaskTurn \in BOOLEAN
  /\ performing \in BOOLEAN /\ checkpointRequested \in BOOLEAN
  /\ idleRequested \in BOOLEAN /\ turnRequested \in BOOLEAN
  /\ paused \in BOOLEAN /\ closing \in BOOLEAN /\ destroyed \in BOOLEAN
  /\ frames \in Seq(Frame)
  /\ saved \in [Task -> Nat]

\* No lost wake-up: whenever the loop has something a host turn would do, a
\* turn is already requested, whatever the order of queueing, removal, document
\* activation, pausing and closing that led there (#requestTurnIfNeeded's callers).
NoLostWakeup == NeedsTurn => turnRequested

\* No stranded microtask: once the host is back at rest, a pending microtask has
\* a checkpoint requested, so that it never waits for unrelated work
\* (requestMicrotaskCheckpoint skips the request when it expects another drain).
\* The one exception is what direct evaluations left behind that were nested in
\* a script entry without a task: EvaluationsCheckpoint.
NoStrandedMicrotask ==
  AtRest /\ microtasks > unannounced /\ ~Ambient => checkpointRequested

\* A checkpoint runs microtasks only over an empty execution context stack,
\* through nested entries, platform calls and spins.
CheckpointOnEmptyStack ==
  \A i \in DOMAIN frames : frames[i].kind = "drain" => frames[i].base = 0

\* Back at rest nothing of the last activity is left: no current task, context,
\* checkpoint, turn or pause, whichever entries and spins were nested in it.
RestIsClean ==
  AtRest => /\ current = None /\ turnTask = None /\ contexts = 0
            /\ ~performing /\ ~runningTaskTurn /\ ~paused

\* When a turn reaches its end every microtask it caused has run.
TurnEndsDrained ==
  TopIs({"endTurn", "endCheckpoint"}) => microtasks = 0

\* A destroyed worker loop has nothing left to run: no queued task, promised host
\* turn or pending microtask (#finishWorkerTurn's guards), except for those that
\* nested direct evaluations left behind.
DestroyedIsDrained ==
  destroyed => /\ ~Ambient => microtasks = unannounced
               /\ \A t \in Task : fate[t] # "queued"
               /\ AtRest => ~turnRequested

\* A task starts only when no microtask is pending (runTaskTurn against the
\* checkpoint branch of the turn callback), except for those that nested direct
\* evaluations left behind.
TasksStartDrained ==
  [][\A t \in Task : fate[t] = "queued" /\ fate'[t] = "running" =>
       microtasks = unannounced \/ Ambient]_vars

\* Direct evaluation supplies a temporary task when necessary and checkpoints after
\* the last context exits (EVENT-LOOP-ARCHITECTURE.md): with every context exited,
\* no microtask is pending that nobody was asked to run.
EvaluationsCheckpoint ==
  AtRest /\ microtasks > 0 /\ ~Ambient => checkpointRequested

\* Provided every activity gives the host thread back, a worker that was closed
\* is destroyed, whatever was pending when it closed.
ClosedWorkerFinishes == []<>AtRest => (closing ~> destroyed)

\* Provided also that checkpoint requests from outside turns cease, a runnable
\* task of the first queue runs, is removed or is blocked.  Nothing of the kind
\* holds for the later queues: the first one with a runnable task always wins.
FirstQueueServed ==
  []<>AtRest /\ <>[]~checkpointRequested =>
    \A t \in Task :
      fate[t] = "queued" /\ SourceOf[t] = Head(queueOrder) ~>
        fate[t] # "queued" \/ ~IsRunnable(t)

\* While a task's own steps run, the current task is that task.
TaskIsCurrent == TopIs({"turn"}) => current = turnTask
=============================================================================
