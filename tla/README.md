# Verification of browlet's scheduling core

browlet (`src/src/`) is a headless browser written in TypeScript. It implements
HTML's event loop, documents and navigables, workers, message channels, timers,
fetch and streams on top of a JavaScript host. This directory holds TLA+ models
of the parts of it whose correctness depends on *order*: what is queued, what
wakes what up, what may run inside what, and what is left over when something
stops. TLC checks each model on small instances; TLAPS proves the central facts
for all of them.

Paths below are relative to `src/src/`.

## 1. Inventory

### How the program runs

One JavaScript thread serves each agent cluster; a dedicated or shared worker
may be given a thread of its own (`browlet/integration/host/worker-thread.ts`).
On a thread nothing preempts: code runs until it gives the thread back, and the
host then runs the next callback. There are four ways for work to come back:

- a **host task** (`queueNodeTask`, i.e. `setImmediate`) - event-loop turns,
  parallel queues, message deliveries;
- a **native timer** - the wake-ups of `GlobalTimers`, idle-callback timeouts;
- a **microtask** - author promises, drained by the loop's own checkpoints or, on
  stock Node, by Node between callbacks as well;
- a **message of another thread**.

"In parallel" steps of the standards are host tasks of the same thread. So the
interleavings are those of callbacks, and the hard questions are: is a callback
always pending when there is work (lost wake-ups), what may run synchronously
inside what (re-entrance), what changed between the moment a callback was
requested and the moment it runs (stale state), and who is told when work is
dropped.

### Components

| Component | State it keeps | Operations | Hard behaviour | What makes it correct |
|---|---|---|---|---|
| Event loop `browlet/scripting/event-loop.ts`, `tasks.ts` | task queues by source, current task, context stack, request / pause / turn / checkpoint flags | queue, remove, notify runnability, request idle period, host turn, script entry, checkpoint, pause, spin, close | re-entrance, lost wake-ups, shutdown with work pending | a turn is requested whenever there is work; microtasks always have a drain coming, over an empty stack; nothing survives an activity; a closed worker finishes once and is empty |
| Timers `browlet/scripting/timers.ts` | id map, active waits, native wake-ups, nesting level, suspension | set, clear, suspend / resume, native timeout, task run | clear against a queued task, ordering of equal sources, suspended documents | a cleared timer never fires; earlier-and-shorter waits complete first; a blocked wait is woken when its blocker completes |
| Idle callbacks `browlet/browsing/window/idle-callback.ts` | pending and runnable lists, queued flag, deadline | request, cancel, start period, invoke, timeout | timeout racing an idle period, list splice between periods | each callback runs at most once; a non-empty list has a wake-up |
| Parallel queue `infra/parallel-queue.ts` | FIFO of steps, drain requested / running flags | enqueue, drain | steps that throw, enqueue from inside a drain | FIFO, one at a time, never stalls |
| Traversal queue `browlet/browsing/navigation/session-history-traversal-queue.ts` | FIFO of steps, running, drain requested | append, drain, suspension on a promise, direct run by a nested step | synchronous navigation steps inside a traversal, a failing step | as above, with suspension; nested steps only inside a running one |
| Session history and navigables `browlet/browsing/navigation/**` | entries, steps, ongoing navigation ids | navigate, traverse, apply history step, unload | navigation aborted by another, traversals across frames | the current entry agrees with the active document; an aborted navigation changes nothing |
| Navigation API `browlet/browsing/navigation/api/**` | ongoing / upcoming method trackers, transition, focus flags | navigate, intercept, commit, abort, finish | promise settlement order, re-entrant handlers | each tracker settles its two promises exactly once |
| Document lifecycle `browlet/dom/nodes/document.ts` | readiness, fully active, unload counter, salvageable | open, write, close, load, abort, unload, destroy | aborting a parser from script | load events fire once, never after destruction |
| Message ports `browlet/communication/message-port.ts` | per end: the port that holds it, pending messages, delivery tasks, the native pipe and who is known to hold the other end | post, start, close, transfer, promote to a native pipe, receive, discard | messages pending, queued or in the pipe while either end moves to another port or thread | order kept, nothing repeated or delivered to a former holder; the owner of the other end is known |
| Worker thread `browlet/integration/host/worker-thread.ts`, `js-engine/threads.ts` | thread state, ready and closed, outside port, script fetch; inside: control tasks, channel, handed scripts | start, send, connect, fetch the script, terminate, exit | termination and exit racing start-up, the script's response and messages in the native pipes | closed settles and releases everything; nothing reaches the outside queue after terminate(); a channel is attached whenever its global appears |
| Worker globals `browlet/workers/**` | closing, owner set, lifetime | run, close, terminate, add / remove owners | closing with owners left | a worker ends when its owners do |
| Abort signals `browlet/dom/abort/abort-signal.ts` | reason, algorithms, source and dependent signals | abort, add / remove algorithm, any() | abort from an abort algorithm | all dependents abort before any algorithm runs, once |
| Streams `streams/**` | queues, requests, stored errors, back-pressure and ready promises, a pipe's shutdown state | read, write, close, error, abort, cancel, pipe, tee | a shutdown between a chunk's arrival and its deferred write; an error, close or abort while another is in flight | the pipe's internal assertions hold; chunks in order and none lost by a good pipe; promises agree with the state; every pipe settles |
| Fetch `fetch/**`, HTTP cache `http/cache.ts`, cookies `http/cookie-store.ts` | controllers, groups, cache entries, cookies | fetch, abort, terminate, store | abort racing a response | a controller reports once |
| Mutation observers, custom-element reactions `browlet/scripting/agents.ts` | pending observers, reaction stacks | queue, notify | mutation from a callback | each record is delivered once |
| Live ranges, tree mutation `browlet/dom/ranges/range.ts` | boundary points | insert, remove, split | adjustment order | boundaries stay inside the tree |
| File reader `browlet/integration/file/file-reader.ts`; performance timeline, reporting, storage, permissions | small state machines | read, abort, queue, observe | abort racing a completion | one terminal event per read |
| Stylelet, selectlet, Web IDL, URL, MIME, encoding, structured fields, HTML parser, WebAssembly | none beyond a call | pure functions and I/O | none here | conformance suites in the repository |

`PROJECT.json` gives each of them a status, and lists the hazards, each at its
line with the properties that would catch it.

## 2. Plan

Order of work, the most shared behaviour first. Done:

1. `EventLoop` - everything else runs on it; proofs in `EventLoopProofs`.
2. `SerialExecutor`, `ParallelQueue`, `TraversalQueue` - what "in parallel" and
   "traverse the history" mean here; the refinements are proved.
3. `GlobalTimers` - with `GlobalTimersProofs`.
4. `IdleCallbacks` - with `IdleCallbacksProofs`.
5. `MessagePort` over the abstract `Channel` - the refinement is proved.
6. `WorkerThread` - both sides of a worker's thread; proofs in `WorkerThreadProofs`.
7. `ReadableStream`, `WritableStream`, composed in `Pipe` - proofs in `PipeProofs`.

Left, in this order:

8. `AbortSignal` - dependents agree with their sources on the reason and are aborted
   before any algorithm runs; algorithms run at most once; retention of pending
   dependents; a settled signal is linked to nothing. `Pipe` has a signal that
   aborts once, and its one algorithm.
9. `MethodTracker` (Navigation API): both promises settle once, `finished` never
   before `committed`.
10. Worker owners over `WorkerThread` and `MessagePort.OwnersKnown`; a worker's
    implicit channel (`entangleRemote`, `clearOutgoingMessages`) in `MessagePort`.
11. Document lifecycle and session history on top of `TraversalQueue`.
12. Transform streams (where a strategy's `size` may bring `enqueue` to its "unexpectedly lost
    backpressure" error), byte streams and tees on the modelled streams; the fetch
    controller.

Runs use two or three tasks, steps, handles or chunks: enough for one to run, one
to wait and one to arrive. A component has one run for safety and liveness, a second
one only when its variants exclude each other or for a finding.

Every safety property that the runs check is a theorem; what a new module promises is
to be proved with it.

## 3. Modules

`MCxxx` modules instantiate a model for TLC; `xxxProofs` modules hold theorems.
Comments marked *Mutant* introduce variants of a definition as a plausible bug
would write it; no specification uses them. They document which bug each property
would expose, and `PROJECT.json` pairs them up.

### EventLoop

*Code:* `browlet/scripting/event-loop.ts`, `tasks.ts`, and the closing flag of
`browlet/workers/worker-global-scope.ts`.

The JavaScript stack is explicit: `frames` holds the synchronous activities in
progress (a turn, a script entry, a platform call, a checkpoint's drain, a
microtask, a pause), and only the top one acts. Everything the code does in one
uninterrupted stretch is one action; every point where author or host code may
call back in is a state. `contexts` is the length of `executionContextStack`;
`fate` says where each task is, and `ahead` which tasks of its queue precede it.
The other variables have the names of the private fields, except for `unannounced`: a
history variable that counts the pending microtasks of the second finding below.

| Code | Action or operator |
|---|---|
| `queueTask`, `#enqueueTask`, `removeTask(s)` | `QueueTask`, `EnqueueTask`, `RemoveTask`, `RemoveTasksForDocument` |
| `notifyTaskRunnabilityChanged`, `requestIdlePeriod` | `NotifyTaskRunnabilityChanged` in `MakeFullyActive`, `EnableTask`, `Close`; `RequestIdlePeriod` |
| `#requestTurnIfNeeded`, its turn callback | `NeedsTurn`, `RequestTurnIfNeeded`; `RunCheckpointTurn`, `RunTaskTurn`, `RunEmptyTurn`, `FinishTurnCallback` |
| `runTaskTurn` with its nested activities | `RunTaskTurn`, `TaskStepsReturn`, `HostTurnReturns`, `HostTurnThrows` |
| `requestMicrotaskCheckpoint`, `performMicrotaskCheckpoint` | `RequestMicrotaskCheckpoint`, `BeginCheckpoint`, `RunMicrotask`, `MicrotaskReturns`, `EndCheckpoint` |
| script, host and platform entries | `PrepareToRunScript`, `CleanUpAfterRunningScript`, `RunScriptEvaluation`, `FinishHostScriptEntry`, `RunPlatformCall`, `PlatformCallReturns` |
| `pauseUntil`, `spinUntil` | `Pause`, `Unpause`; `SpinUntil`, `RegisterWait`, `Ready` |
| `WorkerGlobalScope.close`, `#finishWorkerTurn` | `Close`, `FinishWorkerTurn` |
| stock Node's own microtask drain | `NodeTick`, `NodeTickReturns` |

*Runs.* `loop_window`: three tasks in two queues, of which one waits for a
document, one is queued by idle periods only and one may spin the loop and has a
condition of its own; one pending microtask; four nested activities. On an
`Ambient` queue everything the explicit queue allows still happens, plus Node's
drains and throws. `loop_worker`: two tasks, of which one may spin and one has an
owner and a condition, two microtasks, an explicit queue, the closing flag, under
fairness. Four nested activities are enough for a turn with a
script entry, a checkpoint and a microtask in it, and for the four kinds of entry
that treat nesting differently to stand on one another.

*Fairness* (`FairSpec`): the host runs a requested turn even though other host
callbacks keep coming (`SF_vars(HostTurn)`: `setImmediate` callbacks are served in
the order of their requests), and an activity in progress ends
(`WF_vars(Unwind)`). Author code that never returns is excluded by the premise
`[]<>AtRest`. `FirstQueueServed` promises service to the first queue only, since
the code's choice of a queue starves the later ones, and only if checkpoint
requests from outside turns cease, since each of them takes the whole turn.

*Findings.* `loop_current_task`: after a checkpoint nested in a task, the rest of
the task's steps has no current task, although the field's comment says that it is
null outside task execution only. `loop_evaluation`: `BrowletRealm.evaluate()` inside a
script entry that was made at rest without a task (a callback the host invokes that
calls `document.write`, say) leaves its microtasks behind. Its temporary task keeps
`requestMicrotaskCheckpoint` from asking for a checkpoint, but its own clean-up finds
the outer entry still on the stack, `#finishHostScriptEntry` drops the temporary task
without asking either, and the outer clean-up has neither a task nor a turn. The
microtasks wait at rest for unrelated work, while `EVENT-LOOP-ARCHITECTURE.md` says that
direct evaluation checkpoints after the last context exits. A task may start before
them, and a closing worker may be destroyed with them. `NoStrandedMicrotask`,
`TasksStartDrained` and `DestroyedIsDrained` except exactly these microtasks:
`QueueMicrotask` counts one in `unannounced` when it is queued inside such an entry
(`NestedEvaluation`), and the next drain, which runs it, clears the count.

A closing worker drops queued tasks without running `discardSteps`, which
`tasks.ts` describes as the owner's notification when pending work is removed. The
model keeps such a task's fate as `"lost"`; no run is spent on it, since queueing a task
and closing show it.

*Limits.* `SpinUntil` spins tasks; the code also moves a spinning microtask to a task
first. `Close` is called from running code. A checkpoint that ends with rejected
promises queues one task, where the code queues one for each environment that has some.

*Proved* (`EventLoopProofs`, for any tasks, sources, documents, kinds of agent and
depths of nesting): `TypeOK`, `NoLostWakeup`, `NoStrandedMicrotask`,
`CheckpointOnEmptyStack`, `RestIsClean`, `TurnEndsDrained`, `DestroyedIsDrained`,
`TasksStartDrained`. None of them is inductive: each depends on what the flags
mean while activities are nested. The inductive invariant is the conjunction of

- `StackOK`: which activity may stand on which (`Shape`), the contexts each of them
  found (`Contexts`), and that `#runningTaskTurn`, `#performingMicrotaskCheckpoint`
  and `#paused` say what the stack says (`Flags`);
- `CurrentOK`: the current task belongs to an activity in progress;
- `TasksOK`: the task of the turn is not queued, nor is any task of a closing loop;
- `DrainsOK`: with an explicit queue, no checkpoint is in progress on a destroyed loop;
- `MicrotasksOK`: pending microtasks have a requested checkpoint, a turn, a drain or
  a direct evaluation at the bottom of the stack that will run them, unless all of them
  are `unannounced`;
- `TurnOK`: a turn keeps its request until its end, a destroyed loop has none;
- `NoLostWakeup` and `TurnEndsDrained` themselves.

`StackOK` is proved first, from lemmas about pushing, popping and replacing the top
of a stack; every other conjunct then has one step per action.

### SerialExecutor, ParallelQueue, TraversalQueue

*Code:* `infra/parallel-queue.ts`; `session-history-traversal-queue.ts` and
`Traversable.runSynchronousNavigationSteps` in
`browlet/browsing/navigation/navigable.ts`.

`SerialExecutor` is the abstract specification: jobs run one at a time in the order
of their submission; a job tagged with a target may run early, nested in the job
whose turn it is, but not before an earlier job of its target. `Fairness` adds that
no job waits forever.

`ParallelQueue` has the array, its index and the two flags; steps run to completion
and may enqueue or throw (`StepsThrow` is the `finally` path). `TraversalQueue` adds
steps that wait on a promise (`OccupantWaits`, `OccupantSettles`) and the selection
loop that runs tagged steps ahead of the queue, inside `runSteps` (`BeginJump`) and
outside it after a promise (`JumperSettles`). Its `entries` is the stack of
synchronous entries, each with the value of `#executing` it will restore. `refused`
is a history variable: the host may throw instead of arranging a drain, and
`NoLostDrain` and the liveness properties except exactly that. `DrainWhenNeeded`, of
both modules, joins it with `OneWakeup`; `FlagsAreExact` says that the traversal queue's
two flags tell what is going on, on every path out of a step.

*Runs.* `parallel`: two kinds of steps, up to four in the array between two
truncations - enough for a throw with something before and something behind it.
`traversal`: four steps (untagged, two of one navigable, one of another), three
pending; two steps of one navigable are what reordering needs, the other navigable
what overtaking needs. Neither run checks for deadlock: an empty queue at its bound
has nothing to do. A step is appended again only after it ran, and the occupant ends
only after its own jump, as its (future) caller must see to.

*Fairness*: accepted drains run, entries end and promises settle.
`EveryAlgorithmStarts` also supposes that jumps end (`[]<>~jumping`): author code can
feed the selection loop forever. `ServesEveryStep` states the fairness of the abstract executor.
The occupant's end is strongly fair, because its jumps disable it again and again.

*Proved* (`ParallelQueueProofs`, `TraversalQueueProofs`): both invariants, and that
each queue implements `SerialExecutor`'s safety (`Refines`) for any steps,
navigables, errors, suspensions and refusals. The parallel queue's inductive
invariant is its type, `OneWakeup`, `NoLostDrain` and "steps execute inside a drain";
the refinement maps the part of the array behind the index to the executor's waiting
jobs. The traversal queue needs `Shape`: the eight possible stacks of entries, each
with the occupation, the flag and the jump that go with it. Without it neither the
restored `#executing` nor the claim that a drain finds the queue unoccupied can be
carried through a step. `TypeOK` of this module is part of its invariant and is
proved, not run.

### GlobalTimers

*Code:* `browlet/scripting/timers.ts`; `host-hooks.ts` for engine jobs that wait.

`activeTimers` holds the waits and `idMap` the registrations: they have separate lives,
since clearing an id leaves its wait running and frees the id. Time is a count of
ticks; the host may call a wake-up early (`TimeoutReached` on a wait that is not
`Expired` asks again) or late. `activeTime` (how long the document has been fully
active) and `cleared` are history variables. The task's end is split at the author's
action: `RunTask`, then anything the action does, then `TimeoutEnds` or
`IntervalRepeats`. `MicrotaskRan` carries over the first finding above: after a
nested checkpoint the nesting level counts as 0. An action that throws is not modelled.

*Run.* `timers`: ids 1..2, so that they are reused; one delay of one tick that the
clamp (level 0, two ticks) lengthens; two ordering groups; three waits up to time
three, of which the last is left to an interval that repeats. Two waits that meet in
one group and a third that starts after a suspension are what ordering and resumption
need. The clock stops at its bound, so deadlock is not checked; a wait that would
fall due later is not due within the run.

*Properties.* `CallbacksAreDue` and `OrderKept` are HTML's promises on the wait and
on the order. `NothingIsStranded` joins `NoLostWait` (a wait has a wake-up in time, or
is due behind a blocker) and `RegistrationsAreServed` (`hasOutstandingTimers` keeps a
worker alive on their account). `KeysDecide` joins `ClearedNeverRuns` and
`RegistrationsKept`: both turn on the unique key that tells a registration from a later
one under the same id.

*Fairness*: the host calls each wake-up that is due, and actions return.
`DueWaitsComplete` says nothing while the document is suspended.

*Proved* (`GlobalTimersProofs`, for any delays, ordering groups, ids, clamping
parameters, and bounds on time and waits): `TypeOK`, `CallbacksAreDue`, `NothingIsStranded`, `OrderKept`,
`KeysDecide`. The inductive invariant has, besides these,

- `WaitsOK`: `OnClock`, for every wait - its deadline and the document's active time move
  together (what is left of it is its length less the active time since its
  start), suspended or not, and its wake-up is not later than the deadline needs.
  `CallbacksAreDue` follows when a wait completes, whatever the suspensions were;
- `KeysOK`: a key is registered under one id at most, never again after its clear, and
  ids, clears and tasks only name keys that were given out.

A step leaves the waits alone, starts one, changes them in place (suspension,
resumption, a wake-up asked for again), completes one, or empties them. `Follow` says
what any of these may do to a wait, and the invariant is carried through each kind
once. The order of tasks rests on `activeTimers` being sorted by key, which is part of
the type.

### IdleCallbacks

*Code:* `browlet/browsing/window/idle-callback.ts`, with the part of the event loop,
the timers and the document lifecycle it depends on.

`pending` and `runnable` are the two lists, `timers` the host timers set for timeouts,
`wakeUp` the next-period wake-up. The loop is cut down to its turns, the queue of
the idle task source, a count of other work (`work`), and the start of idle periods
at the tail of a turn; `EventLoop` models what is left out here. Times are relative
to now and at most `MaxLate` overdue, which keeps the state space finite without a
clock. `timerLeft` stands for the earliest timer of the loop's Windows, whose
estimate shortens periods and whose document may be suspended.

*Run.* `idle`: two callbacks, each with no timeout or one of two ticks, one ordinary
task or timer, periods of one tick, documents that become inactive, and a navigation
that reuses the Window. Two callbacks suffice for a batch with a rest, for two
timeouts in either order and for a cancel of either.

*Properties.* `TimeoutsAreKept` joins `TimeoutsAreWatched` and `TimeoutsKeepOrder`;
`RunsOnceInOrder` joins `RunsAtMostOnce` and `DeliveredInOrder`.

*Fairness*: turns run, due wake-ups are called, and not every turn is later than a
whole idle period - otherwise every delivery would pass (`SF_vars(Delivery)`).
`CallbacksAreServed` and `IdleWorkIsOffered` except the second document of a reused
Window (the finding below). `CallbacksAreServed` also excepts documents that are
inactive and a timer of a suspended document, which `startIdlePeriod` regards as
overdue work for as long as the suspension lasts.

*Finding.* `idle_reused`: when a navigation reuses the Window of an initial
about:blank while a delivery task of the old document is still queued, the flag
`#idleTaskQueued` stays set, and no idle period is offered to the Window again.

*Proved* (`IdleCallbacksProofs`, for any number of callbacks, any timeouts, timer delays,
idle period and lateness of the host, with and without reuse of the Window): `TypeOK`,
`OneDeliveryTask`, `TimeoutsAreKept`, `IdleWorkIsOffered`, `RunsOnceInOrder`. The
inductive invariant has, besides these,

- `ListsOK`: both lists are in the order of registration, the batch before the rest,
  and nothing in them is over. `RunsOnceInOrder` follows where a callback starts;
- `TimeoutsOK`: of two timeouts, the one registered first has not more left unless it
  was longer; and `Expiry`: when a timeout has its task, it and those that must be
  before it have expired. Together they order the tasks of different wake-ups;
- `FlagOK`: the flag and the one delivery task go together, and while a delivered
  callback runs there is neither, so that the rest of its batch can be queued;
- `DocumentsOK`: tasks belong to the first document while the Window keeps it. So the
  delivery task of an active document is runnable, which is what `IdleWorkIsOffered`
  needs and what fails in the finding.

`CallbacksAreServed` stays with TLC.

### ReadableStream, WritableStream, Pipe

*Code:* `streams/readable-stream.ts` (the default controller and reader, and
`pipeToInternal`), `streams/writable-stream.ts`.

The streams are modules of pure operators on a record each: one operator per abstract
operation, with the fields of the code. A promise is `pending`, `fulfilled` or
`rejected`; `broken` notes that one of the `InternalError`s of the writable stream
was thrown. Sizes are one per chunk.

`Pipe` composes them with `pipeToInternal`. Its subject is what happens *between* its
steps, and these are promise reactions: `jobs` is the microtask queue, with one job for
each hop the code makes (the deferred write of a chunk, the adoption of the read's
promise, `waitForWritesToFinish`'s repeated look at `currentWrite`, `Promise.all` of a
signal's actions). `RunJob` runs the first; the source, the sink and the signal act
between any two.

| Code | Action or operator |
|---|---|
| `pipeTo` and its first look at the states | `PipeTo` |
| `pipeLoop`, `pipeStep` and the read request | `EagerPipeStep`, `PipeStep`, `ReadForPipe`, `ReadAnswered`, `WriteChunk` |
| `shutdownWithAction`, `shutdown`, `waitForWritesToFinish` | `Shutdown`, `ShutdownAtOnce`, `WaitForWritesToFinish`, `WritesFinished` |
| the four rules of propagation | `SourceErrored`, `DestinationErrored`, `SourceClosed`, and the last test in `PipeTo` |
| `abortAlgorithm` of the signal | `SignalAbort`, `SignalActions`, `AllReacts` |
| `finalize` | `Finalize` |
| underlying source and sink | `SourceStarts`, `SourceEnqueues`, `SourcePulled`, ...; `SinkStarts`, `SinkWriteSettles`, `SinkErrors`, ... (external) |

*Run.* `pipe`: two chunks, a source with high-water mark 0 and a sink with 1, every
set of prevented actions, and every settlement of `start`, `pull`, `cancel`, `write`,
`close` and `abort`. Two chunks are one in the sink with another one read;
the source reaches one more pull than it answers. An idle pipe may stop, so deadlock
is not checked.

*Properties.* `NoInternalError`; `DeliversInOrder`; `BackpressureObeyed`, which counts
the deferred writes and would fail if the pipe read ahead of the writer's `ready`;
`NothingReadIsLost`; `PromisesTellTheState` (`RequestsSettle` and `ReadyMeansRoom`).
`NothingReadIsLost` says what the code does and no more: a chunk that arrives after
`waitForWritesToFinish`'s last look has its write deferred by a microtask, finds the
writer released and is dropped. The repository promises nothing about it; the
standard's "wait until every chunk that has been read has been written" would.

*Fairness*: microtasks run, and source and sink settle what they were called for. A
source need not ever produce a chunk unless it was pulled for one.

*Proved* (`PipeProofs`, for any chunks without repetition, any high-water mark of the
source and any positive one of the sink): `TypeOK`, `NoInternalError`,
`PromisesTellTheState`, `BackpressureObeyed`, `DeliversInOrder` and
`NothingReadIsLost`. All of them but the first half of the last are read from `Inv`, which
is `PipeInv` of the record `Now` and of the number of chunks produced. A step nests
several operators, so `PipeInv` is a predicate on that record and every operator has a
lemma of its own. Its parts:

- `DestinationInv`, the destination alone: the shape of its queue and of the operation in
  flight, algorithms kept as long as they may be called, promises owed to somebody,
  and `ready` following the queue. From it come `NoInternalError` and
  `PromisesTellTheState`.
- `LoopInv`, `SourceInv`, `RoomInv`: the loop stands in one place, at most one read is
  open, and whoever reads or may read has room in the destination. From them comes
  `BackpressureObeyed`.
- `OrderInv`, `ClosedInv`, `WriteInv`, `KnownInv`: the sink, the destination's queue, the
  chunk on its way to `write()` and the source's queue hold consecutive parts of
  `Chunks`. `Balance` says that nothing is missing between them while both ends work, and
  `EndInv` that a shutdown without error leaves nothing behind. From these come
  `DeliversInOrder` and `AllDelivered`.
- `PhaseInv`, `ReadyWaits`, `PipingInv`, `RestInv`: which jobs, locks and requests belong
  to which phase. The last three hold between two steps and not within all of
  them, so `Core` leaves them out.

The attempt showed that some `CASE` guards of the stream operators overlapped: TLC took
the first, the meaning of `CASE` leaves it open. They are `IF` chains now, in the
order of the code's early returns.

The first half of `NothingReadIsLost` (`AwaitedIsHanded`) needs more: `AwaitInv`, which
follows the one chunk a shutdown waits for through the jobs that adopt and settle its
promise. It is inductive together with `Inv`, and TLC found it true in all states of
`pipe`'s instance before the proof began.

- `OnceInv`: a write settles once, so that a chunk is in the destination's queue, or on
  its way to the pipe, or among those the pipe has seen settle, and never in two of these.
- `SentInv`: as long as the destination accepts writes, a write settles because the sink
  was called with its chunk. Once an error empties the queue this is no longer so.
- `OneWait`: one job at most tells the shutdown that its wait is over, and it names the
  chunk awaited.
- `WaitInv`: while the shutdown waits, no part of its action has begun (`NotYet`) and nobody
  has asked the destination to close or abort (`Untouched`). From the end of the wait on,
  the chunk has been handed to the sink, or the destination failed by itself (`Good`).

The proof sorts the steps. After the wait a step need only leave handed chunks handed and
a failure a failure (`Drift`); during the wait it must also leave the destination and the
action alone (`Calm`). Every operator has a lemma for the stronger of the two that it
keeps, and the operators that begin, prolong or end a wait (`Shutdown`,
`CurrentWriteSettles`, `WritesFinished`) have lemmas of their own.

### Channel, MessagePort

*Code:* `browlet/communication/message-port.ts`; the native pipe it promotes a channel
to is external.

`Channel` is the abstract specification: each end receives what was posted to it, once
and in order, wherever it is. Losing the rest of it is allowed only in the sense
that nothing forces a receipt; `EveryMessageArrives` adds when one is owed.

`MessagePort` follows the two *ends* (`PortEndpoint`), each of which outlives the port
objects that hold it: `place` says whether a port holds the end, a message carries it
within the thread (`transit`) or in portable form, or it was discarded. `tasks` has
the delivery tasks of the end, also those that were queued for a former holder
(there are none, `TasksOfHolder` says). `notices` are `owner` packets; they are
read in order among themselves, and their order relative to messages changes
nothing either of them does. A thread stands for an environment: ports of documents
that are not fully active, whose tasks wait, are not told apart.

| Code | Action or operator |
|---|---|
| `#enqueue`, the delivery task | `TaskFor`, `Deliver` |
| `postMessage` to a local end, a native one, one in its own transfer list | `PostLocally`, `PostToPipe`, `PostDoomed` |
| `transferSteps`, `#ship` | `Transfer`, `Given`, `Shipped` |
| `#prepareEndpoint`, promotion | `Prepare` |
| `transferReceivingSteps` | `Receive`, `Requeued` |
| `#listen`: packets and the pipe's end | `MessageArrives`, `OwnerArrives`, `HangupArrives` |
| `close`, `#discardMessage`, `#disentangle` | `Close`, `Discard`, `Disentangle` |

*Run.* `ports`: two threads, two messages to `port1`, two moves of it and one of
`port2`. The directions of a channel do not touch each other, so messages one way
suffice; of two messages, one may be pending or in the pipe while the other is
posted to a former or a later place of its end. The second move takes a message through two
holders. A channel at rest may stay so: deadlock is not checked.

*Fairness*: tasks and packets are delivered, and what carries an end arrives. Nothing
obliges an author to start a port, so `EveryMessageArrives` excepts it, as it does
channels that are closed or discarded.

*Host behaviour assumed.* Node tells a handle of its peer's end once, after the
messages before it, and only when something listens: an end whose peer closes
while it is portable never learns of it.

*Proved* (`MessagePortProofs`, for any threads, messages and moves): `TypeOK`,
`TasksOfHolder`, `OwnersKnown`, and `Reliable`, the refinement of `Channel`. The
inductive invariant has, for each end, `Ordered` (what it received, what it keeps and
what is in its pipe are the first messages posted to it, one after the other, and all
of them while it is connected), `Linked` (an end is local or native, and only a native
one has something on its way), `Tasked` (`TasksOfHolder`, and an end that no port
holds is shipped) and `Known` (`OwnersKnown`).

### WorkerThread

*Code:* `browlet/integration/host/worker-thread.ts` (`WorkerThread` and
`WorkerThreadRuntime`), `js-engine/threads.ts`.

Both sides are modelled: the creator's (`state`, `ready`, the outside port, the script
fetch) and the runtime inside (control tasks, the agent's global, the inside port),
with the native pipes between them. Commands are `message`, `connect` and `script`;
what authors post through a channel is counted. `exited` is set by the engine's exit
event (`Exit`), the reaction to it (`CleanUp`) comes later: between the two only the
creator's own calls happen, and `CleaningUp` names that gap. Node delivers a thread's
messages before its exit. `terminate` of the engine never fails there, so `closed`
is not rejected in the model. `Disconnect` also closes an end that still waits for its
global, and the outside port hears of it (`WaitingEndClosed`). Calls that throw change
nothing and are no steps.

| Code | Action or operator |
|---|---|
| `send`, `connectMessagePort`, `terminate` | `Send`, `ConnectMessagePort`, `Terminate` |
| the initial script's fetch and its response | `FetchScript`, `ResponseArrives`, `HandOn` |
| messages of the thread, exit | `ThreadMessageArrives`, `Exit`, `CleanUp` |
| the outside port | `PortMessageArrives`, `Deliver`, `StopDelivery`, `HangupArrives` |
| the runtime | `Start`, `CommandArrives`, `RunTask`, `Compose`, `Attach`, `Report`, `PostMessage`, `Disconnect`, `InsideHangup`, `End` |

*Run.* `worker_thread`: one plain message, two channels, two script fetches, one author
message from inside. A second channel replaces the first, and a second fetch makes
a late response of the first recognisable. A closed worker is the end:
deadlock is not checked.

*Fairness*: the thread runs what it has, a terminated thread ends, and the creator's
host delivers events. The response of a script fetch need never come.

*Proved* (`WorkerThreadProofs`, for any number of commands and messages): `TypeOK`,
`SilentOnceTerminated`, `ReleasedWhenClosed`, `ScriptsOnce`. They need `Lifecycle`, which says how
`state`, `ready`, `stopping` and `exited` go together: a worker that starts or runs is
not being stopped, one that runs or stops has settled `ready`, and only an exit
closes it. `ScriptsOnce` needs `ScriptInv`: the scripts in each of the three places a
command passes are in order, those further on precede those behind, and the number
of the fetch under way is above all of them.

## 4. Runs

| Run | Specification | Distinct states | Shows |
|---|---|---|---|
| `loop_window` | `Spec` | 1,086,016 | wake-ups, empty stacks, clean rest |
| `loop_worker` | `FairSpec` | 311,044 | microtasks, shutdown, service |
| `loop_current_task` | `Spec` | violation | the finding on the current task |
| `loop_evaluation` | `Spec` | violation | the finding on nested direct evaluations |
| `parallel` | `FairSpec` | 453 | serial, in order, served |
| `traversal` | `FairSpec` | 2,548 | serial with jumps, flags, served |
| `timers` | `FairSpec` | 220,733 | due, in order, cleared for good, kept |
| `idle` | `FairSpec` | 101,544 | once, in order, watched, one delivery task, offered and served |
| `idle_reused` | `Spec` | violation | the finding on reused Windows |
| `pipe` | `FairSpec` | 254,242 | order, back-pressure, hand-over, promises, every pipe settles |
| `ports` | `FairSpec` | 73,904 | reliable across transfers, tasks of the holder, owners, arrival |
| `worker_thread` | `FairSpec` | 231,809 | silence, release, scripts, channels, start or stop |

## 5. Assumptions and limits

- *Assumptions of the proofs:* each module's `ASSUME`, which only says that the
  identities are distinct, that functions have their domains and that bounds are
  naturals. TLC evaluates them on every run. The bounds appear in guards, so the
  theorems hold for every value of them.
- *Only model-checked:* everything temporal beyond invariants, action properties and
  refinement steps - `ClosedWorkerFinishes`, `FirstQueueServed`, `ServesEveryStep`,
  `EveryAlgorithmStarts`, `DueWaitsComplete`, `CallbacksAreServed`, `PipeSettles`,
  `EveryMessageArrives`, `StopsOrStarts`, `ChannelsAttach` - since fairness is out of the
  prover's reach.
- *Not modelled in the modules above:* what a task does beyond calling into the
  component; error reporting and its text; clock coarsening; a rendering host's
  estimates for idle periods; the timers of workers, which are never activated
  (an open task in `timers.ts`); the exhaustion of all 2,147,483,647 timer ids; memory
  growth of the parallel queue's array while every drain throws; message contents,
  `messageerror` and native sends that fail; a worker's implicit channel behind its
  own port; a thread's snapshots of its creator; byte streams, tees, transforms, the
  async iterator and size algorithms of streams.
- *Components not modelled:* `PROJECT.json` gives the reason for each, or its place in
  the plan. In short: the Navigation API, abort signals, the document's life and session
  history are state machines worth a model and are next in the plan; fetch, cache,
  loader, automation and the JavaScript host are mostly I/O; styling, selectors, URL, MIME,
  encoding, Web IDL and the parsers compute functions of their input, which the
  repository's conformance suites cover better than an enumeration of small inputs
  would.
