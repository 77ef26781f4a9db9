---------------------------- MODULE IdleCallbacks ----------------------------
(***************************************************************************)
(* A Window's idle callbacks (browsing/window/idle-callback.ts), on an     *)
(* event loop of which only the turns, the start of idle periods and the   *)
(* gating of tasks by their document are kept (scripting/event-loop.ts).   *)
(*                                                                         *)
(* Times are relative to now: what remains until a deadline, a timeout or  *)
(* a wake-up, and not more than MaxLate beyond it, since the host calls    *)
(* a wake-up at most that late.                                            *)
(***************************************************************************)
EXTENDS Integers, Sequences, SequencesExt, FiniteSets

CONSTANTS
  Handle,       \* 1..n, bounds the registrations
  Timeout,      \* timeout options; 0 for none
  Budget,       \* length of an idle period (50 ms)
  TimerDelay,   \* delays of timers of the loop's Windows; empty when there are none
  MaxLate,      \* bound on the lateness of host wake-ups
  MaxWork,      \* bound on the ordinary tasks and timers of a behaviour
  WindowReused, \* the Window of an initial about:blank may get another document
  None

ASSUME IdleCallbacksAssumption ==
  /\ IsFiniteSet(Handle) /\ Handle = 1..Cardinality(Handle)
  /\ Timeout \subseteq Nat /\ TimerDelay \subseteq Nat
  /\ Budget \in Nat \ {0} /\ MaxLate \in Nat /\ MaxWork \in Nat
  /\ WindowReused \in BOOLEAN
  /\ None \notin Int

VARIABLES
  pending,     \* #idleRequestCallbacks, in insertion order
  runnable,    \* #runnableIdleCallbacks, in insertion order
  identifier,  \* #idleCallbackIdentifier
  timeout,     \* handle |-> its timeout option
  timeoutLeft, \* handle |-> until its timeoutAt, or None
  timers,      \* handles whose host timer is set
  periodLeft,  \* until the end of the last period, its timers left aside
  idleTaskQueued,
  wakeUp,      \* until the next-period wake-up, or None
  idleTasks,   \* the loop's queue of idleTaskSource
  work,        \* runnable tasks of other sources
  worked,      \* ordinary tasks and timers so far
  running,     \* the task of the current turn
  turnRequested, idlePeriodRequested,
  timerLeft,   \* until the next timer of the loop's Windows, or None
  suspended,   \* that timer's document is inactive
  document,    \* the Window's associated document; 2 once the initial one is replaced
  activeDocument, \* the fully active document of its navigable, or None
  destroyed,
  over         \* handles whose callback was started, canceled or released

requestVars == <<pending, runnable, timeoutLeft, timers, over>>
periodVars == <<periodLeft, idleTaskQueued, wakeUp>>
loopVars == <<turnRequested, idlePeriodRequested>>
workVars == <<work, worked>>
timerVars == <<timerLeft, suspended>>
documentVars == <<document, activeDocument, destroyed>>
vars == <<requestVars, identifier, timeout, periodVars, idleTasks, workVars, running,
          loopVars, timerVars, documentVars>>

Idle == [kind |-> "idle", handle |-> 0]       \* at rest
Ordinary == [kind |-> "ordinary", handle |-> 0]
Ending == [kind |-> "ending", handle |-> 0]   \* the turn's checkpoint
Delivered(h) == [kind |-> "delivered", handle |-> h]
TimedOut(h) == [kind |-> "timed out", handle |-> h]

Deliver(d) == [kind |-> "deliver", handle |-> 0, document |-> d]
TimeOut(h, d) == [kind |-> "timeout", handle |-> h, document |-> d]

Init ==
  /\ pending = <<>> /\ runnable = <<>> /\ identifier = 0
  /\ timeout = [h \in Handle |-> 0] /\ timeoutLeft = [h \in Handle |-> None] /\ timers = {}
  /\ periodLeft = 0 /\ idleTaskQueued = FALSE /\ wakeUp = None
  /\ idleTasks = <<>> /\ work = 0 /\ worked = 0 /\ running = Idle
  /\ turnRequested = FALSE /\ idlePeriodRequested = FALSE
  /\ timerLeft = None /\ suspended = FALSE
  /\ document = 1 /\ activeDocument = 1 /\ destroyed = FALSE
  /\ over = {}

AtRest == running = Idle
Waiting == ToSet(pending) \cup ToSet(runnable)
-----------------------------------------------------------------------------
(* The loop *)

IsRunnable(task) == task.document = activeDocument
HasRunnableTasks == work > 0 \/ \E i \in DOMAIN idleTasks : IsRunnable(idleTasks[i])

\* A running turn holds the request, and looks again at its end.
RequestTurnIfNeeded ==
  turnRequested' = (turnRequested \/ idlePeriodRequested' \/ HasRunnableTasks')

RequestIdlePeriod == idlePeriodRequested' = TRUE /\ RequestTurnIfNeeded

\* Mutant: an activation asks for turns only when there are tasks.
TasksOnly == UNCHANGED idlePeriodRequested /\ RequestTurnIfNeeded

\* When a document of the loop becomes fully active.
NotifyTaskRunnabilityChanged ==
  /\ idlePeriodRequested' = (idlePeriodRequested \/ Waiting # {})
  /\ RequestTurnIfNeeded

QueueWork ==
  /\ worked < MaxWork
  /\ work' = work + 1 /\ worked' = worked + 1
  /\ UNCHANGED <<requestVars, identifier, timeout, periodVars, idleTasks, running,
                 idlePeriodRequested, timerVars, documentVars>>
  /\ RequestTurnIfNeeded

QueueIdleCallback(batch) ==
  /\ idleTaskQueued' = TRUE
  /\ runnable' = batch
  /\ idleTasks' = Append(idleTasks, Deliver(document))

\* What a deadline `left' ahead becomes under the timers' estimates.
Limited(left) == IF timerLeft = None \/ timerLeft > left THEN left ELSE timerLeft

\* Mutant: the end of the period is not awaited.
NoWakeUp == UNCHANGED wakeUp

AwaitPeriodEnd == wakeUp' = IF wakeUp = None THEN Limited(periodLeft) ELSE wakeUp

MayOffer ==
  /\ ~HasRunnableTasks
  /\ ~idleTaskQueued /\ Waiting # {} /\ activeDocument = document

NextBatch == runnable \o pending

\* The loop's #startIdlePeriod and the Window's startIdlePeriod, at the tail of a turn.
StartIdlePeriod ==
  /\ idlePeriodRequested' = FALSE
  /\ \/ /\ ~MayOffer \/ (Limited(periodLeft) <= 0 /\ Limited(Budget) <= 0)
        /\ UNCHANGED <<pending, runnable, periodVars, idleTasks>>
     \/ /\ MayOffer /\ Limited(periodLeft) > 0
        /\ AwaitPeriodEnd
        /\ UNCHANGED <<pending, runnable, periodLeft, idleTaskQueued, idleTasks>>
     \/ /\ MayOffer /\ Limited(periodLeft) <= 0 /\ Limited(Budget) > 0
        /\ wakeUp' = None
        /\ periodLeft' = Budget
        /\ pending' = <<>>
        /\ QueueIdleCallback(NextBatch)

\* A turn without a runnable task, or the tail of one with a task; then the request's
\* callback ends.
EndTurn ==
  /\ \/ running = Ending
     \/ AtRest /\ turnRequested /\ ~HasRunnableTasks
  /\ running' = Idle
  /\ UNCHANGED <<timeoutLeft, timers, over, identifier, timeout, workVars, timerVars, documentVars>>
  /\ StartIdlePeriod
  /\ turnRequested' = HasRunnableTasks'

RunWork ==
  /\ AtRest /\ turnRequested /\ work > 0
  /\ work' = work - 1
  /\ running' = Ordinary
  /\ UNCHANGED <<requestVars, identifier, timeout, periodVars, idleTasks, worked,
                 loopVars, timerVars, documentVars>>
-----------------------------------------------------------------------------
(* Registrations: by script in any task, or by the host at rest *)

Request(ms) ==
  LET h == identifier + 1
  IN  /\ h \in Handle
      /\ identifier' = h
      /\ pending' = Append(pending, h)
      /\ timeout' = [timeout EXCEPT ![h] = ms]
      /\ timeoutLeft' = [timeoutLeft EXCEPT ![h] = IF ms > 0 THEN ms ELSE None]
      /\ timers' = timers \cup {t \in {h} : ms > 0}
      /\ UNCHANGED <<runnable, over, periodVars, idleTasks, workVars, running, timerVars,
                     documentVars>>
      /\ RequestIdlePeriod

\* Deletes a handle from a list, in which it is once at most.
Without(list, h) ==
  IF h \in ToSet(list) THEN RemoveAt(list, CHOOSE i \in DOMAIN list : list[i] = h) ELSE list

\* What cancel does, the runnable list and the host timer apart.
Release(h) ==
  /\ timeoutLeft' = [timeoutLeft EXCEPT ![h] = None]
  /\ pending' = Without(pending, h)
  /\ wakeUp' = IF Waiting \subseteq {h} THEN None ELSE wakeUp
  /\ over' = over \cup {h}

\* Mutant: a callback already made runnable is not canceled.
LeftInBatch(h) == Release(h) /\ timers' = timers \ {h} /\ UNCHANGED runnable

\* cancel: without effect on the lists when h is in neither.
Forget(h) == Release(h) /\ runnable' = Without(runnable, h) /\ timers' = timers \ {h}

Cancel(h) ==
  /\ h <= identifier
  /\ Forget(h)
  /\ UNCHANGED <<identifier, timeout, periodLeft, idleTaskQueued, idleTasks,
                 workVars, running, loopVars, timerVars, documentVars>>
-----------------------------------------------------------------------------
(* Deliveries *)

\* Takes the i-th idle task of a turn.
TakeIdleTask(i) ==
  /\ AtRest /\ turnRequested
  /\ IsRunnable(idleTasks[i])
  /\ \A k \in 1..(i - 1) : ~IsRunnable(idleTasks[k])
  /\ idleTasks' = RemoveAt(idleTasks, i)

\* Ordinary work ends the period, as its deadline does; a canceled batch is empty.
DeliveryPasses == work > 0 \/ Limited(periodLeft) <= 0 \/ runnable = <<>>

\* Mutant: the flag is reset only when a callback is run.
LateReset(i) ==
  /\ TakeIdleTask(i)
  /\ idleTasks[i].kind = "deliver" /\ DeliveryPasses
  /\ running' = Ending
  /\ UNCHANGED <<requestVars, identifier, timeout, periodVars, workVars, loopVars, timerVars,
                 documentVars>>

PassDelivery(i) ==
  /\ TakeIdleTask(i)
  /\ idleTasks[i].kind = "deliver" /\ DeliveryPasses
  /\ idleTaskQueued' = FALSE
  /\ running' = Ending
  /\ UNCHANGED <<requestVars, identifier, timeout, periodLeft, wakeUp, workVars,
                 loopVars, timerVars, documentVars>>

StartDelivery(i) ==
  /\ TakeIdleTask(i)
  /\ idleTasks[i].kind = "deliver" /\ ~DeliveryPasses
  /\ idleTaskQueued' = FALSE
  /\ running' = Delivered(Head(runnable))
  /\ runnable' = Tail(runnable)
  /\ timers' = timers \ {Head(runnable)}
  /\ timeoutLeft' = [timeoutLeft EXCEPT ![Head(runnable)] = None]
  /\ over' = over \cup {Head(runnable)}
  /\ UNCHANGED <<pending, identifier, timeout, periodLeft, wakeUp, workVars,
                 loopVars, timerVars, documentVars>>

\* #invokeIdleCallbackTimeout
RunTimeout(i) ==
  LET h == idleTasks[i].handle
  IN  /\ TakeIdleTask(i)
      /\ idleTasks[i].kind = "timeout"
      /\ IF h \in Waiting
         THEN Forget(h) /\ running' = TimedOut(h)
         ELSE UNCHANGED <<requestVars, wakeUp>> /\ running' = Ending
      /\ UNCHANGED <<identifier, timeout, periodLeft, idleTaskQueued, workVars,
                     loopVars, timerVars, documentVars>>

MoreOfBatch == running.kind = "delivered" /\ runnable # <<>>

\* The callback returns, or its error was reported.
TaskReturns ==
  /\ ~AtRest /\ running # Ending
  /\ running' = Ending
  /\ IF MoreOfBatch
     THEN QueueIdleCallback(runnable)
     ELSE UNCHANGED <<idleTaskQueued, runnable, idleTasks>>
  /\ UNCHANGED <<pending, timeoutLeft, timers, over, identifier, timeout, periodLeft, wakeUp,
                 workVars, idlePeriodRequested, timerVars, documentVars>>
  /\ RequestTurnIfNeeded
-----------------------------------------------------------------------------
(* The host's wake-ups *)

Before(a, b) == timeoutLeft[a] < timeoutLeft[b] \/ (timeoutLeft[a] = timeoutLeft[b] /\ a < b)
DueTimeouts == {h \in Waiting : timeoutLeft[h] # None /\ timeoutLeft[h] <= 0}

\* Mutant: only the timeout whose timer was called.
OwnTimeoutOnly(h) == {h}

DueWith(h) == DueTimeouts

\* #idleTimeoutReached.  A call that comes early sets the timer again.
TimeoutReached(h) ==
  /\ AtRest /\ h \in timers
  /\ \/ /\ h \notin Waiting
        /\ timers' = timers \ {h}
        /\ UNCHANGED <<timeoutLeft, idleTasks>>
     \/ /\ h \in Waiting /\ timeoutLeft[h] > 0
        /\ UNCHANGED <<timers, timeoutLeft, idleTasks>>
     \/ /\ h \in DueTimeouts
        /\ timers' = timers \ DueWith(h)
        /\ timeoutLeft' = [k \in Handle |-> IF k \in DueWith(h) THEN None ELSE timeoutLeft[k]]
        /\ \E due \in SetToSeqs(DueWith(h)) :
             /\ \A i, k \in DOMAIN due : i < k => Before(due[i], due[k])
             /\ idleTasks' = idleTasks \o [i \in DOMAIN due |-> TimeOut(due[i], document)]
  /\ UNCHANGED <<pending, runnable, over, identifier, timeout, periodVars, workVars, running,
                 idlePeriodRequested, timerVars, documentVars>>
  /\ RequestTurnIfNeeded

\* The wake-up for the end of a period, which may come early too.
PeriodEndReached ==
  /\ AtRest /\ wakeUp # None
  /\ wakeUp' = None
  /\ UNCHANGED <<requestVars, identifier, timeout, periodLeft, idleTaskQueued, idleTasks,
                 workVars, running, timerVars, documentVars>>
  /\ RequestIdlePeriod

\* A timer of one of the loop's Windows is set by script, fires and queues its task.
SetTimer(ms) ==
  /\ timerLeft = None /\ ~suspended
  /\ worked < MaxWork
  /\ timerLeft' = ms /\ worked' = worked + 1
  /\ UNCHANGED <<requestVars, identifier, timeout, periodVars, idleTasks, work, running,
                 loopVars, suspended, documentVars>>

TimerFires ==
  /\ AtRest /\ ~suspended
  /\ timerLeft # None /\ timerLeft <= 0
  /\ timerLeft' = None
  /\ work' = work + 1 /\ UNCHANGED worked
  /\ UNCHANGED <<requestVars, identifier, timeout, periodVars, idleTasks, running,
                 idlePeriodRequested, suspended, documentVars>>
  /\ RequestTurnIfNeeded

\* Its document becomes inactive, and active again: then the timer has a later deadline.
SuspendTimer ==
  /\ timerLeft # None /\ ~suspended
  /\ suspended' = TRUE
  /\ UNCHANGED <<requestVars, identifier, timeout, periodVars, idleTasks, workVars, running,
                 loopVars, timerLeft, documentVars>>

ResumeTimer(ms) ==
  /\ suspended /\ ms >= timerLeft
  /\ suspended' = FALSE
  /\ timerLeft' = ms
  /\ UNCHANGED <<requestVars, identifier, timeout, periodVars, idleTasks, workVars, running,
                 documentVars>>
  /\ NotifyTaskRunnabilityChanged

Passed(left) == IF left = None THEN None ELSE IF left = -MaxLate THEN left ELSE left - 1

\* The host is not later than MaxLate.
Tick ==
  /\ \A h \in timers \cap Waiting : timeoutLeft[h] > -MaxLate
  /\ wakeUp # None => wakeUp > -MaxLate
  /\ timeoutLeft' = [h \in Handle |-> Passed(timeoutLeft[h])]
  /\ wakeUp' = Passed(wakeUp)
  /\ timerLeft' = Passed(timerLeft)
  /\ periodLeft' = IF periodLeft = 0 THEN 0 ELSE periodLeft - 1
  /\ UNCHANGED <<pending, runnable, timers, over, identifier, timeout, idleTaskQueued, idleTasks,
                 workVars, running, loopVars, suspended, documentVars>>
-----------------------------------------------------------------------------
(* The document *)

Activate ==
  /\ activeDocument # document /\ ~destroyed
  /\ activeDocument' = document
  /\ UNCHANGED <<requestVars, identifier, timeout, periodVars, idleTasks, workVars, running,
                 timerVars, document, destroyed>>
  /\ NotifyTaskRunnabilityChanged

Deactivate ==
  /\ activeDocument # None
  /\ activeDocument' = None
  /\ UNCHANGED <<requestVars, identifier, timeout, periodVars, idleTasks, workVars, running,
                 loopVars, timerVars, document, destroyed>>

\* The initial about:blank's Window gets the document of a navigation, not active yet.
SetAssociatedDocument ==
  /\ WindowReused /\ document = 1 /\ ~destroyed
  /\ document' = 2
  /\ UNCHANGED <<requestVars, identifier, timeout, periodVars, idleTasks, workVars, running,
                 loopVars, timerVars, activeDocument, destroyed>>

\* destroy, in a task: clear, then the document's tasks are removed.
Destroy ==
  /\ ~AtRest /\ activeDocument = document
  /\ destroyed' = TRUE /\ activeDocument' = None
  /\ pending' = <<>> /\ runnable' = <<>> /\ timers' = {} /\ wakeUp' = None
  /\ timeoutLeft' = [h \in Handle |-> None]
  /\ over' = over \cup Waiting
  /\ \E kept \in SetToSeqs({i \in DOMAIN idleTasks : idleTasks[i].document # document}) :
       /\ \A i, k \in DOMAIN kept : i < k => kept[i] < kept[k]
       /\ idleTasks' = [i \in DOMAIN kept |-> idleTasks[kept[i]]]
  /\ UNCHANGED <<identifier, timeout, periodLeft, idleTaskQueued, workVars, running,
                 timerVars, document, turnRequested, idlePeriodRequested>>
-----------------------------------------------------------------------------
Delivery == \E i \in DOMAIN idleTasks : StartDelivery(i)
Turn == RunWork \/ TaskReturns \/ EndTurn
          \/ \E i \in DOMAIN idleTasks : StartDelivery(i) \/ PassDelivery(i) \/ RunTimeout(i)

Next ==
  \/ Turn \/ Tick \/ QueueWork
  \/ \E ms \in Timeout : Request(ms)
  \/ \E h \in Handle : Cancel(h) \/ TimeoutReached(h)
  \/ PeriodEndReached \/ TimerFires \/ SuspendTimer
  \/ \E ms \in TimerDelay : SetTimer(ms) \/ ResumeTimer(ms)
  \/ Activate \/ Deactivate \/ SetAssociatedDocument \/ Destroy

Spec == Init /\ [][Next]_vars

\* The host runs turns, and between them the wake-ups that are due; callbacks return, and
\* not every turn is later than a whole idle period.
FairSpec ==
  /\ Spec
  /\ WF_vars(Turn) /\ SF_vars(Delivery) /\ WF_vars(Tick)
  /\ SF_vars(wakeUp # None /\ wakeUp <= 0 /\ PeriodEndReached)
  /\ SF_vars(TimerFires)
  /\ \A h \in Handle : SF_vars(h \in DueTimeouts /\ TimeoutReached(h))
-----------------------------------------------------------------------------
Task == [kind : {"deliver", "timeout"}, handle : Handle \cup {0}, document : {1, 2}]

TypeOK ==
  /\ pending \in Seq(Handle) /\ runnable \in Seq(Handle)
  /\ identifier \in Handle \cup {0}
  /\ timeout \in [Handle -> Timeout \cup {0}]
  /\ timeoutLeft \in [Handle -> Int \cup {None}]
  /\ timers \subseteq Handle /\ over \subseteq Handle
  /\ periodLeft \in 0..Budget /\ idleTaskQueued \in BOOLEAN
  /\ wakeUp \in (-MaxLate..Budget) \cup {None}
  /\ idleTasks \in Seq(Task)
  /\ work \in Nat /\ worked \in Nat
  /\ running \in [kind : {"idle", "ordinary", "ending", "delivered", "timed out"},
                  handle : Handle \cup {0}]
  /\ turnRequested \in BOOLEAN /\ idlePeriodRequested \in BOOLEAN
  /\ timerLeft \in Int \cup {None} /\ suspended \in BOOLEAN
  /\ document \in {1, 2} /\ activeDocument \in {1, 2, None} /\ destroyed \in BOOLEAN

\* At most one delivery task, and the flag that prevents a second one is never left set
\* without it in a Window that lives on.
OneDeliveryTask ==
  LET deliveries == {i \in DOMAIN idleTasks : idleTasks[i].kind = "deliver"}
  IN  ~destroyed => Cardinality(deliveries) = IF idleTaskQueued THEN 1 ELSE 0

\* Callbacks of an active document wait for a turn or a wake-up, or for an overdue timer
\* of the loop, whose task brings the next turn.
Offered ==
  AtRest /\ Waiting # {} /\ activeDocument = document =>
    turnRequested \/ wakeUp # None \/ (timerLeft # None /\ timerLeft <= 0)

\* So it is in a Window that keeps its document.
IdleWorkIsOffered == document = 1 => Offered

\* And callbacks retained while their Window has no active document are woken when it has
\* one, also when that is another one than before (what the tests say of activation).
RetainedWorkIsOffered == Offered

\* A timeout has a host timer until it has a task, for as long as its callback waits; and
\* no host timer outlives its callback.
TimeoutsAreWatched ==
  /\ timers = {h \in Waiting : timeoutLeft[h] # None}
  /\ \A h \in Waiting : timeout[h] > 0 /\ timeoutLeft[h] = None =>
       \E i \in DOMAIN idleTasks : idleTasks[i].kind = "timeout" /\ idleTasks[i].handle = h

\* Timeouts that expire no later than another and were registered before it are delivered
\* before it, in whatever order the host calls their timers.
TimeoutsKeepOrder ==
  \A i, k \in DOMAIN idleTasks :
    /\ i < k
    /\ idleTasks[i].kind = "timeout" /\ idleTasks[k].kind = "timeout"
    => idleTasks[i].handle < idleTasks[k].handle
         \/ timeout[idleTasks[k].handle] > timeout[idleTasks[i].handle]

\* What becomes of timeouts.
TimeoutsAreKept == TimeoutsAreWatched /\ TimeoutsKeepOrder

\* A callback runs at most once, by its period or its timeout, and never after its cancel.
RunsAtMostOnce ==
  [][\A h \in Handle : running' # running /\ running' \in {Delivered(h), TimedOut(h)} => h \notin over]_vars

\* Idle deliveries follow the order of registration.
DeliveredInOrder ==
  [][\A h \in Handle : running' # running /\ running' = Delivered(h) => \A k \in Waiting : h <= k]_vars

\* What becomes of callbacks, whichever of their period, timeout and cancel come first.
RunsOnceInOrder == RunsAtMostOnce /\ DeliveredInOrder

\* Callbacks of a document that stays active in its Window are served, unless a timer
\* stays overdue.
CallbacksAreServed ==
  \A h \in Handle :
    h \in Waiting ~>
      (h \notin Waiting \/ activeDocument # document \/ document = 2 \/ suspended)
=============================================================================
