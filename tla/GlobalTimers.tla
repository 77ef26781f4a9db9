---------------------------- MODULE GlobalTimers ----------------------------
(***************************************************************************)
(* The timers of a Window (scripting/timers.ts): setTimeout, setInterval   *)
(* and the other waits in fully active time, with the native wake-ups they *)
(* ask the host for and the timer tasks they queue.                        *)
(*                                                                         *)
(* A wait that completes queues its task; the task runs the action if its  *)
(* id is still registered for it.  The map of ids and the waits live       *)
(* separately: clearing an id leaves the wait running, and frees the id.   *)
(***************************************************************************)
EXTENDS Naturals, Sequences, SequencesExt

CONSTANTS
  MaxId,      \* the largest id, after which ids start again at 1 (2147483647)
  ClampLevel, \* timers nested deeper than this have a least delay (5)
  Clamp,      \* that delay (4)
  Delay,      \* delays asked for
  Group,      \* ordering identifiers
  Public,     \* the one of setTimeout and setInterval
  NoTime, NoTask,
  MaxTime,    \* bound on the clock
  MaxWaits    \* bound on the waits started

ASSUME GlobalTimersAssumption ==
  /\ MaxId \in Nat \ {0} /\ ClampLevel \in Nat /\ Clamp \in Nat
  /\ Delay \subseteq Nat /\ Public \in Group
  /\ NoTime \notin Nat
  /\ NoTask \notin [key : Nat, id : Nat, repeat : BOOLEAN, milliseconds : Nat, level : Nat, startedAt : Nat]
  /\ MaxTime \in Nat /\ MaxWaits \in Nat

VARIABLES
  now,          \* currentHighResolutionTime
  activeTimers, \* waits in the order of their sequence numbers
  idMap,        \* the key registered for each id, 0 for none
  nextId, nextSequence,
  fullyActive,
  observing,    \* #stopObservingDocument is set
  tasks,        \* timer tasks on the event loop
  running,      \* the timer task whose action runs
  taskIsCurrent,\* it is the loop's currently running task: false after a microtask
  activeTime,   \* history: how long the document has been fully active
  cleared       \* history: keys whose id was cleared

loopVars == <<tasks, running, taskIsCurrent>>
documentVars == <<fullyActive, observing>>
vars == <<now, activeTimers, idMap, nextId, nextSequence, documentVars, loopVars, activeTime, cleared>>

Id == 1..MaxId

Init ==
  /\ now = 0 /\ activeTime = 0
  /\ activeTimers = <<>>
  /\ idMap = [id \in Id |-> 0]
  /\ nextId = 1 /\ nextSequence = 1
  /\ fullyActive = FALSE /\ observing = FALSE
  /\ tasks = <<>> /\ running = NoTask /\ taskIsCurrent = FALSE
  /\ cleared = {}

Waits == ToSet(activeTimers)
Later(a, b) == IF a > b THEN a ELSE b

\* #schedule: the host is asked for the remaining time.
Schedule(w) == [w EXCEPT !.wakeUp = Later(now, w.expiryTime)]

\* The wait that runStepsAfterTimeout starts; what follows `wakeUp' is for its task.
NewWait(group, ms, id, repeat, level) ==
  [key |-> nextSequence, group |-> group, milliseconds |-> ms,
   expiryTime |-> now + ms,
   suspensionStartTime |-> IF fullyActive THEN NoTime ELSE now,
   wakeUp |-> IF fullyActive THEN now + ms ELSE NoTime,
   id |-> id, repeat |-> repeat, level |-> level, startedAt |-> activeTime]

RunStepsAfterTimeout(wait) ==
  /\ activeTimers' = Append(activeTimers, wait)
  /\ nextSequence' = nextSequence + 1

\* Bound: the last wait is left for the interval that runs and may repeat.
Room == nextSequence < MaxWaits \/ (nextSequence = MaxWaits /\ ~(running # NoTask /\ running.repeat))

\* Another algorithm waits (AbortSignal.timeout, engine jobs); its steps are its own.
OtherWait(group, ms) ==
  /\ Room
  /\ group # Public
  /\ RunStepsAfterTimeout(NewWait(group, ms, 0, FALSE, 0))
  /\ UNCHANGED <<now, idMap, nextId, documentVars, loopVars, activeTime, cleared>>
-----------------------------------------------------------------------------
(* Registrations *)

NestingLevel == IF running # NoTask /\ taskIsCurrent THEN running.level ELSE 0
Deepened(level) == IF level > ClampLevel THEN level ELSE level + 1

\* #initializeTimer
InitializeTimer(id, timeout, repeat) ==
  LET ms == IF NestingLevel > ClampLevel THEN Later(timeout, Clamp) ELSE timeout
  IN  /\ RunStepsAfterTimeout(NewWait(Public, ms, id, repeat, Deepened(NestingLevel)))
      /\ idMap' = [idMap EXCEPT ![id] = nextSequence]

After(id) == IF id = MaxId THEN 1 ELSE id + 1

\* #allocateId: the first free id from nextId on, around the end of their range.
Allocated(id) ==
  LET Distance(i) == IF i >= nextId THEN i - nextId ELSE i + MaxId - nextId
  IN  /\ idMap[id] = 0
      /\ \A other \in Id : idMap[other] = 0 => Distance(id) <= Distance(other)

\* setTimeout and setInterval, by the action of a timer task or by other code.
SetTimer(timeout, repeat) ==
  \E id \in Id :
    /\ Room
    /\ Allocated(id)
    /\ nextId' = After(id)
    /\ InitializeTimer(id, timeout, repeat)
    /\ UNCHANGED <<now, documentVars, loopVars, activeTime, cleared>>

ClearTimer(id) ==
  /\ idMap[id] # 0
  /\ idMap' = [idMap EXCEPT ![id] = 0]
  /\ cleared' = cleared \cup {idMap[id]}
  /\ UNCHANGED <<now, activeTimers, nextId, nextSequence, documentVars, loopVars, activeTime>>

\* The document is unloaded for good.  Tasks already queued find no registration.
Clear ==
  /\ activeTimers' = <<>>
  /\ idMap' = [id \in Id |-> 0]
  /\ cleared' = cleared \cup ({idMap[id] : id \in Id} \ {0})
  /\ observing' = FALSE /\ fullyActive' = FALSE
  /\ UNCHANGED <<now, nextId, nextSequence, loopVars, activeTime>>
-----------------------------------------------------------------------------
(* Suspension *)

Suspended(waits) ==
  [i \in DOMAIN waits |->
     [waits[i] EXCEPT !.wakeUp = NoTime, !.suspensionStartTime = now]]

\* Mutant: the wait goes on with the deadline it was suspended with.
KeptDeadlines(waits) ==
  [i \in DOMAIN waits |->
     Schedule([waits[i] EXCEPT !.suspensionStartTime = NoTime])]

Resumed(waits) ==
  [i \in DOMAIN waits |->
     Schedule([waits[i] EXCEPT !.expiryTime = @ + (now - waits[i].suspensionStartTime),
                               !.suspensionStartTime = NoTime])]

\* #setFullyActive, called by the observed document.
SetFullyActive(active) ==
  /\ observing
  /\ active # fullyActive
  /\ fullyActive' = active
  /\ activeTimers' = IF active THEN Resumed(activeTimers) ELSE Suspended(activeTimers)
  /\ UNCHANGED <<now, idMap, nextId, nextSequence, observing, loopVars, activeTime, cleared>>

\* The Window gets its (next) document, which may be fully active already.
SetAssociatedDocument(active) ==
  /\ observing' = TRUE
  /\ fullyActive' = active
  /\ LET waits == IF fullyActive THEN Suspended(activeTimers) ELSE activeTimers
     IN  activeTimers' = IF active THEN Resumed(waits) ELSE waits
  /\ UNCHANGED <<now, idMap, nextId, nextSequence, loopVars, activeTime, cleared>>
-----------------------------------------------------------------------------
(* Completion *)

\* Mutant: a wait of the same length does not hold back a later one.
StrictlyShorterBlocks(waits, w) ==
  \E v \in ToSet(waits) :
    v.key < w.key /\ v.group = w.group /\ v.milliseconds < w.milliseconds

HasOrderingBlocker(waits, w) ==
  \E v \in ToSet(waits) :
    v.key < w.key /\ v.group = w.group /\ v.milliseconds <= w.milliseconds

\* Mutant: nobody looks for the waits that the completed one held back.
SleepingUnblocked(waits) == waits

ScheduleNewlyUnblockedTimers(waits) ==
  [i \in DOMAIN waits |->
     IF waits[i].wakeUp = NoTime /\ waits[i].expiryTime <= now /\ ~HasOrderingBlocker(waits, waits[i])
     THEN Schedule(waits[i]) ELSE waits[i]]

TaskOf(w) ==
  [key |-> w.key, id |-> w.id, repeat |-> w.repeat, milliseconds |-> w.milliseconds,
   level |-> w.level, startedAt |-> w.startedAt]

Expired(w) == now >= w.expiryTime

\* #timeoutReached.  A blocked wait goes to sleep until it is unblocked; one that the
\* host woke early (its delays are limited and rounded) asks again.
TimeoutReached(i) ==
  LET w == activeTimers[i]
      completed == Expired(w) /\ ~HasOrderingBlocker(activeTimers, w)
  IN  /\ running = NoTask
      /\ w.wakeUp # NoTime
      /\ activeTimers' =
           IF completed THEN ScheduleNewlyUnblockedTimers(RemoveAt(activeTimers, i))
           ELSE IF Expired(w) THEN [activeTimers EXCEPT ![i].wakeUp = NoTime]
           ELSE [activeTimers EXCEPT ![i] = Schedule(w)]
      /\ tasks' = IF completed /\ w.group = Public THEN Append(tasks, TaskOf(w)) ELSE tasks
      /\ UNCHANGED <<now, idMap, nextId, nextSequence, documentVars, running, taskIsCurrent,
                     activeTime, cleared>>
-----------------------------------------------------------------------------
(* The timer task *)

\* Mutant: any registration of the id lets the action run.
RegisteredId(t) == idMap[t.id] # 0

IsRegistered(t) == idMap[t.id] = t.key

\* A task of the document runs while it is fully active, and does nothing for an id
\* that was cleared.
RunTask ==
  /\ running = NoTask /\ tasks # <<>>
  /\ observing => fullyActive
  /\ Head(tasks).repeat => nextSequence <= MaxWaits \* bound
  /\ tasks' = Tail(tasks)
  /\ IF IsRegistered(Head(tasks))
     THEN running' = Head(tasks) /\ taskIsCurrent' = TRUE
     ELSE UNCHANGED <<running, taskIsCurrent>>
  /\ UNCHANGED <<now, activeTimers, idMap, nextId, nextSequence, documentVars, activeTime, cleared>>

\* A microtask that runs before the task's end leaves the loop without a current task.
MicrotaskRan ==
  /\ running # NoTask /\ taskIsCurrent
  /\ taskIsCurrent' = FALSE
  /\ UNCHANGED <<now, activeTimers, idMap, nextId, nextSequence, documentVars, tasks, running,
                 activeTime, cleared>>

\* Mutant: the id of a one-shot timer stays registered.
KeptRegistration ==
  /\ running # NoTask /\ ~(running.repeat /\ IsRegistered(running))
  /\ running' = NoTask /\ taskIsCurrent' = FALSE
  /\ UNCHANGED <<now, activeTimers, idMap, nextId, nextSequence, documentVars, tasks, activeTime, cleared>>

\* The action returned: a one-shot timer's id is released unless it is no longer its own.
TimeoutEnds ==
  /\ running # NoTask /\ ~(running.repeat /\ IsRegistered(running))
  /\ running' = NoTask /\ taskIsCurrent' = FALSE
  /\ idMap' = IF IsRegistered(running) THEN [idMap EXCEPT ![running.id] = 0] ELSE idMap
  /\ UNCHANGED <<now, activeTimers, nextId, nextSequence, documentVars, tasks, activeTime, cleared>>

\* An interval that is still registered starts its next wait.
IntervalRepeats ==
  /\ running # NoTask /\ running.repeat /\ IsRegistered(running)
  /\ running' = NoTask /\ taskIsCurrent' = FALSE
  /\ InitializeTimer(running.id, running.milliseconds, TRUE)
  /\ UNCHANGED <<now, nextId, documentVars, tasks, activeTime, cleared>>

Tick ==
  /\ now < MaxTime
  /\ now' = now + 1
  /\ activeTime' = IF fullyActive THEN activeTime + 1 ELSE activeTime
  /\ UNCHANGED <<activeTimers, idMap, nextId, nextSequence, documentVars, loopVars, cleared>>
-----------------------------------------------------------------------------
Next ==
  \/ \E ms \in Delay : \/ \E repeat \in BOOLEAN : SetTimer(ms, repeat)
                       \/ \E group \in Group : OtherWait(group, ms)
  \/ \E id \in Id : ClearTimer(id)
  \/ \E active \in BOOLEAN : SetFullyActive(active) \/ SetAssociatedDocument(active)
  \/ \E i \in DOMAIN activeTimers : TimeoutReached(i)
  \/ Clear \/ RunTask \/ MicrotaskRan \/ TimeoutEnds \/ IntervalRepeats \/ Tick

Spec == Init /\ [][Next]_vars

\* The host calls each wake-up that is due, and actions return.
FairSpec ==
  /\ Spec
  /\ \A k \in 1..MaxWaits :
       WF_vars(\E i \in DOMAIN activeTimers :
                 activeTimers[i].key = k /\ Expired(activeTimers[i]) /\ TimeoutReached(i))
  /\ WF_vars(TimeoutEnds \/ IntervalRepeats)
-----------------------------------------------------------------------------
Key == 1..MaxWaits
Task == [key : Key, id : Id, repeat : BOOLEAN, milliseconds : Nat, level : Nat, startedAt : Nat]
Wait == [key : Key, group : Group, milliseconds : Nat, expiryTime : Nat,
         suspensionStartTime : Nat \cup {NoTime}, wakeUp : Nat \cup {NoTime},
         id : Id \cup {0}, repeat : BOOLEAN, level : Nat, startedAt : Nat]

TypeOK ==
  /\ now \in Nat /\ activeTime \in Nat
  /\ activeTimers \in Seq(Wait)
  /\ \A i, j \in DOMAIN activeTimers : i < j => activeTimers[i].key < activeTimers[j].key
  /\ idMap \in [Id -> Key \cup {0}] /\ nextId \in Id
  /\ nextSequence \in 1..(MaxWaits + 1)
  /\ fullyActive \in BOOLEAN /\ observing \in BOOLEAN /\ taskIsCurrent \in BOOLEAN
  /\ tasks \in Seq(Task) /\ running \in Task \cup {NoTask}
  /\ cleared \subseteq Key

\* A wait completes only after the document has been fully active for its whole length
\* since it started, however often it was suspended and however the host rounds.
CallbacksAreDue ==
  \A t \in ToSet(tasks) : activeTime - t.startedAt >= t.milliseconds

\* A suspended wait has no wake-up; one of an active document has one unless a wait that
\* started earlier and is not longer has still to complete, and then it is due itself:
\* no wait sleeps through its deadline.
NoLostWait ==
  \A w \in Waits :
    IF fullyActive
    THEN \/ w.wakeUp # NoTime /\ w.wakeUp <= Later(now, w.expiryTime)
         \/ Expired(w) /\ HasOrderingBlocker(activeTimers, w)
    ELSE w.wakeUp = NoTime

\* Timer tasks are queued in the order HTML asks for: never behind one that started
\* later and asked for as much or more, also after suspensions and early wake-ups.
OrderKept ==
  /\ \A i, j \in DOMAIN tasks :
       i < j => ~(tasks[j].key < tasks[i].key /\ tasks[j].milliseconds <= tasks[i].milliseconds)
  /\ \A t \in ToSet(tasks), w \in Waits :
       w.group = Public => ~(w.key < t.key /\ w.milliseconds <= t.milliseconds)

\* hasOutstandingTimers keeps a worker alive for its registrations: each of them still
\* has a wait, a task or a running action of its own, that will release it.
RegistrationsAreServed ==
  \A id \in Id : idMap[id] # 0 =>
    \/ \E w \in Waits : w.key = idMap[id] /\ w.id = id
    \/ \E t \in ToSet(tasks) \cup ({running} \ {NoTask}) : t.key = idMap[id] /\ t.id = id

\* No wait and no registration is left behind.
NothingIsStranded == NoLostWait /\ RegistrationsAreServed

\* The action of a cleared timer never starts, though its wait and its task live on and
\* its id may be another timer's by then.
ClearedNeverRuns ==
  [][running' # running /\ running' # NoTask => running'.key \notin cleared]_vars

\* A registration ends by being cleared, or with the action that runs for it.
RegistrationsKept ==
  [][\A id \in Id :
       idMap[id] # 0 /\ idMap'[id] # idMap[id] =>
         idMap[id] \in cleared' \/ (running # NoTask /\ running.key = idMap[id] /\ running' = NoTask)
    ]_vars

\* A timer's task acts for the registration that queued it, and for no other that has
\* the same id meanwhile.
KeysDecide == ClearedNeverRuns /\ RegistrationsKept

\* While the document stays fully active, a wait that is due completes.
Due(k) == fullyActive /\ \E w \in Waits : w.key = k /\ Expired(w)
DueWaitsComplete == \A k \in Key : Due(k) ~> ~Due(k)
=============================================================================
