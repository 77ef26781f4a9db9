---------------------------- MODULE WorkerThread ----------------------------
(***************************************************************************)
(* The creator's side of a dedicated worker's thread, WorkerThread, with   *)
(* the runtime inside it, WorkerThreadRuntime                              *)
(* (browlet/integration/host/worker-thread.ts), on an engine thread        *)
(* (js-engine/threads.ts): start-up, commands, the initial script's fetch, *)
(* the implicit message channel, termination and exit.                     *)
(*                                                                         *)
(* Calls that throw change nothing and are no steps.                       *)
(***************************************************************************)
EXTENDS Naturals, Sequences, SequencesExt

Kinds == {"message", "connect", "script"}

CONSTANT MaxSent   \* bounds: commands of each kind, and posts from inside

ASSUME WorkerThreadAssumption == MaxSent \in [Kinds \cup {"post"} -> Nat]

VARIABLES
  \* the creator's side
  state,        \* #state
  ready,        \* the promise of ready; closed is settled when state is `closed'
  stopping,     \* JSThread's #stopping
  exited,       \* JSThread's #exited
  associated,   \* worker.thread is this, and #worker the Worker
  scriptFetch,  \* the number of the pending fetch, or 0
  fetching,     \* fetches that can still answer
  channel,      \* the native channel outsidePort listens to, or 0
  outbox,       \* deliveries queued by outsidePort
  \* in between
  toThread,     \* the native pipes of the thread
  fromThread,
  pipe,         \* author messages on their way to outsidePort
  \* inside
  alive,        \* the thread runs
  endpoint,     \* the thread's own end of the control channel
  tasks,        \* the event loop's tasks, in two task sources
  composed,     \* the agent has its dedicated global
  waiting,      \* #messagePort, the end of a channel without a port, or 0
  insidePort,   \* the channel insidePort listens to, or 0
  handed,       \* what the startup caller was handed, in order
  sent          \* history: commands of each kind, and messages from inside

Counted(kind) ==
  sent[kind] < MaxSent[kind] /\ sent' = [sent EXCEPT ![kind] = @ + 1]

native == <<toThread, fromThread, pipe>>
inside == <<alive, endpoint, tasks, composed, waiting, insidePort, handed>>
outside == <<state, ready, stopping, exited, associated, scriptFetch, fetching,
             channel, outbox>>
vars == <<outside, native, inside, sent>>

Commands == [kind: Kinds, number: Nat]

TypeOK ==
  /\ state \in {"starting", "running", "stopping", "closed"}
  /\ ready \in {"pending", "fulfilled", "rejected"}
  /\ stopping \in BOOLEAN /\ exited \in BOOLEAN /\ associated \in BOOLEAN
  /\ scriptFetch \in Nat /\ fetching \subseteq Nat
  /\ channel \in Nat /\ outbox \in Nat /\ pipe \in Nat
  /\ toThread \in Seq(Commands) /\ tasks \in Seq(Commands)
  /\ fromThread \in Seq({"ready", "message", "error"})
  /\ alive \in BOOLEAN /\ composed \in BOOLEAN
  /\ endpoint \in {"starting", "listening", "disconnected"}
  /\ waiting \in Nat /\ insidePort \in Nat
  /\ handed \in Seq(Commands)
  /\ sent \in [Kinds \cup {"post"} -> Nat]

\* The thread was created; its entry has not run yet.
Init ==
  /\ state = "starting" /\ ready = "pending"
  /\ stopping = FALSE /\ exited = FALSE /\ associated = TRUE
  /\ scriptFetch = 0 /\ fetching = {} /\ channel = 0 /\ outbox = 0
  /\ toThread = <<>> /\ fromThread = <<>> /\ pipe = 0
  /\ alive = TRUE /\ endpoint = "starting" /\ tasks = <<>> /\ composed = FALSE
  /\ waiting = 0 /\ insidePort = 0 /\ handed = <<>>
  /\ sent = [kind \in Kinds \cup {"post"} |-> 0]

-----------------------------------------------------------------------------
(* The creator's calls.                                                     *)

\* JSThread.send() does not throw; what an ended thread is sent is lost.
Accepts == ~stopping /\ ~exited
ToThread(kind, n) ==
  Accepts /\ toThread' = Append(toThread, [kind |-> kind, number |-> n])

Settle(promise) == ready' = IF ready = "pending" THEN promise ELSE ready

Send ==
  /\ state = "running"
  /\ ToThread("message", sent["message"] + 1) /\ Counted("message")
  /\ UNCHANGED <<outside, fromThread, pipe, inside>>

\* connectMessagePort(): outsidePort leaves its former channel, with what was
\* on its way in it.
ConnectMessagePort ==
  /\ state \in {"starting", "running"} /\ associated
  /\ ToThread("connect", sent["connect"] + 1) /\ Counted("connect")
  /\ channel' = sent["connect"] + 1 /\ pipe' = 0
  /\ UNCHANGED <<state, ready, stopping, exited, associated, scriptFetch,
                 fetching, outbox, fromThread, inside>>

\* Mutant: a pending fetch does not prevent another.
Whenever == TRUE

NoFetchPending == scriptFetch = 0

FetchScript ==
  /\ state = "running" /\ NoFetchPending
  /\ scriptFetch' = sent["script"] + 1
  /\ fetching' = fetching \cup {sent["script"] + 1} /\ Counted("script")
  /\ UNCHANGED <<state, ready, stopping, exited, associated, channel, outbox,
                 native, inside>>

\* Mutant: the outside port keeps its connection.
Cleared == UNCHANGED <<channel, pipe>> /\ outbox' = 0

\* The outside port is disconnected, and its queue cleared.
StopDelivery == channel' = 0 /\ pipe' = 0 /\ outbox' = 0

Terminate ==
  /\ state \in {"starting", "running"}
  /\ state' = "stopping" /\ Settle("rejected")
  /\ stopping' = (stopping \/ ~exited)
  /\ StopDelivery
  /\ UNCHANGED <<exited, associated, scriptFetch, fetching, toThread,
                 fromThread, inside, sent>>

-----------------------------------------------------------------------------
(* Events on the creator's side.                                            *)

\* After the exit event its reaction runs, before other events.
CleaningUp == exited /\ state # "closed"

\* processResponseConsumeBody
HandOn(n) ==
  IF state = "running" THEN ToThread("script", n) ELSE UNCHANGED toThread

ResponseArrives(n) ==
  /\ n \in fetching /\ ~CleaningUp
  /\ fetching' = fetching \ {n} /\ scriptFetch' = 0
  /\ HandOn(n)
  /\ UNCHANGED <<state, ready, stopping, exited, associated, channel, outbox,
                 fromThread, pipe, inside, sent>>

Takes == ~stopping /\ state \notin {"stopping", "closed"}

\* JSThread's and WorkerThread's message handlers.  Errors go to the Worker.
ThreadMessageArrives ==
  /\ fromThread # <<>> /\ ~CleaningUp
  /\ fromThread' = Tail(fromThread)
  /\ IF Takes /\ Head(fromThread) = "ready"
     THEN state' = "running" /\ Settle("fulfilled")
     ELSE UNCHANGED <<state, ready>>
  /\ UNCHANGED <<stopping, exited, associated, scriptFetch, fetching, channel,
                 outbox, toThread, pipe, inside, sent>>

PortMessageArrives ==
  /\ channel # 0 /\ pipe > 0 /\ ~CleaningUp
  /\ pipe' = pipe - 1 /\ outbox' = outbox + 1
  /\ UNCHANGED <<state, ready, stopping, exited, associated, scriptFetch,
                 fetching, channel, toThread, fromThread, inside, sent>>

Deliver ==
  /\ outbox > 0 /\ ~CleaningUp
  /\ outbox' = outbox - 1
  /\ UNCHANGED <<state, ready, stopping, exited, associated, scriptFetch,
                 fetching, channel, native, inside, sent>>

\* disconnect() closed the other end: it is with no port, and with no command.
WaitingEndClosed ==
  /\ channel \notin {waiting, insidePort}
  /\ [kind |-> "connect", number |-> channel] \notin ToSet(tasks \o toThread)

\* The end of the thread, or disconnect(), closed the other end of the channel.
HangupArrives ==
  /\ channel # 0 /\ (~alive \/ WaitingEndClosed) /\ pipe = 0 /\ ~CleaningUp
  /\ channel' = 0
  /\ UNCHANGED <<state, ready, stopping, exited, associated, scriptFetch,
                 fetching, outbox, native, inside, sent>>

\* The native exit event, after the thread's last messages.
Exit ==
  /\ ~alive /\ ~exited /\ fromThread = <<>>
  /\ exited' = TRUE
  /\ UNCHANGED <<state, ready, stopping, associated, scriptFetch, fetching,
                 channel, outbox, native, inside, sent>>

\* Mutant: only terminate() rejects ready.
Unsettled == UNCHANGED ready

ReadySettles == IF state = "starting" THEN Settle("rejected") ELSE UNCHANGED ready

\* Mutant: only a terminated worker's fetch is canceled.
TerminatedOnly == IF state = "stopping" THEN {} ELSE fetching

Canceled == {}

\* The reaction to the exit, in which closed is resolved.
CleanUp ==
  /\ CleaningUp
  /\ ReadySettles
  /\ state' = "closed" /\ scriptFetch' = 0 /\ fetching' = Canceled
  /\ associated' = FALSE /\ channel' = 0 /\ pipe' = 0
  /\ UNCHANGED <<stopping, exited, outbox, toThread, fromThread, inside, sent>>

-----------------------------------------------------------------------------
(* Inside the thread.                                                       *)

\* start(), by the entry.
Start ==
  /\ alive /\ endpoint = "starting"
  /\ endpoint' = "listening" /\ fromThread' = Append(fromThread, "ready")
  /\ UNCHANGED <<outside, toThread, pipe, alive, tasks, composed, waiting,
                 insidePort, handed, sent>>

\* What is sent before waits for the listener.
CommandArrives ==
  /\ alive /\ endpoint = "listening" /\ toThread # <<>>
  /\ toThread' = Tail(toThread) /\ tasks' = Append(tasks, Head(toThread))
  /\ UNCHANGED <<outside, fromThread, pipe, alive, endpoint, composed, waiting,
                 insidePort, handed, sent>>

\* entangleRemote() replaces the channel insidePort had.
Attach(handle, hasGlobal) ==
  IF hasGlobal /\ handle # 0 THEN insidePort' = handle /\ waiting' = 0
                             ELSE waiting' = handle /\ UNCHANGED insidePort

\* The networking task source and the one of host control are independent.
IsFirst(i) ==
  \A j \in 1..(i - 1): (tasks[j].kind = "script") # (tasks[i].kind = "script")

RunTask == \E i \in DOMAIN tasks:
  /\ alive /\ IsFirst(i) /\ tasks' = RemoveAt(tasks, i)
  /\ IF tasks[i].kind = "connect"
     THEN Attach(tasks[i].number, composed) /\ UNCHANGED handed
     ELSE handed' = Append(handed, tasks[i]) /\ UNCHANGED <<waiting, insidePort>>
  /\ UNCHANGED <<outside, native, alive, endpoint, composed, sent>>

\* Mutant: an end that arrived before is not attached.
Unattached == UNCHANGED <<waiting, insidePort>>

AttachWaiting == Attach(waiting, TRUE)

\* The global is composed; connectMessagePort() follows.
Compose ==
  /\ alive /\ endpoint # "starting" /\ ~composed
  /\ composed' = TRUE /\ AttachWaiting
  /\ UNCHANGED <<outside, native, alive, endpoint, tasks, handed, sent>>

\* A message, an error report or an author's message leaves the thread.
CanPost == alive /\ Counted("post")

Report == \E kind \in {"message", "error"}:
  /\ CanPost /\ endpoint = "listening"
  /\ fromThread' = Append(fromThread, kind)
  /\ UNCHANGED <<outside, toThread, pipe, inside>>

PostMessage ==
  /\ CanPost /\ insidePort # 0
  /\ pipe' = IF insidePort = channel THEN pipe + 1 ELSE pipe
  /\ UNCHANGED <<outside, toThread, fromThread, inside>>

\* disconnect(): the end of the control channel, and of one that waits for a port,
\* but not of the thread.
Disconnect ==
  /\ alive /\ endpoint = "listening"
  /\ endpoint' = "disconnected" /\ waiting' = 0
  /\ UNCHANGED <<outside, native, alive, tasks, composed, insidePort, handed,
                 sent>>

\* The outside end of the channel was closed.
InsideHangup ==
  /\ alive /\ insidePort \notin {0, channel}
  /\ insidePort' = 0
  /\ UNCHANGED <<outside, native, alive, endpoint, tasks, composed, waiting,
                 handed, sent>>

\* The thread ends: interrupted, by an error, or with nothing left to do.
End ==
  /\ alive /\ alive' = FALSE
  /\ UNCHANGED <<outside, native, endpoint, tasks, composed, waiting, insidePort,
                 handed, sent>>

-----------------------------------------------------------------------------
Inside == Start \/ CommandArrives \/ RunTask
Events == ThreadMessageArrives \/ Exit \/ CleanUp

Next ==
  \/ Send \/ ConnectMessagePort \/ FetchScript \/ Terminate
  \/ \E n \in fetching: ResponseArrives(n)
  \/ Events \/ PortMessageArrives \/ Deliver \/ HangupArrives
  \/ Inside \/ Compose \/ Report \/ PostMessage \/ Disconnect \/ InsideHangup \/ End

Spec == Init /\ [][Next]_vars

\* The thread runs what it has, a terminated one ends, and the creator's host
\* delivers its events.
FairSpec == Spec /\ WF_vars(Inside) /\ WF_vars(Events) /\ WF_vars(stopping /\ End)

-----------------------------------------------------------------------------
(* Properties.                                                              *)

\* From terminate() on the outside queue stays empty, whatever the thread had
\* sent or still sends, and nobody waits for its start.
SilentOnceTerminated ==
  state = "stopping" \/ stopping =>
    outbox = 0 /\ channel = 0 /\ ready # "pending"

\* When closed settles, ready is settled, the script is not fetched any more,
\* the Worker is released and its port disconnected.  Before that the Worker knows
\* its thread, and what a running worker is sent does not throw.
ReleasedWhenClosed ==
  IF state = "closed"
  THEN ready # "pending" /\ fetching = {} /\ ~associated /\ channel = 0
  ELSE associated /\ (state = "running" => Accepts \/ CleaningUp)

\* The scripts handed to the worker, and those on their way there, are those of
\* successive fetches, each of them once.
ScriptsOnce ==
  LET line == handed \o tasks \o toThread
  IN  \A i, j \in DOMAIN line:
        i < j /\ line[i].kind = "script" /\ line[j].kind = "script"
          => line[i].number < line[j].number

\* A terminated or ended thread is closed in the end; one that is neither
\* becomes ready.
StopsOrStarts == /\ (stopping \/ ~alive) ~> state = "closed"
                 /\ <>(ready # "pending")

\* A channel's inside end is attached, whether it came before or after the
\* global, unless it is replaced, disconnected, or the thread disconnects or ends.
ChannelsAttach == \A n \in 1..MaxSent["connect"]:
  channel = n /\ composed ~>
    insidePort = n \/ channel # n \/ endpoint = "disconnected" \/ ~alive
=============================================================================
