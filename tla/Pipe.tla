-------------------------------- MODULE Pipe ---------------------------------
(***************************************************************************)
(* pipeTo() from a ReadableStream to a WritableStream: pipeToInternal() of *)
(* streams/readable-stream.ts with the two streams, a pulled source, a     *)
(* sink and an abort signal.                                               *)
(*                                                                         *)
(* The pipe is nothing but promise reactions, so `jobs' is the microtask   *)
(* queue, first in first out, with one job for every hop that separates    *)
(* two of the pipe's steps.  Source, sink and signal act between two jobs; *)
(* reactions without an effect have no job.                                *)
(***************************************************************************)
EXTENDS Naturals, Sequences, FiniteSets, SequencesExt

CONSTANTS Chunks,          \* the chunks the source can produce, in order
          None,            \* no chunk
          SourceHighWaterMark, SinkHighWaterMark

Chunk == Range(Chunks)

ASSUME PipeAssumption == /\ Chunks \in Seq(Chunk) /\ IsInjective(Chunks)
                         /\ {None, "close", "closed", "errored"} \cap Chunk = {}
                         /\ SourceHighWaterMark \in Nat
                         /\ SinkHighWaterMark \in Nat \ {0}

VARIABLES
  source, destination,   \* the two streams
  produced,              \* how many chunks the source has enqueued
  answered,              \* it has enqueued since pull() was called
  cancelling,            \* its cancel() is waiting for a promise
  aborted,               \* signal.aborted
  pipe,                  \* the variables of pipeToInternal()
  jobs,                  \* the microtask queue
  calls                  \* history: the chunks the sink's write() was called
                         \* with, and whether close() and abort() were called

vars == <<source, destination, produced, answered, cancelling, aborted, pipe,
          jobs, calls>>

R == INSTANCE ReadableStream WITH HighWaterMark <- SourceHighWaterMark
W == INSTANCE WritableStream WITH HighWaterMark <- SinkHighWaterMark

Parts == {"close", "abort", "cancel"}

\* `loop' is where pipeLoop() stands: waiting for the writer to be ready, for
\* the read request, for a job, or off.  `current' is the chunk currentWrite
\* belongs to, `written' the chunks whose currentWrite has settled; `awaited'
\* is the chunk waitForWritesToFinish() waits for, nested `depth' deep.
\* `parts' are the parts of the shutdown action that have not settled, `left'
\* is how many of them Promise.all() still waits for.
IdlePipe == [phase |-> "idle", prevent |-> {}, loop |-> "off",
             current |-> None, written |-> {}, awaited |-> None, depth |-> 0,
             action |-> "none", isError |-> FALSE, parts |-> {}, left |-> 0,
             result |-> "pending"]

PipeType ==
  [phase: {"idle", "piping", "shuttingDown", "done"}, prevent: SUBSET Parts,
   loop: {"off", "ready", "read", "job"},
   current: Chunk \cup {None}, written: SUBSET Chunk,
   awaited: Chunk \cup {None}, depth: Nat,
   action: Parts \cup {"none", "signal"}, isError: BOOLEAN,
   parts: SUBSET Parts, left: 0..2,
   result: {"pending", "fulfilled", "rejected"}]

TypeOK ==
  /\ source \in R!Type /\ source.answers = <<>>
  /\ destination \in W!Type /\ destination.settled = <<>>
  /\ produced \in 0..Len(Chunks)
  /\ answered \in BOOLEAN /\ cancelling \in BOOLEAN /\ aborted \in BOOLEAN
  /\ pipe \in PipeType
  /\ calls \in [chunks: Seq(Chunk), closed: BOOLEAN, aborted: BOOLEAN]

Init ==
  /\ source = R!New /\ destination = W!New
  /\ produced = 0 /\ answered = FALSE
  /\ cancelling = FALSE /\ aborted = FALSE
  /\ pipe = IdlePipe /\ jobs = <<>>
  /\ calls = [chunks |-> <<>>, closed |-> FALSE, aborted |-> FALSE]

-----------------------------------------------------------------------------
(* Operators on everything that one step may change.                        *)

Now == [r |-> source, w |-> destination, p |-> pipe, j |-> jobs,
        calls |-> calls, cancelling |-> cancelling]

Become(s) == \E x \in {s}:
  /\ source' = x.r /\ destination' = x.w /\ pipe' = x.p /\ jobs' = x.j
  /\ calls' = x.calls /\ cancelling' = x.cancelling

Push(s, job, arg) == [s EXCEPT !.j = Append(@, <<job, arg>>)]

\* chunkSteps, closeSteps and errorSteps of the pipe's read request.
ReadAnswered(s, answer) ==
  IF answer \in Chunk
  THEN Push(Push([s EXCEPT !.p.current = answer, !.p.loop = "job"],
                 "write", answer),
            "adoptRead", None)
  ELSE [s EXCEPT !.p.loop = "off"]

\* The source stream becomes r: its closed promise settles before its read
\* request is answered.
WithSource(s, r) ==
  LET new == [s EXCEPT !.r = [r EXCEPT !.answers = <<>>]]
      told == IF s.p.phase # "piping" \/ r.closed = s.r.closed THEN new
              ELSE Push(new, IF r.closed = "fulfilled" THEN "sourceClosed"
                                                       ELSE "sourceErrored",
                        None)
  IN  IF r.answers = <<>> THEN told ELSE ReadAnswered(told, Head(r.answers))

\* A part of the shutdown action may have settled.
PartSettles(s, part, settlement) ==
  IF part \notin s.p.parts \/ settlement \notin {"fulfilled", "rejected"}
  THEN s
  ELSE Push([s EXCEPT !.p.parts = @ \ {part}],
            IF s.p.action = "signal" THEN "all" ELSE "finalize",
            settlement = "fulfilled")

\* The sink is called while its stream changes from w0 to w.
SinkCalled(calls0, w0, w) ==
  IF w.inFlight = "write" /\ (\/ w0.inFlight # "write"
                              \/ Head(w.queue) # Head(w0.queue))
  THEN [calls0 EXCEPT !.chunks = Append(@, Head(w.queue))]
  ELSE IF w.inFlight = "close" /\ w0.inFlight # "close"
  THEN [calls0 EXCEPT !.closed = TRUE]
  ELSE IF w.aborting /\ ~w0.aborting
  THEN [calls0 EXCEPT !.aborted = TRUE]
  ELSE calls0

\* The destination becomes w: promises of write() settle first, then those
\* of close() and abort(), then the writer's own.
WithDestination(s, w) ==
  LET new == [s EXCEPT !.w = [w EXCEPT !.settled = <<>>],
                       !.j = @ \o [i \in DOMAIN w.settled |->
                                     <<"adopt", w.settled[i]>>],
                       !.calls = SinkCalled(@, s.w, w)]
      parts == PartSettles(PartSettles(new, "close", w.close),
                           "abort", w.abort)
      ready == IF s.p.loop # "ready" THEN parts
               ELSE CASE w.ready = "fulfilled" ->
                           Push([parts EXCEPT !.p.loop = "job"], "ready", None)
                      [] w.ready = "rejected" -> [parts EXCEPT !.p.loop = "off"]
                      [] OTHER -> parts
  IN  IF s.p.phase = "piping" /\ w.closed = "rejected"
         /\ s.w.closed # "rejected"
      THEN Push(ready, "destinationErrored", None) ELSE ready

\* finalize(): both locks are released.
Finalize(s, ok) ==
  LET done == [s EXCEPT !.p.phase = "done",
                        !.p.result = IF ok /\ ~s.p.isError THEN "fulfilled"
                                                           ELSE "rejected"]
  IN  WithSource(WithDestination(done, W!Release(s.w)), R!Release(s.r))

\* The parts of a shutdown action, in the order in which they are called.
CloseDestination(s) ==
  LET begun == [s EXCEPT !.p.parts = @ \cup {"close"}]
  IN  IF W!CloseQueuedOrInFlight(s.w) \/ s.w.state = "closed"
      THEN PartSettles(begun, "close", "fulfilled")
      ELSE IF s.w.state = "errored" THEN PartSettles(begun, "close", "rejected")
      ELSE WithDestination(begun, W!Close(s.w))

AbortDestination(s) ==
  LET begun == [s EXCEPT !.p.parts = @ \cup {"abort"}]
  IN  IF W!Finished(s.w) \/ (s.p.action = "signal" /\ s.w.state # "writable")
      THEN PartSettles(begun, "abort", "fulfilled")
      ELSE WithDestination(begun, W!Abort(s.w))

CancelSource(s) ==
  LET begun == [s EXCEPT !.p.parts = @ \cup {"cancel"}]
  IN  CASE s.r.state = "readable" ->
             WithSource([begun EXCEPT !.cancelling = TRUE], R!Cancel(s.r))
        [] s.r.state = "errored" /\ s.p.action # "signal" ->
             PartSettles(begun, "cancel", "rejected")
        [] OTHER -> PartSettles(begun, "cancel", "fulfilled")

SignalActions(s) ==
  LET called == {"abort", "cancel"} \ s.p.prevent
      all == [s EXCEPT !.p.left = Cardinality(called)]
      first == IF "abort" \in called THEN AbortDestination(all) ELSE all
  IN  IF called = {} THEN Push(all, "then", TRUE)
      ELSE IF "cancel" \in called THEN CancelSource(first) ELSE first

\* doTheRest(), or finalize() when there is no action.
DoTheRest(s) ==
  CASE s.p.action = "none"   -> Finalize(s, TRUE)
    [] s.p.action = "close"  -> CloseDestination(s)
    [] s.p.action = "abort"  -> AbortDestination(s)
    [] s.p.action = "cancel" -> CancelSource(s)
    [] s.p.action = "signal" -> SignalActions(s)

\* waitForWritesToFinish(), called from itself when currentWrite changed.
WaitForWritesToFinish(s, depth) ==
  LET waiting == [s EXCEPT !.p.awaited = s.p.current, !.p.depth = depth]
  IN  IF s.p.current \in s.p.written \cup {None}
      THEN Push(waiting, "waited", s.p.current) ELSE waiting

\* Mutant: the action starts with writes in flight.
ShutdownAtOnce(s, action, isError) ==
  IF s.p.phase # "piping" THEN s
  ELSE DoTheRest([s EXCEPT !.p.phase = "shuttingDown", !.p.action = action,
                           !.p.isError = isError])

\* shutdownWithAction(); shutdown() is the action "none".
Shutdown(s, action, isError) ==
  IF s.p.phase # "piping" THEN s
  ELSE LET down == [s EXCEPT !.p.phase = "shuttingDown",
                             !.p.action = action, !.p.isError = isError]
       IN  IF W!Accepts(s.w) THEN WaitForWritesToFinish(down, 0)
                             ELSE DoTheRest(down)

ActionUnless(s, action) == IF action \in s.p.prevent THEN "none" ELSE action

SourceErrored(s) == Shutdown(s, ActionUnless(s, "abort"), TRUE)
DestinationErrored(s) == Shutdown(s, ActionUnless(s, "cancel"), TRUE)
SourceClosed(s) == Shutdown(s, ActionUnless(s, "close"), FALSE)

\* Mutant: the next read does not wait for the writer.
EagerPipeStep(s) ==
  IF s.p.phase # "piping" THEN [s EXCEPT !.p.loop = "off"]
                          ELSE Push([s EXCEPT !.p.loop = "job"], "ready", None)

\* pipeStep(): wait for the writer's current ready promise.
PipeStep(s) ==
  IF s.p.phase # "piping" \/ s.w.ready = "rejected"
  THEN [s EXCEPT !.p.loop = "off"]
  ELSE IF s.w.ready = "fulfilled"
  THEN Push([s EXCEPT !.p.loop = "job"], "ready", None)
  ELSE [s EXCEPT !.p.loop = "ready"]

\* The writer is ready.  Reading through a released reader throws.
ReadForPipe(s) ==
  IF ~s.r.locked THEN [s EXCEPT !.p.loop = "off"]
  ELSE WithSource([s EXCEPT !.p.loop = "read"], R!ReadChunk(s.r))

\* The deferred write of a chunk.  Writing through a released writer throws.
WriteChunk(s, chunk) ==
  IF ~s.w.locked THEN Push(s, "settle", chunk)
  ELSE WithDestination(s, W!Write(s.w, chunk))

CurrentWriteSettles(s, chunk) ==
  LET settled == [s EXCEPT !.p.written = @ \cup {chunk}]
  IN  IF s.p.awaited = chunk THEN Push(settled, "waited", chunk) ELSE settled

WritesFinished(s, awaited) ==
  IF awaited # s.p.current THEN WaitForWritesToFinish(s, s.p.depth + 1)
  ELSE Push(s, "rest", s.p.depth)

\* One part of Promise.all() settles; a rejection settles the whole.
AllReacts(s, ok) ==
  LET left == IF ok /\ s.p.left > 0 THEN s.p.left - 1 ELSE 0
      new == [s EXCEPT !.p.left = left]
  IN  IF s.p.left > 0 /\ left = 0 THEN Push(new, "then", ok) ELSE new

Perform(s, job, arg) ==
  CASE job = "sourceErrored"      -> SourceErrored(s)
    [] job = "sourceClosed"       -> SourceClosed(s)
    [] job = "destinationErrored" -> DestinationErrored(s)
    [] job = "ready"     -> ReadForPipe(s)
    [] job = "write"     -> WriteChunk(s, arg)
    [] job = "adoptRead" -> Push(s, "next", None)
    [] job = "next"      -> PipeStep(s)
    [] job = "adopt"     -> Push(s, "settle", arg)
    [] job = "settle"    -> CurrentWriteSettles(s, arg)
    [] job = "waited"    -> WritesFinished(s, arg)
    [] job = "rest"      -> IF arg > 0 THEN Push(s, "rest", arg - 1)
                                       ELSE DoTheRest(s)
    [] job = "all"       -> AllReacts(s, arg)
    [] job = "then"      -> Push(s, "finalize", arg)
    [] job = "finalize"  -> Finalize(s, arg)
-----------------------------------------------------------------------------
(* The pipe.                                                                *)

\* pipeToInternal(): lock both streams, look at their states, start to read.
PipeTo(prevent) ==
  /\ pipe.phase = "idle"
  /\ LET locked == [Now EXCEPT !.r = R!GetReader(source),
                               !.w = W!GetWriter(destination),
                               !.p.phase = "piping", !.p.prevent = prevent]
         s1 == IF source.state = "errored" THEN SourceErrored(locked)
                                           ELSE locked
         s2 == IF destination.state = "errored" THEN DestinationErrored(s1)
                                                ELSE s1
         s3 == IF source.state = "closed" THEN SourceClosed(s2) ELSE s2
         s4 == IF W!CloseQueuedOrInFlight(destination)
                  \/ destination.state = "closed"
               THEN DestinationErrored(s3) ELSE s3
     IN  Become(IF aborted THEN Shutdown(locked, "signal", TRUE)
                           ELSE PipeStep(s4))
  /\ UNCHANGED <<produced, answered, aborted>>

RunJob ==
  /\ jobs # <<>>
  /\ Become(Perform([Now EXCEPT !.j = Tail(@)], Head(jobs)[1], Head(jobs)[2]))
  /\ UNCHANGED <<produced, answered, aborted>>

\* The signal is aborted; the pipe's algorithm is removed by finalize().
SignalAbort ==
  /\ ~aborted /\ aborted' = TRUE
  /\ Become(Shutdown(Now, "signal", TRUE))
  /\ UNCHANGED <<produced, answered>>

-----------------------------------------------------------------------------
(* The source and the sink.                                                 *)

SourceBecomes(r) == Become(WithSource(Now, r))
SinkBecomes(w) ==
  /\ Become(WithDestination(Now, w))
  /\ UNCHANGED <<produced, answered, aborted>>

SourceStarts ==
  /\ ~source.started /\ SourceBecomes(R!Started(source))
  /\ UNCHANGED <<produced, answered, aborted>>

\* A pull source: it enqueues only while pull() is waiting for its promise.
SourceEnqueues ==
  /\ source.pulling /\ R!CanCloseOrEnqueue(source)
  /\ produced < Len(Chunks)
  /\ SourceBecomes(R!Enqueue(source, Chunks[produced + 1]))
  /\ produced' = produced + 1 /\ answered' = TRUE
  /\ UNCHANGED aborted

SourceCloses ==
  /\ R!CanCloseOrEnqueue(source) /\ SourceBecomes(R!Close(source))
  /\ UNCHANGED <<produced, answered, aborted>>

SourceErrors ==
  /\ source.state = "readable" /\ SourceBecomes(R!Error(source))
  /\ UNCHANGED <<produced, answered, aborted>>

\* The pull promise is fulfilled once the pull is answered.
SourcePulled ==
  /\ source.pulling /\ (answered \/ ~R!CanCloseOrEnqueue(source))
  /\ SourceBecomes(R!Pulled(source))
  /\ answered' = FALSE
  /\ UNCHANGED <<produced, aborted>>

SourceCancelSettles(settlement) ==
  /\ cancelling
  /\ Become(PartSettles([Now EXCEPT !.cancelling = FALSE],
                        "cancel", settlement))
  /\ UNCHANGED <<produced, answered, aborted>>

SinkStarts(settlement) ==
  /\ ~destination.started
  /\ SinkBecomes(IF settlement = "fulfilled"
                 THEN W!StartFulfilled(destination)
                 ELSE W!StartRejected(destination))

SinkWriteSettles(settlement) ==
  /\ destination.inFlight = "write"
  /\ SinkBecomes(IF settlement = "fulfilled"
                 THEN W!WriteFulfilled(destination)
                 ELSE W!WriteRejected(destination))

SinkCloseSettles(settlement) ==
  /\ destination.inFlight = "close"
  /\ SinkBecomes(IF settlement = "fulfilled"
                 THEN W!CloseFulfilled(destination)
                 ELSE W!CloseRejected(destination))

SinkAbortSettles(settlement) ==
  /\ destination.aborting
  /\ SinkBecomes(W!AbortSettled(destination, settlement))

SinkErrors ==
  /\ destination.state = "writable" /\ SinkBecomes(W!Error(destination))

\* Before the pipe the author may close or abort the unlocked destination.
DestinationCloses ==
  /\ pipe.phase = "idle" /\ ~W!CloseQueuedOrInFlight(destination)
  /\ SinkBecomes(W!Close(destination))

DestinationAborts ==
  /\ pipe.phase = "idle" /\ destination.state = "writable"
  /\ SinkBecomes(W!Abort(destination))

SinkSettles ==
  \E settlement \in {"fulfilled", "rejected"}:
    \/ SinkStarts(settlement)       \/ SinkWriteSettles(settlement)
    \/ SinkCloseSettles(settlement) \/ SinkAbortSettles(settlement)

SourceSettles ==
  \/ SourceStarts \/ SourcePulled
  \/ \E settlement \in {"fulfilled", "rejected"}:
       SourceCancelSettles(settlement)

SourceAnswers ==
  \/ SourceEnqueues \/ SourceCloses \/ SourceErrors

Next ==
  \/ \E prevent \in SUBSET Parts: PipeTo(prevent)
  \/ RunJob \/ SignalAbort
  \/ SourceSettles \/ SourceAnswers
  \/ SinkSettles \/ SinkErrors
  \/ DestinationCloses \/ DestinationAborts

Spec == Init /\ [][Next]_vars

\* The host never rests while it owes a step: a microtask to run, a promise
\* of the source or the sink to settle, a pull to answer.
Owed ==
  \/ RunJob \/ SinkSettles \/ SourceSettles
  \/ source.pulling /\ ~answered /\ SourceAnswers

FairSpec == Spec /\ WF_vars(Owed)

-----------------------------------------------------------------------------
(* Properties.                                                              *)

\* What was handed to the sink or still waits in the destination's queue.
Handed == calls.chunks \o W!WriteRequests(destination)

\* No sequence of calls, settlements and microtasks reaches one of the
\* InternalErrors that guard the writable stream's algorithms.
NoInternalError == ~destination.broken

\* The sink gets the chunks in the source's order, and is closed by the pipe
\* only after it got every chunk the source produced.
DeliversInOrder ==
  /\ IsPrefix(calls.chunks, Chunks)
  /\ pipe.action = "close" /\ calls.closed
       => calls.chunks = SubSeq(Chunks, 1, produced)

\* The pipe reads a chunk only when the writer is ready for it: chunks queued
\* in the destination or on their deferred way there never exceed its room.
BackpressureObeyed ==
  Len(W!QueuedChunks(destination))
    + Cardinality({i \in DOMAIN jobs: jobs[i][1] = "write"}) <= SinkHighWaterMark

\* The locks are released and the shutdown's action is taken only after the
\* chunk the shutdown found being written was handed over, unless the
\* destination failed.
AwaitedIsHanded ==
  /\ pipe.phase = "done" /\ pipe.awaited # None
  /\ W!Accepts(destination) \/ calls.aborted \/ calls.closed
  => Contains(Handed, pipe.awaited)

\* A pipe that ends well has handed over everything.
AllDelivered ==
  pipe.result = "fulfilled" /\ destination.state \in {"writable", "closed"}
    => Handed = SubSeq(Chunks, 1, produced)

\* A shutdown waits for the chunk being written and loses none that it waited
\* for; a pipe whose promise is fulfilled has lost none at all.
NothingReadIsLost == AwaitedIsHanded /\ AllDelivered

\* A stream that has ended leaves no promise of its writer, of close() or of
\* abort() pending, and no chunk in its queue.
RequestsSettle ==
  W!Finished(destination) /\ ~destination.aborting
    => /\ "pending" \notin {destination.ready, destination.closed,
                            destination.close, destination.abort}
       /\ destination.queue = <<>>

\* The writer's ready promise is pending exactly while a writable stream has
\* no room, whatever errors, closes and locks came in between.
ReadyMeansRoom ==
  destination.locked /\ destination.state = "writable"
    => (destination.ready = "pending" <=>
          /\ W!Backpressure(destination)
          /\ ~W!CloseQueuedOrInFlight(destination))

\* What authors are told by promises agrees with the state of the streams.
PromisesTellTheState == RequestsSettle /\ ReadyMeansRoom

\* Every pipe settles: no order of errors, closes, aborts and settlements
\* leaves it waiting, as long as source and sink settle what they owe.
PipeSettles == pipe.phase = "piping" ~> pipe.result # "pending"
=============================================================================
