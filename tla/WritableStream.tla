---------------------------- MODULE WritableStream ----------------------------
(***************************************************************************)
(* A WritableStreamImpl with its controller and the one writer it may be   *)
(* locked to (streams/writable-stream.ts), as operators on one record:     *)
(* every operator is a method or a promise reaction, run to completion.    *)
(*                                                                         *)
(* The promises of write() are known by their chunks; those an operator    *)
(* settles are left in `settled' for the caller.  Every chunk has size 1;  *)
(* a size algorithm that fails is the same as the sink calling error().    *)
(* `broken' records that the code threw one of its InternalErrors.         *)
(***************************************************************************)
EXTENDS Naturals, Sequences, SequencesExt

CONSTANTS HighWaterMark,   \* strategyHighWaterMark
          Chunk            \* what may be written

CloseSentinel == "close"
Settlement == {"none", "pending", "fulfilled", "rejected"}

Type == [state: {"writable", "erroring", "errored", "closed"},
         started: BOOLEAN, backpressure: BOOLEAN,
         algorithms: BOOLEAN,                       \* not yet cleared
         queue: Seq(Chunk \cup {CloseSentinel}),
         inFlight: {"none", "write", "close"},
         closeRequest: BOOLEAN,
         pendingAbort: {"none", "fresh", "alreadyErroring"},
         aborting: BOOLEAN,              \* the abort algorithm's promise
         locked: BOOLEAN,                \* state.writer
         ready: Settlement, closed: Settlement,     \* the writer's promises
         close: Settlement, abort: Settlement,      \* close()'s and abort()'s
         settled: Seq(Chunk),
         broken: BOOLEAN]

\* The constructor with setUp(): unlocked; the start promise is pending.
New == [state |-> "writable", started |-> FALSE,
        backpressure |-> HighWaterMark = 0, algorithms |-> TRUE,
        queue |-> <<>>, inFlight |-> "none", closeRequest |-> FALSE,
        pendingAbort |-> "none", aborting |-> FALSE, locked |-> FALSE,
        ready |-> "none", closed |-> "none", close |-> "none",
        abort |-> "none", settled |-> <<>>, broken |-> FALSE]

CloseQueuedOrInFlight(w) == w.closeRequest \/ w.inFlight = "close"
HasOperationInFlight(w) == w.inFlight # "none"
Finished(w) == w.state \in {"closed", "errored"}
Break(w) == [w EXCEPT !.broken = TRUE]

\* Nothing is queued behind the close sentinel.
QueuedChunks(w) ==
  IF w.queue # <<>> /\ Last(w.queue) = CloseSentinel THEN Front(w.queue)
                                                     ELSE w.queue

\* The chunks whose write() has not been handed to the sink: writeRequests.
WriteRequests(w) ==
  IF w.inFlight = "write" THEN Tail(QueuedChunks(w)) ELSE QueuedChunks(w)

Backpressure(w) == Len(QueuedChunks(w)) >= HighWaterMark

\* ensureReadyPromiseRejected() and the other changes of a writer's promises
\* leave an unlocked stream alone.
SetReady(w, settlement) ==
  IF w.locked THEN [w EXCEPT !.ready = settlement] ELSE w
SetClosed(w, settlement) ==
  IF w.locked THEN [w EXCEPT !.closed = settlement] ELSE w

UpdateBackpressure(w) ==
  IF CloseQueuedOrInFlight(w) \/ w.state # "writable" THEN w
  ELSE LET changed == Backpressure(w) # w.backpressure
           now == [w EXCEPT !.backpressure = Backpressure(w)]
       IN  IF changed
           THEN SetReady(now, IF now.backpressure THEN "pending"
                                                  ELSE "fulfilled")
           ELSE now

RejectCloseAndClosedPromiseIfNeeded(w) ==
  SetClosed(IF w.closeRequest
            THEN [w EXCEPT !.closeRequest = FALSE, !.close = "rejected"]
            ELSE w,
            "rejected")

\* Mutant: the promises of queued writes are forgotten with the queue.
ForgottenRequests(w) ==
  LET errored == [w EXCEPT !.state = "errored", !.queue = <<>>,
                           !.pendingAbort = "none"]
  IN  IF w.pendingAbort = "fresh"
      THEN [errored EXCEPT !.aborting = TRUE, !.algorithms = FALSE]
      ELSE RejectCloseAndClosedPromiseIfNeeded(errored)

\* finishErroring(): a fresh abort request runs the abort algorithm, if it is
\* still there.
FinishErroring(w) ==
  LET errored == [w EXCEPT !.state = "errored", !.queue = <<>>,
                           !.settled = @ \o WriteRequests(w),
                           !.pendingAbort = "none"]
  IN  IF w.state # "erroring" \/ HasOperationInFlight(w) THEN Break(w)
      ELSE CASE w.pendingAbort = "fresh" ->
                  IF w.algorithms
                  THEN [errored EXCEPT !.aborting = TRUE, !.algorithms = FALSE]
                  ELSE Break(errored)
             [] w.pendingAbort = "alreadyErroring" ->
                  RejectCloseAndClosedPromiseIfNeeded(
                    [errored EXCEPT !.abort = "rejected"])
             [] OTHER -> RejectCloseAndClosedPromiseIfNeeded(errored)

\* Mutant: an operation in flight does not hold the error back.
EagerErroring(w) ==
  LET erroring == SetReady([w EXCEPT !.state = "erroring"], "rejected")
  IN  IF w.started THEN FinishErroring(erroring) ELSE erroring

StartErroring(w) ==
  LET erroring == SetReady([w EXCEPT !.state = "erroring"], "rejected")
  IN  IF w.state # "writable" THEN Break(w)
      ELSE IF ~HasOperationInFlight(w) /\ w.started THEN FinishErroring(erroring)
      ELSE erroring

DealWithRejection(w) ==
  IF w.state = "writable" THEN StartErroring(w) ELSE FinishErroring(w)

\* processWrite() and processClose() hand the head of the queue to the sink;
\* the close sentinel leaves the queue at once, a chunk when its write ends.
ProcessClose(w) ==
  IF ~w.closeRequest \/ w.inFlight = "close" \/ Len(w.queue) # 1
  THEN Break(w)
  ELSE [w EXCEPT !.inFlight = "close", !.closeRequest = FALSE,
                 !.queue = <<>>, !.algorithms = FALSE,
                 !.broken = @ \/ ~w.algorithms]

AdvanceQueueIfNeeded(w) ==
  CASE ~w.started \/ w.inFlight = "write" -> w
    [] w.started /\ w.inFlight # "write" /\ w.state = "erroring" ->
         FinishErroring(w)
    [] OTHER ->
         IF w.queue = <<>> THEN w
         ELSE IF Head(w.queue) = CloseSentinel THEN ProcessClose(w)
         ELSE [w EXCEPT !.inFlight = "write", !.broken = @ \/ ~w.algorithms]

\* Reactions to the start algorithm's promise.
StartFulfilled(w) == AdvanceQueueIfNeeded([w EXCEPT !.started = TRUE])
StartRejected(w) == DealWithRejection([w EXCEPT !.started = TRUE])

\* Reactions to the write algorithm's promise.
WriteFulfilled(w) ==
  AdvanceQueueIfNeeded(UpdateBackpressure(
    [w EXCEPT !.inFlight = "none", !.queue = Tail(@),
              !.settled = Append(@, Head(w.queue))]))

\* The code leaves the chunk to the reset of the queue that always follows.
WriteRejected(w) ==
  LET failed == [w EXCEPT !.inFlight = "none", !.queue = Tail(@),
                          !.settled = Append(@, Head(w.queue)),
                          !.algorithms = @ /\ w.state # "writable"]
  IN  DealWithRejection(failed)

\* Reactions to the close algorithm's promise.
CloseFulfilled(w) ==
  SetClosed([w EXCEPT !.inFlight = "none", !.state = "closed",
                      !.close = "fulfilled",
                      !.abort = IF w.pendingAbort # "none" THEN "fulfilled"
                                                           ELSE @,
                      !.pendingAbort = "none"],
            "fulfilled")

CloseRejected(w) ==
  DealWithRejection([w EXCEPT !.inFlight = "none", !.close = "rejected",
                              !.abort = IF w.pendingAbort # "none"
                                        THEN "rejected" ELSE @,
                              !.pendingAbort = "none"])

\* Mutant: close() stays pending behind an abort.
AbortOnly(w, settlement) ==
  SetClosed([w EXCEPT !.aborting = FALSE, !.abort = settlement], "rejected")

\* Reactions to the abort algorithm's promise.
AbortSettled(w, settlement) ==
  RejectCloseAndClosedPromiseIfNeeded(
    [w EXCEPT !.aborting = FALSE, !.abort = settlement])

\* The controller's error(): the sink may call it at any time.
Error(w) ==
  IF w.state # "writable" THEN w
  ELSE StartErroring([w EXCEPT !.algorithms = FALSE])

\* abortInternal(): what it returns is in `abort', unless the stream has
\* finished, when it returns a fulfilled promise and changes nothing.
Abort(w) ==
  IF Finished(w) \/ w.pendingAbort # "none" THEN w
  ELSE LET requested(kind) == [w EXCEPT !.pendingAbort = kind,
                                        !.abort = "pending"]
       IN  IF w.state = "erroring" THEN requested("alreadyErroring")
           ELSE StartErroring(requested("fresh"))

\* closeInternal(), for callers that have checked CloseQueuedOrInFlight.
Close(w) ==
  IF Finished(w) THEN w
  ELSE LET asked == [w EXCEPT !.closeRequest = TRUE, !.close = "pending"]
           awake == IF w.backpressure /\ w.state = "writable"
                    THEN SetReady(asked, "fulfilled") ELSE asked
       IN  AdvanceQueueIfNeeded(
             [awake EXCEPT !.queue = Append(@, CloseSentinel)])

\* writeInternal() rejects the write at once, or queues it.
Accepts(w) == w.state = "writable" /\ ~CloseQueuedOrInFlight(w)

Write(w, chunk) ==
  IF ~Accepts(w) THEN [w EXCEPT !.settled = Append(@, chunk)]
  ELSE AdvanceQueueIfNeeded(UpdateBackpressure(
         [w EXCEPT !.queue = Append(@, chunk)]))

GetWriter(w) ==
  [w EXCEPT
     !.locked = TRUE,
     !.ready = IF w.state \in {"erroring", "errored"} THEN "rejected"
               ELSE IF w.state = "closed" \/ CloseQueuedOrInFlight(w)
                       \/ ~w.backpressure THEN "fulfilled"
               ELSE "pending",
     !.closed = CASE w.state = "closed"  -> "fulfilled"
                  [] w.state = "errored" -> "rejected"
                  [] OTHER -> "pending"]

\* release(): both promises of the writer end up rejected.
Release(w) ==
  [w EXCEPT !.locked = FALSE, !.ready = "rejected", !.closed = "rejected"]
=============================================================================
