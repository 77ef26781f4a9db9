---------------------------- MODULE ReadableStream ----------------------------
(***************************************************************************)
(* A ReadableStreamImpl with its default controller and the one default    *)
(* reader it may be locked to (streams/readable-stream.ts), as operators   *)
(* on one record: every operator is a method, run to completion.  A module *)
(* that uses the stream keeps the record in a variable.                    *)
(*                                                                         *)
(* Read requests are anonymous and answered in order: `requests' counts    *)
(* the pending ones, and the answers an operator gives are left in         *)
(* `answers' for the caller, who plays the chunk, close and error steps in *)
(* the same step.  Every chunk has size 1; a size algorithm that fails is  *)
(* the same as the source calling error().                                 *)
(***************************************************************************)
EXTENDS Naturals, Sequences

CONSTANTS HighWaterMark,   \* strategyHighWaterMark
          Chunk            \* what may be enqueued

Settlement == {"pending", "fulfilled", "rejected"}
Answers == Chunk \cup {"closed", "errored"}

Type == [state: {"readable", "closed", "errored"},
         locked: BOOLEAN,              \* state.reader
         closed: Settlement,           \* the reader's closedPromise
         requests: Nat,                \* its readRequests
         answers: Seq(Answers),
         started: BOOLEAN, closeRequested: BOOLEAN,
         pulling: BOOLEAN, pullAgain: BOOLEAN,
         algorithms: BOOLEAN,          \* not yet cleared
         queue: Seq(Chunk)]

\* The constructor with setUp(): unlocked; the start promise is pending.
New == [state |-> "readable", locked |-> FALSE, closed |-> "pending",
        requests |-> 0, answers |-> <<>>, started |-> FALSE,
        closeRequested |-> FALSE, pulling |-> FALSE, pullAgain |-> FALSE,
        algorithms |-> TRUE, queue |-> <<>>]

\* get state through the controller's getters
CanCloseOrEnqueue(r) == ~r.closeRequested /\ r.state = "readable"

ShouldCallPull(r) ==
  /\ CanCloseOrEnqueue(r) /\ r.started
  /\ r.requests > 0 \/ Len(r.queue) < HighWaterMark

HasBackpressure(r) == ~ShouldCallPull(r)

\* The pull algorithm runs when `pulling' becomes TRUE.
CallPullIfNeeded(r) ==
  IF ~ShouldCallPull(r) THEN r
  ELSE IF r.pulling THEN [r EXCEPT !.pullAgain = TRUE]
  ELSE [r EXCEPT !.pulling = TRUE]

\* The reactions to the promises of the start and pull algorithms.
Started(r) == CallPullIfNeeded([r EXCEPT !.started = TRUE])

Pulled(r) ==
  LET done == [r EXCEPT !.pulling = FALSE, !.pullAgain = FALSE]
  IN  IF r.pullAgain THEN CallPullIfNeeded(done) ELSE done

\* The reader's part of closeInternal() and errorInternal(), or of neither.
SettleReader(r, settlement, answer) ==
  IF ~r.locked THEN r
  ELSE [r EXCEPT !.closed = settlement, !.requests = 0,
                 !.answers = @ \o [i \in 1..r.requests |-> answer]]

\* ReadableStreamClose and ReadableStreamError
CloseStream(r) ==
  SettleReader([r EXCEPT !.state = "closed"], "fulfilled", "closed")

Error(r) ==
  IF r.state # "readable" THEN r
  ELSE SettleReader([r EXCEPT !.state = "errored", !.queue = <<>>,
                              !.algorithms = FALSE],
                    "rejected", "errored")

\* Mutant: queued chunks do not hold the close back.
CloseAtOnce(r) ==
  IF ~CanCloseOrEnqueue(r) THEN r
  ELSE CloseStream([r EXCEPT !.closeRequested = TRUE, !.algorithms = FALSE])

\* The controller's closeInternal(): queued chunks are delivered first.
Close(r) ==
  IF ~CanCloseOrEnqueue(r) THEN r
  ELSE IF r.queue = <<>>
       THEN CloseStream([r EXCEPT !.closeRequested = TRUE,
                                  !.algorithms = FALSE])
       ELSE [r EXCEPT !.closeRequested = TRUE]

Enqueue(r, chunk) ==
  IF ~CanCloseOrEnqueue(r) THEN r
  ELSE CallPullIfNeeded(
         IF r.requests > 0
         THEN [r EXCEPT !.requests = @ - 1, !.answers = Append(@, chunk)]
         ELSE [r EXCEPT !.queue = Append(@, chunk)])

\* pull(request): a queued chunk answers at once, after the last one closed
\* the stream.
TakeQueued(r) ==
  LET rest == [r EXCEPT !.queue = Tail(@)]
      settled == IF rest.closeRequested /\ rest.queue = <<>>
                 THEN CloseStream([rest EXCEPT !.algorithms = FALSE])
                 ELSE CallPullIfNeeded(rest)
  IN  [settled EXCEPT !.answers = Append(@, Head(r.queue))]

ReadChunk(r) ==
  CASE r.state = "closed"  -> [r EXCEPT !.answers = Append(@, "closed")]
    [] r.state = "errored" -> [r EXCEPT !.answers = Append(@, "errored")]
    [] r.state = "readable" /\ r.queue # <<>> -> TakeQueued(r)
    [] OTHER -> CallPullIfNeeded([r EXCEPT !.requests = @ + 1])

\* cancelInternal() on a readable stream; the caller runs the cancel
\* algorithm.  On a stream that has ended it changes nothing.
Cancel(r) ==
  IF r.state # "readable" THEN r
  ELSE [CloseStream(r) EXCEPT !.queue = <<>>, !.algorithms = FALSE]

GetReader(r) ==
  [r EXCEPT !.locked = TRUE, !.requests = 0,
            !.closed = CASE r.state = "readable" -> "pending"
                         [] r.state = "closed"   -> "fulfilled"
                         [] r.state = "errored"  -> "rejected"]

Release(r) ==
  [SettleReader(r, "rejected", "errored") EXCEPT !.locked = FALSE]
=============================================================================
