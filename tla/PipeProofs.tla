----------------------------- MODULE PipeProofs -----------------------------
(***************************************************************************)
(* A pipe keeps its destination's algorithms within their preconditions,   *)
(* tells its writer the truth, reads only when there is room, hands the    *)
(* chunks over in order and loses none that it waited for, for any chunks  *)
(* and high water marks.                                                   *)
(***************************************************************************)
EXTENDS Pipe, FiniteSetTheorems, SequenceTheorems, TLAPS

-----------------------------------------------------------------------------
(* The destination.                                                         *)

Alive(w) == w.state \in {"writable", "erroring"}

\* A close request is the last thing in the queue, and nothing else is a
\* sentinel; a stream that has finished has no queue.
QueueShape(w) ==
  /\ \A i \in 1..Len(w.queue) :
       w.queue[i] = W!CloseSentinel <=> i = Len(w.queue) /\ w.closeRequest
  /\ Alive(w) /\ w.closeRequest => w.queue # <<>>
  /\ ~Alive(w) => w.queue = <<>>

\* The operation in flight belongs to a started stream that has not finished.
InFlightShape(w) ==
  /\ w.inFlight # "none" => w.started /\ Alive(w)
  /\ w.inFlight = "write" => w.queue # <<>> /\ Head(w.queue) # W!CloseSentinel
  /\ w.inFlight = "close" => w.queue = <<>> /\ ~w.closeRequest
  /\ ~w.started => Alive(w)

\* The algorithms are there as long as they may be needed.
AlgorithmsKept(w) ==
  (w.state = "writable" \/ w.pendingAbort = "fresh") /\ w.inFlight # "close"
    => w.algorithms

\* Pending promises have somebody to settle them.
PromisesOwed(w) ==
  /\ w.pendingAbort # "none" => w.state = "erroring"
  /\ w.aborting => w.state = "errored"
  /\ ~Alive(w) /\ w.closeRequest => w.aborting
  /\ w.close = "pending" => w.closeRequest \/ w.inFlight = "close"
  /\ w.abort = "pending" => w.pendingAbort # "none" \/ w.aborting
  /\ w.closed = "pending" => w.locked /\ (Alive(w) \/ w.aborting)

\* The writer's ready promise and the backpressure flag follow the queue.
ReadyFollows(w) ==
  /\ w.ready = "pending" => w.locked /\ w.state = "writable"
  /\ w.locked => w.ready # "none"
  /\ w.locked /\ w.state \in {"erroring", "errored"} => w.ready = "rejected"
  /\ w.state = "writable" /\ ~W!CloseQueuedOrInFlight(w) =>
       (w.backpressure <=> W!Backpressure(w))
  /\ w.locked /\ w.state = "writable" =>
       (w.ready = "pending" <=> W!Backpressure(w) /\ ~W!CloseQueuedOrInFlight(w))

DestinationInv(w) ==
  /\ w \in W!Type /\ ~w.broken
  /\ QueueShape(w) /\ InFlightShape(w) /\ AlgorithmsKept(w)
  /\ PromisesOwed(w) /\ ReadyFollows(w)

DInv == DestinationInv(destination)

-----------------------------------------------------------------------------
(* The operators of the writable stream.                                    *)

LEMMA QueuedChunksOf ==
  ASSUME NEW w, w.queue \in Seq(Chunk \cup {W!CloseSentinel}), QueueShape(w)
  PROVE  /\ W!QueuedChunks(w) \in Seq(Chunk)
         /\ Len(W!QueuedChunks(w)) = IF w.queue # <<>> /\ w.closeRequest
                                     THEN Len(w.queue) - 1 ELSE Len(w.queue)
         /\ \A i \in 1..Len(W!QueuedChunks(w)) : W!QueuedChunks(w)[i] = w.queue[i]
         /\ Len(w.queue) \in Nat /\ Len(W!QueuedChunks(w)) \in Nat
<1> DEFINE S == W!CloseSentinel   q == w.queue
<1>1. /\ Len(q) \in Nat /\ \A i \in 1..Len(q) : q[i] \in Chunk \cup {S}
      /\ q # <<>> => Len(q) \in Nat \ {0}
      /\ q = <<>> => Len(q) = 0
  BY LenProperties, ElementOfSeq, EmptySeq
<1>2. q # <<>> => (W!Last(q) = S <=> w.closeRequest)
  BY <1>1 DEF QueueShape, W!Last
<1>3. CASE q # <<>> /\ w.closeRequest
  <2>1. W!QueuedChunks(w) = SubSeq(q, 1, Len(q) - 1)
    BY <1>2, <1>3 DEF W!QueuedChunks, W!Front
  <2>2. \A i \in 1..(Len(q) - 1) : q[i] \in Chunk
    BY <1>1 DEF QueueShape
  <2>3. /\ SubSeq(q, 1, Len(q) - 1) \in Seq(Chunk)
        /\ Len(SubSeq(q, 1, Len(q) - 1)) = IF 1 <= Len(q) - 1 THEN Len(q) - 1 - 1 + 1 ELSE 0
        /\ \A i \in 1..(Len(q) - 1 - 1 + 1) : SubSeq(q, 1, Len(q) - 1)[i] = q[1 + i - 1]
    BY <1>1, <2>2, SubSeqProperties
  <2>. QED  BY <1>1, <1>3, <2>1, <2>3
<1>4. CASE ~(q # <<>> /\ w.closeRequest)
  <2>1. W!QueuedChunks(w) = q
    BY <1>2, <1>4 DEF W!QueuedChunks
  <2>2. \A i \in 1..Len(q) : q[i] \in Chunk
    BY <1>1, <1>4 DEF QueueShape
  <2>3. q \in Seq(Chunk)
    BY <2>2, IsASeq, <1>1
  <2>. QED  BY <1>1, <1>4, <2>1, <2>3
<1>. QED  BY <1>3, <1>4

\* What every operator of the destination but write() keeps to: chunks leave the queue
\* at its head when their write ends, or all at once with an error.
Flows(w, w2) ==
  /\ W!Accepts(w2) => W!Accepts(w)
  /\ w2.inFlight = "close" /\ w.inFlight # "close" => w2.state = "writable"
  /\ w2.state = "writable" => w.state = "writable"
  /\ w2.state = "closed" => w.state = "closed" \/ w.inFlight = "close"
  /\ ~Alive(w) => w2.state = w.state
  /\ w.inFlight = "close" => w2.inFlight = "close" \/ ~Alive(w2)
  /\ \/ /\ W!QueuedChunks(w2) = W!QueuedChunks(w) /\ w2.settled = <<>>
        /\ w.inFlight = "write" => w2.inFlight = "write"
     \/ /\ W!QueuedChunks(w2) = Tail(W!QueuedChunks(w)) /\ w.inFlight = "write"
        /\ w2.settled = <<Head(W!QueuedChunks(w))>>
     \/ w2.state = "errored" /\ w2.settled = W!QueuedChunks(w)

Moves(w, w2) == w2.locked = w.locked /\ Flows(w, w2)

\* How an error is begun or ended.
Fails(w, w2) ==
  /\ w2.locked = w.locked /\ w2.inFlight = w.inFlight
  /\ W!CloseQueuedOrInFlight(w2) => W!CloseQueuedOrInFlight(w)
  /\ w2.pendingAbort = "fresh" \/ w2.aborting => w.pendingAbort = "fresh" \/ w.aborting
  /\ \/ w2.state = "errored" /\ w2.settled = w.settled \o W!QueuedChunks(w)
     \/ /\ w2.state = "erroring" /\ W!QueuedChunks(w2) = W!QueuedChunks(w)
        /\ w2.settled = w.settled

\* Two ways in which a writer's promises are settled.
LEMMA SetPromises ==
  ASSUME NEW w \in W!Type, NEW v \in W!Settlement
  PROVE  W!SetReady(w, v) \in W!Type /\ W!SetClosed(w, v) \in W!Type
BY DEF W!Type, W!SetReady, W!SetClosed

LEMMA RejectCloseType ==
  ASSUME NEW w \in W!Type
  PROVE  W!RejectCloseAndClosedPromiseIfNeeded(w) \in W!Type
<1>1. [w EXCEPT !.closeRequest = FALSE, !.close = "rejected"] \in W!Type
  BY Zenon DEF W!Type, W!Settlement
<1>2. "rejected" \in W!Settlement
  BY DEF W!Settlement
<1>. QED  BY <1>1, <1>2, SetPromises DEF W!RejectCloseAndClosedPromiseIfNeeded

\* The end of an error: what is queued is settled and dropped.
LEMMA FinishErroringKeeps ==
  ASSUME NEW w \in W!Type, ~w.broken, w.state = "erroring", w.inFlight = "none",
         QueueShape(w), w.started,
         w.pendingAbort = "fresh" => w.algorithms,
         w.close = "pending" => w.closeRequest,
         w.abort = "pending" => w.pendingAbort # "none",
         w.closed = "pending" => w.locked,
         ~w.aborting, w.ready # "pending", w.locked => w.ready = "rejected"
  PROVE  /\ DestinationInv(W!FinishErroring(w))
         /\ Fails(w, W!FinishErroring(w)) /\ W!FinishErroring(w).state = "errored"
<1> DEFINE t == w.settled \o W!WriteRequests(w)
           e == [w EXCEPT !.state = "errored", !.queue = <<>>, !.settled = t,
                          !.pendingAbort = "none"]
           f == W!FinishErroring(w)
<1>1. t \in Seq(Chunk) /\ t = w.settled \o W!QueuedChunks(w)
  <2>1. w.queue \in Seq(Chunk \cup {W!CloseSentinel}) /\ w.settled \in Seq(Chunk)
    BY DEF W!Type
  <2>2. W!QueuedChunks(w) \in Seq(Chunk)
    BY <2>1, QueuedChunksOf
  <2>3. W!WriteRequests(w) = W!QueuedChunks(w)
    BY DEF W!WriteRequests
  <2>. QED  BY <2>1, <2>2, <2>3, ConcatProperties
<1>2. CASE w.pendingAbort = "fresh"
  <2>1. f = [e EXCEPT !.aborting = TRUE, !.algorithms = FALSE]
    BY <1>2 DEF W!FinishErroring, W!HasOperationInFlight
  <2> HIDE DEF t
  <2>2. <<>> \in Seq(Chunk \cup {W!CloseSentinel})
    OBVIOUS
  <2>3. f \in W!Type
    BY ZenonT(40), <1>1, <2>1, <2>2 DEF W!Type
  <2>. QED  BY <1>1, <1>2, <2>1, <2>3 DEF W!Type, DestinationInv, QueueShape, InFlightShape,
              AlgorithmsKept, PromisesOwed, ReadyFollows, Alive, W!CloseQueuedOrInFlight, Fails
<1>3. CASE w.pendingAbort # "fresh"
  <2>1. \/ f = W!RejectCloseAndClosedPromiseIfNeeded(e) /\ w.pendingAbort = "none"
        \/ f = W!RejectCloseAndClosedPromiseIfNeeded([e EXCEPT !.abort = "rejected"])
    BY <1>3 DEF W!FinishErroring, W!HasOperationInFlight, W!Type
  <2> HIDE DEF t
  <2>2. <<>> \in Seq(Chunk \cup {W!CloseSentinel})
    OBVIOUS
  <2>3. e \in W!Type /\ [e EXCEPT !.abort = "rejected"] \in W!Type
    BY Zenon, <1>1, <2>2 DEF W!Type, W!Settlement
  <2>4. f \in W!Type
    BY <2>1, <2>3, RejectCloseType
  <2>5. CASE f = W!RejectCloseAndClosedPromiseIfNeeded(e) /\ w.pendingAbort = "none"
    BY <1>1, <2>4, <2>5 DEF W!Type, W!RejectCloseAndClosedPromiseIfNeeded, W!SetClosed, W!Settlement,
       DestinationInv, QueueShape, InFlightShape, AlgorithmsKept, PromisesOwed, ReadyFollows,
       Alive, W!CloseQueuedOrInFlight, Fails
  <2>6. CASE f = W!RejectCloseAndClosedPromiseIfNeeded([e EXCEPT !.abort = "rejected"])
    BY <1>1, <2>4, <2>6 DEF W!Type, W!RejectCloseAndClosedPromiseIfNeeded, W!SetClosed, W!Settlement,
       DestinationInv, QueueShape, InFlightShape, AlgorithmsKept, PromisesOwed, ReadyFollows,
       Alive, W!CloseQueuedOrInFlight, Fails
  <2>. QED  BY <2>1, <2>5, <2>6
<1>. QED BY <1>2, <1>3

LEMMA StartErroringKeeps ==
  ASSUME NEW w \in W!Type, ~w.broken, w.state = "writable",
         QueueShape(w), InFlightShape(w),
         w.pendingAbort = "fresh" /\ w.inFlight # "close" => w.algorithms,
         w.close = "pending" => W!CloseQueuedOrInFlight(w),
         w.abort = "pending" => w.pendingAbort # "none",
         w.closed = "pending" => w.locked, w.ready = "pending" => w.locked,
         ~w.aborting
  PROVE  /\ DestinationInv(W!StartErroring(w)) /\ Fails(w, W!StartErroring(w))
         /\ w.inFlight = "none" /\ w.started => W!StartErroring(w).state = "errored"
<1> DEFINE e == W!SetReady([w EXCEPT !.state = "erroring"], "rejected")
           f == W!StartErroring(w)
<1>1. e \in W!Type
  <2>1. [w EXCEPT !.state = "erroring"] \in W!Type /\ "rejected" \in W!Settlement
    BY Zenon DEF W!Type, W!Settlement
  <2>. QED  BY <2>1, SetPromises
<1>2. /\ e.state = "erroring" /\ e.queue = w.queue /\ e.locked = w.locked /\ ~e.broken
      /\ e.inFlight = w.inFlight /\ e.started = w.started /\ e.closeRequest = w.closeRequest
      /\ e.pendingAbort = w.pendingAbort /\ e.algorithms = w.algorithms /\ ~e.aborting
      /\ e.close = w.close /\ e.abort = w.abort /\ e.closed = w.closed /\ e.settled = w.settled
      /\ e.ready # "pending" /\ (e.locked => e.ready = "rejected")
  BY DEF W!Type, W!SetReady
<1>3. QueueShape(e) /\ W!QueuedChunks(e) = W!QueuedChunks(w)
  BY <1>2 DEF QueueShape, Alive, W!QueuedChunks
<1> HIDE DEF e
<1>4. CASE w.inFlight = "none" /\ w.started
  <2>1. f = W!FinishErroring(e)
    BY <1>4 DEF W!StartErroring, W!HasOperationInFlight, e
  <2>2. DestinationInv(f) /\ Fails(e, f) /\ f.state = "errored"
    BY Zenon, <1>1, <1>2, <1>3, <1>4, <2>1, FinishErroringKeeps DEF W!CloseQueuedOrInFlight
  <2>. QED  BY <1>2, <1>3, <2>2 DEF Fails, W!CloseQueuedOrInFlight
<1>5. CASE ~(w.inFlight = "none" /\ w.started)
  <2>1. f = e
    BY <1>5 DEF W!StartErroring, W!HasOperationInFlight, e
  <2>2. InFlightShape(e) /\ AlgorithmsKept(e) /\ PromisesOwed(e) /\ ReadyFollows(e)
    BY <1>2 DEF InFlightShape, AlgorithmsKept, PromisesOwed, ReadyFollows, Alive,
       W!CloseQueuedOrInFlight
  <2>. QED  BY <1>1, <1>2, <1>3, <1>5, <2>1, <2>2 DEF DestinationInv, Fails, W!CloseQueuedOrInFlight
<1>. QED  BY <1>4, <1>5

LEMMA DealWithRejectionKeeps ==
  ASSUME NEW w \in W!Type, ~w.broken, Alive(w), w.inFlight = "none", w.started,
         QueueShape(w), w.pendingAbort = "fresh" => w.algorithms,
         w.close = "pending" => w.closeRequest,
         w.abort = "pending" => w.pendingAbort # "none",
         w.closed = "pending" => w.locked, w.ready = "pending" => w.locked,
         w.state = "erroring" => w.ready # "pending" /\ (w.locked => w.ready = "rejected"),
         ~w.aborting
  PROVE  /\ DestinationInv(W!DealWithRejection(w)) /\ Fails(w, W!DealWithRejection(w))
         /\ W!DealWithRejection(w).state = "errored"
<1>1. CASE w.state = "writable"
  <2>1. InFlightShape(w)
    BY DEF InFlightShape
  <2>. QED  BY <1>1, <2>1, StartErroringKeeps DEF W!DealWithRejection, W!CloseQueuedOrInFlight
<1>2. CASE w.state = "erroring"
  BY <1>2, FinishErroringKeeps DEF W!DealWithRejection
<1>. QED  BY <1>1, <1>2 DEF Alive

\* The next operation is handed to the sink, or a pending error ends.
Advances(w, w2) ==
  \/ Fails(w, w2) /\ w2.state = "errored"
  \/ /\ w2.locked = w.locked /\ w2.state = w.state /\ w2.settled = w.settled
     /\ (W!CloseQueuedOrInFlight(w2) <=> W!CloseQueuedOrInFlight(w))
     /\ w2.pendingAbort = w.pendingAbort /\ w2.aborting = w.aborting
     /\ W!QueuedChunks(w2) = W!QueuedChunks(w)
     /\ w.inFlight # "none" => w2.inFlight = w.inFlight
     /\ w2.inFlight = "close" /\ w.inFlight # "close" => w2.state = "writable"

LEMMA AdvanceKeeps ==
  ASSUME NEW w, DestinationInv(w), w.inFlight # "close"
  PROVE  /\ DestinationInv(W!AdvanceQueueIfNeeded(w))
         /\ Advances(w, W!AdvanceQueueIfNeeded(w))
<1> DEFINE f == W!AdvanceQueueIfNeeded(w)
<1>0. w \in W!Type
  BY DEF DestinationInv
<1>1. CASE ~w.started \/ w.inFlight = "write"
  <2>1. f = w
    BY <1>1 DEF W!AdvanceQueueIfNeeded
  <2>. QED  BY <2>1 DEF Advances
<1>2. CASE w.started /\ w.inFlight # "write" /\ w.state = "erroring"
  <2>1. f = W!FinishErroring(w)
    BY <1>2 DEF W!AdvanceQueueIfNeeded
  <2>2. w.inFlight = "none"
    BY <1>0, <1>2 DEF W!Type
  <2>. QED  BY <1>0, <1>2, <2>1, <2>2, FinishErroringKeeps DEF DestinationInv, AlgorithmsKept,
              PromisesOwed, ReadyFollows, Advances
<1>3. CASE w.started /\ w.inFlight # "write" /\ w.state # "erroring"
  <2>0. w.inFlight = "none"
    BY <1>0, <1>3 DEF W!Type
  <2>1. CASE w.queue = <<>>
    <3>1. f = w
      BY <1>3, <2>1 DEF W!AdvanceQueueIfNeeded
    <3>. QED  BY <3>1 DEF Advances
  <2>2. CASE w.queue # <<>> /\ Head(w.queue) = W!CloseSentinel
    <3>1. w.state = "writable" /\ ~w.broken /\ w.algorithms
      BY <1>0, <1>3, <2>0, <2>2 DEF DestinationInv, QueueShape, Alive, W!Type, AlgorithmsKept
    <3>2. w.queue \in Seq(Chunk \cup {W!CloseSentinel}) /\ 1 \in 1..Len(w.queue) /\ Head(w.queue) = w.queue[1]
          /\ Len(w.queue) \in Nat
      BY <1>0, <2>2, EmptySeq, LenProperties DEF W!Type
    <3>3. Len(w.queue) = 1 /\ w.closeRequest
      BY Zenon, <2>2, <3>2 DEF DestinationInv, QueueShape
    <3>4. f = [w EXCEPT !.inFlight = "close", !.closeRequest = FALSE, !.queue = <<>>,
                        !.algorithms = FALSE, !.broken = @ \/ ~w.algorithms]
      BY <1>3, <2>0, <2>2, <3>3 DEF W!AdvanceQueueIfNeeded, W!ProcessClose
    <3>5. <<>> \in Seq(Chunk \cup {W!CloseSentinel})
      OBVIOUS
    <3>6. f \in W!Type
      BY ZenonT(40), <1>0, <3>1, <3>4, <3>5 DEF W!Type
    <3>7. W!QueuedChunks(w) = <<>> /\ W!QueuedChunks(f) = <<>>
      <4>1. f.queue = <<>>
        BY <1>0, <3>4 DEF W!Type
      <4>2. W!QueuedChunks(w) \in Seq(Chunk) /\ Len(W!QueuedChunks(w)) = 0
        BY <2>2, <3>2, <3>3, QueuedChunksOf DEF DestinationInv
      <4>. QED  BY <4>1, <4>2, EmptySeq DEF W!QueuedChunks
    <3>. QED  BY <1>0, <1>3, <2>0, <3>1, <3>3, <3>4, <3>6, <3>7 DEF W!Type, DestinationInv, QueueShape,
              InFlightShape, AlgorithmsKept, PromisesOwed, ReadyFollows, Alive,
              W!CloseQueuedOrInFlight, Advances, W!Backpressure
  <2>3. CASE w.queue # <<>> /\ Head(w.queue) # W!CloseSentinel
    <3>1. w.state = "writable" /\ ~w.broken /\ w.algorithms
      BY <1>0, <1>3, <2>0, <2>3 DEF DestinationInv, QueueShape, Alive, W!Type, AlgorithmsKept
    <3>2. f = [w EXCEPT !.inFlight = "write", !.broken = @ \/ ~w.algorithms]
      BY <1>3, <2>3 DEF W!AdvanceQueueIfNeeded
    <3>3. f \in W!Type
      BY Zenon, <1>0, <3>1, <3>2 DEF W!Type
    <3>4. f.queue = w.queue
      BY <1>0, <3>2 DEF W!Type
    <3>5. W!QueuedChunks(f) = W!QueuedChunks(w)
      BY <3>4 DEF W!QueuedChunks
    <3>. QED  BY <1>0, <1>3, <2>0, <2>3, <3>1, <3>2, <3>3, <3>5 DEF W!Type, DestinationInv, QueueShape,
              InFlightShape, AlgorithmsKept, PromisesOwed, ReadyFollows, Alive,
              W!CloseQueuedOrInFlight, Advances, W!Backpressure
  <2>. QED  BY <2>1, <2>2, <2>3
<1>. QED  BY <1>1, <1>2, <1>3

\* What an operator that only updates the backpressure may change.
OnlyReadiness(w, w2) ==
  /\ w2.locked = w.locked /\ w2.state = w.state /\ w2.settled = w.settled
  /\ w2.queue = w.queue /\ w2.inFlight = w.inFlight /\ w2.closeRequest = w.closeRequest
  /\ w2.pendingAbort = w.pendingAbort /\ w2.aborting = w.aborting

LEMMA UpdateBackpressureKeeps ==
  ASSUME NEW w \in W!Type, ~w.broken,
         QueueShape(w), InFlightShape(w), AlgorithmsKept(w), PromisesOwed(w),
         w.ready = "pending" => w.locked /\ w.state = "writable",
         w.locked => w.ready # "none",
         w.locked /\ w.state \in {"erroring", "errored"} => w.ready = "rejected",
         w.locked /\ w.state = "writable" =>
           (w.ready = "pending" <=> w.backpressure /\ ~W!CloseQueuedOrInFlight(w))
  PROVE  /\ DestinationInv(W!UpdateBackpressure(w))
         /\ OnlyReadiness(w, W!UpdateBackpressure(w))
<1> DEFINE f == W!UpdateBackpressure(w)
           b == [w EXCEPT !.backpressure = W!Backpressure(w)]
           v == IF b.backpressure THEN "pending" ELSE "fulfilled"
<1>0. W!Backpressure(w) \in BOOLEAN
  BY DEF W!Backpressure
<1>1. b \in W!Type /\ v \in W!Settlement
  BY <1>0 DEF W!Type, W!Settlement
<1>2. W!SetReady(b, v) \in W!Type
  BY <1>1, SetPromises
<1>3. CASE W!CloseQueuedOrInFlight(w) \/ w.state # "writable"
  <2>1. f = w
    BY <1>3 DEF W!UpdateBackpressure
  <2>. QED  BY <1>3, <2>1 DEF DestinationInv, ReadyFollows, OnlyReadiness
<1>4. CASE ~W!CloseQueuedOrInFlight(w) /\ w.state = "writable"
  <2>1. CASE W!Backpressure(w) # w.backpressure
    <3>1. f = W!SetReady(b, v)
      BY <1>4, <2>1 DEF W!UpdateBackpressure
    <3>2. /\ OnlyReadiness(w, f) /\ (f.backpressure <=> W!Backpressure(w))
          /\ w.locked => f.ready # "none" /\ (f.ready = "pending" <=> W!Backpressure(w))
          /\ ~w.locked => f.ready = w.ready
          /\ f.started = w.started /\ f.algorithms = w.algorithms /\ f.close = w.close
          /\ f.abort = w.abort /\ f.closed = w.closed /\ f.broken = w.broken
      BY <1>0, <3>1 DEF W!Type, W!SetReady, OnlyReadiness
    <3>3. (W!Backpressure(f) <=> W!Backpressure(w)) /\ W!QueuedChunks(f) = W!QueuedChunks(w)
      BY <3>2 DEF OnlyReadiness, W!Backpressure, W!QueuedChunks
    <3>4. f \in W!Type
      BY <1>2, <3>1
    <3> HIDE DEF f
    <3>5. QueueShape(f)
      BY <3>2 DEF OnlyReadiness, QueueShape, Alive
    <3>6. InFlightShape(f) /\ AlgorithmsKept(f) /\ PromisesOwed(f)
      BY <3>2 DEF OnlyReadiness, InFlightShape, AlgorithmsKept, PromisesOwed, Alive
    <3>7. ReadyFollows(f)
      <4>1. w.locked \in BOOLEAN /\ f.backpressure \in BOOLEAN
        BY <3>4 DEF W!Type
      <4>. QED  BY <1>4, <3>2, <3>3, <4>1 DEF OnlyReadiness, ReadyFollows, W!CloseQueuedOrInFlight
    <3>. QED  BY <3>2, <3>4, <3>5, <3>6, <3>7 DEF DestinationInv, f
  <2>2. CASE W!Backpressure(w) = w.backpressure
    <3>1. f = b
      BY <1>4, <2>2 DEF W!UpdateBackpressure
    <3>2. b = w
      BY <2>2 DEF W!Type
    <3>. QED  BY <2>2, <1>4, <3>1, <3>2 DEF DestinationInv, ReadyFollows, OnlyReadiness
  <2>. QED  BY <2>1, <2>2
<1>. QED  BY <1>3, <1>4

\* A write that ends takes the chunk at the head of the queue with it.
LEMMA DropHead ==
  ASSUME NEW w, DestinationInv(w), w.inFlight = "write",
         NEW x \in W!Type, x.queue = Tail(w.queue), x.closeRequest = w.closeRequest,
         x.state = w.state
  PROVE  /\ QueueShape(x) /\ W!QueuedChunks(x) = Tail(W!QueuedChunks(w))
         /\ W!QueuedChunks(w) # <<>> /\ Head(W!QueuedChunks(w)) = Head(w.queue)
         /\ Head(w.queue) \in Chunk /\ Tail(w.queue) \in Seq(Chunk \cup {W!CloseSentinel})
         /\ W!QueuedChunks(w) \in Seq(Chunk)
<1> DEFINE q == w.queue   t == Tail(q)   n == Len(q)
           qc == W!QueuedChunks(w)   xc == W!QueuedChunks(x)
<1>1. q \in Seq(Chunk \cup {W!CloseSentinel}) /\ q # <<>> /\ Head(q) # W!CloseSentinel /\ Alive(w)
      /\ QueueShape(w)
  BY DEF DestinationInv, W!Type, InFlightShape
<1>2. /\ n \in Nat \ {0} /\ Head(q) = q[1] /\ Head(q) \in Chunk
      /\ t \in Seq(Chunk \cup {W!CloseSentinel})
      /\ Len(t) = n - 1 /\ \A i \in 1..(n - 1) : t[i] = q[i + 1]
  <2>1. n \in Nat \ {0} /\ Head(q) = q[1]
    BY <1>1, EmptySeq, LenProperties
  <2>2. q[1] \in Chunk
    BY <1>1, <2>1, ElementOfSeq
  <2>3. /\ t \in Seq(Chunk \cup {W!CloseSentinel})
        /\ Len(t) = n - 1 /\ \A i \in 1..(n - 1) : t[i] = q[i + 1]
    BY <1>1, <2>1, HeadTailProperties
  <2>. QED  BY <2>1, <2>2, <2>3
<1>3. \A i \in 1..n : q[i] = W!CloseSentinel <=> i = n /\ w.closeRequest
  BY <1>1 DEF QueueShape
<1>4. t = <<>> <=> n = 1
  <2> HIDE DEF t, n
  <2>. QED  BY <1>2, EmptySeq
<1>5. /\ qc \in Seq(Chunk) /\ Len(qc) = IF w.closeRequest THEN n - 1 ELSE n
      /\ \A i \in 1..Len(qc) : qc[i] = q[i]
  BY <1>1, QueuedChunksOf
<1>6. x.queue = t /\ x.closeRequest = w.closeRequest /\ Alive(x) /\ w.closeRequest \in BOOLEAN
  <2>1. w \in W!Type
    BY DEF DestinationInv
  <2>. QED  BY <1>1, <2>1 DEF W!Type, Alive
<1> HIDE DEF qc, xc, t, n, q
<1>7. w.closeRequest => n > 1
  BY <1>1, <1>2, <1>3 DEF q
<1>8. QueueShape(x)
  <2>1. \A i \in 1..(n - 1) : t[i] = W!CloseSentinel <=> i = n - 1 /\ w.closeRequest
    <3> SUFFICES ASSUME NEW i \in 1..(n - 1)
                 PROVE  t[i] = W!CloseSentinel <=> i = n - 1 /\ w.closeRequest
      OBVIOUS
    <3>1. i + 1 \in 1..n /\ t[i] = q[i + 1] /\ (i + 1 = n <=> i = n - 1)
      BY <1>2
    <3>. QED  BY <1>3, <3>1
  <2>2. w.closeRequest => t # <<>>
    BY <1>2, <1>4, <1>7
  <2>. QED  BY Zenon, <1>2, <1>6, <2>1, <2>2 DEF QueueShape
<1>9. /\ xc \in Seq(Chunk) /\ \A i \in 1..Len(xc) : xc[i] = t[i]
      /\ Len(xc) = IF t # <<>> /\ w.closeRequest THEN n - 1 - 1 ELSE n - 1
  <2>1. x.queue \in Seq(Chunk \cup {W!CloseSentinel})
    BY Zenon, <1>2, <1>6
  <2>. QED  BY Zenon, <1>2, <1>6, <1>8, <2>1, QueuedChunksOf DEF xc
<1>10. Len(xc) = Len(qc) - 1 /\ Len(qc) \in 1..n
  BY <1>2, <1>4, <1>5, <1>6, <1>7, <1>9
<1>11. qc # <<>> /\ Head(qc) = Head(q)
  <2>1. qc[1] = q[1] /\ qc # <<>>
    BY <1>2, <1>5, <1>10, EmptySeq
  <2>. QED  BY <1>2, <1>5, <2>1, HeadTailProperties
<1>12. /\ Tail(qc) \in Seq(Chunk) /\ Len(Tail(qc)) = Len(qc) - 1
       /\ \A i \in 1..(Len(qc) - 1) : Tail(qc)[i] = qc[i + 1]
  BY <1>5, <1>11, HeadTailProperties
<1>13. xc = Tail(qc)
  <2>1. ASSUME NEW i \in 1..Len(xc)  PROVE xc[i] = Tail(qc)[i]
    <3>1. i \in 1..(n - 1) /\ i + 1 \in 1..Len(qc) /\ i \in 1..(Len(qc) - 1)
      BY <1>2, <1>10
    <3>2. xc[i] = q[i + 1]
      BY <1>2, <1>9, <3>1
    <3>3. Tail(qc)[i] = q[i + 1]
      BY <1>5, <1>12, <3>1
    <3>. QED  BY Zenon, <3>2, <3>3
  <2>2. Len(xc) = Len(Tail(qc))
    BY <1>10, <1>12
  <2>. QED  BY Zenon, <1>9, <1>12, <2>1, <2>2, SeqEqual
<1>. QED  BY <1>2, <1>5, <1>8, <1>11, <1>13 DEF qc, xc, q, t

\* What only close() and abort() do.
AsksNothing(w, w2) ==
  /\ W!CloseQueuedOrInFlight(w2) => W!CloseQueuedOrInFlight(w)
  /\ w2.pendingAbort = "fresh" \/ w2.aborting => w.pendingAbort = "fresh" \/ w.aborting

LEMMA StartFulfilledKeeps ==
  ASSUME NEW w, DestinationInv(w), w.settled = <<>>, ~w.started
  PROVE  /\ DestinationInv(W!StartFulfilled(w))
         /\ Moves(w, W!StartFulfilled(w)) /\ AsksNothing(w, W!StartFulfilled(w))
<1> DEFINE x == [w EXCEPT !.started = TRUE]   f == W!StartFulfilled(w)
<1>1. w \in W!Type /\ w.queue \in Seq(Chunk \cup {W!CloseSentinel}) /\ QueueShape(w)
  BY DEF DestinationInv, W!Type
<1>2. x \in W!Type
  BY Zenon, <1>1 DEF W!Type
<1>3. W!QueuedChunks(x) = W!QueuedChunks(w)
  BY <1>1 DEF W!Type, W!QueuedChunks
<1>4. DestinationInv(x) /\ x.inFlight # "close"
  BY <1>1, <1>2, <1>3 DEF W!Type, DestinationInv, QueueShape, InFlightShape, AlgorithmsKept,
     PromisesOwed, ReadyFollows, Alive, W!CloseQueuedOrInFlight, W!Backpressure
<1>5. DestinationInv(f) /\ Advances(x, f)
  BY Zenon, <1>4, AdvanceKeeps DEF W!StartFulfilled
<1>6. W!QueuedChunks(w) \in Seq(Chunk)
  BY <1>1, QueuedChunksOf
<1>7. /\ x.locked = w.locked /\ x.state = w.state /\ x.settled = <<>> /\ x.pendingAbort = w.pendingAbort
      /\ x.aborting = w.aborting /\ x.closeRequest = w.closeRequest /\ x.inFlight = w.inFlight
      /\ Alive(w) /\ w.inFlight = "none"
  BY <1>1 DEF W!Type, DestinationInv, InFlightShape
<1> HIDE DEF x, f
<1>8. <<>> \o W!QueuedChunks(w) = W!QueuedChunks(w)
  BY <1>6, ConcatEmptySeq
<1>. QED  BY <1>3, <1>5, <1>7, <1>8 DEF Advances, Fails, Moves, Flows, W!Accepts, AsksNothing, Alive,
          W!CloseQueuedOrInFlight, f

LEMMA StartRejectedKeeps ==
  ASSUME NEW w, DestinationInv(w), w.settled = <<>>, ~w.started
  PROVE  /\ DestinationInv(W!StartRejected(w))
         /\ Moves(w, W!StartRejected(w)) /\ AsksNothing(w, W!StartRejected(w))
<1> DEFINE x == [w EXCEPT !.started = TRUE]   f == W!StartRejected(w)
<1>1. w \in W!Type /\ w.queue \in Seq(Chunk \cup {W!CloseSentinel}) /\ QueueShape(w)
  BY DEF DestinationInv, W!Type
<1>2. x \in W!Type
  BY Zenon, <1>1 DEF W!Type
<1>3. W!QueuedChunks(x) = W!QueuedChunks(w)
  BY <1>1 DEF W!Type, W!QueuedChunks
<1>4. DestinationInv(x) /\ x.inFlight = "none" /\ x.started
  BY <1>1, <1>2, <1>3 DEF W!Type, DestinationInv, QueueShape, InFlightShape, AlgorithmsKept,
     PromisesOwed, ReadyFollows, Alive, W!CloseQueuedOrInFlight, W!Backpressure
<1>7. /\ x.locked = w.locked /\ x.state = w.state /\ x.settled = <<>> /\ x.pendingAbort = w.pendingAbort
      /\ x.aborting = w.aborting /\ x.closeRequest = w.closeRequest /\ x.inFlight = w.inFlight
      /\ Alive(w) /\ w.inFlight = "none"
  BY <1>1 DEF W!Type, DestinationInv, InFlightShape
<1> HIDE DEF x
<1>5. DestinationInv(f) /\ Fails(x, f)
  <2>1. f = W!DealWithRejection(x)
    BY DEF W!StartRejected, x
  <2>. QED  BY <1>2, <1>4, <1>7, <2>1, DealWithRejectionKeeps DEF DestinationInv, AlgorithmsKept,
            PromisesOwed, ReadyFollows, Alive, W!CloseQueuedOrInFlight
<1>6. <<>> \o W!QueuedChunks(w) = W!QueuedChunks(w)
  BY <1>1, QueuedChunksOf, ConcatEmptySeq
<1> HIDE DEF f
<1>. QED  BY <1>3, <1>5, <1>6, <1>7 DEF Fails, Moves, Flows, W!Accepts, AsksNothing, Alive,
          W!CloseQueuedOrInFlight, f

LEMMA WriteFulfilledKeeps ==
  ASSUME NEW w, DestinationInv(w), w.settled = <<>>, w.inFlight = "write"
  PROVE  /\ DestinationInv(W!WriteFulfilled(w))
         /\ Moves(w, W!WriteFulfilled(w)) /\ AsksNothing(w, W!WriteFulfilled(w))
<1> DEFINE t == Tail(w.queue)   d == Append(w.settled, Head(w.queue))
           x == [w EXCEPT !.inFlight = "none", !.queue = t, !.settled = d]
           u == W!UpdateBackpressure(x)   f == W!WriteFulfilled(w)
<1>0. f = W!AdvanceQueueIfNeeded(u)
  BY Zenon DEF W!WriteFulfilled
<1>1. w \in W!Type /\ w.settled \in Seq(Chunk)
      /\ w.queue \in Seq(Chunk \cup {W!CloseSentinel}) /\ w.queue # <<>>
      /\ Head(w.queue) # W!CloseSentinel /\ Alive(w) /\ w.started
  BY DEF DestinationInv, W!Type, InFlightShape
<1>2. t \in Seq(Chunk \cup {W!CloseSentinel}) /\ Head(w.queue) \in Chunk
  <2>1. t \in Seq(Chunk \cup {W!CloseSentinel}) /\ Head(w.queue) \in Chunk \cup {W!CloseSentinel}
    BY <1>1, HeadTailProperties
  <2>. QED  BY <1>1, <2>1
<1>3. d \in Seq(Chunk) /\ d = <<Head(w.queue)>>
  BY <1>1, <1>2
<1> HIDE DEF t, d
<1>4. x \in W!Type
  BY Zenon, <1>1, <1>2, <1>3 DEF W!Type
<1>5. /\ x.queue = t /\ x.settled = d /\ x.inFlight = "none" /\ x.state = w.state
      /\ x.closeRequest = w.closeRequest /\ x.locked = w.locked /\ x.started
      /\ x.pendingAbort = w.pendingAbort /\ x.aborting = w.aborting /\ x.ready = w.ready
      /\ x.closed = w.closed /\ x.close = w.close /\ x.abort = w.abort /\ ~x.broken
      /\ x.algorithms = w.algorithms /\ x.backpressure = w.backpressure
  BY <1>1 DEF W!Type, DestinationInv
<1> HIDE DEF x
<1>6. /\ QueueShape(x) /\ W!QueuedChunks(x) = Tail(W!QueuedChunks(w))
      /\ W!QueuedChunks(w) # <<>> /\ Head(W!QueuedChunks(w)) = Head(w.queue)
      /\ W!QueuedChunks(w) \in Seq(Chunk)
  BY <1>4, <1>5, DropHead DEF t
<1>7. InFlightShape(x) /\ AlgorithmsKept(x) /\ PromisesOwed(x)
  BY <1>1, <1>5 DEF DestinationInv, InFlightShape, AlgorithmsKept, PromisesOwed, Alive
<1>8. /\ x.ready = "pending" => x.locked /\ x.state = "writable"
      /\ x.locked => x.ready # "none"
      /\ x.locked /\ x.state \in {"erroring", "errored"} => x.ready = "rejected"
      /\ x.locked /\ x.state = "writable" =>
           (x.ready = "pending" <=> x.backpressure /\ ~W!CloseQueuedOrInFlight(x))
  BY <1>5 DEF DestinationInv, ReadyFollows, W!CloseQueuedOrInFlight
<1>9. DestinationInv(u) /\ OnlyReadiness(x, u)
  BY <1>4, <1>5, <1>6, <1>7, <1>8, UpdateBackpressureKeeps
<1> HIDE DEF u, f
<1>10. DestinationInv(f) /\ Advances(u, f)
  <2>1. u.inFlight # "close"
    BY <1>5, <1>9 DEF OnlyReadiness
  <2>. QED  BY <1>0, <1>9, <2>1, AdvanceKeeps
<1>11. W!QueuedChunks(u) = Tail(W!QueuedChunks(w))
  BY <1>6, <1>9 DEF OnlyReadiness, W!QueuedChunks
<1>12. <<Head(w.queue)>> \o Tail(W!QueuedChunks(w)) = W!QueuedChunks(w)
  BY <1>6, HeadTailProperties
<1>13. u.settled = <<Head(W!QueuedChunks(w))>> /\ u.settled \o W!QueuedChunks(u) = W!QueuedChunks(w)
  BY <1>3, <1>5, <1>6, <1>9, <1>11, <1>12 DEF OnlyReadiness
<1>14. Moves(w, f)
  BY ZenonT(40), <1>1, <1>5, <1>9, <1>10, <1>11, <1>13 DEF Advances, Fails, OnlyReadiness, Moves, Flows, W!Accepts,
     W!CloseQueuedOrInFlight, Alive
<1>15. AsksNothing(w, f)
  BY <1>5, <1>9, <1>10 DEF Advances, Fails, OnlyReadiness, AsksNothing, W!CloseQueuedOrInFlight
<1>. QED  BY <1>10, <1>14, <1>15 DEF f

LEMMA WriteRejectedKeeps ==
  ASSUME NEW w, DestinationInv(w), w.settled = <<>>, w.inFlight = "write"
  PROVE  /\ DestinationInv(W!WriteRejected(w))
         /\ Moves(w, W!WriteRejected(w)) /\ AsksNothing(w, W!WriteRejected(w))
<1> DEFINE t == Tail(w.queue)   d == Append(w.settled, Head(w.queue))
           x == [w EXCEPT !.inFlight = "none", !.queue = t, !.settled = d,
                          !.algorithms = @ /\ w.state # "writable"]
           f == W!WriteRejected(w)
<1>0. f = W!DealWithRejection(x)
  BY Zenon DEF W!WriteRejected
<1>1. w \in W!Type /\ w.settled \in Seq(Chunk)
      /\ w.queue \in Seq(Chunk \cup {W!CloseSentinel}) /\ w.queue # <<>>
      /\ Head(w.queue) # W!CloseSentinel /\ Alive(w) /\ w.started
  BY DEF DestinationInv, W!Type, InFlightShape
<1>2. t \in Seq(Chunk \cup {W!CloseSentinel}) /\ Head(w.queue) \in Chunk
  <2>1. t \in Seq(Chunk \cup {W!CloseSentinel}) /\ Head(w.queue) \in Chunk \cup {W!CloseSentinel}
    BY <1>1, HeadTailProperties
  <2>. QED  BY <1>1, <2>1
<1>3. d \in Seq(Chunk) /\ d = <<Head(w.queue)>>
  BY <1>1, <1>2
<1> HIDE DEF t, d
<1>4. x \in W!Type
  BY ZenonT(40), <1>1, <1>2, <1>3 DEF W!Type
<1>5. /\ x.queue = t /\ x.settled = d /\ x.inFlight = "none" /\ x.state = w.state
      /\ x.closeRequest = w.closeRequest /\ x.locked = w.locked /\ x.started
      /\ x.pendingAbort = w.pendingAbort /\ x.aborting = w.aborting /\ x.ready = w.ready
      /\ x.closed = w.closed /\ x.close = w.close /\ x.abort = w.abort /\ ~x.broken
      /\ x.algorithms = (w.algorithms /\ w.state # "writable")
  BY <1>1 DEF W!Type, DestinationInv
<1> HIDE DEF x
<1>6. /\ QueueShape(x) /\ W!QueuedChunks(x) = Tail(W!QueuedChunks(w))
      /\ W!QueuedChunks(w) # <<>> /\ Head(W!QueuedChunks(w)) = Head(w.queue)
      /\ W!QueuedChunks(w) \in Seq(Chunk)
  BY <1>4, <1>5, DropHead DEF t
<1>7. /\ Alive(x) /\ ~x.aborting
      /\ x.pendingAbort = "fresh" => x.algorithms
      /\ x.close = "pending" => x.closeRequest
      /\ x.abort = "pending" => x.pendingAbort # "none"
      /\ x.closed = "pending" => x.locked
      /\ x.ready = "pending" => x.locked
      /\ x.state = "erroring" => x.ready # "pending" /\ (x.locked => x.ready = "rejected")
  BY Zenon, <1>1, <1>5 DEF DestinationInv, AlgorithmsKept, PromisesOwed, ReadyFollows, Alive
<1>8. DestinationInv(f) /\ Fails(x, f)
  BY <1>0, <1>4, <1>5, <1>6, <1>7, DealWithRejectionKeeps
<1> HIDE DEF f
<1>12. <<Head(w.queue)>> \o Tail(W!QueuedChunks(w)) = W!QueuedChunks(w)
  BY <1>6, HeadTailProperties
<1>. QED  BY <1>1, <1>3, <1>5, <1>6, <1>8, <1>12
          DEF Fails, Moves, Flows, W!Accepts, AsksNothing, Alive, W!CloseQueuedOrInFlight, f

LEMMA CloseFulfilledKeeps ==
  ASSUME NEW w, DestinationInv(w), w.settled = <<>>, w.inFlight = "close"
  PROVE  /\ DestinationInv(W!CloseFulfilled(w))
         /\ Moves(w, W!CloseFulfilled(w)) /\ AsksNothing(w, W!CloseFulfilled(w))
<1> DEFINE x == [w EXCEPT !.inFlight = "none", !.state = "closed", !.close = "fulfilled",
                          !.abort = IF w.pendingAbort # "none" THEN "fulfilled" ELSE @,
                          !.pendingAbort = "none"]
           f == W!CloseFulfilled(w)
<1>0. f = W!SetClosed(x, "fulfilled")
  BY Zenon DEF W!CloseFulfilled
<1>1. w \in W!Type /\ w.queue = <<>> /\ ~w.closeRequest
  BY DEF DestinationInv, InFlightShape
<1>2. x \in W!Type /\ "fulfilled" \in W!Settlement
  BY ZenonT(40), <1>1 DEF W!Type, W!Settlement
<1>3. f \in W!Type
  BY <1>0, <1>2, SetPromises
<1>4. /\ f.queue = <<>> /\ f.settled = <<>> /\ f.inFlight = "none" /\ f.state = "closed"
      /\ ~f.closeRequest /\ f.locked = w.locked /\ f.started = w.started /\ f.pendingAbort = "none"
      /\ f.aborting = w.aborting /\ f.ready = w.ready /\ f.close = "fulfilled" /\ ~f.broken
      /\ f.abort = (IF w.pendingAbort # "none" THEN "fulfilled" ELSE w.abort)
      /\ f.closed = (IF w.locked THEN "fulfilled" ELSE w.closed)
  BY <1>0, <1>1 DEF W!Type, W!SetClosed, DestinationInv
<1>5. W!QueuedChunks(f) = W!QueuedChunks(w)
  BY <1>1, <1>4 DEF W!QueuedChunks
<1> HIDE DEF f
<1>6. w.started /\ ~w.aborting /\ w.ready # "pending"
  BY <1>1 DEF DestinationInv, PromisesOwed, InFlightShape, Alive, ReadyFollows, W!CloseQueuedOrInFlight
<1>7. Len(<<>>) = 0
  OBVIOUS
<1>8. QueueShape(f)
  BY <1>4, <1>7 DEF QueueShape, Alive
<1>9. InFlightShape(f) /\ AlgorithmsKept(f) /\ ReadyFollows(f)
  BY <1>4, <1>6 DEF DestinationInv, InFlightShape, AlgorithmsKept, ReadyFollows, Alive
<1>10. PromisesOwed(f)
  BY <1>1, <1>4, <1>6 DEF DestinationInv, PromisesOwed, Alive
<1>11. Moves(w, f) /\ AsksNothing(w, f)
  BY <1>1, <1>4, <1>5 DEF DestinationInv, InFlightShape, Moves, Flows, W!Accepts, AsksNothing, Alive, W!CloseQueuedOrInFlight
<1>. QED  BY <1>3, <1>4, <1>8, <1>9, <1>10, <1>11 DEF DestinationInv, f

LEMMA CloseRejectedKeeps ==
  ASSUME NEW w, DestinationInv(w), w.settled = <<>>, w.inFlight = "close"
  PROVE  /\ DestinationInv(W!CloseRejected(w))
         /\ Moves(w, W!CloseRejected(w)) /\ AsksNothing(w, W!CloseRejected(w))
<1> DEFINE x == [w EXCEPT !.inFlight = "none", !.close = "rejected",
                          !.abort = IF w.pendingAbort # "none" THEN "rejected" ELSE @,
                          !.pendingAbort = "none"]
           f == W!CloseRejected(w)
<1>0. f = W!DealWithRejection(x)
  BY Zenon DEF W!CloseRejected
<1>1. w \in W!Type /\ w.queue = <<>> /\ ~w.closeRequest /\ Alive(w) /\ w.started
  BY DEF DestinationInv, InFlightShape
<1>2. x \in W!Type
  BY ZenonT(40), <1>1 DEF W!Type, W!Settlement
<1>3. /\ x.queue = <<>> /\ x.settled = <<>> /\ x.inFlight = "none" /\ x.state = w.state
      /\ ~x.closeRequest /\ x.locked = w.locked /\ x.started /\ x.pendingAbort = "none"
      /\ x.aborting = w.aborting /\ x.ready = w.ready /\ x.close = "rejected" /\ ~x.broken
      /\ x.abort = (IF w.pendingAbort # "none" THEN "rejected" ELSE w.abort)
      /\ x.closed = w.closed
  BY <1>1 DEF W!Type, DestinationInv
<1>4. W!QueuedChunks(x) = <<>> /\ W!QueuedChunks(w) = <<>>
  BY <1>1, <1>3 DEF W!QueuedChunks
<1> HIDE DEF x
<1>5. /\ Alive(x) /\ ~x.aborting
      /\ x.pendingAbort = "fresh" => x.algorithms
      /\ x.close = "pending" => x.closeRequest
      /\ x.abort = "pending" => x.pendingAbort # "none"
      /\ x.closed = "pending" => x.locked
      /\ x.ready = "pending" => x.locked
      /\ x.state = "erroring" => x.ready # "pending" /\ (x.locked => x.ready = "rejected")
  BY <1>1, <1>3 DEF DestinationInv, PromisesOwed, ReadyFollows, Alive
<1>6. QueueShape(x)
  <2>1. Len(<<>>) = 0
    OBVIOUS
  <2>. QED  BY <1>3, <2>1 DEF QueueShape, Alive
<1>7. DestinationInv(f) /\ Fails(x, f) /\ f.state = "errored"
  BY <1>0, <1>2, <1>3, <1>5, <1>6, DealWithRejectionKeeps
<1> HIDE DEF f
<1>8. x.settled \o W!QueuedChunks(x) = <<>>
  BY <1>3, <1>4
<1>9. Moves(w, f) /\ AsksNothing(w, f)
  BY <1>1, <1>3, <1>4, <1>7, <1>8 DEF Fails, Moves, Flows, W!Accepts, AsksNothing, Alive, W!CloseQueuedOrInFlight
<1>. QED  BY <1>7, <1>9 DEF f

LEMMA AbortSettledKeeps ==
  ASSUME NEW w, DestinationInv(w), w.settled = <<>>, w.aborting,
         NEW settlement \in {"fulfilled", "rejected"}
  PROVE  /\ DestinationInv(W!AbortSettled(w, settlement))
         /\ Moves(w, W!AbortSettled(w, settlement)) /\ AsksNothing(w, W!AbortSettled(w, settlement))
<1> DEFINE x == [w EXCEPT !.aborting = FALSE, !.abort = settlement]
           f == W!AbortSettled(w, settlement)
<1>0. f = W!RejectCloseAndClosedPromiseIfNeeded(x)
  BY Zenon DEF W!AbortSettled
<1>1. w \in W!Type /\ w.queue = <<>> /\ w.state = "errored" /\ w.inFlight = "none" /\ w.started
      /\ w.pendingAbort = "none" /\ (w.close = "pending" => w.closeRequest)
  <2>1. w \in W!Type /\ w.state = "errored"
    BY DEF DestinationInv, PromisesOwed
  <2>. QED  BY <2>1 DEF W!Type, DestinationInv, PromisesOwed, InFlightShape, QueueShape, Alive
<1>2. x \in W!Type
  BY Zenon, <1>1 DEF W!Type, W!Settlement
<1>3. f \in W!Type
  BY <1>0, <1>2, RejectCloseType
<1>4. /\ f.queue = <<>> /\ f.settled = <<>> /\ f.inFlight = "none" /\ f.state = "errored"
      /\ ~f.closeRequest /\ f.locked = w.locked /\ f.started /\ f.pendingAbort = "none"
      /\ ~f.aborting /\ f.ready = w.ready /\ ~f.broken
      /\ f.close = (IF w.closeRequest THEN "rejected" ELSE w.close)
      /\ f.abort = settlement
      /\ f.closed = (IF w.locked THEN "rejected" ELSE w.closed)
  BY <1>0, <1>1 DEF W!Type, W!RejectCloseAndClosedPromiseIfNeeded, W!SetClosed, DestinationInv
<1>5. W!QueuedChunks(f) = W!QueuedChunks(w)
  BY <1>1, <1>4 DEF W!QueuedChunks
<1> HIDE DEF f
<1>7. Len(<<>>) = 0
  OBVIOUS
<1>8. QueueShape(f)
  BY <1>4, <1>7 DEF QueueShape, Alive
<1>9. InFlightShape(f) /\ AlgorithmsKept(f) /\ ReadyFollows(f)
  BY <1>1, <1>4 DEF DestinationInv, InFlightShape, AlgorithmsKept, ReadyFollows, Alive
<1>10. PromisesOwed(f)
  BY <1>1, <1>4 DEF DestinationInv, PromisesOwed, Alive
<1>11. Moves(w, f) /\ AsksNothing(w, f)
  BY <1>1, <1>4, <1>5 DEF Moves, Flows, W!Accepts, AsksNothing, Alive, W!CloseQueuedOrInFlight
<1>. QED  BY <1>3, <1>4, <1>8, <1>9, <1>10, <1>11 DEF DestinationInv, f

LEMMA ErrorKeeps ==
  ASSUME NEW w, DestinationInv(w), w.settled = <<>>, w.state = "writable"
  PROVE  DestinationInv(W!Error(w)) /\ Moves(w, W!Error(w)) /\ AsksNothing(w, W!Error(w))
<1> DEFINE x == [w EXCEPT !.algorithms = FALSE]   f == W!Error(w)
<1>0. f = W!StartErroring(x)
  BY DEF W!Error
<1>1. w \in W!Type /\ w.queue \in Seq(Chunk \cup {W!CloseSentinel})
  BY DEF DestinationInv, W!Type
<1>2. x \in W!Type
  BY Zenon, <1>1 DEF W!Type
<1>3. /\ x.queue = w.queue /\ x.settled = <<>> /\ x.inFlight = w.inFlight /\ x.state = "writable"
      /\ x.closeRequest = w.closeRequest /\ x.locked = w.locked /\ x.started = w.started
      /\ x.pendingAbort = w.pendingAbort /\ x.aborting = w.aborting /\ x.ready = w.ready
      /\ x.close = w.close /\ ~x.broken /\ x.abort = w.abort /\ x.closed = w.closed
  BY <1>1 DEF W!Type, DestinationInv
<1> HIDE DEF x
<1>4. W!QueuedChunks(x) = W!QueuedChunks(w)
  BY <1>3 DEF W!QueuedChunks
<1>5. QueueShape(x) /\ InFlightShape(x)
  BY <1>3 DEF DestinationInv, QueueShape, InFlightShape, Alive
<1>6. /\ x.pendingAbort = "fresh" /\ x.inFlight # "close" => x.algorithms
      /\ x.close = "pending" => W!CloseQueuedOrInFlight(x)
      /\ x.abort = "pending" => x.pendingAbort # "none"
      /\ x.closed = "pending" => x.locked
      /\ x.ready = "pending" => x.locked
      /\ ~x.aborting
  BY <1>3 DEF DestinationInv, PromisesOwed, ReadyFollows, Alive, W!CloseQueuedOrInFlight
<1>7. DestinationInv(f) /\ Fails(x, f)
  BY <1>0, <1>2, <1>3, <1>5, <1>6, StartErroringKeeps
<1> HIDE DEF f
<1>8. x.settled \o W!QueuedChunks(x) = W!QueuedChunks(w)
  <2>1. W!QueuedChunks(w) \in Seq(Chunk)
    BY <1>1, QueuedChunksOf DEF DestinationInv
  <2>. QED  BY <1>3, <1>4, <2>1, ConcatEmptySeq
<1>9. Moves(w, f) /\ AsksNothing(w, f)
  BY <1>3, <1>4, <1>7, <1>8 DEF Fails, Moves, Flows, W!Accepts, AsksNothing, Alive, W!CloseQueuedOrInFlight
<1>. QED  BY <1>7, <1>9 DEF f

LEMMA AbortKeeps ==
  ASSUME NEW w, DestinationInv(w), w.settled = <<>>
  PROVE  /\ DestinationInv(W!Abort(w)) /\ Moves(w, W!Abort(w))
         /\ W!CloseQueuedOrInFlight(W!Abort(w)) => W!CloseQueuedOrInFlight(w)
         /\ w.state # "writable" => AsksNothing(w, W!Abort(w))
<1> DEFINE f == W!Abort(w)
<1>1. w \in W!Type /\ w.queue \in Seq(Chunk \cup {W!CloseSentinel}) /\ QueueShape(w)
  BY DEF DestinationInv, W!Type
<1>2. CASE W!Finished(w) \/ w.pendingAbort # "none"
  <2>1. f = w
    BY <1>2 DEF W!Abort
  <2>. QED  BY <2>1 DEF Moves, Flows, W!Accepts, AsksNothing
<1>3. CASE w.state = "erroring" /\ w.pendingAbort = "none"
  <2>1. f = [w EXCEPT !.pendingAbort = "alreadyErroring", !.abort = "pending"]
    BY <1>3 DEF W!Abort, W!Finished
  <2>2. f \in W!Type
    BY ZenonT(40), <1>1, <2>1 DEF W!Type, W!Settlement
  <2>3. /\ f.queue = w.queue /\ f.settled = <<>> /\ f.inFlight = w.inFlight /\ f.state = "erroring"
        /\ f.closeRequest = w.closeRequest /\ f.locked = w.locked /\ f.started = w.started
        /\ f.pendingAbort = "alreadyErroring" /\ f.aborting = w.aborting /\ f.ready = w.ready
        /\ f.close = w.close /\ ~f.broken /\ f.closed = w.closed
    BY <1>1, <1>3, <2>1 DEF W!Type, DestinationInv
  <2>4. W!QueuedChunks(f) = W!QueuedChunks(w)
    BY <2>3 DEF W!QueuedChunks
  <2> HIDE DEF f
  <2>5. QueueShape(f) /\ InFlightShape(f) /\ AlgorithmsKept(f) /\ PromisesOwed(f) /\ ReadyFollows(f)
    BY <1>3, <2>3 DEF DestinationInv, QueueShape, InFlightShape, AlgorithmsKept, PromisesOwed,
       ReadyFollows, Alive
  <2>6. Moves(w, f) /\ AsksNothing(w, f)
    BY <1>3, <2>3, <2>4 DEF Moves, Flows, W!Accepts, AsksNothing, Alive, W!CloseQueuedOrInFlight
  <2>. QED  BY <2>2, <2>3, <2>5, <2>6 DEF DestinationInv, AsksNothing, f
<1>4. CASE w.state = "writable" /\ w.pendingAbort = "none"
  <2> DEFINE x == [w EXCEPT !.pendingAbort = "fresh", !.abort = "pending"]
  <2>0. f = W!StartErroring(x)
    BY <1>4 DEF W!Abort, W!Finished
  <2>2. x \in W!Type
    BY Zenon, <1>1 DEF W!Type, W!Settlement
  <2>3. /\ x.queue = w.queue /\ x.settled = <<>> /\ x.inFlight = w.inFlight /\ x.state = "writable"
        /\ x.closeRequest = w.closeRequest /\ x.locked = w.locked /\ x.started = w.started
        /\ x.pendingAbort = "fresh" /\ x.aborting = w.aborting /\ x.ready = w.ready
        /\ x.close = w.close /\ ~x.broken /\ x.closed = w.closed /\ x.algorithms = w.algorithms
    BY <1>1, <1>4 DEF W!Type, DestinationInv
  <2> HIDE DEF x
  <2>4. W!QueuedChunks(x) = W!QueuedChunks(w)
    BY <2>3 DEF W!QueuedChunks
  <2>5. QueueShape(x) /\ InFlightShape(x)
    BY <1>4, <2>3 DEF DestinationInv, QueueShape, InFlightShape, Alive
  <2>6. /\ x.pendingAbort = "fresh" /\ x.inFlight # "close" => x.algorithms
        /\ x.close = "pending" => W!CloseQueuedOrInFlight(x)
        /\ x.abort = "pending" => x.pendingAbort # "none"
        /\ x.closed = "pending" => x.locked
        /\ x.ready = "pending" => x.locked
        /\ ~x.aborting
    BY <1>4, <2>3 DEF DestinationInv, AlgorithmsKept, PromisesOwed, ReadyFollows, Alive,
       W!CloseQueuedOrInFlight
  <2>7. DestinationInv(f) /\ Fails(x, f)
    BY <2>0, <2>2, <2>3, <2>5, <2>6, StartErroringKeeps
  <2> HIDE DEF f
  <2>8. x.settled \o W!QueuedChunks(x) = W!QueuedChunks(w)
    <3>1. W!QueuedChunks(w) \in Seq(Chunk)
      BY <1>1, QueuedChunksOf
    <3>. QED  BY <2>3, <2>4, <3>1, ConcatEmptySeq
  <2>9. Moves(w, f) /\ (W!CloseQueuedOrInFlight(f) => W!CloseQueuedOrInFlight(w))
    BY <1>4, <2>3, <2>4, <2>7, <2>8 DEF Fails, Moves, Flows, W!Accepts, Alive, W!CloseQueuedOrInFlight
  <2>. QED  BY <1>4, <2>7, <2>9 DEF f
<1>. QED  BY <1>1, <1>2, <1>3, <1>4 DEF W!Type, W!Finished

\* A chunk or a close request at the end of the queue.
LEMMA AddToQueue ==
  ASSUME NEW w, DestinationInv(w), Alive(w), ~w.closeRequest,
         NEW e \in Chunk \cup {W!CloseSentinel}, W!CloseSentinel \notin Chunk,
         NEW x \in W!Type, x.queue = Append(w.queue, e), x.state = w.state,
         x.closeRequest <=> e = W!CloseSentinel
  PROVE  /\ QueueShape(x) /\ x.queue # <<>>
         /\ e \in Chunk => W!QueuedChunks(x) = Append(W!QueuedChunks(w), e)
         /\ e = W!CloseSentinel => W!QueuedChunks(x) = W!QueuedChunks(w)
         /\ w.queue # <<>> => Head(x.queue) = Head(w.queue)
         /\ W!QueuedChunks(w) = w.queue
<1> DEFINE q == w.queue   t == Append(q, e)   n == Len(q)
           qc == W!QueuedChunks(w)   xc == W!QueuedChunks(x)
<1>1. q \in Seq(Chunk \cup {W!CloseSentinel}) /\ QueueShape(w)
  BY DEF DestinationInv, W!Type
<1>2. /\ n \in Nat /\ t \in Seq(Chunk \cup {W!CloseSentinel}) /\ t # <<>>
      /\ Len(t) = n + 1 /\ \A i \in 1..n : t[i] = q[i]
      /\ t[n + 1] = e /\ Head(t) = t[1] /\ (q # <<>> => Head(q) = q[1] /\ n > 0)
  <2>1. n \in Nat /\ (q # <<>> => Head(q) = q[1] /\ n > 0)
    BY <1>1, EmptySeq, LenProperties
  <2>2. /\ t \in Seq(Chunk \cup {W!CloseSentinel}) /\ t # <<>>
        /\ Len(t) = n + 1 /\ \A i \in 1..n : t[i] = q[i]
        /\ t[n + 1] = e
    BY <1>1, AppendProperties
  <2>3. Head(t) = t[1]
    BY <2>2
  <2>. QED  BY <2>1, <2>2, <2>3
<1>3. \A i \in 1..n : q[i] # W!CloseSentinel
  BY <1>1 DEF QueueShape
<1>4. x.queue = t /\ Alive(x) /\ (x.closeRequest <=> e = W!CloseSentinel)
  BY DEF Alive
<1>5. qc \in Seq(Chunk) /\ Len(qc) = n /\ \A i \in 1..n : qc[i] = q[i]
  BY <1>1, QueuedChunksOf
<1> HIDE DEF q, t, n, qc, xc
<1>6. QueueShape(x)
  <2>1. \A i \in 1..(n + 1) : t[i] = W!CloseSentinel <=> i = n + 1 /\ x.closeRequest
    BY <1>2, <1>3, <1>4
  <2>. QED  BY <1>2, <1>4, <2>1 DEF QueueShape
<1>7. /\ xc \in Seq(Chunk) /\ Len(xc) = IF x.closeRequest THEN n ELSE n + 1
      /\ \A i \in 1..Len(xc) : xc[i] = t[i]
  <2>1. x.queue \in Seq(Chunk \cup {W!CloseSentinel})
    BY <1>2, <1>4
  <2>2. /\ xc \in Seq(Chunk) /\ Len(xc) = IF x.queue # <<>> /\ x.closeRequest THEN Len(t) - 1
                                                                           ELSE Len(t)
        /\ \A i \in 1..Len(xc) : xc[i] = x.queue[i]
    BY <1>4, <1>6, <2>1, QueuedChunksOf DEF xc
  <2>. QED  BY <1>2, <1>4, <2>2
<1>8. ASSUME e \in Chunk  PROVE xc = Append(qc, e)
  <2> DEFINE a == Append(qc, e)
  <2>1. a \in Seq(Chunk) /\ Len(a) = n + 1 /\ a[n + 1] = e /\ \A i \in 1..n : a[i] = qc[i]
    BY <1>5, <1>8, AppendProperties
  <2>2. Len(xc) = n + 1
    BY <1>4, <1>7, <1>8
  <2> HIDE DEF a
  <2>3. \A i \in 1..(n + 1) : xc[i] = a[i]
    BY <1>2, <1>5, <1>7, <2>1, <2>2
  <2>. QED  BY <1>7, <2>1, <2>2, <2>3, SeqEqual DEF a
<1>9. ASSUME e = W!CloseSentinel  PROVE xc = qc
  <2>1. Len(xc) = n
    BY <1>4, <1>7, <1>9
  <2>2. \A i \in 1..n : xc[i] = qc[i]
    BY <1>2, <1>5, <1>7, <2>1
  <2>. QED  BY <1>5, <1>7, <2>1, <2>2, SeqEqual
<1>10. q # <<>> => Head(t) = Head(q)
  BY <1>2
<1>11. qc = q
  <2>1. \A i \in 1..n : q[i] \in Chunk
    <3>1. \A i \in 1..n : q[i] \in Chunk \cup {W!CloseSentinel}
      BY <1>1, ElementOfSeq DEF n
    <3>. QED  BY <1>3, <3>1
  <2>2. q \in Seq(Chunk)
    BY <1>1, <2>1, IsASeq DEF n
  <2>. QED  BY <1>5, <2>2, SeqEqual DEF n
<1>. QED  BY <1>2, <1>4, <1>6, <1>8, <1>9, <1>10, <1>11 DEF q, qc, xc

LEMMA CloseKeeps ==
  ASSUME NEW w, DestinationInv(w), w.settled = <<>>, ~W!CloseQueuedOrInFlight(w)
  PROVE  /\ DestinationInv(W!Close(w)) /\ Moves(w, W!Close(w))
         /\ W!Close(w).pendingAbort = "fresh" \/ W!Close(w).aborting
              => w.pendingAbort = "fresh" \/ w.aborting
         /\ ~W!Accepts(W!Close(w))
<1> DEFINE f == W!Close(w)   t == Append(w.queue, W!CloseSentinel)
           asked == [w EXCEPT !.closeRequest = TRUE, !.close = "pending"]
           awake == IF w.backpressure /\ w.state = "writable"
                    THEN W!SetReady(asked, "fulfilled") ELSE asked
           x == [awake EXCEPT !.queue = Append(@, W!CloseSentinel)]
<1>1. w \in W!Type /\ w.queue \in Seq(Chunk \cup {W!CloseSentinel}) /\ QueueShape(w)
      /\ ~w.closeRequest /\ w.inFlight # "close"
  BY DEF DestinationInv, W!Type, W!CloseQueuedOrInFlight
<1>2. CASE W!Finished(w)
  <2>1. f = w
    BY <1>2 DEF W!Close
  <2>. QED  BY <1>2, <2>1 DEF Moves, Flows, W!Accepts, W!Finished
<1>3. CASE ~W!Finished(w)
  <2>0. f = W!AdvanceQueueIfNeeded(x) /\ Alive(w)
    <3>1. f = W!AdvanceQueueIfNeeded(x)
      BY <1>3, Zenon DEF W!Close
    <3>2. Alive(w)
      BY <1>1, <1>3 DEF W!Finished, W!Type, Alive
    <3>. QED  BY <3>1, <3>2
  <2>1. t \in Seq(Chunk \cup {W!CloseSentinel})
    BY <1>1, AppendProperties
  <2> HIDE DEF t
  <2>2. asked \in W!Type /\ "fulfilled" \in W!Settlement
    BY Zenon, <1>1 DEF W!Type, W!Settlement
  <2>3. awake \in W!Type
    BY <2>2, SetPromises
  <2>4. /\ awake.queue = w.queue /\ awake.settled = <<>> /\ awake.inFlight = w.inFlight /\ awake.state = w.state
        /\ awake.closeRequest /\ awake.locked = w.locked /\ awake.started = w.started
        /\ awake.pendingAbort = w.pendingAbort /\ awake.aborting = w.aborting
        /\ awake.close = "pending" /\ ~awake.broken /\ awake.abort = w.abort
        /\ awake.closed = w.closed /\ awake.algorithms = w.algorithms
        /\ awake.ready = IF w.locked /\ w.backpressure /\ w.state = "writable"
                         THEN "fulfilled" ELSE w.ready
    BY <1>1 DEF W!Type, DestinationInv, W!SetReady
  <2> HIDE DEF awake
  <2>5. x \in W!Type /\ x.queue = t
    <3>1. x = [awake EXCEPT !.queue = t]
      BY <2>4 DEF t
    <3>. QED  BY <2>1, <2>3, <3>1 DEF W!Type
  <2>6. /\ x.settled = <<>> /\ x.inFlight = w.inFlight /\ x.state = w.state
        /\ x.closeRequest /\ x.locked = w.locked /\ x.started = w.started
        /\ x.pendingAbort = w.pendingAbort /\ x.aborting = w.aborting
        /\ x.close = "pending" /\ ~x.broken /\ x.abort = w.abort
        /\ x.closed = w.closed /\ x.algorithms = w.algorithms
        /\ x.ready = IF w.locked /\ w.backpressure /\ w.state = "writable"
                     THEN "fulfilled" ELSE w.ready
    BY <2>3, <2>4 DEF W!Type
  <2> HIDE DEF x
  <2>7. /\ QueueShape(x) /\ x.queue # <<>> /\ W!QueuedChunks(x) = W!QueuedChunks(w)
        /\ w.queue # <<>> => Head(x.queue) = Head(w.queue)
    <3>1. W!CloseSentinel \notin Chunk
      BY PipeAssumption DEF W!CloseSentinel
    <3>. QED  BY Zenon, <1>1, <2>0, <2>5, <2>6, <3>1, AddToQueue DEF t
  <2>8. InFlightShape(x) /\ AlgorithmsKept(x) /\ PromisesOwed(x)
    BY <1>1, <2>0, <2>6, <2>7 DEF DestinationInv, InFlightShape, AlgorithmsKept, PromisesOwed, Alive
  <2>9. ReadyFollows(x)
    BY <1>1, <2>6 DEF DestinationInv, ReadyFollows, W!CloseQueuedOrInFlight
  <2>10. DestinationInv(x) /\ x.inFlight # "close"
    BY <1>1, <2>5, <2>6, <2>7, <2>8, <2>9 DEF DestinationInv
  <2>11. DestinationInv(f) /\ Advances(x, f)
    BY <2>0, <2>10, AdvanceKeeps
  <2> HIDE DEF f
  <2>12. x.settled \o W!QueuedChunks(x) = W!QueuedChunks(w)
    <3>1. W!QueuedChunks(w) \in Seq(Chunk)
      BY <1>1, QueuedChunksOf
    <3>. QED  BY <2>6, <2>7, <3>1, ConcatEmptySeq
  <2>13. Moves(w, f)
    BY <1>1, <2>0, <2>6, <2>7, <2>11, <2>12 DEF Advances, Fails, Moves, Flows, W!Accepts,
       W!CloseQueuedOrInFlight, Alive
  <2>14. ~W!Accepts(f)
    BY <2>6, <2>11 DEF Advances, W!Accepts, W!CloseQueuedOrInFlight
  <2>. QED  BY <2>6, <2>11, <2>13, <2>14 DEF Advances, Fails, f
<1>. QED  BY <1>2, <1>3

\* What write() does with a chunk that it accepts.
Queues(w, w2, chunk) ==
  /\ w2.locked = w.locked /\ w2.state = "writable" /\ w2.settled = <<>>
  /\ ~W!CloseQueuedOrInFlight(w2)
  /\ w2.pendingAbort = w.pendingAbort /\ w2.aborting = w.aborting
  /\ W!QueuedChunks(w2) = Append(W!QueuedChunks(w), chunk)
  /\ w.inFlight = "write" => w2.inFlight = "write"

LEMMA WriteKeeps ==
  ASSUME NEW w, DestinationInv(w), w.settled = <<>>, NEW chunk \in Chunk
  PROVE  /\ DestinationInv([W!Write(w, chunk) EXCEPT !.settled = <<>>])
         /\ W!Accepts(w) => /\ DestinationInv(W!Write(w, chunk))
                            /\ Queues(w, W!Write(w, chunk), chunk)
         /\ ~W!Accepts(w) => W!Write(w, chunk) = [w EXCEPT !.settled = <<chunk>>]
<1> DEFINE f == W!Write(w, chunk)   t == Append(w.queue, chunk)   x == [w EXCEPT !.queue = t]
           u == W!UpdateBackpressure(x)
<1>1. w \in W!Type /\ w.queue \in Seq(Chunk \cup {W!CloseSentinel}) /\ QueueShape(w)
  BY DEF DestinationInv, W!Type
<1>2. CASE ~W!Accepts(w)
  <2>1. f = [w EXCEPT !.settled = Append(@, chunk)]
    BY <1>2, Zenon DEF W!Write
  <2>2. Append(w.settled, chunk) = <<chunk>>
    OBVIOUS
  <2>3. f = [w EXCEPT !.settled = <<chunk>>]
    BY <2>1, <2>2
  <2>4. [f EXCEPT !.settled = <<>>] = w
    BY Zenon, <1>1, <2>3 DEF W!Type
  <2>. QED  BY <1>2, <2>3, <2>4
<1>3. CASE W!Accepts(w)
  <2>0. f = W!AdvanceQueueIfNeeded(u)
    BY <1>3, Zenon DEF W!Write
  <2>1. t \in Seq(Chunk \cup {W!CloseSentinel})
    BY <1>1, AppendProperties
  <2> HIDE DEF t
  <2>2. x \in W!Type
    BY <1>1, <2>1 DEF W!Type
  <2>3. /\ x.queue = t /\ x.settled = <<>> /\ x.inFlight = w.inFlight /\ x.state = w.state
        /\ x.closeRequest = w.closeRequest /\ x.locked = w.locked /\ x.started = w.started
        /\ x.pendingAbort = w.pendingAbort /\ x.aborting = w.aborting /\ x.ready = w.ready
        /\ x.closed = w.closed /\ x.close = w.close /\ x.abort = w.abort /\ ~x.broken
        /\ x.algorithms = w.algorithms /\ x.backpressure = w.backpressure
    BY <1>1 DEF W!Type, DestinationInv
  <2> HIDE DEF x
  <2>4. Alive(w) /\ ~w.closeRequest /\ w.inFlight # "close" /\ w.state = "writable"
    BY <1>3 DEF W!Accepts, W!CloseQueuedOrInFlight, Alive
  <2>5. /\ QueueShape(x) /\ x.queue # <<>>
        /\ W!QueuedChunks(x) = Append(W!QueuedChunks(w), chunk)
        /\ w.queue # <<>> => Head(x.queue) = Head(w.queue)
    <3>1. W!CloseSentinel \notin Chunk
      BY PipeAssumption DEF W!CloseSentinel
    <3>. QED  BY Zenon, <1>1, <2>2, <2>3, <2>4, <3>1, AddToQueue DEF t
  <2>6. InFlightShape(x) /\ AlgorithmsKept(x) /\ PromisesOwed(x)
    BY <2>3, <2>4, <2>5 DEF DestinationInv, InFlightShape, AlgorithmsKept, PromisesOwed, Alive
  <2>7. /\ x.ready = "pending" => x.locked /\ x.state = "writable"
        /\ x.locked => x.ready # "none"
        /\ x.locked /\ x.state \in {"erroring", "errored"} => x.ready = "rejected"
        /\ x.locked /\ x.state = "writable" =>
             (x.ready = "pending" <=> x.backpressure /\ ~W!CloseQueuedOrInFlight(x))
    BY <2>3, <2>4 DEF DestinationInv, ReadyFollows, W!CloseQueuedOrInFlight
  <2>8. DestinationInv(u) /\ OnlyReadiness(x, u)
    BY <2>2, <2>3, <2>5, <2>6, <2>7, UpdateBackpressureKeeps
  <2> HIDE DEF u, f
  <2>9. DestinationInv(f) /\ Advances(u, f)
    <3>1. u.inFlight # "close"
      BY <2>3, <2>4, <2>8 DEF OnlyReadiness
    <3>. QED  BY <2>0, <2>8, <3>1, AdvanceKeeps
  <2>10. u.state = "writable" /\ W!QueuedChunks(u) = W!QueuedChunks(x)
    BY <2>3, <2>4, <2>8 DEF OnlyReadiness, W!QueuedChunks
  <2>11. f.state = "writable"
    <3> SUFFICES ASSUME Fails(u, f) /\ f.state = "errored"  PROVE FALSE
      BY <2>9, <2>10 DEF Advances
    <3>1. f = W!AdvanceQueueIfNeeded(u) /\ u.inFlight # "close"
      BY <2>0, <2>3, <2>4, <2>8 DEF OnlyReadiness
    <3>2. u \in W!Type
      BY <2>8 DEF DestinationInv
    <3>. QED  BY <2>10, <3>1, <3>2 DEF W!AdvanceQueueIfNeeded, W!ProcessClose, W!Break, W!Type
  <2>12. Queues(w, f, chunk)
    BY <2>3, <2>4, <2>5, <2>8, <2>9, <2>10, <2>11
       DEF Advances, OnlyReadiness, Queues, W!CloseQueuedOrInFlight
  <2>13. [f EXCEPT !.settled = <<>>] = f
    BY <2>9, <2>12 DEF DestinationInv, Queues, W!Type
  <2>. QED  BY <1>3, <2>9, <2>12, <2>13 DEF f
<1>. QED  BY <1>2, <1>3

\* Getting and releasing a writer changes the lock and its promises only.
OnlyLock(w, w2) ==
  /\ w2.state = w.state /\ w2.settled = w.settled
  /\ w2.queue = w.queue /\ w2.inFlight = w.inFlight /\ w2.closeRequest = w.closeRequest
  /\ w2.pendingAbort = w.pendingAbort /\ w2.aborting = w.aborting

LEMMA GetWriterKeeps ==
  ASSUME NEW w, DestinationInv(w)
  PROVE  /\ DestinationInv(W!GetWriter(w)) /\ OnlyLock(w, W!GetWriter(w))
         /\ W!GetWriter(w).locked
<1> DEFINE f == W!GetWriter(w)
           rd == IF w.state \in {"erroring", "errored"} THEN "rejected"
                 ELSE IF w.state = "closed" \/ W!CloseQueuedOrInFlight(w)
                         \/ ~w.backpressure THEN "fulfilled"
                 ELSE "pending"
           cl == CASE w.state = "closed"  -> "fulfilled"
                   [] w.state = "errored" -> "rejected"
                   [] OTHER -> "pending"
<1>1. w \in W!Type
  BY DEF DestinationInv
<1>2. /\ rd \in W!Settlement
      /\ w.state \in {"erroring", "errored"} => rd = "rejected"
      /\ rd # "none"
      /\ rd = "pending" <=> /\ w.state \notin {"erroring", "errored", "closed"}
                            /\ ~W!CloseQueuedOrInFlight(w) /\ w.backpressure
  BY DEF W!Settlement
<1>3. cl \in W!Settlement /\ (cl = "pending" => w.state \notin {"errored", "closed"})
  BY DEF W!Settlement
<1>4. f = [w EXCEPT !.locked = TRUE, !.ready = rd, !.closed = cl]
  BY Zenon DEF W!GetWriter
<1> HIDE DEF rd, cl
<1>5. f \in W!Type
  BY Zenon, <1>1, <1>2, <1>3, <1>4 DEF W!Type
<1>6. /\ OnlyLock(w, f) /\ f.locked /\ f.ready = rd /\ f.closed = cl
      /\ f.started = w.started /\ f.algorithms = w.algorithms /\ f.close = w.close
      /\ f.abort = w.abort /\ ~f.broken /\ f.backpressure = w.backpressure
  BY <1>1, <1>4 DEF W!Type, OnlyLock, DestinationInv
<1>7. (W!Backpressure(f) <=> W!Backpressure(w))
  BY <1>6 DEF OnlyLock, W!Backpressure, W!QueuedChunks
<1> HIDE DEF f
<1>8. QueueShape(f) /\ InFlightShape(f) /\ AlgorithmsKept(f)
  BY <1>6 DEF DestinationInv, OnlyLock, QueueShape, InFlightShape, AlgorithmsKept, Alive
<1>9. PromisesOwed(f)
  <2>1. w.state \in {"writable", "erroring", "errored", "closed"}
    BY <1>1 DEF W!Type
  <2>. QED  BY <1>3, <1>6, <2>1 DEF DestinationInv, OnlyLock, PromisesOwed, Alive
<1>10. ReadyFollows(f)
  <2>1. w.state \in {"writable", "erroring", "errored", "closed"}
    BY <1>1 DEF W!Type
  <2>. QED  BY <1>2, <1>6, <1>7, <2>1 DEF DestinationInv, OnlyLock, ReadyFollows, W!CloseQueuedOrInFlight
<1>. QED  BY <1>5, <1>6, <1>8, <1>9, <1>10 DEF DestinationInv, f

LEMMA ReleaseKeeps ==
  ASSUME NEW w, DestinationInv(w)
  PROVE  /\ DestinationInv(W!Release(w)) /\ OnlyLock(w, W!Release(w))
         /\ ~W!Release(w).locked /\ W!Release(w).ready = "rejected"
<1> DEFINE f == W!Release(w)
<1>1. w \in W!Type
  BY DEF DestinationInv
<1>5. f \in W!Type
  BY Zenon, <1>1 DEF W!Type, W!Release, W!Settlement
<1>6. /\ OnlyLock(w, f) /\ ~f.locked /\ f.ready = "rejected" /\ f.closed = "rejected"
      /\ f.started = w.started /\ f.algorithms = w.algorithms /\ f.close = w.close
      /\ f.abort = w.abort /\ ~f.broken /\ f.backpressure = w.backpressure
  BY <1>1 DEF W!Type, OnlyLock, DestinationInv, W!Release
<1>7. (W!Backpressure(f) <=> W!Backpressure(w))
  BY <1>6 DEF OnlyLock, W!Backpressure, W!QueuedChunks
<1> HIDE DEF f
<1>8. QueueShape(f) /\ InFlightShape(f) /\ AlgorithmsKept(f) /\ PromisesOwed(f)
  BY <1>6 DEF DestinationInv, OnlyLock, QueueShape, InFlightShape, AlgorithmsKept, PromisesOwed, Alive
<1>10. ReadyFollows(f)
  BY <1>6, <1>7 DEF DestinationInv, OnlyLock, ReadyFollows, W!CloseQueuedOrInFlight
<1>. QED  BY <1>5, <1>6, <1>8, <1>10 DEF DestinationInv, f

-----------------------------------------------------------------------------
(* The invariant of the pipe, on the record of everything a step may change *)
(* and the number n of chunks produced.                                     *)

LoopKinds == {"ready", "adoptRead", "next"}

Job == ({"sourceErrored", "sourceClosed", "destinationErrored"} \cup LoopKinds) \X {None}
         \cup {"write", "adopt", "settle"} \X Chunk
         \cup {"waited"} \X (Chunk \cup {None})
         \cup {"rest"} \X Nat
         \cup {"all", "then", "finalize"} \X BOOLEAN

CallsType == [chunks: Seq(Chunk), closed: BOOLEAN, aborted: BOOLEAN]

State == [r: R!Type, w: W!Type, p: PipeType, j: Seq(Job), calls: CallsType,
          cancelling: BOOLEAN]

Has(j, kind) == \E i \in 1..Len(j) : j[i][1] = kind

\* The loop of the pipe stands in one place: it has one job at most, and a
\* chunk on its way to write() is in front of that job.
LoopInv(j, p) ==
  /\ \A i, k \in 1..Len(j) : j[i][1] \in LoopKinds /\ j[k][1] \in LoopKinds => i = k
  /\ \A i \in 1..Len(j) : j[i][1] \in LoopKinds => p.loop = "job"
  /\ \A i \in 1..Len(j) : j[i][1] = "write" =>
       /\ i + 1 \in 1..Len(j) /\ j[i + 1][1] = "adoptRead" /\ j[i][2] = p.current

\* The source: one request at most, that of the loop, and only while there is
\* nothing to answer it with.
SourceShape(r) ==
  /\ r.closed = "fulfilled" => r.state = "closed"
  /\ r.state # "readable" => r.queue = <<>>
  /\ r.requests > 0 => r.requests = 1 /\ r.locked /\ r.state = "readable" /\ r.queue = <<>>

SourceInv(r, p) ==
  r.answers = <<>> /\ SourceShape(r) /\ (r.requests > 0 => p.loop = "read")

HasRoom(w) == Len(W!QueuedChunks(w)) < SinkHighWaterMark

\* A chunk that is read, or may be, has its place in the destination's queue.
RoomInv(r, w, p, j) ==
  /\ (Has(j, "ready") \/ p.loop = "read") /\ r.state # "closed" => HasRoom(w)
  /\ Has(j, "write") => HasRoom(w)
  /\ Len(W!QueuedChunks(w)) <= SinkHighWaterMark

EndsWell(p) == p.phase \in {"shuttingDown", "done"} /\ ~p.isError

WaitKinds == {"waited", "rest", "all", "then", "finalize"}

\* What belongs to which phase.
PhaseInv(r, w, p, j) ==
  /\ p.phase \in {"idle", "piping"} =>
       /\ p.parts = {} /\ p.awaited = None /\ p.action = "none" /\ p.result = "pending"
       /\ \A kind \in WaitKinds : ~Has(j, kind)
  /\ p.phase \in {"piping", "shuttingDown"} => r.locked /\ w.locked
  /\ EndsWell(p) => r.state = "closed" /\ p.action \in {"close", "none"}
  /\ p.action = "close" => EndsWell(p)
  /\ Has(j, "sourceClosed") => r.state = "closed"

Base(calls0, w) == Len(calls0.chunks) - IF w.inFlight = "write" THEN 1 ELSE 0

\* How many chunks have got to the destination.
Reached(calls0, w) == Base(calls0, w) + Len(W!QueuedChunks(w))

QueueOrder(r, n) ==
  \A i \in 1..Len(r.queue) : r.queue[i] = Chunks[n - Len(r.queue) + i]

\* Source, destination and sink hold consecutive parts of the source's chunks.
OrderInv(calls0, w, r, n) ==
  /\ n \in 0..Len(Chunks) /\ Base(calls0, w) \in Nat
  /\ Reached(calls0, w) + Len(r.queue) <= n
  /\ \A i \in 1..Len(calls0.chunks) : calls0.chunks[i] = Chunks[i]
  /\ \A i \in 1..Len(W!QueuedChunks(w)) : W!QueuedChunks(w)[i] = Chunks[Base(calls0, w) + i]
  /\ QueueOrder(r, n)

ClosedInv(calls0, w) ==
  /\ calls0.closed => w.inFlight = "close" \/ ~Alive(w)
  /\ w.inFlight = "close" \/ w.state = "closed" => calls0.closed

\* The chunk on its way to write() is the next one.
WriteInv(calls0, w, r, p, j, n) ==
  Has(j, "write") /\ W!Accepts(w) /\ p.phase # "done" =>
    /\ Reached(calls0, w) + 1 + Len(r.queue) <= n
    /\ p.current = Chunks[Reached(calls0, w) + 1]

\* As long as both ends work, nothing is missing between them.
Working(w, r, p) ==
  /\ W!Accepts(w) /\ p.phase # "done"
  /\ \/ r.state = "readable"
     \/ r.state = "closed" /\ p.action \notin {"cancel", "signal"}

BalanceInv(calls0, w, r, p, j, n) ==
  Working(w, r, p) =>
    Reached(calls0, w) + Len(r.queue) + (IF Has(j, "write") THEN 1 ELSE 0) = n

Known(w, p, j, c) ==
  \/ c \in p.written
  \/ \E i \in 1..Len(j) : j[i][1] \in {"adopt", "settle"} /\ j[i][2] = c
  \/ \E i \in 1..Len(W!QueuedChunks(w)) : W!QueuedChunks(w)[i] = c

\* The chunk c has left the source.
Read(r, n, c) == \E k \in 1..(n - Len(r.queue)) : c = Chunks[k]

\* A chunk on its way to write() has not been anywhere else.
KnownInv(w, r, p, j, n) ==
  /\ \A c \in Chunk : Known(w, p, j, c) \/ c = p.current => Read(r, n, c)
  /\ Has(j, "write") => ~Known(w, p, j, p.current)
  /\ \A i \in 1..Len(j) : j[i][1] = "waited" => j[i][2] \in p.written \cup {None}

\* A shutdown that is no error ends with nothing left behind.
EndInv(calls0, w, p, j, n) ==
  /\ EndsWell(p) /\ Has(j, "rest") => ~Has(j, "write")
  /\ EndsWell(p) /\ (\/ calls0.closed
                     \/ w.state = "writable" /\ (W!CloseQueuedOrInFlight(w) \/ p.phase = "done")) =>
       Reached(calls0, w) = n
  /\ EndsWell(p) /\ W!Accepts(w) =>
       p.parts = {} /\ \A kind \in {"all", "then", "finalize"} : ~Has(j, kind)
  /\ p.result # "pending" => p.phase = "done"
  /\ p.result = "fulfilled" => ~p.isError

Core(s, n) ==
  /\ s \in State /\ DestinationInv(s.w) /\ s.w.settled = <<>>
  /\ LoopInv(s.j, s.p) /\ SourceInv(s.r, s.p)
  /\ RoomInv(s.r, s.w, s.p, s.j) /\ PhaseInv(s.r, s.w, s.p, s.j)
  /\ OrderInv(s.calls, s.w, s.r, n) /\ ClosedInv(s.calls, s.w)
  /\ WriteInv(s.calls, s.w, s.r, s.p, s.j, n)
  /\ KnownInv(s.w, s.r, s.p, s.j, n) /\ EndInv(s.calls, s.w, s.p, s.j, n)

Balance(s, n) == BalanceInv(s.calls, s.w, s.r, s.p, s.j, n)

\* What holds between two steps, but not within all of them.
ReadyWaits(s) == s.p.loop = "ready" => s.w.ready = "pending"

PipingInv(s) ==
  s.p.phase = "piping" => /\ ~W!CloseQueuedOrInFlight(s.w) /\ s.w.state # "closed"
                          /\ ~s.calls.closed

RestInv(s, n) ==
  /\ s.p.phase = "done" => ~s.r.locked /\ ~s.w.locked
  /\ s.p.phase = "idle" =>
       /\ s.p = IdlePipe /\ s.j = <<>> /\ ~s.r.locked /\ ~s.w.locked
       /\ s.calls.chunks = <<>> /\ W!QueuedChunks(s.w) = <<>>
       /\ s.r.state # "errored" => Len(s.r.queue) = n

PipeInv(s, n) ==
  Core(s, n) /\ Balance(s, n) /\ ReadyWaits(s) /\ PipingInv(s) /\ RestInv(s, n)

Inv == PipeInv(Now, produced) /\ answered \in BOOLEAN /\ aborted \in BOOLEAN

-----------------------------------------------------------------------------
(* Jobs.                                                                    *)

LEMMA JobPushed ==
  ASSUME NEW j \in Seq(Job), NEW job \in Job
  PROVE  /\ Append(j, job) \in Seq(Job) /\ Len(j) \in Nat /\ Len(Append(j, job)) = Len(j) + 1
         /\ \A i \in 1..Len(j) : Append(j, job)[i] = j[i]
         /\ Append(j, job)[Len(j) + 1] = job
         /\ \A kind : Has(Append(j, job), kind) <=> Has(j, kind) \/ job[1] = kind
<1> DEFINE t == Append(j, job)
<1>1. /\ t \in Seq(Job) /\ Len(j) \in Nat /\ Len(t) = Len(j) + 1
      /\ \A i \in 1..Len(j) : t[i] = j[i]
      /\ t[Len(j) + 1] = job
  BY AppendProperties, LenProperties
<1> HIDE DEF t
<1>2. \A kind : Has(t, kind) <=> Has(j, kind) \/ job[1] = kind
  BY <1>1 DEF Has
<1>. QED  BY <1>1, <1>2 DEF t

LEMMA JobPopped ==
  ASSUME NEW j \in Seq(Job), j # <<>>
  PROVE  /\ Tail(j) \in Seq(Job) /\ Len(j) \in Nat \ {0} /\ Len(Tail(j)) = Len(j) - 1
         /\ \A i \in 1..(Len(j) - 1) : Tail(j)[i] = j[i + 1]
         /\ Head(j) = j[1] /\ Head(j) \in Job
         /\ \A kind : Has(Tail(j), kind) => Has(j, kind)
         /\ \A kind : Has(j, kind) => Has(Tail(j), kind) \/ Head(j)[1] = kind
<1> DEFINE t == Tail(j)
<1>1. /\ t \in Seq(Job) /\ Len(j) \in Nat \ {0} /\ Len(t) = Len(j) - 1
      /\ \A i \in 1..(Len(j) - 1) : t[i] = j[i + 1]
      /\ Head(j) = j[1] /\ Head(j) \in Job
  <2>1. Len(j) \in Nat \ {0} /\ Head(j) = j[1]
    BY EmptySeq, LenProperties
  <2>. QED  BY <2>1, HeadTailProperties
<1> HIDE DEF t
<1>2. \A kind : Has(t, kind) => Has(j, kind)
  <2> SUFFICES ASSUME NEW kind, NEW i \in 1..Len(t), t[i][1] = kind  PROVE Has(j, kind)
    BY DEF Has
  <2>1. i + 1 \in 1..Len(j) /\ t[i] = j[i + 1]
    BY <1>1
  <2>. QED  BY <2>1 DEF Has
<1>3. \A kind : Has(j, kind) => Has(t, kind) \/ Head(j)[1] = kind
  <2> SUFFICES ASSUME NEW kind, NEW i \in 1..Len(j), j[i][1] = kind, i # 1  PROVE Has(t, kind)
    BY Zenon, <1>1 DEF Has
  <2>1. i - 1 \in 1..Len(t) /\ t[i - 1] = j[(i - 1) + 1] /\ (i - 1) + 1 = i
    BY <1>1
  <2>. QED  BY <2>1 DEF Has
<1>. QED  BY <1>1, <1>2, <1>3 DEF t

SameStreams(s, s2) == s2.r = s.r /\ s2.w = s.w /\ s2.calls = s.calls

\* Everything of the pipe's variables that the invariant relates to the streams.
SameStanding(p, p2) ==
  /\ p2.phase = p.phase /\ p2.current = p.current /\ p2.written = p.written
  /\ p2.action = p.action /\ p2.isError = p.isError /\ p2.result = p.result

NoLoopJob(j) == \A i \in 1..Len(j) : j[i][1] \notin LoopKinds

\* A job that may be pushed.
MayPush(s, n, kind, arg) ==
  /\ <<kind, arg>> \in Job /\ kind \notin {"write", "adoptRead"}
  /\ kind \in LoopKinds => s.p.loop = "job" /\ NoLoopJob(s.j)
  /\ kind = "ready" /\ s.r.state # "closed" => HasRoom(s.w)
  /\ kind \in WaitKinds => s.p.phase \notin {"idle", "piping"}
  /\ kind = "sourceClosed" => s.r.state = "closed"
  /\ kind \in {"adopt", "settle"} =>
       Read(s.r, n, arg) /\ (Has(s.j, "write") => arg # s.p.current)
  /\ kind = "waited" => arg \in s.p.written \cup {None}
  /\ kind = "rest" /\ EndsWell(s.p) => ~Has(s.j, "write")
  /\ kind \in {"all", "then", "finalize"} /\ EndsWell(s.p) => ~W!Accepts(s.w)

LEMMA LoopPushed ==
  ASSUME NEW j \in Seq(Job), NEW job \in Job, NEW p, LoopInv(j, p),
         job[1] \notin {"write", "adoptRead"},
         job[1] \in LoopKinds => p.loop = "job" /\ NoLoopJob(j)
  PROVE  LoopInv(Append(j, job), p)
<1> DEFINE t == Append(j, job)   m == Len(j)
<1>1. /\ m \in Nat /\ Len(t) = m + 1 /\ \A i \in 1..m : t[i] = j[i]
      /\ t[m + 1] = job
  BY JobPushed
<1>2. ASSUME NEW i \in 1..Len(t)  PROVE i \in 1..m \/ (i = m + 1 /\ t[i] = job)
  BY <1>1
<1> HIDE DEF t, m
<1>3. ASSUME NEW i \in 1..Len(t), NEW k \in 1..Len(t), t[i][1] \in LoopKinds, t[k][1] \in LoopKinds
      PROVE  i = k
  BY <1>1, <1>2, <1>3 DEF LoopInv, NoLoopJob, m
<1>4. ASSUME NEW i \in 1..Len(t), t[i][1] \in LoopKinds  PROVE p.loop = "job"
  BY <1>1, <1>2, <1>4 DEF LoopInv, m
<1>5. ASSUME NEW i \in 1..Len(t), t[i][1] = "write"
      PROVE  i + 1 \in 1..Len(t) /\ t[i + 1][1] = "adoptRead" /\ t[i][2] = p.current
  <2>1. i \in 1..m /\ t[i] = j[i]
    BY <1>1, <1>2, <1>5
  <2>2. i + 1 \in 1..m /\ j[i + 1][1] = "adoptRead" /\ j[i][2] = p.current
    BY <1>5, <2>1 DEF LoopInv, m
  <2>. QED  BY <1>1, <2>1, <2>2
<1>. QED  BY <1>3, <1>4, <1>5 DEF LoopInv, t

LEMMA PushKeeps ==
  ASSUME NEW n, NEW s, Core(s, n), NEW kind, NEW arg, MayPush(s, n, kind, arg)
  PROVE  /\ Core(Push(s, kind, arg), n)
         /\ Balance(s, n) => Balance(Push(s, kind, arg), n)
<1> DEFINE job == <<kind, arg>>   t == Append(s.j, job)   s2 == Push(s, kind, arg)
<1>1. s \in State /\ s.j \in Seq(Job) /\ job \in Job
  BY DEF Core, State, MayPush
<1>2. /\ t \in Seq(Job) /\ Len(s.j) \in Nat /\ Len(t) = Len(s.j) + 1
      /\ \A i \in 1..Len(s.j) : t[i] = s.j[i]
      /\ t[Len(s.j) + 1] = job
      /\ \A k : Has(t, k) <=> Has(s.j, k) \/ job[1] = k
  BY ZenonT(40), <1>1, JobPushed
<1>3. job[1] = kind /\ job[2] = arg
  OBVIOUS
<1>4. s2 = [s EXCEPT !.j = t]
  BY DEF Push
<1>7. LoopInv(t, s.p)
  BY <1>1, <1>3, LoopPushed DEF Core, MayPush
<1> HIDE DEF t, job
<1>5. s2 \in State /\ SameStreams(s, s2) /\ s2.p = s.p /\ s2.j = t
  BY <1>1, <1>2, <1>4 DEF State, SameStreams
<1> HIDE DEF s2
<1>6. Has(t, "write") <=> Has(s.j, "write")
  BY <1>2, <1>3 DEF MayPush
<1>8. RoomInv(s.r, s.w, s.p, t)
  BY <1>2, <1>3, <1>6 DEF Core, RoomInv, MayPush
<1>9. PhaseInv(s.r, s.w, s.p, t)
  BY <1>2, <1>3 DEF Core, PhaseInv, MayPush
<1>10. WriteInv(s.calls, s.w, s.r, s.p, t, n)
  BY <1>6 DEF Core, WriteInv
<1>11. \A c : Known(s.w, s.p, t, c) => Known(s.w, s.p, s.j, c) \/ (kind \in {"adopt", "settle"} /\ c = arg)
  BY <1>2, <1>3 DEF Known
<1>12. KnownInv(s.w, s.r, s.p, t, n)
  <2>1. KnownInv(s.w, s.r, s.p, s.j, n)
    BY DEF Core
  <2>2. \A i \in 1..Len(t) : t[i][1] = "waited" => t[i][2] \in s.p.written \cup {None}
    BY <1>2, <1>3, <2>1 DEF KnownInv, MayPush
  <2>. QED  BY <1>6, <1>11, <2>1, <2>2 DEF KnownInv, MayPush
<1>13. EndInv(s.calls, s.w, s.p, t, n)
  BY <1>2, <1>3, <1>6 DEF Core, EndInv, MayPush
<1>14. Balance(s, n) => Balance(s2, n)
  BY <1>5, <1>6 DEF Balance, BalanceInv, SameStreams
<1>. QED  BY <1>5, <1>7, <1>8, <1>9, <1>10, <1>12, <1>13, <1>14 DEF Core, SameStreams, s2

\* A job that is taken out of the queue could have been pushed just now.
Popped(s) == [s EXCEPT !.j = Tail(@)]

LEMMA PopKeeps ==
  ASSUME NEW n, NEW s, Core(s, n), s.j # <<>>,
         NEW kind, NEW arg, Head(s.j) = <<kind, arg>>
  PROVE  LET s2 == Popped(s) IN
         /\ Core(s2, n) /\ SameStreams(s, s2) /\ s2.p = s.p
         /\ <<kind, arg>> \in Job
         /\ kind \notin {"write", "adoptRead"} => MayPush(s2, n, kind, arg)
         /\ kind = "write" \/ ~Balance(s, n) \/ Balance(s2, n)
         /\ kind \in LoopKinds => NoLoopJob(s2.j) /\ s2.p.loop = "job"
         /\ kind = "write" => ~Has(s2.j, "write") /\ Has(s.j, "write") /\ arg = s.p.current
<1> DEFINE t == Tail(s.j)   s2 == Popped(s)
<1>1. s \in State /\ s.j \in Seq(Job) /\ s.p \in PipeType
  BY DEF Core, State
<1>2. /\ t \in Seq(Job) /\ Len(s.j) \in Nat \ {0} /\ Len(t) = Len(s.j) - 1
      /\ \A i \in 1..(Len(s.j) - 1) : t[i] = s.j[i + 1]
      /\ s.j[1] = <<kind, arg>> /\ <<kind, arg>> \in Job
      /\ \A k : Has(t, k) => Has(s.j, k)
      /\ \A k : Has(s.j, k) => Has(t, k) \/ <<kind, arg>>[1] = k
  BY Zenon, <1>1, JobPopped
<1> DEFINE m == Len(s.j)   job == s.j[1]
<1>3. s2 \in State /\ SameStreams(s, s2) /\ s2.p = s.p /\ s2.j = t
  BY Zenon, <1>1, <1>2 DEF State, SameStreams, Popped
<1> HIDE DEF t, s2
<1>4. job[1] = kind /\ job[2] = arg /\ Has(s.j, kind) /\ 1 \in 1..m
  BY <1>2 DEF Has
<1>5. LoopInv(s.j, s.p)
  BY DEF Core
<1>6. \A i \in 1..(m - 1) : i + 1 \in 1..m /\ i + 1 # 1
  BY <1>2
<1> HIDE DEF m
<1>7. kind \in LoopKinds => NoLoopJob(t) /\ s2.p.loop = "job"
  <2> SUFFICES ASSUME kind \in LoopKinds  PROVE NoLoopJob(t) /\ s2.p.loop = "job"
    OBVIOUS
  <2>1. s.p.loop = "job"
    BY <1>4, <1>5 DEF LoopInv, m
  <2>2. ASSUME NEW i \in 1..Len(t), t[i][1] \in LoopKinds  PROVE FALSE
    <3>1. i \in 1..(m - 1)
      BY <1>2, <2>2 DEF m
    <3>2. i + 1 \in 1..m /\ i + 1 # 1 /\ s.j[i + 1][1] \in LoopKinds
      BY <1>2, <1>6, <2>2, <3>1 DEF m
    <3>. QED  BY <1>4, <1>5, <3>2 DEF LoopInv, m
  <2>. QED  BY <1>3, <2>1, <2>2 DEF NoLoopJob
<1>8. LoopInv(t, s.p)
  <2>1. \A i \in 1..Len(t) : i \in 1..(m - 1) /\ t[i] = s.j[i + 1]
    BY <1>2 DEF m
  <2>2. ASSUME NEW i \in 1..Len(t), NEW k \in 1..Len(t), t[i][1] \in LoopKinds, t[k][1] \in LoopKinds
        PROVE  i = k
    <3>1. i + 1 = k + 1
      BY Zenon, <1>5, <1>6, <2>1, <2>2 DEF LoopInv, m
    <3>. QED  BY <3>1
  <2>3. ASSUME NEW i \in 1..Len(t), t[i][1] \in LoopKinds  PROVE s.p.loop = "job"
    BY <1>5, <1>6, <2>1, <2>3 DEF LoopInv, m
  <2>4. ASSUME NEW i \in 1..Len(t), t[i][1] = "write"
        PROVE  i + 1 \in 1..Len(t) /\ t[i + 1][1] = "adoptRead" /\ t[i][2] = s.p.current
    <3>1. (i + 1) + 1 \in 1..m /\ s.j[(i + 1) + 1][1] = "adoptRead" /\ s.j[i + 1][2] = s.p.current
      BY <1>5, <1>6, <2>1, <2>4 DEF LoopInv, m
    <3>2. i + 1 \in 1..Len(t) /\ t[i + 1] = s.j[(i + 1) + 1]
      BY <1>2, <3>1 DEF m
    <3>. QED  BY <2>1, <2>4, <3>1, <3>2
  <2>. QED  BY <2>2, <2>3, <2>4 DEF LoopInv
<1>9. kind = "write" => ~Has(t, "write") /\ arg = s.p.current
  <2> SUFFICES ASSUME kind = "write"  PROVE ~Has(t, "write") /\ arg = s.p.current
    OBVIOUS
  <2>1. 1 + 1 \in 1..m /\ s.j[1 + 1][1] \in LoopKinds /\ arg = s.p.current
    BY <1>4, <1>5 DEF LoopInv, LoopKinds, m
  <2>2. ASSUME NEW i \in 1..Len(t), t[i][1] = "write"  PROVE FALSE
    <3>1. i + 1 \in 1..Len(t) /\ t[i + 1][1] \in LoopKinds
      BY <1>8, <2>2 DEF LoopInv, LoopKinds
    <3>2. i + 1 \in 1..(m - 1) /\ t[i + 1] = s.j[(i + 1) + 1]
      BY <1>2, <3>1 DEF m
    <3>3. (i + 1) + 1 \in 1..m /\ s.j[(i + 1) + 1][1] \in LoopKinds
      BY <1>6, <3>1, <3>2
    <3>4. (i + 1) + 1 = 1 + 1
      BY <1>5, <2>1, <3>3 DEF LoopInv, m
    <3>. QED  BY <3>4
  <2>. QED  BY <2>1, <2>2 DEF Has
<1>10. RoomInv(s.r, s.w, s.p, t) /\ PhaseInv(s.r, s.w, s.p, t) /\ WriteInv(s.calls, s.w, s.r, s.p, t, n)
       /\ EndInv(s.calls, s.w, s.p, t, n)
  BY <1>2 DEF Core, RoomInv, PhaseInv, WriteInv, EndInv
<1>11. \A c : Known(s.w, s.p, t, c) => Known(s.w, s.p, s.j, c)
  BY <1>2, <1>6 DEF Known, m
<1>12. KnownInv(s.w, s.r, s.p, t, n)
  <2>1. KnownInv(s.w, s.r, s.p, s.j, n)
    BY DEF Core
  <2>2. \A i \in 1..Len(t) : t[i][1] = "waited" => t[i][2] \in s.p.written \cup {None}
    BY <1>2, <1>6, <2>1 DEF KnownInv, m
  <2>. QED  BY <1>2, <1>11, <2>1, <2>2 DEF KnownInv
<1>13. Core(s2, n)
  BY <1>3, <1>8, <1>10, <1>12 DEF Core, SameStreams
<1>14. kind # "write" /\ Balance(s, n) => Balance(s2, n)
  <2>1. kind # "write" => (Has(t, "write") <=> Has(s.j, "write"))
    BY <1>2
  <2>. QED  BY <1>3, <2>1 DEF Balance, BalanceInv, SameStreams
<1>15. kind \notin {"write", "adoptRead"} => MayPush(s2, n, kind, arg)
  <2> SUFFICES ASSUME kind \notin {"write", "adoptRead"}  PROVE MayPush(s2, n, kind, arg)
    OBVIOUS
  <2>1. kind = "ready" /\ s.r.state # "closed" => HasRoom(s.w)
    BY <1>4 DEF Core, RoomInv
  <2>2. /\ kind \in WaitKinds => s.p.phase \notin {"idle", "piping"}
        /\ kind = "sourceClosed" => s.r.state = "closed"
    BY <1>4 DEF Core, PhaseInv
  <2>3. kind \in {"adopt", "settle"} => Read(s.r, n, arg) /\ (Has(t, "write") => arg # s.p.current)
    <3> SUFFICES ASSUME kind \in {"adopt", "settle"}
                 PROVE  Read(s.r, n, arg) /\ (Has(t, "write") => arg # s.p.current)
      OBVIOUS
    <3>1. Known(s.w, s.p, s.j, arg)
      BY <1>4 DEF Known, m
    <3>2. arg \in Chunk
      BY <1>2 DEF Job, LoopKinds
    <3>. QED  BY <1>2, <3>1, <3>2 DEF Core, KnownInv
  <2>4. kind = "waited" => arg \in s.p.written \cup {None}
    BY <1>4 DEF Core, KnownInv, m
  <2>5. /\ kind = "rest" /\ EndsWell(s.p) => ~Has(t, "write")
        /\ kind \in {"all", "then", "finalize"} /\ EndsWell(s.p) => ~W!Accepts(s.w)
    BY <1>2, <1>4 DEF Core, EndInv
  <2>. QED  BY <1>2, <1>3, <1>7, <2>1, <2>2, <2>3, <2>4, <2>5 DEF MayPush, SameStreams
<1>. QED  BY <1>2, <1>3, <1>4, <1>7, <1>9, <1>13, <1>14, <1>15 DEF s2

\* What the pipe notes down for itself leaves the invariant alone.
LEMMA BookKeeps ==
  ASSUME NEW n, NEW s, Core(s, n), NEW s2 \in State, SameStreams(s, s2), s2.j = s.j,
         SameStanding(s.p, s2.p),
         s.p.phase \in {"idle", "piping"} => s2.p.parts = {} /\ s2.p.awaited = None,
         EndsWell(s.p) /\ W!Accepts(s.w) => s2.p.parts = {},
         \/ s2.p.loop = s.p.loop
         \/ /\ NoLoopJob(s.j) \/ s2.p.loop = "job"
            /\ s.r.requests = 0 \/ s2.p.loop = "read"
            /\ s2.p.loop = "read" /\ s.r.state # "closed" => HasRoom(s.w)
  PROVE  Core(s2, n) /\ (Balance(s, n) => Balance(s2, n))
<1>1. LoopInv(s.j, s2.p)
  BY DEF Core, LoopInv, NoLoopJob, SameStanding
<1>2. s.r.requests \in Nat
  BY DEF Core, State, R!Type
<1>3. SourceInv(s.r, s2.p)
  BY <1>2 DEF Core, SourceInv
<1>4. RoomInv(s.r, s.w, s2.p, s.j)
  BY DEF Core, RoomInv
<1>5. EndsWell(s2.p) <=> EndsWell(s.p)
  BY DEF EndsWell, SameStanding
<1>6. PhaseInv(s.r, s.w, s2.p, s.j)
  BY <1>5 DEF Core, PhaseInv, SameStanding
<1>7. WriteInv(s.calls, s.w, s.r, s2.p, s.j, n) /\ EndInv(s.calls, s.w, s2.p, s.j, n)
  BY <1>5 DEF Core, WriteInv, EndInv, SameStanding
<1>8. \A c : Known(s.w, s2.p, s.j, c) <=> Known(s.w, s.p, s.j, c)
  BY DEF Known, SameStanding
<1>9. KnownInv(s.w, s.r, s2.p, s.j, n)
  BY <1>8 DEF Core, KnownInv, SameStanding
<1>10. Balance(s, n) => Balance(s2, n)
  BY DEF Balance, BalanceInv, Working, SameStanding, SameStreams
<1>. QED  BY <1>1, <1>3, <1>4, <1>6, <1>7, <1>9, <1>10 DEF Core, SameStreams

-----------------------------------------------------------------------------
(* The source.                                                              *)

\* The source stream may become r, and its chunks n2, without a read request
\* being answered.
Follows(s, n, r, n2) ==
  /\ r \in R!Type /\ SourceShape(r)
  /\ s.p.phase \in {"piping", "shuttingDown"} => r.locked
  /\ s.r.state # "readable" => r.state = s.r.state /\ n2 = n
  /\ r.requests > 0 => s.p.loop = "read"
  /\ n2 \in 0..Len(Chunks) /\ n - Len(s.r.queue) <= n2 - Len(r.queue)
  /\ QueueOrder(r, n2)

\* What becomes of everything else when the source does.
SourceTold(s, s2, r) ==
  /\ s2.w = s.w /\ s2.calls = s.calls /\ s2.p = s.p /\ s2.r = [r EXCEPT !.answers = <<>>]
  /\ s2.cancelling = s.cancelling
  /\ s.p.phase # "piping" => s2.j = s.j
  /\ Has(s2.j, "write") <=> Has(s.j, "write")
  /\ NoLoopJob(s.j) => NoLoopJob(s2.j)
  /\ \A c : Known(s2.w, s2.p, s2.j, c) => Known(s.w, s.p, s.j, c)

Told(s, r) ==
  LET new == [s EXCEPT !.r = [r EXCEPT !.answers = <<>>]]
  IN  IF s.p.phase # "piping" \/ r.closed = s.r.closed THEN new
      ELSE Push(new, IF r.closed = "fulfilled" THEN "sourceClosed"
                                               ELSE "sourceErrored",
                None)

LEMMA SourceFollows ==
  ASSUME NEW n, NEW s, Core(s, n), NEW r, NEW n2, Follows(s, n, r, n2)
  PROVE  /\ Core(Told(s, r), n2) /\ SourceTold(s, Told(s, r), r)
         /\ Balance(s, n) /\ (Working(s.w, r, s.p) => /\ Working(s.w, s.r, s.p)
                                                      /\ n - Len(s.r.queue) = n2 - Len(r.queue))
              => Balance(Told(s, r), n2)
<1> DEFINE r0 == [r EXCEPT !.answers = <<>>]   new == [s EXCEPT !.r = r0]   f == Told(s, r)
<1>1. s \in State /\ s.r \in R!Type /\ s.p \in PipeType /\ s.w \in W!Type /\ s.calls \in CallsType
      /\ s.j \in Seq(Job) /\ r \in R!Type
  BY DEF Core, State, Follows
<1>2. r0 \in R!Type
  <2>1. <<>> \in Seq(R!Answers)
    OBVIOUS
  <2>. QED  BY Zenon, <1>1, <2>1 DEF R!Type
<1>3. /\ r0.state = r.state /\ r0.queue = r.queue /\ r0.requests = r.requests /\ r0.answers = <<>>
      /\ r0.locked = r.locked /\ r0.closed = r.closed
      /\ r0.requests \in Nat /\ Len(r0.queue) \in Nat /\ Len(s.r.queue) \in Nat
  BY <1>1, LenProperties DEF R!Type
<1> HIDE DEF r0
<1>4. new \in State /\ new.r = r0 /\ new.w = s.w /\ new.calls = s.calls /\ new.p = s.p /\ new.j = s.j
      /\ new.cancelling = s.cancelling
  BY <1>1, <1>2 DEF State
<1> HIDE DEF new
<1>5. SourceInv(r0, s.p)
  BY <1>3 DEF Follows, SourceInv, SourceShape
<1>6. s.r.state = "closed" => r0.state = "closed" /\ n2 = n
  BY <1>3 DEF Follows
<1>7. RoomInv(r0, s.w, s.p, s.j)
  BY <1>6 DEF Core, RoomInv
<1>8. PhaseInv(r0, s.w, s.p, s.j)
  BY <1>3, <1>6 DEF Core, PhaseInv, Follows
<1> DEFINE b == Base(s.calls, s.w)   e == Reached(s.calls, s.w)   a == Len(s.r.queue)   a2 == Len(r0.queue)
           m == Len(Chunks)
<1>9. /\ n \in Nat /\ n2 \in 0..m /\ n - a <= n2 - a2 /\ e + a <= n /\ b \in Nat
      /\ e \in Nat /\ a \in Nat /\ a2 \in Nat /\ n2 \in Nat
  <2>1. m \in Nat
    BY PipeAssumption, LenProperties
  <2>2. n \in 0..m /\ b \in Nat /\ e + a <= n
    BY DEF Core, OrderInv
  <2>3. W!QueuedChunks(s.w) \in Seq(Chunk)
    BY QueuedChunksOf, <1>1 DEF Core, DestinationInv, W!Type
  <2>4. e \in Nat
    <3> DEFINE k == Len(W!QueuedChunks(s.w))
    <3>1. e = b + k /\ k \in Nat
      BY <2>3, LenProperties DEF Reached
    <3> HIDE DEF b, e, k
    <3>. QED  BY <2>2, <3>1
  <2>5. n2 \in 0..m /\ n - a <= n2 - a2 /\ a \in Nat /\ a2 \in Nat
    BY <1>3 DEF Follows
  <2> HIDE DEF b, e, a, a2, m
  <2>. QED  BY <2>1, <2>2, <2>4, <2>5
<1>10. OrderInv(s.calls, s.w, r0, n2)
  <2>1. QueueOrder(r0, n2)
    BY Zenon, <1>3 DEF Follows, QueueOrder
  <2> HIDE DEF b, e, a, a2, m
  <2>2. e + a2 <= n2
    BY <1>9
  <2>. QED  BY <1>9, <2>1, <2>2 DEF Core, OrderInv, b, e, a, a2, m
<1>11. WriteInv(s.calls, s.w, r0, s.p, s.j, n2)
  <2> HIDE DEF e, a, a2
  <2>1. e + 1 + a <= n => e + 1 + a2 <= n2
    BY <1>9
  <2>. QED  BY <2>1 DEF Core, WriteInv, e, a, a2
<1>12. \A c : Read(s.r, n, c) => Read(r0, n2, c)
  <2> HIDE DEF b, e, a, a2, m
  <2>1. \A k \in 1..(n - a) : k \in 1..(n2 - a2)
    BY <1>9
  <2>. QED  BY <2>1 DEF Read, a, a2
<1>13. KnownInv(s.w, r0, s.p, s.j, n2)
  BY <1>12 DEF Core, KnownInv
<1>14. EndInv(s.calls, s.w, s.p, s.j, n2)
  <2>1. EndsWell(s.p) => n2 = n
    BY <1>6 DEF Core, PhaseInv
  <2>. QED  BY <2>1 DEF Core, EndInv
<1>15. Core(new, n2)
  BY <1>4, <1>5, <1>7, <1>8, <1>10, <1>11, <1>13, <1>14 DEF Core
<1>16. ASSUME Balance(s, n), Working(s.w, r, s.p) => Working(s.w, s.r, s.p) /\ n - a = n2 - a2
       PROVE  Balance(new, n2)
  <2>1. Working(s.w, r0, s.p) => Working(s.w, r, s.p)
    BY <1>3 DEF Working
  <2> HIDE DEF e, a, a2
  <2>2. \A x \in {0, 1} : e + a + x = n /\ n - a = n2 - a2 => e + a2 + x = n2
    BY <1>9
  <2>3. (IF Has(s.j, "write") THEN 1 ELSE 0) \in {0, 1}
    OBVIOUS
  <2>. QED  BY <1>4, <1>16, <2>1, <2>2, <2>3 DEF Balance, BalanceInv, e, a, a2
<1>17. CASE s.p.phase # "piping" \/ r.closed = s.r.closed
  <2>1. f = new
    BY <1>17 DEF Told, r0, new
  <2>. QED  BY <1>3, <1>4, <1>15, <1>16, <2>1 DEF SourceTold, r0
<1>18. CASE ~(s.p.phase # "piping" \/ r.closed = s.r.closed)
  <2> DEFINE kind == IF r.closed = "fulfilled" THEN "sourceClosed" ELSE "sourceErrored"
  <2>1. f = Push(new, kind, None)
    BY <1>18 DEF Told, r0, new
  <2>2. <<kind, None>> \in Job /\ kind \notin {"write", "adoptRead"} \cup LoopKinds \cup WaitKinds
        /\ kind \notin {"adopt", "settle"}
    BY DEF Job, LoopKinds, WaitKinds
  <2>3. kind = "sourceClosed" => new.r.state = "closed"
    BY <1>3, <1>4 DEF Follows, SourceShape
  <2> HIDE DEF kind
  <2>4. MayPush(new, n2, kind, None)
    BY <2>2, <2>3 DEF MayPush, LoopKinds, WaitKinds
  <2>5. Core(f, n2) /\ (Balance(new, n2) => Balance(f, n2))
    BY <1>15, <2>1, <2>4, PushKeeps
  <2> DEFINE t == Append(s.j, <<kind, None>>)
  <2>6. f = [new EXCEPT !.j = t]
    BY <1>4, <2>1 DEF Push
  <2>7. /\ Len(t) = Len(s.j) + 1 /\ Len(s.j) \in Nat /\ t[Len(s.j) + 1] = <<kind, None>>
        /\ \A i \in 1..Len(s.j) : t[i] = s.j[i]
        /\ \A k : Has(t, k) <=> Has(s.j, k) \/ <<kind, None>>[1] = k
    BY <1>1, <2>2, JobPushed
  <2> HIDE DEF t
  <2>8. f.w = s.w /\ f.calls = s.calls /\ f.p = s.p /\ f.r = r0 /\ f.j = t /\ f.cancelling = s.cancelling
    BY <1>4, <2>6 DEF State
  <2>9. <<kind, None>>[1] = kind
    OBVIOUS
  <2>10. Has(t, "write") <=> Has(s.j, "write")
    BY <2>2, <2>7, <2>9
  <2>11. NoLoopJob(s.j) => NoLoopJob(t)
    BY <2>2, <2>7, <2>9 DEF NoLoopJob
  <2>12. \A c : Known(s.w, s.p, t, c) => Known(s.w, s.p, s.j, c)
    BY <2>2, <2>7, <2>9 DEF Known
  <2> HIDE DEF f
  <2>13. SourceTold(s, f, r)
    BY <1>18, <2>8, <2>10, <2>11, <2>12 DEF SourceTold, r0
  <2>. QED  BY <1>3, <1>16, <2>5, <2>13 DEF f
<1>. QED  BY <1>17, <1>18

\* What the end of a read request may change, besides the jobs.
SourceMoved(s, s2, r) ==
  /\ s2.w = s.w /\ s2.calls = s.calls /\ s2.r = [r EXCEPT !.answers = <<>>]
  /\ s2.cancelling = s.cancelling
  /\ s2.p.phase = s.p.phase /\ s2.p.written = s.p.written /\ s2.p.action = s.p.action
  /\ s2.p.isError = s.p.isError /\ s2.p.result = s.p.result
  /\ s2.p.parts = s.p.parts /\ s2.p.awaited = s.p.awaited
  /\ s2.p.loop = "ready" => s.p.loop = "ready"
  /\ r.answers = <<>> /\ s.p.phase # "piping" => s2.p = s.p /\ s2.j = s.j

\* The read request is answered by the end of the source.
LEMMA ReadEnds ==
  ASSUME NEW n, NEW s, Core(s, n), NEW a \in {"closed", "errored"},
         s.p.loop = "read", s.r.requests = 0
  PROVE  /\ Core(ReadAnswered(s, a), n)
         /\ Balance(s, n) => Balance(ReadAnswered(s, a), n)
         /\ SameStreams(s, ReadAnswered(s, a)) /\ ReadAnswered(s, a).j = s.j
         /\ ReadAnswered(s, a).p = [s.p EXCEPT !.loop = "off"]
         /\ ReadAnswered(s, a).cancelling = s.cancelling
<1> DEFINE p2 == [s.p EXCEPT !.loop = "off"]   s2 == [s EXCEPT !.p = p2]
<1>1. s \in State /\ s.p \in PipeType
  BY DEF Core, State
<1>2. ReadAnswered(s, a) = s2
  BY PipeAssumption DEF ReadAnswered
<1>3. p2 \in PipeType /\ SameStanding(s.p, p2) /\ p2.loop = "off" /\ p2.parts = s.p.parts
      /\ p2.awaited = s.p.awaited
  BY <1>1 DEF PipeType, SameStanding
<1> HIDE DEF p2
<1>4. s2 \in State /\ SameStreams(s, s2) /\ s2.j = s.j /\ s2.p = p2 /\ s2.cancelling = s.cancelling
  BY <1>1, <1>3 DEF State, SameStreams
<1>5. NoLoopJob(s.j)
  BY DEF Core, LoopInv, NoLoopJob
<1>6. /\ s.p.phase \in {"idle", "piping"} => p2.parts = {} /\ p2.awaited = None
      /\ EndsWell(s.p) /\ W!Accepts(s.w) => p2.parts = {}
  BY <1>3 DEF Core, PhaseInv, EndInv
<1> HIDE DEF s2
<1>7. Core(s2, n) /\ (Balance(s, n) => Balance(s2, n))
  BY <1>3, <1>4, <1>5, <1>6, BookKeeps
<1>. QED  BY <1>2, <1>4, <1>7 DEF p2

\* The chunk c is the next of the source, and everything before it has arrived.
NextChunk(s, n, c) ==
  /\ Read(s.r, n, c) /\ ~Known(s.w, s.p, s.j, c)
  /\ W!Accepts(s.w) /\ s.p.phase # "done" =>
       Reached(s.calls, s.w) + 1 + Len(s.r.queue) <= n /\ c = Chunks[Reached(s.calls, s.w) + 1]

OneMissing(s, n) ==
  Working(s.w, s.r, s.p) => Reached(s.calls, s.w) + Len(s.r.queue) + 1 = n

Carrying(p, c) == [p EXCEPT !.current = c, !.loop = "job"]

\* The read request is answered by a chunk.
LEMMA ReadDelivers ==
  ASSUME NEW n, NEW s, Core(s, n), NEW c \in Chunk,
         s.p.loop = "read", s.r.requests = 0, HasRoom(s.w), NextChunk(s, n, c), ~EndsWell(s.p)
  PROVE  /\ Core(ReadAnswered(s, c), n)
         /\ OneMissing(s, n) => Balance(ReadAnswered(s, c), n)
         /\ SameStreams(s, ReadAnswered(s, c))
         /\ ReadAnswered(s, c).p = Carrying(s.p, c)
         /\ ReadAnswered(s, c).cancelling = s.cancelling
<1> DEFINE p2 == [s.p EXCEPT !.current = c, !.loop = "job"]
           jw == <<"write", c>>   ja == <<"adoptRead", None>>
           t1 == Append(s.j, jw)   t == Append(t1, ja)
           s2 == ReadAnswered(s, c)   m == Len(s.j)
<1>1. s \in State /\ s.p \in PipeType /\ s.j \in Seq(Job)
  BY DEF Core, State
<1>2. jw \in Job /\ ja \in Job
  BY DEF Job, LoopKinds
<1>10. /\ jw[1] = "write" /\ jw[2] = c /\ ja[1] = "adoptRead"
       /\ "adoptRead" \in LoopKinds /\ "write" \notin LoopKinds
  BY DEF LoopKinds
<1> HIDE DEF jw, ja
<1>3. /\ t1 \in Seq(Job) /\ m \in Nat /\ Len(t1) = m + 1 /\ t1[m + 1] = jw
      /\ \A i \in 1..m : t1[i] = s.j[i]
      /\ \A k : Has(t1, k) <=> Has(s.j, k) \/ jw[1] = k
  BY <1>1, <1>2, JobPushed
<1> HIDE DEF t1
<1>4. /\ t \in Seq(Job) /\ Len(t) = Len(t1) + 1 /\ t[Len(t1) + 1] = ja
      /\ \A i \in 1..Len(t1) : t[i] = t1[i]
      /\ \A k : Has(t, k) <=> Has(t1, k) \/ ja[1] = k
  BY <1>2, <1>3, JobPushed
<1>5. /\ p2 \in PipeType /\ p2.current = c /\ p2.loop = "job" /\ p2.phase = s.p.phase
      /\ p2.written = s.p.written /\ p2.action = s.p.action /\ p2.isError = s.p.isError
      /\ p2.result = s.p.result /\ p2.parts = s.p.parts /\ p2.awaited = s.p.awaited
  BY Zenon, <1>1 DEF PipeType
<1>6. s2 = [s EXCEPT !.p = p2, !.j = t]
  BY Zenon, <1>1 DEF ReadAnswered, Push, State, PipeType, t1, jw, ja
<1> HIDE DEF t, p2, s2, m
<1>7. /\ s2 \in State /\ s2.r = s.r /\ s2.w = s.w /\ s2.calls = s.calls /\ s2.p = p2 /\ s2.j = t
      /\ s2.cancelling = s.cancelling
  BY Zenon, <1>1, <1>4, <1>5, <1>6 DEF State
<1>8. /\ Len(t) = m + 2 /\ t[m + 1] = jw /\ t[m + 2] = ja
      /\ \A i \in 1..m : t[i] = s.j[i]
      /\ m + 1 \in 1..Len(t) /\ m + 2 \in 1..Len(t)
      /\ \A i \in 1..Len(t) : i \in 1..m \/ i = m + 1 \/ i = m + 2
  BY <1>3, <1>4
<1>9. \A k : Has(t, k) <=> Has(s.j, k) \/ k = "write" \/ k = "adoptRead"
  BY <1>3, <1>4, <1>10
<1>11. NoLoopJob(s.j) /\ ~Has(s.j, "write")
  <2>1. NoLoopJob(s.j)
    BY DEF Core, LoopInv, NoLoopJob
  <2>. QED  BY <2>1 DEF Core, LoopInv, NoLoopJob, Has, LoopKinds
<1>12. LoopInv(t, p2)
  <2>1. \A i \in 1..Len(t) : t[i][1] \in LoopKinds => i = m + 2
    BY <1>8, <1>10, <1>11 DEF NoLoopJob, m
  <2>2. \A i \in 1..Len(t) : t[i][1] = "write" => i = m + 1
    BY <1>8, <1>10, <1>11 DEF Has, m
  <2>3. m + 1 + 1 = m + 2
    BY <1>3
  <2>. QED  BY <1>5, <1>8, <1>10, <2>1, <2>2, <2>3 DEF LoopInv
<1>13. SourceInv(s.r, p2)
  BY <1>5 DEF Core, SourceInv
<1>14. RoomInv(s.r, s.w, p2, t)
  BY <1>5, <1>9 DEF Core, RoomInv
<1>15. EndsWell(p2) <=> EndsWell(s.p)
  BY <1>5 DEF EndsWell
<1>16. PhaseInv(s.r, s.w, p2, t)
  BY <1>5, <1>9, <1>15 DEF Core, PhaseInv, WaitKinds
<1>17. WriteInv(s.calls, s.w, s.r, p2, t, n)
  BY <1>5 DEF WriteInv, NextChunk
<1>18. \A x : Known(s.w, p2, t, x) <=> Known(s.w, s.p, s.j, x)
  <2>1. \A i \in 1..Len(t) : t[i][1] \in {"adopt", "settle"} => i \in 1..m
    BY <1>8, <1>10
  <2>2. \A i \in 1..m : i \in 1..Len(t)
    BY <1>3, <1>8
  <2>3. \A x : (\E i \in 1..Len(t) : t[i][1] \in {"adopt", "settle"} /\ t[i][2] = x)
                 => \E i \in 1..m : s.j[i][1] \in {"adopt", "settle"} /\ s.j[i][2] = x
    BY <1>8, <2>1
  <2>4. \A x : (\E i \in 1..m : s.j[i][1] \in {"adopt", "settle"} /\ s.j[i][2] = x)
                 => \E i \in 1..Len(t) : t[i][1] \in {"adopt", "settle"} /\ t[i][2] = x
    BY <1>8, <2>2
  <2>. QED  BY Zenon, <1>5, <2>3, <2>4 DEF Known, m
<1>19. KnownInv(s.w, s.r, p2, t, n)
  <2>1. \A i \in 1..Len(t) : t[i][1] = "waited" => i \in 1..m
    BY <1>8, <1>10
  <2>. QED  BY <1>5, <1>8, <1>18, <2>1 DEF Core, KnownInv, NextChunk, m
<1>20. EndInv(s.calls, s.w, p2, t, n)
  BY <1>5, <1>15 DEF Core, EndInv
<1>21. OneMissing(s, n) => Balance(s2, n)
  <2>1. Working(s.w, s.r, p2) <=> Working(s.w, s.r, s.p)
    BY <1>5 DEF Working
  <2>. QED  BY <1>7, <1>9, <2>1 DEF Balance, BalanceInv, OneMissing
<1>. QED  BY <1>6, <1>7, <1>12, <1>13, <1>14, <1>16, <1>17, <1>19, <1>20, <1>21
          DEF Core, SameStreams, s2, p2, Carrying

-----------------------------------------------------------------------------
(* The operators of the readable stream.                                    *)

SameSource(r, r2) ==
  /\ r2.state = r.state /\ r2.locked = r.locked /\ r2.closed = r.closed
  /\ r2.requests = r.requests /\ r2.answers = r.answers /\ r2.queue = r.queue

LEMMA PullKeeps ==
  ASSUME NEW r \in R!Type
  PROVE  /\ R!CallPullIfNeeded(r) \in R!Type /\ SameSource(r, R!CallPullIfNeeded(r))
         /\ R!Started(r) \in R!Type /\ SameSource(r, R!Started(r))
         /\ R!Pulled(r) \in R!Type /\ SameSource(r, R!Pulled(r))
<1>1. ASSUME NEW x \in R!Type
      PROVE  R!CallPullIfNeeded(x) \in R!Type /\ SameSource(x, R!CallPullIfNeeded(x))
  <2>1. R!CallPullIfNeeded(x) \in {x, [x EXCEPT !.pullAgain = TRUE], [x EXCEPT !.pulling = TRUE]}
    BY DEF R!CallPullIfNeeded
  <2>. QED  BY Zenon, <2>1 DEF R!Type, SameSource
<1> DEFINE x == [r EXCEPT !.started = TRUE]
           y == [r EXCEPT !.pulling = FALSE, !.pullAgain = FALSE]
<1>2. x \in R!Type /\ SameSource(r, x) /\ y \in R!Type /\ SameSource(r, y)
  BY Zenon DEF R!Type, SameSource
<1>3. R!Started(r) = R!CallPullIfNeeded(x) /\ R!Pulled(r) \in {R!CallPullIfNeeded(y), y}
  BY DEF R!Started, R!Pulled
<1> HIDE DEF x, y
<1>4. /\ R!CallPullIfNeeded(x) \in R!Type /\ SameSource(x, R!CallPullIfNeeded(x))
      /\ R!CallPullIfNeeded(y) \in R!Type /\ SameSource(y, R!CallPullIfNeeded(y))
      /\ R!CallPullIfNeeded(r) \in R!Type /\ SameSource(r, R!CallPullIfNeeded(r))
  BY <1>1, <1>2
<1>5. SameSource(r, R!CallPullIfNeeded(x)) /\ SameSource(r, R!CallPullIfNeeded(y))
  BY <1>2, <1>4 DEF SameSource
<1>. QED  BY <1>2, <1>3, <1>4, <1>5

\* The pending read request, if there is one, gets an answer.
Answered(r, a) == IF r.requests > 0 THEN <<a>> ELSE <<>>

LEMMA SettleReaderKeeps ==
  ASSUME NEW r \in R!Type, r.answers = <<>>, r.requests > 0 => r.requests = 1 /\ r.locked,
         NEW v \in R!Settlement, NEW a \in R!Answers
  PROVE  LET r2 == R!SettleReader(r, v, a)
         IN  /\ r2 \in R!Type /\ r2.state = r.state /\ r2.queue = r.queue /\ r2.locked = r.locked
             /\ r2.requests = 0 /\ r2.answers = Answered(r, a)
             /\ r2.closed = IF r.locked THEN v ELSE r.closed
             /\ r2.closeRequested = r.closeRequested
<1> DEFINE t == r.answers \o [i \in 1..r.requests |-> a]   r2 == R!SettleReader(r, v, a)
<1>1. r.requests \in Nat
  BY DEF R!Type
<1>2. t = Answered(r, a)
  <2>1. CASE r.requests = 0
    <3>1. [i \in 1..0 |-> a] = <<>>
      OBVIOUS
    <3>2. <<>> \o <<>> = <<>>
      OBVIOUS
    <3>. QED  BY <2>1, <3>1, <3>2 DEF Answered
  <2>2. CASE r.requests = 1
    <3>1. [i \in 1..1 |-> a] = <<a>>
      OBVIOUS
    <3>2. <<>> \o <<a>> = <<a>>
      OBVIOUS
    <3>. QED  BY <2>2, <3>1, <3>2 DEF Answered
  <2>. QED  BY <1>1, <2>1, <2>2
<1>3. t \in Seq(R!Answers)
  BY <1>2 DEF Answered
<1> HIDE DEF t
<1>4. CASE r.locked
  <2>1. r2 = [r EXCEPT !.closed = v, !.requests = 0, !.answers = t]
    BY <1>4 DEF R!SettleReader, t
  <2>2. r2 \in R!Type
    <3> DEFINE x == [r EXCEPT !.closed = v, !.requests = 0]
    <3>1. x \in R!Type
      BY Zenon DEF R!Type
    <3>2. r2 = [x EXCEPT !.answers = t]
      BY <2>1
    <3> HIDE DEF x
    <3>3. [x EXCEPT !.answers = t] \in R!Type
      BY Zenon, <1>3, <3>1 DEF R!Type
    <3>. QED  BY <3>2, <3>3
  <2>3. /\ r2.state = r.state /\ r2.queue = r.queue /\ r2.locked = r.locked
        /\ r2.requests = 0 /\ r2.answers = t /\ r2.closed = v /\ r2.closeRequested = r.closeRequested
    BY <2>1 DEF R!Type
  <2>. QED  BY <1>2, <1>4, <2>2, <2>3
<1>5. CASE ~r.locked
  <2>1. r2 = r
    BY <1>5 DEF R!SettleReader
  <2>2. r.requests = 0
    BY <1>1, <1>5
  <2>. QED  BY <1>5, <2>1, <2>2 DEF Answered
<1>. QED  BY <1>4, <1>5

\* The source has ended and answered the pending request with a.
Ended(r, r2, a) ==
  /\ r2 \in R!Type /\ SourceShape(r2) /\ r2.state # "readable" /\ r2.queue = <<>>
  /\ r2.requests = 0 /\ r2.locked = r.locked /\ r2.answers = Answered(r, a)

LEMMA EndKeeps ==
  ASSUME NEW r \in R!Type, r.answers = <<>>, SourceShape(r), r.state = "readable"
  PROVE  /\ R!CanCloseOrEnqueue(r) /\ r.queue = <<>> =>
              Ended(r, R!Close(r), "closed") /\ R!Close(r).state = "closed"
         /\ R!CanCloseOrEnqueue(r) /\ r.queue # <<>> =>
              R!Close(r) \in R!Type /\ SameSource(r, R!Close(r))
         /\ Ended(r, R!Error(r), "errored") /\ R!Error(r).state = "errored"
         /\ Ended(r, R!Cancel(r), "closed") /\ R!Cancel(r).state = "closed"
<1>1. /\ {"closed", "errored"} \subseteq R!Answers /\ {"fulfilled", "rejected"} \subseteq R!Settlement
      /\ <<>> \in Seq(Chunk) /\ r.requests \in Nat /\ r.closed # "fulfilled"
      /\ r.requests > 0 => r.requests = 1 /\ r.locked
  BY DEF R!Answers, R!Settlement, R!Type, SourceShape
<1>2. R!CanCloseOrEnqueue(r) /\ r.queue = <<>> =>
        Ended(r, R!Close(r), "closed") /\ R!Close(r).state = "closed"
  <2> SUFFICES ASSUME R!CanCloseOrEnqueue(r), r.queue = <<>>
               PROVE  Ended(r, R!Close(r), "closed") /\ R!Close(r).state = "closed"
    OBVIOUS
  <2> DEFINE x == [r EXCEPT !.closeRequested = TRUE, !.algorithms = FALSE, !.state = "closed"]
  <2>1. R!Close(r) = R!SettleReader(x, "fulfilled", "closed")
    BY DEF R!Close, R!CloseStream
  <2>2. /\ x \in R!Type /\ x.answers = <<>> /\ x.requests = r.requests /\ x.locked = r.locked
        /\ x.state = "closed" /\ x.queue = <<>>
    BY Zenon DEF R!Type
  <2> HIDE DEF x
  <2>. QED  BY <1>1, <2>1, <2>2, SettleReaderKeeps DEF Ended, SourceShape, Answered
<1>3. R!CanCloseOrEnqueue(r) /\ r.queue # <<>> => R!Close(r) \in R!Type /\ SameSource(r, R!Close(r))
  BY Zenon DEF R!Close, R!Type, SameSource
<1>4. Ended(r, R!Error(r), "errored") /\ R!Error(r).state = "errored"
  <2> DEFINE x == [r EXCEPT !.state = "errored", !.queue = <<>>, !.algorithms = FALSE]
  <2>1. R!Error(r) = R!SettleReader(x, "rejected", "errored")
    BY DEF R!Error
  <2>2. /\ x \in R!Type /\ x.answers = <<>> /\ x.requests = r.requests /\ x.locked = r.locked
        /\ x.state = "errored" /\ x.queue = <<>> /\ x.closed = r.closed
    BY Zenon, <1>1 DEF R!Type
  <2> HIDE DEF x
  <2>. QED  BY <1>1, <2>1, <2>2, SettleReaderKeeps DEF Ended, SourceShape, Answered
<1>5. Ended(r, R!Cancel(r), "closed") /\ R!Cancel(r).state = "closed"
  <2> DEFINE x == [r EXCEPT !.state = "closed"]   y == R!SettleReader(x, "fulfilled", "closed")
  <2>1. R!Cancel(r) = [y EXCEPT !.queue = <<>>, !.algorithms = FALSE]
    BY DEF R!Cancel, R!CloseStream
  <2>2. /\ x \in R!Type /\ x.answers = <<>> /\ x.requests = r.requests /\ x.locked = r.locked
        /\ x.state = "closed" /\ x.closed = r.closed
    BY <1>1 DEF R!Type
  <2> HIDE DEF x
  <2>3. /\ y \in R!Type /\ y.state = "closed" /\ y.locked = r.locked
        /\ y.requests = 0 /\ y.answers = Answered(r, "closed")
    BY <1>1, <2>2, SettleReaderKeeps DEF Answered
  <2> HIDE DEF y
  <2>4. R!Cancel(r) \in R!Type
    BY Zenon, <1>1, <2>1, <2>3 DEF R!Type
  <2>5. /\ R!Cancel(r).state = "closed" /\ R!Cancel(r).locked = r.locked /\ R!Cancel(r).queue = <<>>
        /\ R!Cancel(r).requests = 0 /\ R!Cancel(r).answers = Answered(r, "closed")
    BY <2>1, <2>3 DEF R!Type
  <2>. QED  BY <2>4, <2>5 DEF Ended, SourceShape
<1>. QED  BY <1>2, <1>3, <1>4, <1>5

LEMMA EnqueueKeeps ==
  ASSUME NEW r \in R!Type, r.answers = <<>>, SourceShape(r), R!CanCloseOrEnqueue(r),
         NEW c \in Chunk
  PROVE  LET r2 == R!Enqueue(r, c)
         IN  /\ r2 \in R!Type /\ SourceShape(r2) /\ r2.state = "readable" /\ r2.requests = 0
             /\ r2.locked = r.locked /\ r2.closed = r.closed /\ r2.answers = Answered(r, c)
             /\ r2.queue = IF r.requests > 0 THEN r.queue ELSE Append(r.queue, c)
<1> DEFINE r2 == R!Enqueue(r, c)
<1>1. /\ r.requests \in Nat /\ r.state = "readable" /\ c \in R!Answers
      /\ r.queue \in Seq(Chunk) /\ Append(r.queue, c) \in Seq(Chunk)
  BY AppendProperties DEF R!Type, R!CanCloseOrEnqueue, R!Answers
<1>2. CASE r.requests > 0
  <2> DEFINE x == [r EXCEPT !.requests = @ - 1, !.answers = Append(@, c)]
  <2>1. r2 = R!CallPullIfNeeded(x)
    BY <1>2 DEF R!Enqueue
  <2>2. r.requests = 1 /\ r.queue = <<>>
    BY <1>2 DEF SourceShape
  <2>3. Append(r.answers, c) = <<c>> /\ <<c>> \in Seq(R!Answers)
    BY <1>1
  <2>4. x = [r EXCEPT !.requests = 0, !.answers = <<c>>]
    <3>1. r.requests - 1 = 0
      BY <2>2
    <3>. QED  BY <2>3, <3>1, Zenon
  <2> HIDE DEF x
  <2>5. /\ x \in R!Type /\ x.answers = <<c>> /\ x.requests = 0 /\ x.locked = r.locked
        /\ x.state = "readable" /\ x.closed = r.closed /\ x.queue = r.queue
    BY Zenon, <1>1, <2>3, <2>4 DEF R!Type
  <2>6. r2 \in R!Type /\ SameSource(x, r2)
    BY <2>1, <2>5, PullKeeps
  <2>. QED  BY <1>1, <1>2, <2>2, <2>5, <2>6 DEF SameSource, SourceShape, Answered
<1>3. CASE ~(r.requests > 0)
  <2> DEFINE t == Append(r.queue, c)   x == [r EXCEPT !.queue = t]
  <2>1. r2 = R!CallPullIfNeeded(x)
    BY <1>3 DEF R!Enqueue
  <2>2. r.requests = 0
    BY <1>1, <1>3
  <2> HIDE DEF t
  <2>3. /\ x \in R!Type /\ x.answers = <<>> /\ x.requests = 0 /\ x.locked = r.locked
        /\ x.state = "readable" /\ x.closed = r.closed /\ x.queue = t
    BY Zenon, <1>1, <2>2 DEF R!Type, t
  <2> HIDE DEF x
  <2>4. r2 \in R!Type /\ SameSource(x, r2)
    BY <2>1, <2>3, PullKeeps
  <2>. QED  BY <1>1, <1>3, <2>2, <2>3, <2>4 DEF SameSource, SourceShape, Answered, t
<1>. QED  BY <1>2, <1>3

LEMMA ReadKeeps ==
  ASSUME NEW r \in R!Type, r.answers = <<>>, SourceShape(r), r.locked, r.requests = 0
  PROVE  LET r2 == R!ReadChunk(r)
         IN  /\ r2 \in R!Type /\ SourceShape(r2) /\ r2.locked
             /\ \/ /\ r.state # "readable" /\ r2.state = r.state /\ r2.queue = r.queue
                   /\ r2.requests = 0 /\ r2.answers \in {<<"closed">>, <<"errored">>}
                \/ /\ r.state = "readable" /\ r.queue # <<>> /\ r2.queue = Tail(r.queue)
                   /\ r2.requests = 0 /\ r2.answers = <<Head(r.queue)>>
                \/ /\ r.state = "readable" /\ r.queue = <<>> /\ r2.queue = <<>>
                   /\ r2.state = "readable" /\ r2.requests = 1 /\ r2.answers = <<>>
<1> DEFINE r2 == R!ReadChunk(r)
<1>1. /\ r.queue \in Seq(Chunk) /\ {"closed", "errored"} \cup Chunk \subseteq R!Answers
      /\ r.state \in {"readable", "closed", "errored"}
      /\ {"fulfilled", "rejected"} \subseteq R!Settlement
  BY DEF R!Type, R!Answers, R!Settlement
<1>2. CASE r.state # "readable"
  <2> DEFINE a == IF r.state = "closed" THEN "closed" ELSE "errored"   t == <<a>>
  <2>1. Append(r.answers, a) = t /\ a \in R!Answers
    BY <1>1
  <2>2. r2 = [r EXCEPT !.answers = Append(@, a)]
    BY <1>1, <1>2 DEF R!ReadChunk
  <2>3. r2 = [r EXCEPT !.answers = t]
    BY <2>1, <2>2
  <2>4. t \in Seq(R!Answers) /\ t \in {<<"closed">>, <<"errored">>}
    BY <2>1
  <2> HIDE DEF t
  <2>5. r2 \in R!Type
    BY Zenon, <2>3, <2>4 DEF R!Type
  <2>6. /\ r2.state = r.state /\ r2.queue = r.queue /\ r2.requests = 0 /\ r2.locked /\ r2.answers = t
        /\ r2.closed = r.closed
    BY <2>3 DEF R!Type
  <2>. QED  BY <1>2, <2>4, <2>5, <2>6 DEF SourceShape
<1>3. CASE r.state = "readable" /\ r.queue # <<>>
  <2> DEFINE c == Head(r.queue)   q == Tail(r.queue)   x == [r EXCEPT !.queue = q]
             y == IF x.closeRequested /\ x.queue = <<>>
                  THEN R!CloseStream([x EXCEPT !.algorithms = FALSE])
                  ELSE R!CallPullIfNeeded(x)
  <2>1. c \in Chunk /\ q \in Seq(Chunk)
    BY <1>1, <1>3, HeadTailProperties
  <2>2. r2 = [y EXCEPT !.answers = Append(@, c)]
    <3>1. r2 = R!TakeQueued(r)
      BY <1>3 DEF R!ReadChunk
    <3>. QED  BY <3>1, Zenon DEF R!TakeQueued
  <2> HIDE DEF c, q
  <2>3. /\ x \in R!Type /\ x.queue = q /\ x.state = "readable" /\ x.answers = <<>> /\ x.requests = 0
        /\ x.locked /\ x.closed = r.closed
    BY Zenon, <1>3, <2>1 DEF R!Type
  <2>4. r.closed # "fulfilled"
    BY <1>3 DEF SourceShape
  <2>5. /\ y \in R!Type /\ y.queue = q /\ y.answers = <<>> /\ y.requests = 0 /\ y.locked
        /\ y.state = "readable" \/ (y.state = "closed" /\ q = <<>>)
        /\ y.closed = "fulfilled" => y.state = "closed"
    <3>1. CASE x.closeRequested /\ x.queue = <<>>
      <4> DEFINE z == [x EXCEPT !.algorithms = FALSE, !.state = "closed"]
      <4>1. y = R!SettleReader(z, "fulfilled", "closed")
        BY <3>1 DEF R!CloseStream
      <4> HIDE DEF x
      <4>2. z \in R!Type /\ z.answers = <<>> /\ z.requests = 0 /\ z.queue = q /\ z.state = "closed" /\ z.locked
        BY Zenon, <2>3 DEF R!Type
      <4> HIDE DEF z, y
      <4>3. /\ y \in R!Type /\ y.state = z.state /\ y.queue = z.queue /\ y.locked = z.locked
            /\ y.requests = 0 /\ y.answers = Answered(z, "closed")
        <5>1. "fulfilled" \in R!Settlement /\ "closed" \in R!Answers
          BY <1>1
        <5>2. ~(z.requests > 0)
          BY <4>2
        <5>3. z.requests > 0 => z.requests = 1 /\ z.locked
          BY <5>2
        <5>4. z \in R!Type /\ z.answers = <<>>
          BY <4>2
        <5>. QED  BY ONLY <4>1, <5>1, <5>3, <5>4, SettleReaderKeeps
      <4>4. y.answers = <<>>
        <5>1. ~(z.requests > 0)
          BY <4>2
        <5>. QED  BY <4>3, <5>1 DEF Answered
      <4>. QED  BY Zenon, <2>3, <3>1, <4>2, <4>3, <4>4
    <3>2. CASE ~(x.closeRequested /\ x.queue = <<>>)
      <4>1. y = R!CallPullIfNeeded(x)
        BY <3>2
      <4> HIDE DEF x, y
      <4>. QED  BY <2>3, <2>4, <4>1, PullKeeps DEF SameSource
    <3>. QED  BY <3>1, <3>2
  <2> HIDE DEF x, y
  <2> DEFINE t == <<c>>
  <2>6. Append(y.answers, c) = t /\ t \in Seq(R!Answers)
    BY <1>1, <2>1, <2>5
  <2>7. r2 = [y EXCEPT !.answers = t]
    BY <2>2, <2>6
  <2> HIDE DEF t
  <2>8. r2 \in R!Type
    BY Zenon, <2>5, <2>6, <2>7 DEF R!Type
  <2>9. /\ r2.state = y.state /\ r2.queue = q /\ r2.requests = 0 /\ r2.locked /\ r2.answers = t
        /\ r2.closed = y.closed
    BY <2>5, <2>7 DEF R!Type
  <2>. QED  BY <1>3, <2>5, <2>8, <2>9 DEF SourceShape, q, t, c
<1>4. CASE r.state = "readable" /\ r.queue = <<>>
  <2> DEFINE x == [r EXCEPT !.requests = 1]
  <2>1. r2 = R!CallPullIfNeeded(x)
    <3>1. r2 = R!CallPullIfNeeded([r EXCEPT !.requests = @ + 1])
      BY <1>4 DEF R!ReadChunk
    <3>2. r.requests + 1 = 1
      OBVIOUS
    <3>. QED  BY <3>1, <3>2
  <2>2. x \in R!Type /\ x.queue = <<>> /\ x.state = "readable" /\ x.answers = <<>> /\ x.requests = 1
        /\ x.locked /\ x.closed = r.closed
    BY <1>4 DEF R!Type
  <2> HIDE DEF x
  <2>3. r2 \in R!Type /\ SameSource(x, r2)
    BY <2>1, <2>2, PullKeeps
  <2>. QED  BY <1>4, <2>2, <2>3 DEF SameSource, SourceShape
<1>. QED  BY <1>2, <1>3, <1>4

\* Getting and releasing a reader.
LEMMA ReaderKeeps ==
  ASSUME NEW r \in R!Type, r.answers = <<>>, SourceShape(r)
  PROVE  /\ LET r2 == R!Release(r)
            IN  /\ r2 \in R!Type /\ SourceShape(r2) /\ ~r2.locked /\ r2.requests = 0
                /\ r2.state = r.state /\ r2.queue = r.queue /\ r2.answers = Answered(r, "errored")
         /\ LET r2 == R!GetReader(r)
            IN  /\ r2 \in R!Type /\ SourceShape(r2) /\ r2.locked /\ r2.requests = 0
                /\ r2.state = r.state /\ r2.queue = r.queue /\ r2.answers = <<>>
<1>1. /\ "errored" \in R!Answers /\ "rejected" \in R!Settlement
      /\ r.state \in {"readable", "closed", "errored"}
      /\ r.requests > 0 => r.requests = 1 /\ r.locked
  BY DEF R!Type, R!Answers, R!Settlement, SourceShape
<1>2. LET r2 == R!Release(r)
      IN  /\ r2 \in R!Type /\ SourceShape(r2) /\ ~r2.locked /\ r2.requests = 0
          /\ r2.state = r.state /\ r2.queue = r.queue /\ r2.answers = Answered(r, "errored")
  <2> DEFINE y == R!SettleReader(r, "rejected", "errored")   r2 == R!Release(r)
  <2>1. r2 = [y EXCEPT !.locked = FALSE]
    BY DEF R!Release
  <2>2. /\ y \in R!Type /\ y.state = r.state /\ y.queue = r.queue /\ y.requests = 0
        /\ y.answers = Answered(r, "errored") /\ y.closed \in {"rejected", r.closed}
    BY <1>1, SettleReaderKeeps
  <2> HIDE DEF y
  <2>3. r2 \in R!Type
    BY Zenon, <2>1, <2>2 DEF R!Type
  <2>4. /\ r2.state = r.state /\ r2.queue = r.queue /\ r2.requests = 0
        /\ r2.answers = Answered(r, "errored") /\ r2.closed \in {"rejected", r.closed} /\ ~r2.locked
    BY <2>1, <2>2 DEF R!Type
  <2>. QED  BY <2>3, <2>4 DEF SourceShape
<1>3. LET r2 == R!GetReader(r)
      IN  /\ r2 \in R!Type /\ SourceShape(r2) /\ r2.locked /\ r2.requests = 0
          /\ r2.state = r.state /\ r2.queue = r.queue /\ r2.answers = <<>>
  <2> DEFINE r2 == R!GetReader(r)
             v == CASE r.state = "readable" -> "pending" [] r.state = "closed" -> "fulfilled"
                    [] r.state = "errored" -> "rejected"
  <2>1. r2 = [r EXCEPT !.locked = TRUE, !.requests = 0, !.closed = v]
    BY DEF R!GetReader
  <2>2. v \in R!Settlement /\ (v = "fulfilled" => r.state = "closed")
    BY <1>1 DEF R!Settlement
  <2> HIDE DEF v
  <2>3. r2 \in R!Type
    <3> DEFINE x == [r EXCEPT !.locked = TRUE, !.requests = 0]
    <3>1. x \in R!Type
      BY Zenon DEF R!Type
    <3>2. r2 = [x EXCEPT !.closed = v]
      BY <2>1
    <3> HIDE DEF x
    <3>3. [x EXCEPT !.closed = v] \in R!Type
      BY Zenon, <2>2, <3>1 DEF R!Type
    <3>. QED  BY <3>2, <3>3
  <2>4. /\ r2.state = r.state /\ r2.queue = r.queue /\ r2.requests = 0
        /\ r2.answers = <<>> /\ r2.closed = v /\ r2.locked
    BY <2>1 DEF R!Type
  <2>. QED  BY <2>2, <2>3, <2>4 DEF SourceShape
<1>. QED  BY <1>2, <1>3

-----------------------------------------------------------------------------
(* What the source does to the pipe.                                        *)

LEMMA WithSourceOf ==
  ASSUME NEW s, NEW r
  PROVE  /\ r.answers = <<>> => WithSource(s, r) = Told(s, r)
         /\ \A a : r.answers = <<a>> => WithSource(s, r) = ReadAnswered(Told(s, r), a)
<1>1. ASSUME NEW a, r.answers = <<a>>  PROVE WithSource(s, r) = ReadAnswered(Told(s, r), a)
  <2>1. r.answers # <<>> /\ Head(r.answers) = a
    BY <1>1
  <2>. QED  BY <2>1, Zenon DEF WithSource, Told
<1>. QED  BY <1>1 DEF WithSource, Told

\* Lengths and places in the source's order.
LEMMA SourceNumbers ==
  ASSUME NEW n, NEW s, Core(s, n)
  PROVE  /\ Len(Chunks) \in Nat /\ n \in 0..Len(Chunks) /\ n \in Nat
         /\ Len(s.r.queue) \in Nat /\ Reached(s.calls, s.w) \in Nat
         /\ Reached(s.calls, s.w) + Len(s.r.queue) <= n
         /\ Base(s.calls, s.w) \in Nat /\ Len(W!QueuedChunks(s.w)) \in Nat
         /\ Reached(s.calls, s.w) = Base(s.calls, s.w) + Len(W!QueuedChunks(s.w))
<1>1. s \in State /\ s.r.queue \in Seq(Chunk)
  BY DEF Core, State, R!Type
<1>2. W!QueuedChunks(s.w) \in Seq(Chunk)
  BY <1>1, QueuedChunksOf DEF Core, DestinationInv, W!Type
<1> DEFINE a == Len(s.r.queue)   b == Base(s.calls, s.w)   e == Reached(s.calls, s.w)
           k == Len(W!QueuedChunks(s.w))   m == Len(Chunks)
<1>3. m \in Nat /\ a \in Nat /\ k \in Nat
  BY <1>1, <1>2, PipeAssumption, LenProperties
<1>4. n \in 0..m /\ b \in Nat /\ e + a <= n
  BY DEF Core, OrderInv
<1>5. e = b + k
  BY DEF Reached
<1> HIDE DEF a, b, e, k, m
<1>6. n \in Nat /\ e \in Nat
  BY <1>3, <1>4, <1>5
<1>. QED  BY <1>3, <1>4, <1>5, <1>6 DEF a, b, e, k, m

LEMMA SourceQuiet ==
  ASSUME NEW n, NEW s, Core(s, n), NEW r, NEW n2, Follows(s, n, r, n2), r.answers = <<>>
  PROVE  /\ Core(WithSource(s, r), n2) /\ SourceMoved(s, WithSource(s, r), r)
         /\ Balance(s, n) /\ (Working(s.w, r, s.p) => /\ Working(s.w, s.r, s.p)
                                                      /\ n - Len(s.r.queue) = n2 - Len(r.queue))
              => Balance(WithSource(s, r), n2)
BY SourceFollows, WithSourceOf DEF SourceTold, SourceMoved

LEMMA SourceRests ==
  ASSUME NEW n, NEW s, Core(s, n), NEW r \in R!Type, SameSource(s.r, r)
  PROVE  /\ Core(WithSource(s, r), n) /\ SourceMoved(s, WithSource(s, r), r)
         /\ Balance(s, n) => Balance(WithSource(s, r), n)
<1> DEFINE a == Len(s.r.queue)
<1>1. SourceInv(s.r, s.p) /\ n \in 0..Len(Chunks) /\ a \in Nat /\ n \in Nat
  BY SourceNumbers DEF Core
<1>2. QueueOrder(r, n) /\ n - a <= n - a
  <2>1. QueueOrder(s.r, n)
    BY DEF Core, OrderInv
  <2> HIDE DEF a
  <2>. QED  BY <1>1, <2>1 DEF SameSource, QueueOrder
<1>3. Follows(s, n, r, n) /\ r.answers = <<>>
  BY <1>1, <1>2 DEF Follows, SameSource, SourceInv, SourceShape, Core, PhaseInv
<1>4. Working(s.w, r, s.p) => Working(s.w, s.r, s.p) /\ n - Len(s.r.queue) = n - Len(r.queue)
  BY DEF Working, SameSource
<1>. QED  BY <1>3, <1>4, SourceQuiet

LEMMA SourceEnds ==
  ASSUME NEW n, NEW s, Core(s, n), NEW r \in R!Type, SourceShape(r), r.requests = 0,
         NEW a \in {"closed", "errored"},
         r.queue \in {<<>>, s.r.queue},
         r.answers = Answered(s.r, a) \/ (s.p.loop = "read" /\ r.answers = <<a>>),
         s.r.state # "readable" => r.state = s.r.state,
         s.p.phase \in {"piping", "shuttingDown"} => r.locked,
         Working(s.w, r, s.p) => Working(s.w, s.r, s.p) /\ r.queue = s.r.queue
  PROVE  /\ Core(WithSource(s, r), n) /\ SourceMoved(s, WithSource(s, r), r)
         /\ Balance(s, n) => Balance(WithSource(s, r), n)
<1> DEFINE x == Told(s, r)   f == WithSource(s, r)
<1>1. SourceInv(s.r, s.p) /\ n \in 0..Len(Chunks) /\ Len(s.r.queue) \in Nat /\ n \in Nat
      /\ s.r.requests \in Nat /\ s.r.queue \in Seq(Chunk)
  BY Zenon, SourceNumbers DEF Core, State, R!Type
<1>2. QueueOrder(r, n) /\ n - Len(s.r.queue) <= n - Len(r.queue)
  <2>1. QueueOrder(s.r, n)
    BY DEF Core, OrderInv
  <2>2. CASE r.queue = s.r.queue
    <3> DEFINE k == Len(s.r.queue)
    <3>1. k \in Nat
      BY <1>1
    <3> HIDE DEF k
    <3>2. n - k <= n - k
      BY <1>1, <3>1
    <3>. QED  BY <2>1, <2>2, <3>2 DEF QueueOrder, k
  <2>3. CASE r.queue = <<>>
    <3> DEFINE k == Len(s.r.queue)
    <3>1. Len(<<>>) = 0 /\ k \in Nat
      BY <1>1
    <3> HIDE DEF k
    <3>2. n - k <= n - 0
      BY <1>1, <3>1
    <3>. QED  BY <2>3, <3>1, <3>2 DEF QueueOrder, k
  <2>. QED  BY <2>2, <2>3
<1>3. Follows(s, n, r, n)
  BY <1>1, <1>2 DEF Follows
<1>4. Core(x, n) /\ SourceTold(s, x, r) /\ (Balance(s, n) => Balance(x, n))
  BY <1>3, SourceFollows
<1> HIDE DEF x
<1>5. CASE r.answers = <<>>
  BY <1>4, <1>5, WithSourceOf DEF SourceTold, SourceMoved, x
<1>6. CASE r.answers = <<a>> /\ s.p.loop = "read"
  <2>1. f = ReadAnswered(x, a) /\ x.p = s.p /\ s.p \in PipeType
    BY SMTT(30), <1>4, <1>6, WithSourceOf DEF x, SourceTold, Core, State
  <2>2. x.r.requests = 0
    BY <1>4 DEF SourceTold, R!Type
  <2>3. /\ Core(f, n) /\ (Balance(x, n) => Balance(f, n)) /\ SameStreams(x, f)
        /\ f.p = [s.p EXCEPT !.loop = "off"] /\ f.cancelling = x.cancelling
    BY <1>4, <1>6, <2>1, <2>2, ReadEnds
  <2> HIDE DEF f
  <2>4. SourceMoved(s, f, r)
    BY <1>4, <1>6, <2>1, <2>3 DEF SourceMoved, SourceTold, SameStreams, PipeType
  <2>. QED  BY <1>4, <2>3, <2>4 DEF f
<1>7. r.answers = <<>> \/ (r.answers = <<a>> /\ s.p.loop = "read")
  <2>1. s.r.requests > 0 => s.p.loop = "read"
    BY <1>1 DEF SourceInv
  <2>. QED  BY <2>1 DEF Answered
<1>. QED  BY <1>5, <1>6, <1>7

\* A read request is answered by the chunk that is next in the source's order.
LEMMA SourceTakes ==
  ASSUME NEW n, NEW s, Core(s, n), Balance(s, n), s.p.loop = "read", s.r.state = "readable",
         NEW r \in R!Type, SourceShape(r), r.requests = 0, r.locked,
         NEW c \in Chunk, r.answers = <<c>>, NEW n2 \in 0..Len(Chunks), n <= n2,
         n - Len(s.r.queue) + 1 = n2 - Len(r.queue), QueueOrder(r, n2),
         c = Chunks[n - Len(s.r.queue) + 1]
  PROVE  /\ Core(WithSource(s, r), n2) /\ SourceMoved(s, WithSource(s, r), r)
         /\ Balance(WithSource(s, r), n2)
<1> DEFINE a == Len(s.r.queue)   a2 == Len(r.queue)   e == Reached(s.calls, s.w)   m == Len(Chunks)
           x == Told(s, r)   f == WithSource(s, r)
<1>1. /\ m \in Nat /\ n \in 0..m /\ n \in Nat /\ a \in Nat /\ e \in Nat /\ e + a <= n
      /\ a2 \in Nat /\ n2 \in 0..m /\ n2 \in Nat /\ n - a + 1 = n2 - a2
  <2>1. /\ m \in Nat /\ n \in 0..m /\ n \in Nat /\ a \in Nat /\ e \in Nat /\ e + a <= n
    BY SourceNumbers
  <2>2. a2 \in Nat
    BY LenProperties DEF R!Type
  <2>3. n2 \in 0..m /\ n - a + 1 = n2 - a2
    OBVIOUS
  <2> HIDE DEF a, a2, e, m
  <2>. QED  BY <2>1, <2>2, <2>3
<1>2. Chunks \in Seq(Chunk) /\ \A i, k \in 1..m : Chunks[i] = Chunks[k] => i = k
  <2>1. Chunks \in Seq(Chunk) /\ IsInjective(Chunks)
    BY PipeAssumption
  <2>. QED  BY <2>1 DEF IsInjective
<1>3. Follows(s, n, r, n2)
  <2>1. n - a <= n2 - a2
    <3> HIDE DEF a, a2, e, m
    <3>. QED  BY <1>1
  <2>. QED  BY <2>1 DEF Follows
<1>4. Core(x, n2) /\ SourceTold(s, x, r)
  BY <1>3, SourceFollows
<1> HIDE DEF x
<1>5. /\ x.w = s.w /\ x.calls = s.calls /\ x.p = s.p /\ x.r.queue = r.queue /\ x.r.requests = 0
      /\ x.r.state = r.state
      /\ \A d : Known(x.w, x.p, x.j, d) => Known(s.w, s.p, s.j, d)
  BY <1>4 DEF SourceTold, R!Type
<1>6. s.p \in PipeType /\ ~EndsWell(s.p) /\ ~Has(s.j, "write") /\ HasRoom(s.w)
  <2>1. s.p \in PipeType /\ ~EndsWell(s.p)
    BY DEF Core, State, PhaseInv
  <2>2. NoLoopJob(s.j)
    BY DEF Core, LoopInv, NoLoopJob
  <2>3. ~Has(s.j, "write")
    BY Zenon, <2>2 DEF Core, LoopInv, NoLoopJob, Has, LoopKinds
  <2>4. HasRoom(s.w)
    BY DEF Core, RoomInv
  <2>. QED  BY <2>1, <2>3, <2>4
<1>7. W!Accepts(s.w) /\ s.p.phase # "done" => e + a = n
  <2> SUFFICES ASSUME W!Accepts(s.w), s.p.phase # "done"  PROVE e + a = n
    OBVIOUS
  <2>1. Working(s.w, s.r, s.p)
    BY DEF Working
  <2>2. e + a + 0 = n
    BY <1>6, <2>1 DEF Balance, BalanceInv
  <2> HIDE DEF e, a
  <2>. QED  BY <1>1, <2>2
<1>8. Read(x.r, n2, c)
  <2> HIDE DEF e, m
  <2>1. \E k \in 1..(n2 - a2) : k = n - a + 1
    <3> HIDE DEF a, a2
    <3>. QED  BY <1>1
  <2>. QED  BY Zenon, <1>5, <2>1 DEF Read
<1>9. ~Known(x.w, x.p, x.j, c)
  <2> SUFFICES ASSUME Known(x.w, x.p, x.j, c)  PROVE FALSE
    OBVIOUS
  <2>1. Read(s.r, n, c)
    BY <1>5 DEF Core, KnownInv
  <2>2. PICK k \in 1..(n - a) : c = Chunks[k]
    BY <2>1 DEF Read
  <2> HIDE DEF a, a2, m
  <2>3. k \in 1..m /\ n - a + 1 \in 1..m /\ k # n - a + 1
    BY <1>1, <2>2
  <2>. QED  BY Zenon, <1>2, <2>2, <2>3 DEF a
<1>10. NextChunk(x, n2, c)
  <2>1. e + a = n => e + 1 + a2 <= n2 /\ e + 1 = n - a + 1
    <3> HIDE DEF a, a2, m, e
    <3>. QED  BY <1>1
  <2>2. W!Accepts(s.w) /\ s.p.phase # "done" => c = Chunks[e + 1]
    <3> SUFFICES ASSUME W!Accepts(s.w), s.p.phase # "done"  PROVE c = Chunks[e + 1]
      OBVIOUS
    <3>1. e + 1 = n - a + 1
      BY <1>7, <2>1
    <3>2. c = Chunks[n - a + 1]
      OBVIOUS
    <3> HIDE DEF a, e
    <3>. QED  BY <3>1, <3>2
  <2>. QED  BY <1>5, <1>7, <1>8, <1>9, <2>1, <2>2 DEF NextChunk
<1>11. f = ReadAnswered(x, c)
  BY WithSourceOf DEF x
<1>12. /\ Core(f, n2) /\ SameStreams(x, f) /\ f.p = Carrying(s.p, c)
       /\ f.cancelling = x.cancelling
       /\ OneMissing(x, n2) => Balance(f, n2)
  <2>1. /\ x.p.loop = "read" /\ x.r.requests = 0 /\ HasRoom(x.w) /\ ~EndsWell(x.p) /\ x.p = s.p
        /\ Core(x, n2) /\ c \in Chunk
    BY <1>4, <1>5, <1>6
  <2> DEFINE g == ReadAnswered(x, c)
  <2>2. /\ Core(g, n2) /\ SameStreams(x, g) /\ g.p = Carrying(x.p, c)
        /\ g.cancelling = x.cancelling
        /\ OneMissing(x, n2) => Balance(g, n2)
    BY ONLY <1>10, <2>1, ReadDelivers
  <2>3. g = f
    BY <1>11
  <2> HIDE DEF g, f
  <2>. QED  BY ONLY <2>1, <2>2, <2>3
<1>13. Working(x.w, x.r, x.p) => e + a2 + 1 = n2
  <2> SUFFICES ASSUME Working(x.w, x.r, x.p)  PROVE e + a2 + 1 = n2
    OBVIOUS
  <2>1. e + a = n
    BY <1>5, <1>7 DEF Working
  <2> HIDE DEF a, a2, e, m
  <2>. QED  BY ONLY <1>1, <2>1
<1>14. Balance(f, n2)
  <2>1. OneMissing(x, n2)
    BY <1>5, <1>13 DEF OneMissing
  <2>. QED  BY <1>12, <2>1
<1> HIDE DEF f
<1>15. SourceMoved(s, f, r)
  BY <1>4, <1>6, <1>12 DEF SourceMoved, SourceTold, SameStreams, PipeType, Carrying
<1>. QED  BY <1>12, <1>14, <1>15 DEF f

\* A chunk is queued in the source.
LEMMA SourceQueues ==
  ASSUME NEW n, NEW s, Core(s, n), n + 1 <= Len(Chunks), s.r.state = "readable", s.r.requests = 0,
         NEW r \in R!Type, SourceShape(r), r.state = "readable", r.requests = 0,
         r.locked = s.r.locked, r.answers = <<>>, r.queue = Append(s.r.queue, Chunks[n + 1])
  PROVE  /\ Core(WithSource(s, r), n + 1) /\ SourceMoved(s, WithSource(s, r), r)
         /\ Balance(s, n) => Balance(WithSource(s, r), n + 1)
<1> DEFINE a == Len(s.r.queue)   a2 == Len(r.queue)   m == Len(Chunks)   t == r.queue
<1>1. m \in Nat /\ n \in 0..m /\ n \in Nat /\ a \in Nat /\ n + 1 <= m
  BY SourceNumbers
<1>2. /\ a2 = a + 1 /\ t[a + 1] = Chunks[n + 1]
      /\ \A i \in 1..a : t[i] = s.r.queue[i]
  <2>1. s.r.queue \in Seq(Chunk)
    BY DEF Core, State, R!Type
  <2>2. Chunks[n + 1] \in Chunk
    <3>1. n + 1 \in 1..m
      <4> HIDE DEF m
      <4>. QED  BY <1>1
    <3>. QED  BY <3>1, PipeAssumption, ElementOfSeq
  <2> DEFINE d == Chunks[n + 1]
  <2> HIDE DEF d
  <2>3. d \in Chunk /\ t = Append(s.r.queue, d)
    BY <2>2 DEF d
  <2>. QED  BY <2>1, <2>3, AppendProperties DEF d
<1>3. QueueOrder(s.r, n)
  BY DEF Core, OrderInv
<1>4. QueueOrder(r, n + 1)
  <2> SUFFICES ASSUME NEW i \in 1..a2  PROVE t[i] = Chunks[(n + 1) - a2 + i]
    BY DEF QueueOrder
  <2>1. CASE i \in 1..a
    <3>1. t[i] = Chunks[n - a + i]
      BY <1>2, <1>3, <2>1 DEF QueueOrder
    <3> HIDE DEF a, a2, m, t
    <3>2. n - a + i = (n + 1) - a2 + i
      BY <1>1, <1>2, <2>1
    <3>. QED  BY <3>1, <3>2
  <2>2. CASE i = a + 1
    <3> HIDE DEF a, a2, m, t
    <3>1. n + 1 = (n + 1) - a2 + i
      BY <1>1, <1>2, <2>2
    <3>. QED  BY <1>2, <2>2, <3>1
  <2>3. i \in 1..a \/ i = a + 1
    <3> HIDE DEF a, a2, m, t
    <3>. QED  BY <1>1, <1>2
  <2>. QED  BY <2>1, <2>2, <2>3
<1>5. n + 1 \in 0..m /\ n - a = (n + 1) - a2
  <2> HIDE DEF a, a2, m, t
  <2>. QED  BY <1>1, <1>2
<1>6. n - a <= (n + 1) - a2
  <2> HIDE DEF a, a2, m, t
  <2>. QED  BY <1>1, <1>2
<1>7. Follows(s, n, r, n + 1)
  BY <1>4, <1>5, <1>6 DEF Follows, Core, PhaseInv
<1>8. Working(s.w, r, s.p) => Working(s.w, s.r, s.p)
  BY DEF Working
<1>. QED  BY Zenon, <1>5, <1>7, <1>8, SourceQuiet

-----------------------------------------------------------------------------
(* What the destination does to the sink.                                   *)

LEMMA HeadOfQueue ==
  ASSUME NEW w, DestinationInv(w)
  PROVE  /\ W!QueuedChunks(w) \in Seq(Chunk) /\ Len(W!QueuedChunks(w)) \in Nat
         /\ w.inFlight = "write" => /\ Len(W!QueuedChunks(w)) >= 1
                                    /\ Head(w.queue) = W!QueuedChunks(w)[1]
                                    /\ Head(w.queue) \in Chunk
         /\ ~Alive(w) => W!QueuedChunks(w) = <<>> /\ w.inFlight = "none"
         /\ w.inFlight = "close" => W!QueuedChunks(w) = <<>>
<1> DEFINE q == w.queue   qc == W!QueuedChunks(w)
<1>1. /\ q \in Seq(Chunk \cup {W!CloseSentinel}) /\ QueueShape(w) /\ InFlightShape(w)
      /\ w.inFlight \in {"none", "write", "close"}
  BY DEF DestinationInv, W!Type
<1>2. /\ qc \in Seq(Chunk) /\ Len(qc) \in Nat /\ Len(q) \in Nat
      /\ Len(qc) = IF q # <<>> /\ w.closeRequest THEN Len(q) - 1 ELSE Len(q)
      /\ \A i \in 1..Len(qc) : qc[i] = q[i]
  BY <1>1, QueuedChunksOf
<1>3. q = <<>> => qc = <<>>
  BY DEF W!QueuedChunks
<1> HIDE DEF qc
<1>4. w.inFlight = "write" => Len(qc) >= 1 /\ Head(q) = qc[1] /\ Head(q) \in Chunk
  <2> SUFFICES ASSUME w.inFlight = "write"  PROVE Len(qc) >= 1 /\ Head(q) = qc[1] /\ Head(q) \in Chunk
    OBVIOUS
  <2>1. q # <<>> /\ Head(q) # W!CloseSentinel /\ Head(q) = q[1] /\ Len(q) \in Nat \ {0}
    BY <1>1, EmptySeq, LenProperties DEF InFlightShape
  <2>2. ~(1 = Len(q) /\ w.closeRequest) /\ 1 \in 1..Len(q)
    BY <1>1, <2>1 DEF QueueShape
  <2> DEFINE k == Len(q)   kc == Len(qc)
  <2>3. kc >= 1
    <3>1. kc = (IF w.closeRequest THEN k - 1 ELSE k) /\ k \in Nat \ {0} /\ ~(1 = k /\ w.closeRequest)
      BY <1>2, <2>1, <2>2
    <3> HIDE DEF k, kc
    <3>. QED  BY <3>1
  <2>4. 1 \in 1..Len(qc)
    BY <1>2, <2>3
  <2>. QED  BY <1>2, <2>1, <2>3, <2>4, ElementOfSeq
<1>. QED  BY <1>1, <1>2, <1>3, <1>4 DEF QueueShape, InFlightShape, Alive, qc

SameDestination(w, w0) ==
  /\ w0.state = w.state /\ w0.queue = w.queue /\ w0.inFlight = w.inFlight
  /\ w0.closeRequest = w.closeRequest /\ w0.pendingAbort = w.pendingAbort
  /\ w0.aborting = w.aborting /\ w0.locked = w.locked /\ w0.ready = w.ready
  /\ w0.closed = w.closed /\ w0.close = w.close /\ w0.abort = w.abort
  /\ W!QueuedChunks(w0) = W!QueuedChunks(w)
  /\ (W!Accepts(w0) <=> W!Accepts(w)) /\ (Alive(w0) <=> Alive(w))
  /\ (W!CloseQueuedOrInFlight(w0) <=> W!CloseQueuedOrInFlight(w))

LEMMA ClearKeeps ==
  ASSUME NEW w, DestinationInv(w)
  PROVE  LET w0 == [w EXCEPT !.settled = <<>>]
         IN  DestinationInv(w0) /\ w0.settled = <<>> /\ SameDestination(w, w0)
<1> DEFINE w0 == [w EXCEPT !.settled = <<>>]
<1>1. w \in W!Type /\ <<>> \in Seq(Chunk)
  BY DEF DestinationInv
<1>2. w0 \in W!Type
  BY Zenon, <1>1 DEF W!Type
<1>3. /\ w0.settled = <<>> /\ w0.queue = w.queue /\ w0.inFlight = w.inFlight /\ w0.state = w.state
      /\ w0.closeRequest = w.closeRequest /\ w0.locked = w.locked /\ w0.started = w.started
      /\ w0.pendingAbort = w.pendingAbort /\ w0.aborting = w.aborting /\ w0.ready = w.ready
      /\ w0.closed = w.closed /\ w0.close = w.close /\ w0.abort = w.abort /\ ~w0.broken
      /\ w0.algorithms = w.algorithms /\ w0.backpressure = w.backpressure
  BY <1>1 DEF W!Type, DestinationInv
<1> HIDE DEF w0
<1>4. W!QueuedChunks(w0) = W!QueuedChunks(w) /\ (W!Backpressure(w0) <=> W!Backpressure(w))
  BY <1>3 DEF W!QueuedChunks, W!Backpressure
<1>5. SameDestination(w, w0)
  BY <1>3, <1>4 DEF SameDestination, W!Accepts, Alive, W!CloseQueuedOrInFlight
<1>6. QueueShape(w0) /\ InFlightShape(w0) /\ AlgorithmsKept(w0) /\ PromisesOwed(w0) /\ ReadyFollows(w0)
  BY <1>3, <1>4 DEF DestinationInv, QueueShape, InFlightShape, AlgorithmsKept, PromisesOwed,
     ReadyFollows, Alive, W!CloseQueuedOrInFlight
<1>. QED  BY <1>2, <1>3, <1>5, <1>6 DEF DestinationInv, w0

\* The jobs of the writes that the destination settles.
Adopted(d) == [i \in DOMAIN d |-> <<"adopt", d[i]>>]

LEMMA JobsAdopted ==
  ASSUME NEW j \in Seq(Job), NEW d \in Seq(Chunk)
  PROVE  LET t == j \o Adopted(d)
         IN  /\ t \in Seq(Job) /\ (d = <<>> => t = j)
             /\ \A kind : kind # "adopt" => (Has(t, kind) <=> Has(j, kind))
             /\ \A p : LoopInv(j, p) => LoopInv(t, p)
             /\ NoLoopJob(j) => NoLoopJob(t)
             /\ \A x : (\E i \in 1..Len(t) : t[i][1] \in {"adopt", "settle"} /\ t[i][2] = x)
                         => \/ \E i \in 1..Len(j) : j[i][1] \in {"adopt", "settle"} /\ j[i][2] = x
                            \/ \E i \in 1..Len(d) : d[i] = x
             /\ \A i \in 1..Len(t) : t[i][1] = "waited" => i \in 1..Len(j) /\ t[i] = j[i]
             /\ \A i \in 1..Len(j) : i \in 1..Len(t) /\ t[i] = j[i]
             /\ \A i \in 1..Len(t) : \/ i \in 1..Len(j)
                                    \/ (i - Len(j) \in 1..Len(d) /\ t[i] = <<"adopt", d[i - Len(j)]>>)
<1> DEFINE a == Adopted(d)   t == j \o a   m == Len(j)   k == Len(d)
<1>1. k \in Nat /\ m \in Nat /\ DOMAIN d = 1..k /\ \A i \in 1..k : d[i] \in Chunk
  BY LenProperties, ElementOfSeq
<1>2. a \in Seq(Job) /\ Len(a) = k /\ \A i \in 1..k : a[i] = <<"adopt", d[i]>>
  <2>1. a = [i \in 1..k |-> <<"adopt", d[i]>>]
    BY <1>1 DEF Adopted
  <2>2. \A i \in 1..k : <<"adopt", d[i]>> \in Job
    BY <1>1 DEF Job
  <2>3. a \in [1..k -> Job]
    BY <2>1, <2>2
  <2>4. a \in Seq(Job) /\ DOMAIN a = 1..k
    BY <1>1, <2>3, SeqDef
  <2>5. Len(a) = k
    BY <1>1, <2>4, LenProperties
  <2>. QED  BY <2>1, <2>4, <2>5
<1> HIDE DEF a
<1>3. /\ t \in Seq(Job) /\ Len(t) = m + k
      /\ \A i \in 1..(m + k) : t[i] = IF i <= m THEN j[i] ELSE a[i - m]
  <2>1. /\ t \in Seq(Job) /\ Len(t) = Len(j) + Len(a)
        /\ \A i \in 1..(Len(j) + Len(a)) : t[i] = IF i <= Len(j) THEN j[i] ELSE a[i - Len(j)]
    BY ZenonT(40), <1>2, ConcatProperties
  <2>2. Len(a) = k
    BY <1>2
  <2> HIDE DEF k, t
  <2>. QED  BY <2>1, <2>2
<1>4. d = <<>> => t = j
  <2> SUFFICES ASSUME d = <<>>  PROVE t = j
    OBVIOUS
  <2>1. Len(a) = 0
    BY <1>1, <1>2
  <2>2. a = <<>>
    BY <1>2, <2>1, EmptySeq
  <2>. QED  BY <2>2, ConcatEmptySeq
<1> HIDE DEF t, m, k
<1>5. /\ \A i \in 1..m : i \in 1..Len(t) /\ t[i] = j[i]
      /\ \A i \in 1..Len(t) : i \in 1..m \/ (i - m \in 1..k /\ t[i] = <<"adopt", d[i - m]>>)
  <2>1. \A i \in 1..m : i \in 1..(m + k) /\ i <= m
    BY <1>1
  <2>2. \A i \in 1..(m + k) : i \in 1..m \/ (i - m \in 1..k /\ ~(i <= m))
    BY <1>1
  <2>. QED  BY <1>2, <1>3, <2>1, <2>2
<1>6. \A x : <<"adopt", x>>[1] = "adopt" /\ <<"adopt", x>>[2] = x
  OBVIOUS
<1>7. \A i \in 1..Len(t) : t[i][1] # "adopt" => i \in 1..m /\ t[i] = j[i]
  BY <1>5, <1>6
<1>8. \A kind : kind # "adopt" => (Has(t, kind) <=> Has(j, kind))
  BY Zenon, <1>5, <1>7 DEF Has, m
<1>9. ASSUME NEW p, LoopInv(j, p)  PROVE LoopInv(t, p)
  <2>1. \A i \in 1..Len(t) : t[i][1] \in LoopKinds \cup {"write"} => i \in 1..m /\ t[i] = j[i]
    BY <1>7 DEF LoopKinds
  <2>2. ASSUME NEW i \in 1..Len(t), t[i][1] = "write"
        PROVE  i + 1 \in 1..Len(t) /\ t[i + 1][1] = "adoptRead" /\ t[i][2] = p.current
    <3>1. i + 1 \in 1..m /\ j[i + 1][1] = "adoptRead" /\ j[i][2] = p.current /\ t[i] = j[i]
      BY <1>9, <2>1, <2>2 DEF LoopInv, m
    <3>. QED  BY <1>5, <3>1
  <2>. QED  BY Zenon, <1>9, <2>1, <2>2 DEF LoopInv, m
<1>10. NoLoopJob(j) => NoLoopJob(t)
  BY <1>7 DEF NoLoopJob, LoopKinds, m
<1>11. \A x : (\E i \in 1..Len(t) : t[i][1] \in {"adopt", "settle"} /\ t[i][2] = x)
                => \/ \E i \in 1..Len(j) : j[i][1] \in {"adopt", "settle"} /\ j[i][2] = x
                   \/ \E i \in 1..Len(d) : d[i] = x
  <2> SUFFICES ASSUME NEW x, NEW i \in 1..Len(t), t[i][1] \in {"adopt", "settle"}, t[i][2] = x
               PROVE  \/ \E l \in 1..Len(j) : j[l][1] \in {"adopt", "settle"} /\ j[l][2] = x
                      \/ \E l \in 1..Len(d) : d[l] = x
    BY Zenon
  <2>1. CASE i \in 1..m
    BY <1>5, <2>1 DEF m
  <2>2. CASE i - m \in 1..k /\ t[i] = <<"adopt", d[i - m]>>
    BY <1>6, <2>2 DEF k
  <2>. QED  BY <1>5, <2>1, <2>2
<1>12. \A i \in 1..Len(t) : t[i][1] = "waited" => i \in 1..Len(j) /\ t[i] = j[i]
  BY <1>7 DEF m
<1>13. /\ \A i \in 1..Len(j) : i \in 1..Len(t) /\ t[i] = j[i]
       /\ \A i \in 1..Len(t) : \/ i \in 1..Len(j)
                              \/ (i - Len(j) \in 1..Len(d) /\ t[i] = <<"adopt", d[i - Len(j)]>>)
  BY <1>5 DEF m, k
<1>. QED  BY Zenon, <1>3, <1>4, <1>8, <1>9, <1>10, <1>11, <1>12, <1>13 DEF t, a

LEMMA SinkCalledOf ==
  ASSUME NEW c \in CallsType, NEW w, NEW w2,
         w2.inFlight = "write" => Head(w2.queue) \in Chunk
  PROVE  LET c2 == SinkCalled(c, w, w2)
             asked == w2.inFlight = "write" /\ (w.inFlight # "write" \/ Head(w2.queue) # Head(w.queue))
         IN  /\ c2 \in CallsType
             /\ c2.chunks = IF asked THEN Append(c.chunks, Head(w2.queue)) ELSE c.chunks
             /\ c2.closed <=> c.closed \/ (w2.inFlight = "close" /\ w.inFlight # "close")
<1> DEFINE c2 == SinkCalled(c, w, w2)
           asked == w2.inFlight = "write" /\ (w.inFlight # "write" \/ Head(w2.queue) # Head(w.queue))
           h == Head(w2.queue)
<1>1. CASE asked
  <2>1. c2 = [c EXCEPT !.chunks = Append(@, h)]
    BY <1>1 DEF SinkCalled
  <2> DEFINE t == Append(c.chunks, h)
  <2>2. t \in Seq(Chunk)
    BY <1>1, AppendProperties DEF CallsType
  <2>3. c2 = [c EXCEPT !.chunks = t]
    BY <2>1
  <2> HIDE DEF t
  <2>4. c2 \in CallsType /\ c2.chunks = t /\ c2.closed = c.closed
    BY <2>2, <2>3 DEF CallsType
  <2>. QED  BY <1>1, <2>4 DEF t
<1>2. CASE ~asked
  <2>1. c2 = IF w2.inFlight = "close" /\ w.inFlight # "close" THEN [c EXCEPT !.closed = TRUE]
             ELSE IF w2.aborting /\ ~w.aborting THEN [c EXCEPT !.aborted = TRUE] ELSE c
    BY <1>2 DEF SinkCalled
  <2>2. CASE w2.inFlight = "close" /\ w.inFlight # "close"
    BY Zenon, <1>2, <2>1, <2>2 DEF CallsType
  <2>3. CASE ~(w2.inFlight = "close" /\ w.inFlight # "close")
    BY Zenon, <1>2, <2>1, <2>3 DEF CallsType
  <2>. QED  BY <2>2, <2>3
<1>. QED  BY <1>1, <1>2

\* What stays true of the sink's calls and the order of the chunks.
SinkTold(c, c2, w, w2) ==
  /\ c2 \in CallsType /\ Base(c2, w2) \in Nat
  /\ Reached(c2, w2) <= Reached(c, w)
  /\ w2.state # "errored" \/ c.closed => Reached(c2, w2) = Reached(c, w)
  /\ \A i \in 1..Len(c2.chunks) : c2.chunks[i] = Chunks[i]
  /\ \A i \in 1..Len(W!QueuedChunks(w2)) : W!QueuedChunks(w2)[i] = Chunks[Base(c2, w2) + i]
  /\ ClosedInv(c2, w2)
  /\ c.closed => c2.closed
  /\ c2.closed => c.closed \/ (w2.inFlight = "close" /\ w.inFlight # "close")

\* Chunks leave the destination's queue, but do not join it.
OnlyLeave(w, w2) ==
  /\ Len(W!QueuedChunks(w2)) <= Len(W!QueuedChunks(w))
  /\ \A x : (\E i \in 1..Len(W!QueuedChunks(w2)) : W!QueuedChunks(w2)[i] = x)
              => \E i \in 1..Len(W!QueuedChunks(w)) : W!QueuedChunks(w)[i] = x
  /\ \A x : (\E i \in 1..Len(w2.settled) : w2.settled[i] = x)
              => \E i \in 1..Len(W!QueuedChunks(w)) : W!QueuedChunks(w)[i] = x

LEMMA FlowsLeave ==
  ASSUME NEW w, NEW w2, DestinationInv(w), DestinationInv(w2), Flows(w, w2)
  PROVE  OnlyLeave(w, w2)
<1> DEFINE q == W!QueuedChunks(w)   q2 == W!QueuedChunks(w2)
<1>1. q \in Seq(Chunk) /\ Len(q) \in Nat
  BY HeadOfQueue
<1> HIDE DEF q, q2
<1>2. CASE q2 = q /\ w2.settled = <<>>
  <2>1. Len(<<>>) = 0
    OBVIOUS
  <2>. QED  BY <1>1, <1>2, <2>1 DEF OnlyLeave, q, q2
<1>3. CASE q2 = Tail(q) /\ w.inFlight = "write" /\ w2.settled = <<Head(q)>>
  <2>1. Len(q) >= 1 /\ q # <<>> /\ Head(q) = q[1]
    <3>1. Len(q) >= 1
      BY <1>3, HeadOfQueue DEF q
    <3>. QED  BY <1>1, <3>1
  <2>2. Len(Tail(q)) = Len(q) - 1 /\ \A i \in 1..(Len(q) - 1) : Tail(q)[i] = q[i + 1]
    BY <1>1, <2>1, HeadTailProperties
  <2>3. Len(w2.settled) = 1 /\ w2.settled[1] = q[1]
    BY <1>3, <2>1
  <2> DEFINE k == Len(q)   h == q[1]
  <2>4. k \in Nat /\ k >= 1 /\ Len(q2) = k - 1 /\ \A i \in 1..(k - 1) : q2[i] = q[i + 1]
    BY <1>1, <1>3, <2>1, <2>2
  <2>5. Len(q2) <= k
    <3> HIDE DEF k
    <3>. QED  BY <2>4
  <2>6. ASSUME NEW i \in 1..Len(q2)  PROVE i + 1 \in 1..k /\ q2[i] = q[i + 1]
    <3> HIDE DEF k
    <3>. QED  BY <2>4
  <2>7. ASSUME NEW i \in 1..Len(w2.settled)  PROVE 1 \in 1..k /\ w2.settled[i] = q[1]
    <3>1. i = 1
      BY <2>3
    <3>2. 1 \in 1..k
      <4> HIDE DEF k
      <4>. QED  BY <2>4
    <3>. QED  BY <2>3, <3>1, <3>2
  <2>. QED  BY Zenon, <2>5, <2>6, <2>7 DEF OnlyLeave, q, q2
<1>4. CASE w2.state = "errored" /\ w2.settled = q
  <2>1. q2 = <<>>
    BY <1>4, HeadOfQueue DEF Alive, q2
  <2>2. Len(<<>>) = 0
    OBVIOUS
  <2>. QED  BY <1>1, <1>4, <2>1, <2>2 DEF OnlyLeave, q, q2
<1>. QED  BY <1>2, <1>3, <1>4 DEF Flows, q, q2

LEMMA SinkFollows ==
  ASSUME NEW n, NEW r, NEW c \in CallsType, NEW w, DestinationInv(w), NEW w2, DestinationInv(w2),
         Flows(w, w2), OrderInv(c, w, r, n), Len(r.queue) \in Nat, ClosedInv(c, w)
  PROVE  SinkTold(c, SinkCalled(c, w, w2), w, w2)
<1> DEFINE q == W!QueuedChunks(w)   q2 == W!QueuedChunks(w2)   a == Len(q)   a2 == Len(q2)
           c2 == SinkCalled(c, w, w2)   e == Len(c.chunks)   e2 == Len(c2.chunks)   m == Len(Chunks)
           b == Base(c, w)   b2 == Base(c2, w2)
           asked == w2.inFlight = "write" /\ (w.inFlight # "write" \/ Head(w2.queue) # Head(w.queue))
<1>1. /\ a \in Nat /\ a2 \in Nat /\ q \in Seq(Chunk) /\ q2 \in Seq(Chunk)
      /\ w.inFlight = "write" => a >= 1 /\ Head(w.queue) = q[1]
      /\ w2.inFlight = "write" => a2 >= 1 /\ Head(w2.queue) = q2[1] /\ q2[1] \in Chunk
      /\ ~Alive(w) => q = <<>> /\ w.inFlight = "none"
      /\ ~Alive(w2) => q2 = <<>> /\ w2.inFlight = "none"
      /\ w.inFlight = "close" => q = <<>>
      /\ w2.inFlight = "close" => q2 = <<>>
  BY HeadOfQueue
<1>2. /\ c2 \in CallsType
      /\ c2.chunks = IF asked THEN Append(c.chunks, q2[1]) ELSE c.chunks
      /\ c2.closed <=> c.closed \/ (w2.inFlight = "close" /\ w.inFlight # "close")
  <2>1. w2.inFlight = "write" => Head(w2.queue) \in Chunk
    BY <1>1
  <2>. QED  BY <1>1, <2>1, SinkCalledOf
<1>3. e \in Nat /\ m \in Nat /\ c.chunks \in Seq(Chunk)
  <2>1. c.chunks \in Seq(Chunk)
    BY DEF CallsType
  <2>. QED  BY <2>1, PipeAssumption, LenProperties
<1>4. /\ b \in Nat /\ b = e - (IF w.inFlight = "write" THEN 1 ELSE 0)
      /\ b + a <= m
      /\ \A i \in 1..e : c.chunks[i] = Chunks[i]
      /\ \A i \in 1..a : q[i] = Chunks[b + i]
  <2>1. b \in Nat /\ b = e - (IF w.inFlight = "write" THEN 1 ELSE 0)
    BY DEF OrderInv, Base
  <2>2. b + a <= m
    <3> DEFINE l == Len(r.queue)
    <3>1. b + a + l <= n /\ n \in 0..m /\ l \in Nat
      BY DEF OrderInv, Reached
    <3>2. b \in Nat /\ a \in Nat /\ m \in Nat
      BY <1>1, <1>3, <2>1
    <3> HIDE DEF b, a, l, m
    <3>. QED  BY <3>1, <3>2
  <2>. QED  BY Zenon, <2>1, <2>2 DEF OrderInv
<1>5. /\ b2 = e2 - (IF w2.inFlight = "write" THEN 1 ELSE 0)
      /\ Reached(c, w) = b + a /\ Reached(c2, w2) = b2 + a2
  BY DEF Base, Reached
<1>6. /\ asked => e2 = e + 1 /\ c2.chunks[e + 1] = q2[1] /\ \A i \in 1..e : c2.chunks[i] = c.chunks[i]
      /\ ~asked => e2 = e /\ c2.chunks = c.chunks
  <2>1. asked => e2 = e + 1 /\ c2.chunks[e + 1] = q2[1] /\ \A i \in 1..e : c2.chunks[i] = c.chunks[i]
    <3> SUFFICES ASSUME asked
                 PROVE  e2 = e + 1 /\ c2.chunks[e + 1] = q2[1] /\ \A i \in 1..e : c2.chunks[i] = c.chunks[i]
      OBVIOUS
    <3> DEFINE h == q2[1]
    <3>1. h \in Chunk /\ c2.chunks = Append(c.chunks, h)
      BY <1>1, <1>2
    <3> HIDE DEF h, c2
    <3>. QED  BY <1>3, <3>1, AppendProperties DEF h
  <2>. QED  BY <1>2, <2>1
<1>7. /\ w.inFlight = "write" /\ w2.inFlight = "write" /\ q2 = q => ~asked
      /\ w2.inFlight = "write" /\ w.inFlight # "write" => asked
  BY <1>1
<1>8. w.inFlight = "write" /\ w2.inFlight = "write" /\ q2 = Tail(q) => asked
  <2> SUFFICES ASSUME w.inFlight = "write", w2.inFlight = "write", q2 = Tail(q)
               PROVE  Head(w2.queue) # Head(w.queue)
    OBVIOUS
  <2>1. a >= 1 /\ q # <<>> /\ Len(Tail(q)) = a - 1 /\ \A i \in 1..(a - 1) : Tail(q)[i] = q[i + 1]
    <3>1. a >= 1 /\ q # <<>>
      BY <1>1
    <3>. QED  BY <1>1, <3>1, HeadTailProperties
  <2>2. a2 = a - 1 /\ a2 >= 1
    BY <1>1, <2>1
  <2>3. 1 \in 1..(a - 1) /\ 2 \in 1..a /\ 1 \in 1..a
    <3> HIDE DEF a, a2
    <3>. QED  BY <1>1, <2>1, <2>2
  <2>4. q2[1] = q[2] /\ q[2] = Chunks[b + 2] /\ q[1] = Chunks[b + 1]
    BY <1>4, <2>1, <2>3
  <2>5. b + 1 \in 1..m /\ b + 2 \in 1..m /\ b + 1 # b + 2
    <3>1. a \in Nat /\ b \in Nat /\ m \in Nat /\ b + a <= m
      BY <1>1, <1>3, <1>4
    <3> HIDE DEF a, a2, b, m
    <3>. QED  BY <2>2, <3>1
  <2>6. DOMAIN Chunks = 1..m /\ IsInjective(Chunks)
    BY PipeAssumption, LenProperties
  <2>7. Chunks[b + 1] # Chunks[b + 2]
    <3> HIDE DEF b, m
    <3>. QED  BY <2>5, <2>6 DEF IsInjective
  <2>. QED  BY <1>1, <2>4, <2>7
<1> HIDE DEF q, q2, a, a2, c2, e, e2, m, b, b2, asked
\* The numbers of the three cases.
<1> DEFINE Fits == /\ b2 \in Nat /\ b2 + a2 <= b + a
                   /\ w2.state # "errored" \/ c.closed => b2 + a2 = b + a
                   /\ \A i \in 1..a2 : q2[i] = Chunks[b2 + i]
                   /\ asked => q2[1] = Chunks[e + 1]
<1>9. ASSUME q2 = q, w.inFlight = "write" => w2.inFlight = "write"  PROVE Fits
  <2>1. b2 = b /\ a2 = a /\ (asked => b = e)
    <3>1. a2 = a
      BY <1>9 DEF a, a2
    <3>2. w.inFlight = "write" => ~asked
      BY <1>7, <1>9
    <3>3. w.inFlight # "write" => (asked <=> w2.inFlight = "write")
      BY <1>7 DEF asked
    <3>5. CASE w.inFlight = "write"
      BY <1>3, <1>4, <1>5, <1>6, <1>9, <3>1, <3>2, <3>5
    <3>6. CASE w.inFlight # "write" /\ asked
      <4>1. w2.inFlight = "write"
        BY <3>3, <3>6
      <4>. QED  BY <1>3, <1>4, <1>5, <1>6, <3>1, <3>6, <4>1
    <3>7. CASE w.inFlight # "write" /\ ~asked
      BY <1>3, <1>4, <1>5, <1>6, <3>1, <3>3, <3>7
    <3>. QED  BY <3>5, <3>6, <3>7
  <2>2. \A i \in 1..a2 : q2[i] = Chunks[b2 + i]
    BY <1>4, <1>9, <2>1
  <2>3. b2 \in Nat /\ b2 + a2 <= b + a /\ b2 + a2 = b + a
    BY <1>1, <1>4, <2>1
  <2>4. asked => q2[1] = Chunks[e + 1]
    <3> SUFFICES ASSUME asked  PROVE q2[1] = Chunks[e + 1]
      OBVIOUS
    <3>1. 1 \in 1..a2
      BY <1>1 DEF asked
    <3>. QED  BY <2>1, <2>2, <3>1
  <2>. QED  BY <2>2, <2>3, <2>4
<1>10. ASSUME q2 = Tail(q), w.inFlight = "write"  PROVE Fits
  <2>1. a >= 1 /\ q # <<>>
    BY <1>1, <1>10 DEF a
  <2>2. a2 = a - 1 /\ \A i \in 1..(a - 1) : q2[i] = q[i + 1]
    BY <1>1, <1>10, <2>1, HeadTailProperties DEF a, a2
  <2>3. asked <=> w2.inFlight = "write"
    BY <1>8, <1>10 DEF asked
  <2>4. b2 = e /\ b + 1 = e
    <3>1. CASE asked
      BY <1>3, <1>4, <1>5, <1>6, <1>10, <2>3, <3>1
    <3>2. CASE ~asked
      BY <1>3, <1>4, <1>5, <1>6, <1>10, <2>3, <3>2
    <3>. QED  BY <3>1, <3>2
  <2>5. b2 \in Nat /\ b2 + a2 <= b + a /\ b2 + a2 = b + a
    BY <1>1, <1>3, <1>4, <2>1, <2>2, <2>4
  <2>6. \A i \in 1..a2 : q2[i] = Chunks[b2 + i]
    <3> SUFFICES ASSUME NEW i \in 1..a2  PROVE q2[i] = Chunks[b2 + i]
      OBVIOUS
    <3>1. i \in 1..(a - 1) /\ i + 1 \in 1..a /\ b2 + i = b + (i + 1)
      <4>1. a \in Nat /\ b \in Nat /\ a2 \in Nat /\ a2 = a - 1
        BY <1>1, <1>4, <2>2
      <4>. QED  BY <2>1, <2>4, <4>1
    <3>. QED  BY <1>4, <2>2, <3>1
  <2>7. asked => q2[1] = Chunks[e + 1]
    <3> SUFFICES ASSUME asked  PROVE q2[1] = Chunks[e + 1]
      OBVIOUS
    <3>1. 1 \in 1..a2
      BY <1>1, <2>3
    <3>. QED  BY <2>4, <2>6, <3>1
  <2>. QED  BY <2>5, <2>6, <2>7
<1>11. ASSUME w2.state = "errored"  PROVE Fits
  <2>1. q2 = <<>> /\ w2.inFlight = "none"
    BY <1>1, <1>11 DEF Alive
  <2>2. a2 = 0
    BY <2>1 DEF a2
  <2>3. ~asked
    BY <2>1 DEF asked
  <2>4. b2 = e
    BY <1>3, <1>5, <1>6, <2>1, <2>3
  <2>5. b2 \in Nat /\ b2 + a2 <= b + a
    BY <1>1, <1>3, <1>4, <2>2, <2>4
  <2>6. c.closed => b2 + a2 = b + a
    <3> SUFFICES ASSUME c.closed  PROVE b2 + a2 = b + a
      OBVIOUS
    <3>1. w.inFlight # "write" /\ q = <<>>
      BY <1>1 DEF ClosedInv, Alive
    <3>2. a = 0
      BY <3>1 DEF a
    <3>. QED  BY <1>3, <1>4, <2>2, <2>4, <3>1, <3>2
  <2>7. \A i \in 1..a2 : q2[i] = Chunks[b2 + i]
    BY <2>2
  <2>. QED  BY <1>11, <2>3, <2>5, <2>6, <2>7
<1>12. Fits
  <2>1. \/ q2 = q /\ (w.inFlight = "write" => w2.inFlight = "write")
        \/ q2 = Tail(q) /\ w.inFlight = "write"
        \/ w2.state = "errored"
    BY DEF Flows, q, q2
  <2>. QED  BY <1>9, <1>10, <1>11, <2>1
<1>13. \A i \in 1..e2 : c2.chunks[i] = Chunks[i]
  <2> SUFFICES ASSUME NEW i \in 1..e2  PROVE c2.chunks[i] = Chunks[i]
    OBVIOUS
  <2>1. CASE asked
    <3>1. i \in 1..e \/ i = e + 1
      BY <1>3, <1>6, <2>1
    <3>. QED  BY <1>4, <1>6, <1>12, <2>1, <3>1
  <2>2. CASE ~asked
    BY <1>4, <1>6, <2>2
  <2>. QED  BY <2>1, <2>2
<1>14. ClosedInv(c2, w2)
  BY <1>2 DEF ClosedInv, Flows, Alive
<1>. QED  BY Zenon, <1>2, <1>5, <1>12, <1>13, <1>14 DEF SinkTold, q2, a2, c2, e2, b2, b, a, q

\* The same for a chunk that joins the destination's queue.
SinkGiven(c, c2, w, w2) ==
  /\ c2 \in CallsType /\ Base(c2, w2) \in Nat
  /\ Reached(c2, w2) = Reached(c, w) + 1
  /\ \A i \in 1..Len(c2.chunks) : c2.chunks[i] = Chunks[i]
  /\ \A i \in 1..Len(W!QueuedChunks(w2)) : W!QueuedChunks(w2)[i] = Chunks[Base(c2, w2) + i]
  /\ ClosedInv(c2, w2) /\ c2.closed = c.closed

LEMMA SinkQueues ==
  ASSUME NEW n, NEW r, NEW c \in CallsType, NEW w, DestinationInv(w), NEW w2, DestinationInv(w2),
         W!Accepts(w), NEW chunk \in Chunk, Queues(w, w2, chunk),
         OrderInv(c, w, r, n), Len(r.queue) \in Nat, ClosedInv(c, w),
         chunk = Chunks[Reached(c, w) + 1]
  PROVE  SinkGiven(c, SinkCalled(c, w, w2), w, w2)
<1> DEFINE q == W!QueuedChunks(w)   q2 == W!QueuedChunks(w2)   a == Len(q)   a2 == Len(q2)
           c2 == SinkCalled(c, w, w2)   e == Len(c.chunks)   e2 == Len(c2.chunks)
           b == Base(c, w)   b2 == Base(c2, w2)
           asked == w2.inFlight = "write" /\ (w.inFlight # "write" \/ Head(w2.queue) # Head(w.queue))
<1>1. /\ a \in Nat /\ a2 \in Nat /\ q \in Seq(Chunk) /\ q2 \in Seq(Chunk)
      /\ w.inFlight = "write" => a >= 1 /\ Head(w.queue) = q[1]
      /\ w2.inFlight = "write" => a2 >= 1 /\ Head(w2.queue) = q2[1] /\ q2[1] \in Chunk
  BY HeadOfQueue
<1>2. w2.inFlight # "close" /\ w2.state = "writable" /\ w.inFlight # "close" /\ w.state = "writable"
  BY DEF Queues, W!CloseQueuedOrInFlight, W!Accepts
<1>3. /\ c2 \in CallsType
      /\ c2.chunks = IF asked THEN Append(c.chunks, q2[1]) ELSE c.chunks
      /\ c2.closed <=> c.closed
  <2>1. w2.inFlight = "write" => Head(w2.queue) \in Chunk
    BY <1>1
  <2>. QED  BY <1>1, <1>2, <2>1, SinkCalledOf
<1>4. e \in Nat /\ c.chunks \in Seq(Chunk)
  <2>1. c.chunks \in Seq(Chunk)
    BY DEF CallsType
  <2>. QED  BY <2>1, LenProperties
<1>5. /\ b \in Nat /\ b = e - (IF w.inFlight = "write" THEN 1 ELSE 0)
      /\ \A i \in 1..e : c.chunks[i] = Chunks[i]
      /\ \A i \in 1..a : q[i] = Chunks[b + i]
  BY Zenon DEF OrderInv, Base
<1>6. /\ b2 = e2 - (IF w2.inFlight = "write" THEN 1 ELSE 0)
      /\ Reached(c, w) = b + a /\ Reached(c2, w2) = b2 + a2
  BY DEF Base, Reached
<1>7. a2 = a + 1 /\ q2[a + 1] = chunk /\ \A i \in 1..a : q2[i] = q[i]
  <2>1. q2 = Append(q, chunk)
    BY DEF Queues
  <2>. QED  BY <1>1, <2>1, AppendProperties
<1>8. /\ asked => e2 = e + 1 /\ c2.chunks[e + 1] = q2[1] /\ \A i \in 1..e : c2.chunks[i] = c.chunks[i]
      /\ ~asked => e2 = e /\ c2.chunks = c.chunks
  <2>1. asked => e2 = e + 1 /\ c2.chunks[e + 1] = q2[1] /\ \A i \in 1..e : c2.chunks[i] = c.chunks[i]
    <3> SUFFICES ASSUME asked
                 PROVE  e2 = e + 1 /\ c2.chunks[e + 1] = q2[1] /\ \A i \in 1..e : c2.chunks[i] = c.chunks[i]
      OBVIOUS
    <3> DEFINE h == q2[1]
    <3>1. h \in Chunk /\ c2.chunks = Append(c.chunks, h)
      BY <1>1, <1>3
    <3> HIDE DEF h, c2
    <3>. QED  BY <1>4, <3>1, AppendProperties DEF h
  <2>. QED  BY <1>3, <2>1
<1>9. /\ w.inFlight = "write" => w2.inFlight = "write" /\ ~asked
      /\ w2.inFlight = "write" /\ w.inFlight # "write" => asked
  <2> SUFFICES ASSUME w.inFlight = "write"  PROVE w2.inFlight = "write" /\ ~asked
    OBVIOUS
  <2>1. w2.inFlight = "write"
    BY DEF Queues
  <2>2. 1 \in 1..a
    <3>1. a >= 1 /\ a \in Nat
      BY <1>1
    <3> HIDE DEF a
    <3>. QED  BY <3>1
  <2>3. q2[1] = q[1]
    BY <1>7, <2>2
  <2>. QED  BY <1>1, <2>1, <2>3
<1> HIDE DEF q, q2, a, a2, c2, e, e2, b, b2, asked
<1>10. b2 = b /\ (asked => b = e)
  <2>1. CASE w.inFlight = "write"
    BY <1>4, <1>5, <1>6, <1>8, <1>9, <2>1
  <2>2. CASE w.inFlight # "write" /\ asked
    <3>1. w2.inFlight = "write"
      BY <2>2 DEF asked
    <3>. QED  BY <1>4, <1>5, <1>6, <1>8, <2>2, <3>1
  <2>3. CASE w.inFlight # "write" /\ ~asked
    BY <1>4, <1>5, <1>6, <1>8, <1>9, <2>3
  <2>. QED  BY <2>1, <2>2, <2>3
<1>11. a \in Nat /\ b \in Nat /\ b2 \in Nat /\ b2 + a2 = b + a + 1
  <2>1. a \in Nat /\ b \in Nat /\ a2 = a + 1 /\ b2 = b
    BY <1>1, <1>5, <1>7, <1>10
  <2>. QED  BY <2>1
<1>12. ASSUME NEW i \in 1..a2  PROVE q2[i] = Chunks[b2 + i]
  <2>1. CASE i \in 1..a
    BY <1>5, <1>7, <1>10, <2>1
  <2>2. CASE i = a + 1
    <3>1. b + a + 1 = b2 + i
      <4>1. a \in Nat /\ b \in Nat /\ b2 = b
        BY <1>1, <1>5, <1>10
      <4>. QED  BY <2>2, <4>1
    <3>. QED  BY <1>6, <1>7, <2>2, <3>1
  <2>3. i \in 1..a \/ i = a + 1
    BY <1>1, <1>7
  <2>. QED  BY <2>1, <2>2, <2>3
<1>13. \A i \in 1..e2 : c2.chunks[i] = Chunks[i]
  <2> SUFFICES ASSUME NEW i \in 1..e2  PROVE c2.chunks[i] = Chunks[i]
    OBVIOUS
  <2>1. CASE asked
    <3>1. i \in 1..e \/ i = e + 1
      BY <1>4, <1>8, <2>1
    <3>2. 1 \in 1..a2
      BY <1>1, <2>1 DEF asked
    <3>3. q2[1] = Chunks[b2 + 1] /\ b2 = e
      BY <1>10, <1>12, <2>1, <3>2
    <3>. QED  BY <1>5, <1>8, <2>1, <3>1, <3>3
  <2>2. CASE ~asked
    BY <1>5, <1>8, <2>2
  <2>. QED  BY <2>1, <2>2
<1>14. ClosedInv(c2, w2) /\ c2.closed = c.closed
  <2>1. c2.closed \in BOOLEAN /\ c.closed \in BOOLEAN
    BY <1>3 DEF CallsType
  <2>. QED  BY <1>2, <1>3, <2>1 DEF ClosedInv, Alive
<1>15. Base(c2, w2) \in Nat /\ Reached(c2, w2) = Reached(c, w) + 1
  BY <1>6, <1>11 DEF b2
<1>. QED  BY <1>3, <1>12, <1>13, <1>14, <1>15 DEF SinkGiven, q2, a2, e2, b2, c2

\* The destination has become w; nobody has been told.
Arrived(s, w) ==
  [s EXCEPT !.w = [w EXCEPT !.settled = <<>>], !.j = @ \o Adopted(w.settled),
            !.calls = SinkCalled(@, s.w, w)]

\* What close() and getting or releasing the writer have to respect.
MayMove(s, n, w) ==
  /\ s.p.phase \in {"piping", "shuttingDown"} => w.locked
  /\ W!CloseQueuedOrInFlight(w) /\ ~W!CloseQueuedOrInFlight(s.w) /\ w.state = "writable" /\ EndsWell(s.p)
       => Reached(s.calls, s.w) = n

LEMMA ArrivedIs ==
  ASSUME NEW s \in State, NEW w, DestinationInv(w), SinkCalled(s.calls, s.w, w) \in CallsType
  PROVE  LET f == Arrived(s, w)
         IN  /\ f \in State /\ f.r = s.r /\ f.p = s.p /\ f.cancelling = s.cancelling
             /\ f.w = [w EXCEPT !.settled = <<>>] /\ f.j = s.j \o Adopted(w.settled)
             /\ f.calls = SinkCalled(s.calls, s.w, w)
<1> DEFINE w0 == [w EXCEPT !.settled = <<>>]   t == s.j \o Adopted(w.settled)
           c2 == SinkCalled(s.calls, s.w, w)
<1>1. w0 \in W!Type /\ w.settled \in Seq(Chunk)
  BY Zenon, ClearKeeps DEF DestinationInv, W!Type
<1>2. t \in Seq(Job)
  BY <1>1, JobsAdopted DEF State
<1>3. Arrived(s, w) = [s EXCEPT !.w = w0, !.j = t, !.calls = c2]
  BY DEF Arrived
<1> HIDE DEF w0, t, c2
<1>4. c2 \in CallsType
  BY DEF c2
<1>. QED  BY Zenon, <1>1, <1>2, <1>3, <1>4 DEF State, w0, t, c2

LEMMA ArrivedKeeps ==
  ASSUME NEW n, NEW s, Core(s, n), NEW w, DestinationInv(w), Flows(s.w, w), MayMove(s, n, w)
  PROVE  /\ Core(Arrived(s, w), n)
         /\ Balance(s, n) => Balance(Arrived(s, w), n)
         /\ SinkTold(s.calls, SinkCalled(s.calls, s.w, w), s.w, w)
         /\ OnlyLeave(s.w, w)
<1> DEFINE f == Arrived(s, w)   w0 == [w EXCEPT !.settled = <<>>]   c == s.calls
           c2 == SinkCalled(c, s.w, w)   t == s.j \o Adopted(w.settled)
<1>0. s \in State /\ c \in CallsType /\ DestinationInv(s.w) /\ s.j \in Seq(Job) /\ s.w.settled = <<>>
  BY DEF Core, State
<1>1. SinkTold(c, c2, s.w, w)
  <2>1. Len(s.r.queue) \in Nat /\ OrderInv(c, s.w, s.r, n) /\ ClosedInv(c, s.w)
    BY SourceNumbers DEF Core
  <2>. QED  BY <1>0, <2>1, SinkFollows
<1>2. OnlyLeave(s.w, w)
  BY <1>0, FlowsLeave
<1>3. DestinationInv(w0) /\ w0.settled = <<>> /\ SameDestination(w, w0)
  BY ClearKeeps
<1>4. /\ f \in State /\ f.r = s.r /\ f.p = s.p /\ f.cancelling = s.cancelling
      /\ f.w = w0 /\ f.j = t /\ f.calls = c2
  BY Zenon, <1>0, <1>1, ArrivedIs DEF SinkTold
<1>5. /\ \A kind : kind # "adopt" => (Has(t, kind) <=> Has(s.j, kind))
      /\ \A p : LoopInv(s.j, p) => LoopInv(t, p)
      /\ \A x : (\E i \in 1..Len(t) : t[i][1] \in {"adopt", "settle"} /\ t[i][2] = x)
                  => \/ \E i \in 1..Len(s.j) : s.j[i][1] \in {"adopt", "settle"} /\ s.j[i][2] = x
                     \/ \E i \in 1..Len(w.settled) : w.settled[i] = x
      /\ \A i \in 1..Len(t) : t[i][1] = "waited" => i \in 1..Len(s.j) /\ t[i] = s.j[i]
  <2>1. w.settled \in Seq(Chunk)
    BY DEF DestinationInv, W!Type
  <2>. QED  BY Zenon, <1>0, <2>1, JobsAdopted
<1> HIDE DEF f, t, w0, c2
<1>6. /\ w0.state = w.state /\ w0.inFlight = w.inFlight /\ w0.locked = w.locked
      /\ W!QueuedChunks(w0) = W!QueuedChunks(w) /\ (W!Accepts(w0) <=> W!Accepts(w))
      /\ (Alive(w0) <=> Alive(w)) /\ (W!CloseQueuedOrInFlight(w0) <=> W!CloseQueuedOrInFlight(w))
      /\ Base(c2, w0) = Base(c2, w) /\ Reached(c2, w0) = Reached(c2, w)
  BY <1>3 DEF SameDestination, Base, Reached
<1>7. LoopInv(f.j, f.p) /\ SourceInv(f.r, f.p)
  BY <1>4, <1>5 DEF Core
<1>8. RoomInv(f.r, f.w, f.p, f.j)
  <2>1. (HasRoom(s.w) => HasRoom(w0)) /\ Len(W!QueuedChunks(w0)) <= SinkHighWaterMark
    <3> DEFINE a == Len(W!QueuedChunks(s.w))   a2 == Len(W!QueuedChunks(w))
    <3>1. /\ a \in Nat /\ a2 \in Nat /\ a2 <= a /\ SinkHighWaterMark \in Nat
          /\ a <= SinkHighWaterMark
      BY <1>0, <1>2, HeadOfQueue, PipeAssumption DEF OnlyLeave, Core, RoomInv
    <3>2. (HasRoom(s.w) <=> a < SinkHighWaterMark) /\ (HasRoom(w0) <=> a2 < SinkHighWaterMark)
          /\ Len(W!QueuedChunks(w0)) = a2
      BY <1>6 DEF HasRoom
    <3> HIDE DEF a, a2
    <3>. QED  BY <3>1, <3>2
  <2>. QED  BY <1>4, <1>5, <2>1 DEF Core, RoomInv
<1>9. PhaseInv(f.r, f.w, f.p, f.j)
  BY <1>4, <1>5, <1>6 DEF Core, PhaseInv, WaitKinds, MayMove
<1>10. OrderInv(f.calls, f.w, f.r, n)
  <2> DEFINE e == Reached(c, s.w)   e2 == Reached(c2, w)   l == Len(s.r.queue)
  <2>1. e \in Nat /\ l \in Nat /\ n \in Nat /\ e + l <= n /\ e2 <= e /\ n \in 0..Len(Chunks)
    BY <1>1, SourceNumbers DEF SinkTold
  <2>2. e2 + l <= n
    <3>1. e2 \in Nat
      <4> DEFINE b2 == Base(c2, w)   a2 == Len(W!QueuedChunks(w))
      <4>1. b2 \in Nat /\ a2 \in Nat /\ e2 = b2 + a2
        BY <1>1, HeadOfQueue DEF SinkTold, Reached
      <4> HIDE DEF b2, a2, e2
      <4>. QED  BY <4>1
    <3> HIDE DEF e, e2, l
    <3>. QED  BY <2>1, <3>1
  <2>. QED  BY <1>1, <1>4, <1>6, <2>1, <2>2 DEF Core, OrderInv, SinkTold
<1>11. ClosedInv(f.calls, f.w)
  BY <1>1, <1>4, <1>6 DEF SinkTold, ClosedInv
<1>12. W!Accepts(w0) => W!Accepts(s.w) /\ Reached(c2, w0) = Reached(c, s.w)
  BY <1>1, <1>6 DEF Flows, SinkTold, W!Accepts
<1>13. WriteInv(f.calls, f.w, f.r, f.p, f.j, n)
  BY <1>4, <1>5, <1>12 DEF Core, WriteInv
<1>14. Balance(s, n) => Balance(f, n)
  BY <1>4, <1>5, <1>12 DEF Balance, BalanceInv, Working
<1>15. ASSUME NEW x, Known(f.w, f.p, f.j, x)  PROVE Known(s.w, s.p, s.j, x)
  <2>1. CASE x \in f.p.written
    BY <1>4, <2>1 DEF Known
  <2>2. CASE \E i \in 1..Len(W!QueuedChunks(f.w)) : W!QueuedChunks(f.w)[i] = x
    <3>1. \E i \in 1..Len(W!QueuedChunks(w)) : W!QueuedChunks(w)[i] = x
      BY <1>4, <1>6, <2>2
    <3>. QED  BY Zenon, <1>2, <3>1 DEF Known, OnlyLeave
  <2>3. CASE \E i \in 1..Len(f.j) : f.j[i][1] \in {"adopt", "settle"} /\ f.j[i][2] = x
    <3>1. \/ \E i \in 1..Len(s.j) : s.j[i][1] \in {"adopt", "settle"} /\ s.j[i][2] = x
          \/ \E i \in 1..Len(w.settled) : w.settled[i] = x
      BY Zenon, <1>4, <1>5, <2>3
    <3>2. CASE \E i \in 1..Len(w.settled) : w.settled[i] = x
      BY Zenon, <1>2, <3>2 DEF Known, OnlyLeave
    <3>. QED  BY <3>1, <3>2 DEF Known
  <2>. QED  BY <1>15, <2>1, <2>2, <2>3 DEF Known
<1>16. KnownInv(f.w, f.r, f.p, f.j, n)
  BY <1>4, <1>5, <1>15 DEF Core, KnownInv
<1>17. EndInv(f.calls, f.w, f.p, f.j, n)
  <2>1. EndsWell(f.p) /\ Has(f.j, "rest") => ~Has(f.j, "write")
    BY <1>4, <1>5 DEF Core, EndInv
  <2>2. EndsWell(s.p) /\ c.closed => Reached(c2, w) = n
    BY <1>1 DEF Core, EndInv, SinkTold
  <2>3. EndsWell(s.p) /\ w.state = "writable" /\ (W!CloseQueuedOrInFlight(w) \/ s.p.phase = "done")
          => Reached(c2, w) = n
    <3>1. w.state = "writable" => s.w.state = "writable" /\ Reached(c2, w) = Reached(c, s.w)
      BY <1>1 DEF Flows, SinkTold
    <3>. QED  BY <3>1 DEF Core, EndInv, MayMove
  <2>4. EndsWell(s.p) /\ c2.closed => Reached(c2, w) = n
    BY <1>1, <2>2, <2>3 DEF SinkTold, Flows, W!CloseQueuedOrInFlight
  <2>5. EndsWell(f.p) /\ (\/ f.calls.closed
                          \/ f.w.state = "writable" /\ (W!CloseQueuedOrInFlight(f.w) \/ f.p.phase = "done"))
          => Reached(f.calls, f.w) = n
    BY <1>4, <1>6, <2>3, <2>4
  <2>6. EndsWell(f.p) /\ W!Accepts(f.w) =>
          f.p.parts = {} /\ \A kind \in {"all", "then", "finalize"} : ~Has(f.j, kind)
    BY <1>4, <1>5, <1>12 DEF Core, EndInv
  <2>. QED  BY <1>4, <2>1, <2>5, <2>6 DEF Core, EndInv
<1>18. Core(f, n)
  BY <1>3, <1>4, <1>7, <1>8, <1>9, <1>10, <1>11, <1>13, <1>16, <1>17 DEF Core
<1>. QED  BY <1>1, <1>2, <1>14, <1>18 DEF f, c2

-----------------------------------------------------------------------------
(* What the destination does to the pipe.                                   *)

\* What only changes the pipe's notes on its loop and its action.
Notes(s, s2) ==
  /\ s2.r = s.r /\ s2.cancelling = s.cancelling /\ SameStanding(s.p, s2.p)
  /\ s2.p.awaited = s.p.awaited /\ s2.p.depth = s.p.depth /\ s2.p.prevent = s.p.prevent

LEMMA PushIs ==
  ASSUME NEW s \in State, NEW kind, NEW arg, <<kind, arg>> \in Job
  PROVE  /\ Push(s, kind, arg) \in State /\ SameStreams(s, Push(s, kind, arg))
         /\ Push(s, kind, arg).p = s.p /\ Push(s, kind, arg).cancelling = s.cancelling
         /\ Notes(s, Push(s, kind, arg)) /\ Push(s, kind, arg).j = Append(s.j, <<kind, arg>>)
<1> DEFINE t == Append(s.j, <<kind, arg>>)
<1>1. t \in Seq(Job)
  BY JobPushed DEF State
<1>2. Push(s, kind, arg) = [s EXCEPT !.j = t]
  BY Zenon DEF Push
<1> HIDE DEF t
<1>. QED  BY Zenon, <1>1, <1>2 DEF State, SameStreams, Notes, SameStanding, t

\* Some part of the action that the pipe waits for may have settled.
LEMMA PartKeeps ==
  ASSUME NEW n, NEW s, Core(s, n), NEW part, NEW settlement
  PROVE  LET f == PartSettles(s, part, settlement)
         IN  /\ Core(f, n) /\ (Balance(s, n) => Balance(f, n))
             /\ SameStreams(s, f) /\ Notes(s, f) /\ f.p.loop = s.p.loop
             /\ s.p.parts = {} => f = s
<1> DEFINE f == PartSettles(s, part, settlement)
           kind == IF s.p.action = "signal" THEN "all" ELSE "finalize"
           s1 == [s EXCEPT !.p.parts = @ \ {part}]
           ok == settlement = "fulfilled"
<1>1. CASE part \notin s.p.parts \/ settlement \notin {"fulfilled", "rejected"}
  <2>1. f = s
    BY <1>1 DEF PartSettles
  <2>. QED  BY <2>1 DEF SameStreams, Notes, SameStanding
<1>2. CASE part \in s.p.parts /\ settlement \in {"fulfilled", "rejected"}
  <2>1. f = Push(s1, kind, ok)
    BY <1>2 DEF PartSettles
  <2>2. s \in State /\ s.p \in PipeType
    BY DEF Core, State
  <2>3. s1 \in State /\ SameStreams(s, s1) /\ s1.j = s.j /\ Notes(s, s1) /\ s1.p.loop = s.p.loop
        /\ s1.p.parts = s.p.parts \ {part}
    <3> DEFINE x == s.p.parts \ {part}
    <3>1. x \in SUBSET Parts
      BY <2>2 DEF PipeType
    <3>2. s1 = [s EXCEPT !.p = [s.p EXCEPT !.parts = x]]
      BY <2>2 DEF State
    <3> DEFINE p1 == [s.p EXCEPT !.parts = x]
    <3> HIDE DEF x
    <3>3. p1 \in PipeType /\ SameStanding(s.p, p1) /\ p1.loop = s.p.loop /\ p1.parts = x
          /\ p1.awaited = s.p.awaited /\ p1.depth = s.p.depth /\ p1.prevent = s.p.prevent
      BY <2>2, <3>1 DEF PipeType, SameStanding
    <3> HIDE DEF p1
    <3>4. s1 = [s EXCEPT !.p = p1]
      BY <3>2 DEF p1
    <3>. QED  BY Zenon, <2>2, <3>3, <3>4 DEF State, SameStreams, Notes, x
  <2>4. s.p.phase \notin {"idle", "piping"} /\ (EndsWell(s.p) => ~W!Accepts(s.w))
    BY <1>2 DEF Core, PhaseInv, EndInv
  <2> HIDE DEF s1
  <2>5. Core(s1, n) /\ (Balance(s, n) => Balance(s1, n))
    BY <2>3, <2>4, BookKeeps DEF Notes
  <2>6. MayPush(s1, n, kind, ok)
    <3>1. <<kind, ok>> \in Job
      BY Zenon DEF Job
    <3>2. s1.p.phase = s.p.phase /\ (EndsWell(s1.p) <=> EndsWell(s.p)) /\ s1.w = s.w
      BY <2>3 DEF Notes, SameStanding, SameStreams, EndsWell
    <3>3. kind \in {"all", "finalize"}
      OBVIOUS
    <3> HIDE DEF kind, ok
    <3>. QED  BY <2>4, <3>1, <3>2, <3>3 DEF MayPush, LoopKinds
  <2>7. Core(f, n) /\ (Balance(s, n) => Balance(f, n))
    <3> HIDE DEF kind, ok, f
    <3>. QED  BY <2>1, <2>5, <2>6, PushKeeps
  <2>8. SameStreams(s1, f) /\ f.p = s1.p /\ f.cancelling = s1.cancelling
    <3>1. <<kind, ok>> \in Job
      BY <2>6 DEF MayPush
    <3> HIDE DEF kind, ok, f
    <3>. QED  BY <2>1, <2>3, <3>1, PushIs
  <2>. QED  BY <1>2, <2>3, <2>7, <2>8 DEF SameStreams, Notes
<1>. QED  BY <1>1, <1>2

Looped(s, v) == [s EXCEPT !.p.loop = v]

LEMMA LoopSet ==
  ASSUME NEW s \in State, NEW v, v \in {"off", "ready", "read", "job"}
  PROVE  /\ Looped(s, v) \in State /\ SameStreams(s, Looped(s, v)) /\ Looped(s, v).j = s.j
         /\ Notes(s, Looped(s, v)) /\ SameStanding(s.p, Looped(s, v).p)
         /\ Looped(s, v).p.loop = v /\ Looped(s, v).p.parts = s.p.parts
         /\ Looped(s, v).p.left = s.p.left /\ Looped(s, v).p.awaited = s.p.awaited
         /\ Looped(s, v).p = [s.p EXCEPT !.loop = v]
<1> DEFINE f == Looped(s, v)
<1> DEFINE p1 == [s.p EXCEPT !.loop = v]
<1>1. s.p \in PipeType
  BY DEF State
<1>2. p1 \in PipeType /\ SameStanding(s.p, p1) /\ p1.loop = v /\ p1.parts = s.p.parts
      /\ p1.left = s.p.left
      /\ p1.awaited = s.p.awaited /\ p1.depth = s.p.depth /\ p1.prevent = s.p.prevent
  BY <1>1 DEF PipeType, SameStanding
<1>3. f = [s EXCEPT !.p = p1]
  BY DEF State, Looped
<1> HIDE DEF p1, f
<1>. QED  BY Zenon, <1>2, <1>3 DEF State, SameStreams, Notes, p1, f

\* The writer's ready promise may have settled.
WriterTold(s, w) ==
  IF s.p.loop # "ready" THEN s
  ELSE CASE w.ready = "fulfilled" -> Push([s EXCEPT !.p.loop = "job"], "ready", None)
         [] w.ready = "rejected" -> [s EXCEPT !.p.loop = "off"]
         [] OTHER -> s

LEMMA LoopRests ==
  ASSUME NEW n, NEW s, Core(s, n), s.p.loop # "job"
  PROVE  NoLoopJob(s.j) /\ (s.p.loop # "read" => s.r.requests = 0)
<1>1. s.r.requests \in Nat
  BY DEF Core, State, R!Type
<1>2. s.p.loop # "read" => s.r.requests = 0
  BY <1>1 DEF Core, SourceInv
<1>. QED  BY <1>2 DEF Core, LoopInv, NoLoopJob

LEMMA PartsAre ==
  ASSUME NEW n, NEW s, Core(s, n)
  PROVE  /\ s.p.phase \in {"idle", "piping"} => s.p.parts = {} /\ s.p.awaited = None
         /\ EndsWell(s.p) /\ W!Accepts(s.w) => s.p.parts = {}
BY DEF Core, PhaseInv, EndInv

\* The loop goes on with a job.
LEMMA LoopPushes ==
  ASSUME NEW n, NEW s, Core(s, n), s.p.loop # "read", NoLoopJob(s.j),
         s.r.state # "closed" => HasRoom(s.w)
  PROVE  LET f == Push([s EXCEPT !.p.loop = "job"], "ready", None)
         IN  /\ Core(f, n) /\ (Balance(s, n) => Balance(f, n))
             /\ SameStreams(s, f) /\ Notes(s, f) /\ f.p.loop = "job" /\ f.p.parts = s.p.parts
<1> DEFINE s1 == Looped(s, "job")   f == Push(s1, "ready", None)
<1>1. s \in State
  BY DEF Core
<1>2. s1 \in State /\ SameStreams(s, s1) /\ s1.j = s.j /\ Notes(s, s1)
      /\ s1.p.loop = "job" /\ s1.p.parts = s.p.parts
      /\ SameStanding(s.p, s1.p) /\ s1.p.awaited = s.p.awaited
  BY Zenon, <1>1, LoopSet
<1>3. s.r.requests = 0
  <2>1. s.r.requests \in Nat
    BY <1>1 DEF State, R!Type
  <2>. QED  BY <2>1 DEF Core, SourceInv
<1> HIDE DEF s1
<1>4. Core(s1, n) /\ (Balance(s, n) => Balance(s1, n))
  <2>1. /\ s.p.phase \in {"idle", "piping"} => s1.p.parts = {} /\ s1.p.awaited = None
        /\ EndsWell(s.p) /\ W!Accepts(s.w) => s1.p.parts = {}
    BY <1>2, PartsAre
  <2>. QED  BY <1>2, <1>3, <2>1, BookKeeps
<1>5. MayPush(s1, n, "ready", None)
  <2>1. <<"ready", None>> \in Job
    BY DEF Job, LoopKinds
  <2>. QED  BY <1>2, <2>1 DEF MayPush, LoopKinds, WaitKinds, SameStreams
<1>6. <<"ready", None>> \in Job
  BY DEF Job, LoopKinds
<1>7. Core(f, n) /\ (Balance(s1, n) => Balance(f, n))
  BY <1>4, <1>5, PushKeeps
<1>8. SameStreams(s1, f) /\ f.p = s1.p /\ f.cancelling = s1.cancelling
  BY <1>2, <1>6, PushIs
<1>9. Push([s EXCEPT !.p.loop = "job"], "ready", None) = f
  BY DEF s1, Looped
<1> HIDE DEF f
<1>. QED  BY <1>2, <1>4, <1>7, <1>8, <1>9 DEF SameStreams, Notes

\* The loop stops.
LEMMA LoopEnds ==
  ASSUME NEW n, NEW s, Core(s, n), s.p.loop # "read", NoLoopJob(s.j),
         NEW v, v \in {"off", "ready"}, NEW f, f = [s EXCEPT !.p.loop = v]
  PROVE  /\ Core(f, n) /\ (Balance(s, n) => Balance(f, n))
         /\ SameStreams(s, f) /\ Notes(s, f) /\ f.p.loop = v /\ f.p.parts = s.p.parts /\ f.j = s.j
<1>1. s \in State
  BY DEF Core
<1>2. f \in State /\ SameStreams(s, f) /\ f.j = s.j /\ Notes(s, f) /\ f.p.loop = v
      /\ f.p.parts = s.p.parts /\ SameStanding(s.p, f.p) /\ f.p.awaited = s.p.awaited
  <2>1. f = Looped(s, v) /\ v \in {"off", "ready", "read", "job"}
    BY DEF Looped
  <2>. QED  BY <1>1, <2>1, LoopSet
<1>3. s.r.requests = 0
  <2>1. s.r.requests \in Nat
    BY <1>1 DEF State, R!Type
  <2>. QED  BY <2>1 DEF Core, SourceInv
<1>4. Core(f, n) /\ (Balance(s, n) => Balance(f, n))
  <2>1. /\ s.p.phase \in {"idle", "piping"} => f.p.parts = {} /\ f.p.awaited = None
        /\ EndsWell(s.p) /\ W!Accepts(s.w) => f.p.parts = {}
    BY <1>2, PartsAre
  <2>2. f.p.loop # "read"
    BY <1>2
  <2>. QED  BY Zenon, <1>2, <1>3, <2>1, <2>2, BookKeeps
<1>. QED  BY <1>2, <1>4

LEMMA WriterToldKeeps ==
  ASSUME NEW n, NEW s, Core(s, n), NEW w,
         s.p.loop = "ready" => /\ w.ready \in {"pending", "fulfilled", "rejected"}
                               /\ w.ready = "fulfilled" /\ s.r.state # "closed" => HasRoom(s.w)
  PROVE  LET f == WriterTold(s, w)
         IN  /\ Core(f, n) /\ (Balance(s, n) => Balance(f, n))
             /\ SameStreams(s, f) /\ Notes(s, f) /\ f.p.parts = s.p.parts
             /\ s.p.loop # "ready" => f = s
             /\ s.p.loop = "ready" => f.p.loop \in {"job", "off", "ready"}
             /\ f.p.loop = "ready" => w.ready = "pending"
<1> DEFINE f == WriterTold(s, w)
<1>1. CASE s.p.loop # "ready"
  BY <1>1 DEF WriterTold, SameStreams, Notes, SameStanding
<1>2. CASE s.p.loop = "ready" /\ w.ready = "fulfilled"
  <2>1. NoLoopJob(s.j) /\ s.p.loop # "read"
    BY <1>2, LoopRests
  <2>2. f = Push([s EXCEPT !.p.loop = "job"], "ready", None)
    BY <1>2 DEF WriterTold
  <2> HIDE DEF f
  <2>. QED  BY <1>2, <2>1, <2>2, LoopPushes DEF f
<1>3. CASE s.p.loop = "ready" /\ w.ready = "rejected"
  <2>1. NoLoopJob(s.j) /\ s.p.loop # "read"
    BY <1>3, LoopRests
  <2>2. f = [s EXCEPT !.p.loop = "off"]
    BY <1>3 DEF WriterTold
  <2> HIDE DEF f
  <2>. QED  BY <1>3, <2>1, <2>2, LoopEnds DEF f
<1>4. CASE s.p.loop = "ready" /\ w.ready = "pending"
  <2>1. f = s
    BY <1>4 DEF WriterTold
  <2> HIDE DEF f
  <2>. QED  BY <1>4, <2>1 DEF SameStreams, Notes, SameStanding, f
<1>. QED  BY <1>1, <1>2, <1>3, <1>4

\* What the loop needs of the destination while it waits for the writer.
LoopMay(s, w) ==
  s.p.loop = "ready" =>
    /\ s.w.ready = "pending" /\ (w.locked \/ w.ready = "rejected")
    /\ W!CloseQueuedOrInFlight(w) => W!CloseQueuedOrInFlight(s.w) \/ s.r.state = "closed"

LEMMA LoopHasRoom ==
  ASSUME NEW w, DestinationInv(w), NEW w2, DestinationInv(w2), Flows(w, w2),
         w.ready = "pending", w2.locked \/ w2.ready = "rejected",
         W!CloseQueuedOrInFlight(w2) => W!CloseQueuedOrInFlight(w)
  PROVE  w2.ready = "fulfilled" => HasRoom(w2)
<1> SUFFICES ASSUME w2.ready = "fulfilled"  PROVE HasRoom(w2)
  OBVIOUS
<1>1. w.locked /\ w.state = "writable" /\ ~W!CloseQueuedOrInFlight(w)
  BY DEF DestinationInv, ReadyFollows
<1>2. w2.locked /\ ~W!CloseQueuedOrInFlight(w2)
  BY <1>1
<1>3. w2.state = "writable"
  <2>1. w2.state \notin {"erroring", "errored"}
    BY <1>2 DEF DestinationInv, ReadyFollows
  <2>2. w2.state # "closed"
    BY <1>1 DEF Flows, W!CloseQueuedOrInFlight
  <2>. QED  BY <2>1, <2>2 DEF DestinationInv, W!Type
<1>4. ~W!Backpressure(w2)
  BY <1>2, <1>3 DEF DestinationInv, ReadyFollows
<1> DEFINE a == Len(W!QueuedChunks(w2))
<1>5. a \in Nat /\ SinkHighWaterMark \in Nat /\ ~(a >= SinkHighWaterMark)
  BY <1>4, HeadOfQueue, PipeAssumption DEF W!Backpressure
<1>6. a < SinkHighWaterMark
  <2> HIDE DEF a
  <2>. QED  BY <1>5
<1>. QED  BY <1>6 DEF HasRoom

\* What follows from the destination's becoming w.
Destined(s, f, w) ==
  /\ f.w = [w EXCEPT !.settled = <<>>] /\ f.calls = SinkCalled(s.calls, s.w, w)
  /\ Notes(s, f) /\ ReadyWaits(f)
  /\ s.p.loop # "ready" => f.p.loop = s.p.loop
  /\ s.p.loop = "ready" => f.p.loop \in {"job", "off", "ready"}
  /\ s.p.phase = "idle" /\ s.p.loop # "ready" => f = Arrived(s, w)

LEMMA WithDestinationOf ==
  ASSUME NEW s, NEW w
  PROVE  LET parts == PartSettles(PartSettles(Arrived(s, w), "close", w.close), "abort", w.abort)
             told == WriterTold(parts, w)
         IN  parts.p.loop = s.p.loop =>
               WithDestination(s, w) =
                 IF s.p.phase = "piping" /\ w.closed = "rejected" /\ s.w.closed # "rejected"
                 THEN Push(told, "destinationErrored", None) ELSE told
<1> DEFINE w0 == [w EXCEPT !.settled = <<>>]   t == s.j \o Adopted(w.settled)
           c2 == SinkCalled(s.calls, s.w, w)   f0 == [s EXCEPT !.w = w0, !.j = t, !.calls = c2]
           f2 == PartSettles(PartSettles(f0, "close", w.close), "abort", w.abort)
<1>1. Arrived(s, w) = f0
  BY DEF Arrived
<1>2. WithDestination(s, w) =
        LET ready == IF s.p.loop # "ready" THEN f2
               ELSE CASE w.ready = "fulfilled" ->
                           Push([f2 EXCEPT !.p.loop = "job"], "ready", None)
                      [] w.ready = "rejected" -> [f2 EXCEPT !.p.loop = "off"]
                      [] OTHER -> f2
        IN  IF s.p.phase = "piping" /\ w.closed = "rejected"
               /\ s.w.closed # "rejected"
            THEN Push(ready, "destinationErrored", None) ELSE ready
  BY DEF WithDestination, Adopted
<1> HIDE DEF f2
<1>. QED  BY <1>1, <1>2 DEF WriterTold, f2

\* The pipe is told of what has arrived.
LEMMA DestinationTells ==
  ASSUME NEW n, NEW s \in State, NEW w, DestinationInv(w), Core(Arrived(s, w), n),
         SinkCalled(s.calls, s.w, w) \in CallsType,
         s.p.loop = "ready" => /\ w.ready \in {"pending", "fulfilled", "rejected"}
                               /\ w.ready = "fulfilled" /\ s.r.state # "closed" => HasRoom(w)
  PROVE  /\ Core(WithDestination(s, w), n)
         /\ Balance(Arrived(s, w), n) => Balance(WithDestination(s, w), n)
         /\ Destined(s, WithDestination(s, w), w)
<1> DEFINE f0 == Arrived(s, w)
           f1 == PartSettles(f0, "close", w.close)
           f2 == PartSettles(f1, "abort", w.abort)
           f3 == WriterTold(f2, w)
           last == s.p.phase = "piping" /\ w.closed = "rejected" /\ s.w.closed # "rejected"
           f == WithDestination(s, w)
<1>1. Core(f0, n)
  OBVIOUS
<1>2. /\ f0.r = s.r /\ f0.p = s.p /\ f0.cancelling = s.cancelling
      /\ f0.w = [w EXCEPT !.settled = <<>>] /\ f0.calls = SinkCalled(s.calls, s.w, w)
  BY Zenon, ArrivedIs
<1> HIDE DEF f0
<1>3. /\ Core(f1, n) /\ (Balance(f0, n) => Balance(f1, n))
      /\ SameStreams(f0, f1) /\ Notes(f0, f1) /\ f1.p.loop = f0.p.loop
      /\ f0.p.parts = {} => f1 = f0
  BY <1>1, PartKeeps
<1> HIDE DEF f1
<1>4. /\ Core(f2, n) /\ (Balance(f1, n) => Balance(f2, n))
      /\ SameStreams(f1, f2) /\ Notes(f1, f2) /\ f2.p.loop = f1.p.loop
      /\ f1.p.parts = {} => f2 = f1
  BY <1>3, PartKeeps
<1> HIDE DEF f2
<1>5. f2.p.loop = s.p.loop /\ f2.r = s.r /\ f2.w = [w EXCEPT !.settled = <<>>]
      /\ f2.calls = SinkCalled(s.calls, s.w, w)
  BY <1>2, <1>3, <1>4 DEF SameStreams
<1>6. s.p.loop = "ready" => /\ w.ready \in {"pending", "fulfilled", "rejected"}
                            /\ w.ready = "fulfilled" /\ s.r.state # "closed" => HasRoom(f2.w)
  <2>1. HasRoom(w) => HasRoom(f2.w)
    BY <1>5, ClearKeeps DEF SameDestination, HasRoom
  <2>. QED  BY <2>1
<1>7. /\ Core(f3, n) /\ (Balance(f2, n) => Balance(f3, n))
      /\ SameStreams(f2, f3) /\ Notes(f2, f3)
      /\ s.p.loop # "ready" => f3 = f2
      /\ s.p.loop = "ready" => f3.p.loop \in {"job", "off", "ready"}
      /\ f3.p.loop = "ready" => w.ready = "pending"
  <2>1. f2.p.loop = "ready" => /\ w.ready \in {"pending", "fulfilled", "rejected"}
                               /\ w.ready = "fulfilled" /\ f2.r.state # "closed" => HasRoom(f2.w)
    BY <1>5, <1>6
  <2>2. /\ Core(f3, n) /\ (Balance(f2, n) => Balance(f3, n))
        /\ SameStreams(f2, f3) /\ Notes(f2, f3)
        /\ f2.p.loop # "ready" => f3 = f2
        /\ f2.p.loop = "ready" => f3.p.loop \in {"job", "off", "ready"}
        /\ f3.p.loop = "ready" => w.ready = "pending"
    BY Zenon, <1>4, <2>1, WriterToldKeeps
  <2>. QED  BY <1>5, <2>2
<1>8. f = IF last THEN Push(f3, "destinationErrored", None) ELSE f3
  BY <1>5, WithDestinationOf DEF f0, f1, f2
<1> HIDE DEF f3, f
<1>9. Notes(s, f3) /\ (s.p.loop # "ready" => f3.p.loop = s.p.loop)
      /\ f3.w = [w EXCEPT !.settled = <<>>] /\ f3.calls = SinkCalled(s.calls, s.w, w)
  BY <1>2, <1>3, <1>4, <1>5, <1>7 DEF Notes, SameStanding, SameStreams
<1>10. ReadyWaits(f3)
  <2>1. f3.w.ready = w.ready
    BY <1>9, ClearKeeps DEF SameDestination
  <2>. QED  BY <1>7, <2>1 DEF ReadyWaits
<1>11. s.p.phase = "idle" /\ s.p.loop # "ready" => f3 = f0
  <2>1. s.p.phase = "idle" => f0.p.parts = {}
    BY <1>1, <1>2, PartsAre
  <2>. QED  BY <1>3, <1>4, <1>7, <2>1
<1>12. CASE ~last
  BY <1>3, <1>4, <1>7, <1>8, <1>9, <1>10, <1>11, <1>12 DEF Destined, f, f0
<1>13. CASE last
  <2>1. f = Push(f3, "destinationErrored", None)
    BY <1>8, <1>13
  <2>2. <<"destinationErrored", None>> \in Job
    BY DEF Job
  <2>3. MayPush(f3, n, "destinationErrored", None)
    BY <2>2 DEF MayPush, LoopKinds, WaitKinds
  <2>4. Core(f, n) /\ (Balance(f3, n) => Balance(f, n))
    BY <1>7, <2>1, <2>3, PushKeeps
  <2>5. f3 \in State
    BY <1>7 DEF Core
  <2>6. SameStreams(f3, f) /\ f.p = f3.p /\ f.cancelling = f3.cancelling
    BY <2>1, <2>2, <2>5, PushIs
  <2>7. Notes(s, f) /\ f.w = f3.w /\ f.calls = f3.calls /\ ReadyWaits(f)
    BY <1>9, <1>10, <2>6 DEF Notes, SameStreams, ReadyWaits
  <2>8. Destined(s, f, w)
    BY <1>1, <1>7, <1>9, <1>13, <2>6, <2>7 DEF Destined
  <2>. QED  BY <1>3, <1>4, <1>7, <2>4, <2>8 DEF f, f0
<1>. QED  BY <1>12, <1>13

LEMMA WithDestinationKeeps ==
  ASSUME NEW n, NEW s, Core(s, n), NEW w, DestinationInv(w), Flows(s.w, w), MayMove(s, n, w),
         LoopMay(s, w)
  PROVE  /\ Core(WithDestination(s, w), n)
         /\ Balance(s, n) => Balance(WithDestination(s, w), n)
         /\ Destined(s, WithDestination(s, w), w)
         /\ SinkTold(s.calls, SinkCalled(s.calls, s.w, w), s.w, w) /\ OnlyLeave(s.w, w)
<1>1. /\ Core(Arrived(s, w), n) /\ (Balance(s, n) => Balance(Arrived(s, w), n))
      /\ SinkTold(s.calls, SinkCalled(s.calls, s.w, w), s.w, w) /\ OnlyLeave(s.w, w)
  BY ArrivedKeeps
<1>2. s.p.loop = "ready" => /\ w.ready \in {"pending", "fulfilled", "rejected"}
                            /\ w.ready = "fulfilled" /\ s.r.state # "closed" => HasRoom(w)
  <2> SUFFICES ASSUME s.p.loop = "ready"
               PROVE  /\ w.ready \in {"pending", "fulfilled", "rejected"}
                      /\ w.ready = "fulfilled" /\ s.r.state # "closed" => HasRoom(w)
    OBVIOUS
  <2>1. w.ready \in {"pending", "fulfilled", "rejected"}
    BY DEF LoopMay, DestinationInv, ReadyFollows, W!Type, W!Settlement
  <2>2. DestinationInv(s.w)
    BY DEF Core
  <2>3. s.r.state # "closed" => (w.ready = "fulfilled" => HasRoom(w))
    BY <2>2, LoopHasRoom DEF LoopMay
  <2>. QED  BY <2>1, <2>3
<1>3. s \in State /\ SinkCalled(s.calls, s.w, w) \in CallsType
  BY <1>1 DEF Core, SinkTold
<1>. QED  BY <1>1, <1>2, <1>3, DestinationTells

-----------------------------------------------------------------------------
(* The shutdown.                                                            *)

Unlocked(s) == s.p.phase = "done" => ~s.r.locked /\ ~s.w.locked

\* The pipe is being shut down, or has been.
Down(s, n) ==
  /\ Core(s, n) /\ Balance(s, n) /\ ReadyWaits(s) /\ Unlocked(s)
  /\ s.p.phase \in {"shuttingDown", "done"}

\* The shutdown goes on as it was asked for.
SameEnd(s, f) ==
  /\ f.p.action = s.p.action /\ f.p.isError = s.p.isError
  /\ f.p.phase = s.p.phase
  /\ s.p.loop = "off" => f.p.loop = "off"

\* A shutdown that is no error has found everything at the destination.
EndReached(s, n) == EndsWell(s.p) /\ W!Accepts(s.w) => Reached(s.calls, s.w) = n

Begun(s, part) == [s EXCEPT !.p.parts = @ \cup {part}]

LEMMA BegunIs ==
  ASSUME NEW s \in State, NEW part \in Parts
  PROVE  LET f == Begun(s, part)
         IN  /\ f \in State /\ SameStreams(s, f) /\ f.j = s.j /\ f.cancelling = s.cancelling
             /\ SameStanding(s.p, f.p) /\ Notes(s, f) /\ f.p.awaited = s.p.awaited
             /\ f.p.loop = s.p.loop /\ f.p.parts = s.p.parts \cup {part}
<1> DEFINE x == s.p.parts \cup {part}   p1 == [s.p EXCEPT !.parts = x]   f == Begun(s, part)
<1>1. s.p \in PipeType
  BY DEF State
<1>2. x \in SUBSET Parts
  BY <1>1 DEF PipeType
<1>3. f = [s EXCEPT !.p = [s.p EXCEPT !.parts = x]]
  BY <1>1 DEF State, Begun
<1> HIDE DEF x, f
<1>4. p1 \in PipeType /\ SameStanding(s.p, p1) /\ p1.loop = s.p.loop /\ p1.parts = x
      /\ p1.awaited = s.p.awaited /\ p1.depth = s.p.depth /\ p1.prevent = s.p.prevent
  BY <1>1, <1>2 DEF PipeType, SameStanding
<1> HIDE DEF p1
<1>5. f = [s EXCEPT !.p = p1]
  BY <1>3 DEF p1
<1>. QED  BY <1>4, <1>5 DEF State, SameStreams, Notes, x, f

LEMMA BegunDown ==
  ASSUME NEW n, NEW s, Down(s, n), NEW part \in Parts, EndsWell(s.p) => ~W!Accepts(s.w)
  PROVE  Down(Begun(s, part), n) /\ SameEnd(s, Begun(s, part)) /\ SameStreams(s, Begun(s, part))
<1> DEFINE f == Begun(s, part)
<1>1. s \in State /\ Core(s, n) /\ Balance(s, n) /\ s.p.phase \notin {"idle", "piping"}
  BY DEF Down, Core
<1>2. /\ f \in State /\ SameStreams(s, f) /\ f.j = s.j
      /\ SameStanding(s.p, f.p) /\ Notes(s, f) /\ f.p.loop = s.p.loop
  BY <1>1, BegunIs
<1> HIDE DEF f
<1>3. Core(f, n) /\ Balance(f, n)
  BY <1>1, <1>2, BookKeeps
<1>. QED  BY <1>2, <1>3 DEF Down, ReadyWaits, Unlocked, SameStreams, SameStanding, SameEnd, Notes, f

LEMMA PartDown ==
  ASSUME NEW n, NEW s, Down(s, n), NEW part, NEW settlement
  PROVE  LET f == PartSettles(s, part, settlement)
         IN  Down(f, n) /\ SameEnd(s, f) /\ SameStreams(s, f)
<1> DEFINE f == PartSettles(s, part, settlement)
<1>1. Core(s, n) /\ Balance(s, n)
  BY DEF Down
<1>2. /\ Core(f, n) /\ (Balance(s, n) => Balance(f, n))
      /\ SameStreams(s, f) /\ Notes(s, f) /\ f.p.loop = s.p.loop
  BY <1>1, PartKeeps
<1> HIDE DEF f
<1>. QED  BY <1>1, <1>2 DEF Down, ReadyWaits, Unlocked, SameStreams, SameStanding, SameEnd, Notes, f

\* The loop goes on waiting only for a writer that is there.
LEMMA LoopMayMove ==
  ASSUME NEW s, DestinationInv(s.w), ReadyWaits(s), NEW w, Moves(s.w, w),
         W!CloseQueuedOrInFlight(w) => W!CloseQueuedOrInFlight(s.w) \/ s.r.state = "closed"
  PROVE  LoopMay(s, w)
BY DEF LoopMay, ReadyWaits, DestinationInv, ReadyFollows, Moves

LEMMA DestinationDown ==
  ASSUME NEW n, NEW s, Down(s, n), NEW w, DestinationInv(w), Moves(s.w, w),
         W!CloseQueuedOrInFlight(w) => W!CloseQueuedOrInFlight(s.w)
  PROVE  LET f == WithDestination(s, w)
         IN  Down(f, n) /\ SameEnd(s, f) /\ f.r = s.r
<1> DEFINE f == WithDestination(s, w)
<1>1. Core(s, n) /\ Balance(s, n) /\ ReadyWaits(s) /\ DestinationInv(s.w)
  BY DEF Down, Core
<1>2. LoopMay(s, w)
  BY <1>1, LoopMayMove
<1>3. MayMove(s, n, w)
  BY <1>1 DEF MayMove, Moves, Core, PhaseInv
<1>4. Core(f, n) /\ (Balance(s, n) => Balance(f, n)) /\ Destined(s, f, w)
  BY <1>1, <1>2, <1>3, WithDestinationKeeps DEF Moves
<1> HIDE DEF f
<1>5. f.w.locked = s.w.locked /\ f.r = s.r /\ SameStanding(s.p, f.p)
  BY <1>4, ClearKeeps DEF Destined, SameDestination, Moves, Notes
<1>6. SameEnd(s, f)
  BY <1>4, <1>5 DEF SameEnd, Destined, SameStanding, Notes
<1>. QED  BY <1>1, <1>4, <1>5, <1>6 DEF Down, Unlocked, Destined, SameStanding, f

\* A source that has no request to answer does not move the loop.
LEMMA SourceDown ==
  ASSUME NEW n, NEW s, Down(s, n), NEW r \in R!Type, NEW f, Core(f, n), SourceMoved(s, f, r), Balance(f, n),
         r.locked => s.r.locked, r.answers = <<>> \/ s.p.loop # "off"
  PROVE  Down(f, n) /\ SameEnd(s, f)
<1>1. f.r = [r EXCEPT !.answers = <<>>] /\ f.w = s.w
  BY DEF SourceMoved
<1>2. f.r.locked => r.locked
  BY <1>1 DEF R!Type
<1>3. Unlocked(f) /\ ReadyWaits(f)
  BY <1>1, <1>2 DEF Unlocked, ReadyWaits, Down, SourceMoved
<1>4. SameEnd(s, f)
  BY DEF SameEnd, SourceMoved, Down
<1>. QED  BY <1>3, <1>4 DEF Down, SourceMoved

\* What a finished destination does not accept.
LEMMA Accepting ==
  ASSUME NEW w, W!Accepts(w)
  PROVE  w.state = "writable" /\ ~W!CloseQueuedOrInFlight(w) /\ ~W!Finished(w)
BY DEF W!Accepts, W!Finished

LEMMA CloseDestinationKeeps ==
  ASSUME NEW n, NEW s, Down(s, n), EndReached(s, n), s.p.action = "close"
  PROVE  Down(CloseDestination(s), n) /\ SameEnd(s, CloseDestination(s))
<1> DEFINE b == Begun(s, "close")   w == W!Close(s.w)
<1>1. Core(s, n) /\ Balance(s, n) /\ ReadyWaits(s) /\ DestinationInv(s.w) /\ s.w.settled = <<>>
      /\ s \in State /\ EndsWell(s.p) /\ s.r.state = "closed" /\ s.p.phase \in {"shuttingDown", "done"}
  BY DEF Down, Core, PhaseInv
<1>2. "close" \in Parts
  BY DEF Parts
<1>3. CASE ~W!Accepts(s.w) /\ (W!CloseQueuedOrInFlight(s.w) \/ s.w.state = "closed")
  <2>1. CloseDestination(s) = PartSettles(b, "close", "fulfilled")
    BY <1>3 DEF CloseDestination, Begun
  <2>2. Down(b, n) /\ SameEnd(s, b)
    BY <1>2, <1>3, BegunDown
  <2> HIDE DEF b
  <2>. QED  BY <2>1, <2>2, PartDown DEF SameEnd
<1>4. CASE ~W!Accepts(s.w) /\ ~(W!CloseQueuedOrInFlight(s.w) \/ s.w.state = "closed")
           /\ s.w.state = "errored"
  <2>1. CloseDestination(s) = PartSettles(b, "close", "rejected")
    BY <1>4 DEF CloseDestination, Begun
  <2>2. Down(b, n) /\ SameEnd(s, b)
    BY <1>2, <1>4, BegunDown
  <2> HIDE DEF b
  <2>. QED  BY <2>1, <2>2, PartDown DEF SameEnd
<1>5. CASE ~(W!CloseQueuedOrInFlight(s.w) \/ s.w.state = "closed") /\ s.w.state # "errored"
  <2> DEFINE f == WithDestination(b, w)
  <2>1. CloseDestination(s) = WithDestination(b, w)
    <3>1. b.w = s.w
      BY <1>1, <1>2, BegunIs DEF SameStreams
    <3>. QED  BY <1>5, <3>1 DEF CloseDestination, Begun
  <2>2. DestinationInv(w) /\ Moves(s.w, w)
    BY <1>1, <1>5, CloseKeeps
  <2>3. ~W!Accepts(w)
    BY <1>1, <1>5, CloseKeeps
  <2>4. LoopMay(s, w)
    BY <1>1, <2>2, LoopMayMove
  <2>5. MayMove(s, n, w)
    <3>1. w.state = "writable" => W!Accepts(s.w)
      BY <1>5, <2>2 DEF Moves, Flows, W!Accepts
    <3>. QED  BY <1>1, <2>2, <3>1 DEF MayMove, Moves, Core, PhaseInv, EndReached
  <2>6. Core(Arrived(s, w), n) /\ Balance(Arrived(s, w), n)
        /\ SinkCalled(s.calls, s.w, w) \in CallsType
    BY <1>1, <2>2, <2>5, ArrivedKeeps DEF Moves, SinkTold
  <2>7. /\ b \in State /\ SameStreams(s, b) /\ b.j = s.j /\ b.cancelling = s.cancelling
        /\ SameStanding(s.p, b.p) /\ Notes(s, b) /\ b.p.loop = s.p.loop
    BY <1>1, <1>2, BegunIs
  <2> HIDE DEF b, w
  <2>8. /\ Arrived(s, w).p = s.p /\ Arrived(s, w).r = s.r /\ Arrived(s, w).cancelling = s.cancelling
        /\ Arrived(s, w).j = s.j \o Adopted(w.settled)
        /\ Arrived(s, w).w = [w EXCEPT !.settled = <<>>]
        /\ Arrived(s, w).calls = SinkCalled(s.calls, s.w, w)
    BY Zenon, <1>1, <2>2, <2>6, ArrivedIs
  <2>9. /\ Arrived(b, w).p = b.p /\ Arrived(b, w).r = b.r /\ Arrived(b, w).cancelling = b.cancelling
        /\ Arrived(b, w).j = b.j \o Adopted(w.settled)
        /\ Arrived(b, w).w = [w EXCEPT !.settled = <<>>]
        /\ Arrived(b, w).calls = SinkCalled(b.calls, b.w, w) /\ Arrived(b, w) \in State
    BY Zenon, <2>2, <2>6, <2>7, ArrivedIs DEF SameStreams
  <2>10. Core(Arrived(b, w), n) /\ Balance(Arrived(b, w), n)
    <3> DEFINE a == Arrived(s, w)   a2 == Arrived(b, w)
    <3>1. SameStreams(a, a2) /\ a2.j = a.j /\ SameStanding(a.p, a2.p) /\ a2.p.loop = a.p.loop
      BY <2>7, <2>8, <2>9 DEF SameStreams
    <3>2. a.p.phase \notin {"idle", "piping"} /\ ~W!Accepts(a.w)
      BY <1>1, <2>2, <2>3, <2>8, ClearKeeps DEF SameDestination
    <3> HIDE DEF a, a2
    <3>3. Core(a, n) /\ Balance(a, n) /\ a2 \in State
      BY <2>6, <2>9 DEF a, a2
    <3>4. Core(a2, n) /\ Balance(a2, n)
      BY <3>1, <3>2, <3>3, BookKeeps
    <3>. QED  BY <3>4 DEF a2
  <2>11. b.p.loop = "ready" => /\ w.ready \in {"pending", "fulfilled", "rejected"}
                               /\ w.ready = "fulfilled" /\ b.r.state # "closed" => HasRoom(w)
    <3>1. w.locked \/ w.ready = "rejected" => b.p.loop # "ready" \/ w.ready \in {"pending", "fulfilled", "rejected"}
      BY <2>2 DEF DestinationInv, ReadyFollows, W!Type, W!Settlement
    <3>. QED  BY <1>1, <2>4, <2>7, <3>1 DEF LoopMay, SameStreams
  <2>12. Core(f, n) /\ Balance(f, n) /\ Destined(b, f, w)
    <3>1. b \in State /\ SinkCalled(b.calls, b.w, w) \in CallsType
      BY <2>6, <2>7 DEF SameStreams
    <3>. QED  BY <2>2, <2>10, <2>11, <3>1, DestinationTells
  <2> HIDE DEF f
  <2>13. f.w.locked = s.w.locked /\ f.r = s.r /\ SameStanding(s.p, f.p)
    BY <2>2, <2>7, <2>12, ClearKeeps DEF Destined, SameDestination, Moves, Notes, SameStreams, SameStanding
  <2>14. SameEnd(s, f)
    BY <2>7, <2>12, <2>13 DEF SameEnd, Destined, SameStanding
  <2>. QED  BY <1>1, <2>1, <2>12, <2>13, <2>14 DEF Down, Unlocked, Destined, SameStanding, f
<1>. QED  BY <1>3, <1>4, <1>5 DEF W!Accepts

LEMMA AbortDestinationKeeps ==
  ASSUME NEW n, NEW s, Down(s, n), ~EndsWell(s.p)
  PROVE  LET f == AbortDestination(s)
         IN  Down(f, n) /\ SameEnd(s, f) /\ f.r = s.r
<1> DEFINE b == Begun(s, "abort")   w == W!Abort(s.w)   f == AbortDestination(s)
<1>1. "abort" \in Parts
  BY DEF Parts
<1>2. Down(b, n) /\ SameEnd(s, b) /\ SameStreams(s, b)
  BY <1>1, BegunDown
<1>3. b = [s EXCEPT !.p.parts = @ \cup {"abort"}]
  BY DEF Begun
<1>4. CASE W!Finished(s.w) \/ (s.p.action = "signal" /\ s.w.state # "writable")
  <2>1. f = PartSettles(b, "abort", "fulfilled")
    BY <1>3, <1>4 DEF AbortDestination
  <2> HIDE DEF b, f
  <2>. QED  BY <1>2, <2>1, PartDown DEF SameEnd, SameStreams, f
<1>5. CASE ~(W!Finished(s.w) \/ (s.p.action = "signal" /\ s.w.state # "writable"))
  <2>1. f = WithDestination(b, w)
    BY <1>3, <1>5 DEF AbortDestination
  <2>2. /\ DestinationInv(w) /\ Moves(s.w, w)
        /\ W!CloseQueuedOrInFlight(w) => W!CloseQueuedOrInFlight(s.w)
    BY AbortKeeps DEF Down, Core
  <2> HIDE DEF b, f, w
  <2>3. b.w = s.w /\ b.r = s.r
    BY <1>2 DEF SameStreams
  <2>4. Down(f, n) /\ SameEnd(b, f) /\ f.r = b.r
    BY <1>2, <2>1, <2>2, <2>3, DestinationDown
  <2>. QED  BY <1>2, <2>3, <2>4 DEF SameEnd, f
<1>. QED  BY <1>4, <1>5

\* cancel() also leaves the source's cancel algorithm with a promise.
LEMMA CancelSourceKeeps ==
  ASSUME NEW n, NEW s, Down(s, n), s.p.action \in {"cancel", "signal"}
  PROVE  Down(CancelSource(s), n) /\ SameEnd(s, CancelSource(s))
<1> DEFINE b == Begun(s, "cancel")   f == CancelSource(s)
<1>1. "cancel" \in Parts /\ ~EndsWell(s.p)
  BY DEF Parts, Down, Core, PhaseInv
<1>2. Down(b, n) /\ SameEnd(s, b) /\ SameStreams(s, b)
  BY <1>1, BegunDown
<1>3. b = [s EXCEPT !.p.parts = @ \cup {"cancel"}]
  BY DEF Begun
<1>4. CASE s.r.state # "readable"
  <2>1. f = PartSettles(b, "cancel", "rejected") \/ f = PartSettles(b, "cancel", "fulfilled")
    BY <1>3, <1>4 DEF CancelSource
  <2> HIDE DEF b, f
  <2>. QED  BY <1>2, <2>1, PartDown DEF SameEnd, f
<1>5. CASE s.r.state = "readable"
  <2> DEFINE b2 == [b EXCEPT !.cancelling = TRUE]   r == R!Cancel(s.r)
  <2>1. f = WithSource(b2, r)
    BY Zenon, <1>3, <1>5 DEF CancelSource
  <2>2. Core(b, n) /\ Balance(b, n) /\ b \in State /\ b.r = s.r /\ b.w = s.w
    BY <1>2 DEF Down, Core, SameStreams
  <2> HIDE DEF b
  <2>3. /\ b2 \in State /\ SameStreams(b, b2) /\ b2.j = b.j /\ b2.p = b.p
    BY Zenon, <2>2 DEF State, SameStreams
  <2>4. Core(b2, n) /\ Balance(b2, n)
    <3> HIDE DEF b2
    <3>. QED  BY <2>2, <2>3 DEF Core, Balance, SameStreams
  <2>5. b2.p.phase = s.p.phase /\ b2.p.action = s.p.action /\ b2.r = s.r /\ b2.w = s.w
    BY <1>2, <2>2, <2>3 DEF SameEnd, SameStreams
  <2>6. Down(b2, n) /\ SameEnd(b, b2)
    BY <1>2, <2>3, <2>4 DEF Down, ReadyWaits, Unlocked, SameStreams, SameEnd
  <2> HIDE DEF b2
  <2>7. s.r \in R!Type /\ s.r.answers = <<>> /\ SourceShape(s.r) /\ s.r.requests \in Nat
        /\ (s.r.requests > 0 => b2.p.loop = "read")
    BY <2>4, <2>5 DEF Core, State, SourceInv, R!Type
  <2>8. Ended(s.r, r, "closed") /\ r.state = "closed"
    BY <1>5, <2>7, EndKeeps
  <2>9. s.p.phase \in {"piping", "shuttingDown"} => s.r.locked
    BY DEF Down, Core, PhaseInv
  <2> HIDE DEF r, f
  <2>10. ~Working(s.w, r, b2.p)
    BY <2>5, <2>8 DEF Working
  <2>11. /\ r \in R!Type /\ SourceShape(r) /\ r.requests = 0 /\ r.queue = <<>>
         /\ r.answers = Answered(b2.r, "closed") /\ r.locked = s.r.locked
    BY <2>5, <2>8 DEF Ended
  <2>12. Core(f, n) /\ SourceMoved(b2, f, r) /\ Balance(f, n)
    <3>1. /\ "closed" \in {"closed", "errored"} /\ r.queue \in {<<>>, b2.r.queue}
          /\ b2.r.state # "readable" => r.state = b2.r.state
          /\ b2.p.phase \in {"piping", "shuttingDown"} => r.locked
          /\ Working(b2.w, r, b2.p) => Working(b2.w, b2.r, b2.p) /\ r.queue = b2.r.queue
      BY <1>5, <2>5, <2>9, <2>10, <2>11
    <3>. QED  BY <2>1, <2>4, <2>11, <3>1, SourceEnds
  <2>13. r.answers = <<>> \/ b2.p.loop # "off"
    BY <2>5, <2>7, <2>11 DEF Answered
  <2>14. Down(f, n) /\ SameEnd(b2, f)
    BY <2>5, <2>6, <2>11, <2>12, <2>13, SourceDown
  <2>. QED  BY <1>2, <2>6, <2>14 DEF SameEnd, f
<1>. QED  BY <1>4, <1>5

Waited(s, k) == [s EXCEPT !.p.left = k]

LEMMA LeftKeeps ==
  ASSUME NEW n, NEW s, Core(s, n), NEW k, k \in 0..2
  PROVE  /\ Core(Waited(s, k), n) /\ (Balance(s, n) => Balance(Waited(s, k), n))
         /\ SameStreams(s, Waited(s, k)) /\ Notes(s, Waited(s, k))
         /\ Waited(s, k).p.loop = s.p.loop /\ Waited(s, k).j = s.j
<1> DEFINE p1 == [s.p EXCEPT !.left = k]   f == Waited(s, k)
<1>1. s \in State /\ s.p \in PipeType
  BY DEF Core, State
<1>2. p1 \in PipeType /\ SameStanding(s.p, p1) /\ p1.loop = s.p.loop /\ p1.parts = s.p.parts
      /\ p1.awaited = s.p.awaited /\ p1.depth = s.p.depth /\ p1.prevent = s.p.prevent
  BY <1>1 DEF PipeType, SameStanding
<1>3. f = [s EXCEPT !.p = p1]
  BY <1>1 DEF State, Waited
<1> HIDE DEF p1, f
<1>4. f \in State /\ SameStreams(s, f) /\ f.j = s.j /\ Notes(s, f) /\ f.p = p1
  BY <1>1, <1>2, <1>3 DEF State, SameStreams, Notes
<1>5. /\ s.p.phase \in {"idle", "piping"} => f.p.parts = {} /\ f.p.awaited = None
      /\ EndsWell(s.p) /\ W!Accepts(s.w) => f.p.parts = {}
  BY <1>2, <1>4, PartsAre
<1>6. Core(f, n) /\ (Balance(s, n) => Balance(f, n))
  BY <1>2, <1>4, <1>5, BookKeeps
<1>. QED  BY <1>2, <1>4, <1>6 DEF f

LEMMA CalledParts ==
  ASSUME NEW prevent
  PROVE  LET called == {"abort", "cancel"} \ prevent
         IN  Cardinality(called) \in 0..2 /\ (Cardinality(called) = 0 <=> called = {})
<1> DEFINE both == {"abort", "cancel"}   called == both \ prevent   k == Cardinality(called)
<1>1. IsFiniteSet(both) /\ Cardinality(both) = 2
  <2>1. IsFiniteSet({"abort"}) /\ Cardinality({"abort"}) = 1
    BY FS_Singleton
  <2>2. IsFiniteSet({"abort"} \cup {"cancel"}) /\ Cardinality({"abort"} \cup {"cancel"}) = 1 + 1
    BY <2>1, FS_AddElement
  <2>3. {"abort"} \cup {"cancel"} = both
    OBVIOUS
  <2>. QED  BY <2>2, <2>3
<1>2. IsFiniteSet(called) /\ k <= Cardinality(both)
  <2>1. called \in SUBSET both
    OBVIOUS
  <2> HIDE DEF called, both
  <2>. QED  BY <1>1, <2>1, FS_Subset
<1> HIDE DEF called
<1>3. k \in Nat /\ k <= 2 /\ (k = 0 <=> called = {})
  BY <1>1, <1>2, FS_CardinalityType, FS_EmptySet
<1> HIDE DEF k
<1>4. k \in 0..2
  BY <1>3
<1>. QED  BY <1>3, <1>4 DEF called, k

LEMMA SignalActionsKeeps ==
  ASSUME NEW n, NEW s, Down(s, n), s.p.action = "signal"
  PROVE  Down(SignalActions(s), n) /\ SameEnd(s, SignalActions(s))
<1> DEFINE called == {"abort", "cancel"} \ s.p.prevent   k == Cardinality(called)
           all == Waited(s, k)
           first == IF "abort" \in called THEN AbortDestination(all) ELSE all
           f == SignalActions(s)
<1>1. Core(s, n) /\ Balance(s, n) /\ s \in State /\ ~EndsWell(s.p)
  BY DEF Down, Core, PhaseInv
<1>2. k \in 0..2
  BY CalledParts
<1>3. f = IF called = {} THEN Push(all, "then", TRUE)
          ELSE IF "cancel" \in called THEN CancelSource(first) ELSE first
  BY DEF SignalActions, Waited
<1> HIDE DEF called, k, f
<1>4. /\ Core(all, n) /\ Balance(all, n)
      /\ SameStreams(s, all) /\ Notes(s, all) /\ all.p.loop = s.p.loop /\ all.j = s.j
  BY <1>1, <1>2, LeftKeeps
<1> HIDE DEF all
<1>5. Down(all, n) /\ SameEnd(s, all) /\ all.p.action = "signal" /\ ~EndsWell(all.p)
  BY <1>1, <1>4 DEF Down, ReadyWaits, Unlocked, SameStreams, SameStanding, SameEnd, Notes, EndsWell
<1>6. Down(first, n) /\ SameEnd(s, first) /\ first.p.action = "signal"
  <2>1. Down(AbortDestination(all), n) /\ SameEnd(all, AbortDestination(all))
    BY <1>5, AbortDestinationKeeps
  <2>. QED  BY <1>5, <2>1 DEF SameEnd
<1> HIDE DEF first
<1>7. Down(CancelSource(first), n) /\ SameEnd(first, CancelSource(first))
  BY <1>6, CancelSourceKeeps
<1>8. Down(Push(all, "then", TRUE), n) /\ SameEnd(s, Push(all, "then", TRUE))
  <2> DEFINE g == Push(all, "then", TRUE)
  <2>1. <<"then", TRUE>> \in Job /\ all \in State
    BY Zenon, <1>4 DEF Job, Core
  <2>2. MayPush(all, n, "then", TRUE)
    BY <1>5, <2>1 DEF MayPush, LoopKinds, Down
  <2>3. Core(g, n) /\ Balance(g, n)
    BY Zenon, <1>4, <2>2, PushKeeps
  <2>4. SameStreams(all, g) /\ g.p = all.p
    BY ZenonT(40), <2>1, PushIs
  <2> HIDE DEF g
  <2>. QED  BY Zenon, <1>5, <2>3, <2>4 DEF Down, ReadyWaits, Unlocked, SameStreams, SameEnd, g
<1>. QED  BY Zenon, <1>3, <1>6, <1>7, <1>8 DEF SameEnd, f

\* finalize() notes how the pipe ended.
Noted(s, v) == [s EXCEPT !.p.phase = "done", !.p.result = v]

LEMMA DoneKeeps ==
  ASSUME NEW n, NEW s, Down(s, n), EndReached(s, n), NEW v, v \in {"fulfilled", "rejected"},
         v = "fulfilled" => ~s.p.isError
  PROVE  /\ Core(Noted(s, v), n) /\ Balance(Noted(s, v), n) /\ SameStreams(s, Noted(s, v))
         /\ Noted(s, v).p.loop = s.p.loop /\ Noted(s, v).p.phase = "done"
<1> DEFINE p1 == [s.p EXCEPT !.phase = "done", !.result = v]   f == Noted(s, v)
<1>1. s \in State /\ s.p \in PipeType /\ Core(s, n) /\ s.p.phase \in {"shuttingDown", "done"}
  BY DEF Down, Core, State
<1>2. /\ p1 \in PipeType /\ p1.phase = "done" /\ p1.loop = s.p.loop /\ p1.parts = s.p.parts
      /\ p1.current = s.p.current /\ p1.written = s.p.written /\ p1.action = s.p.action
      /\ p1.isError = s.p.isError /\ p1.result = v
  BY Zenon, <1>1 DEF PipeType
<1>3. f = [s EXCEPT !.p = p1]
  BY Zenon, <1>1 DEF State, Noted
<1> HIDE DEF p1, f
<1>4. f \in State /\ SameStreams(s, f) /\ f.j = s.j /\ f.p = p1
  BY <1>1, <1>2, <1>3 DEF State, SameStreams
<1>5. EndsWell(p1) <=> EndsWell(s.p)
  BY <1>1, <1>2 DEF EndsWell
<1>6. LoopInv(s.j, p1) /\ SourceInv(s.r, p1) /\ RoomInv(s.r, s.w, p1, s.j)
  BY <1>1, <1>2 DEF Core, LoopInv, SourceInv, RoomInv
<1>7. PhaseInv(s.r, s.w, p1, s.j)
  BY <1>1, <1>2, <1>5 DEF Core, PhaseInv
<1>8. WriteInv(s.calls, s.w, s.r, p1, s.j, n) /\ BalanceInv(s.calls, s.w, s.r, p1, s.j, n)
  BY <1>2 DEF WriteInv, BalanceInv, Working
<1>9. KnownInv(s.w, s.r, p1, s.j, n)
  <2>1. \A c : Known(s.w, p1, s.j, c) <=> Known(s.w, s.p, s.j, c)
    BY <1>2 DEF Known
  <2>. QED  BY <1>1, <1>2, <2>1 DEF Core, KnownInv
<1>10. EndInv(s.calls, s.w, p1, s.j, n)
  <2>1. EndInv(s.calls, s.w, s.p, s.j, n)
    BY <1>1 DEF Core
  <2>2. EndsWell(p1) /\ (\/ s.calls.closed
                         \/ s.w.state = "writable" /\ (W!CloseQueuedOrInFlight(s.w) \/ p1.phase = "done")) =>
          Reached(s.calls, s.w) = n
    BY <1>5, <2>1 DEF EndInv, EndReached, W!Accepts
  <2>. QED  BY <1>2, <1>5, <2>1, <2>2 DEF EndInv
<1>. QED  BY <1>1, <1>2, <1>4, <1>6, <1>7, <1>8, <1>9, <1>10 DEF Core, Balance, SameStreams, f

\* Getting or releasing the writer moves no chunk.
LEMMA LockFlows ==
  ASSUME NEW w, DestinationInv(w), w.settled = <<>>, NEW w2, DestinationInv(w2), OnlyLock(w, w2)
  PROVE  Flows(w, w2) /\ (W!CloseQueuedOrInFlight(w2) <=> W!CloseQueuedOrInFlight(w))
<1>1. W!QueuedChunks(w2) = W!QueuedChunks(w)
  BY DEF OnlyLock, W!QueuedChunks
<1>. QED  BY <1>1 DEF OnlyLock, Flows, W!Accepts, W!CloseQueuedOrInFlight, Alive, InFlightShape,
             DestinationInv

\* finalize() releases both locks and settles the pipe's promise.
LEMMA FinalizeKeeps ==
  ASSUME NEW n, NEW s, Down(s, n), EndReached(s, n), NEW ok \in BOOLEAN
  PROVE  LET f == Finalize(s, ok)
         IN  Down(f, n) /\ f.p.phase = "done" /\ (s.p.loop = "off" => f.p.loop = "off")
<1> DEFINE v == IF ok /\ ~s.p.isError THEN "fulfilled" ELSE "rejected"
           done == Noted(s, v)
           w == W!Release(s.w)   d == WithDestination(done, w)
           r == R!Release(s.r)   f == Finalize(s, ok)
<1>1. f = WithSource(d, r)
  BY DEF Finalize, Noted
<1>2. /\ Core(s, n) /\ ReadyWaits(s) /\ DestinationInv(s.w) /\ s.w.settled = <<>>
      /\ s.r \in R!Type /\ s.r.answers = <<>> /\ SourceShape(s.r) /\ s.r.requests \in Nat
      /\ s.r.requests > 0 => s.p.loop = "read"
  BY DEF Down, Core, State, SourceInv, R!Type
<1>3. v \in {"fulfilled", "rejected"} /\ (v = "fulfilled" => ~s.p.isError)
  OBVIOUS
<1> HIDE DEF v
<1>5. /\ Core(done, n) /\ Balance(done, n) /\ SameStreams(s, done) /\ done.p.loop = s.p.loop
      /\ done.p.phase = "done"
  BY <1>3, DoneKeeps
<1> HIDE DEF done
<1>6. done.w = s.w /\ done.r = s.r /\ done.calls = s.calls
  BY <1>5 DEF SameStreams
<1>7. /\ DestinationInv(w) /\ OnlyLock(s.w, w) /\ ~w.locked /\ w.ready = "rejected"
      /\ Flows(s.w, w) /\ (W!CloseQueuedOrInFlight(w) <=> W!CloseQueuedOrInFlight(s.w))
  BY <1>2, ReleaseKeeps, LockFlows
<1> HIDE DEF w
<1>8. MayMove(done, n, w) /\ LoopMay(done, w)
  BY <1>2, <1>5, <1>6, <1>7 DEF MayMove, LoopMay, ReadyWaits
<1>9. Core(d, n) /\ Balance(d, n) /\ Destined(done, d, w)
  BY <1>5, <1>6, <1>7, <1>8, WithDestinationKeeps
<1> HIDE DEF d
<1>10. /\ d.r = s.r /\ d.p.phase = "done" /\ ~d.w.locked /\ ReadyWaits(d)
       /\ s.p.loop # "ready" => d.p.loop = s.p.loop
  BY <1>5, <1>6, <1>7, <1>9, ClearKeeps DEF Destined, Notes, SameStanding, SameDestination
<1>11. /\ r \in R!Type /\ SourceShape(r) /\ ~r.locked /\ r.requests = 0
       /\ r.state = s.r.state /\ r.queue = s.r.queue /\ r.answers = Answered(s.r, "errored")
  BY <1>2, ReaderKeeps
<1> HIDE DEF r, f
<1>12. Core(f, n) /\ SourceMoved(d, f, r) /\ Balance(f, n)
  <2>1. /\ "errored" \in {"closed", "errored"} /\ r.queue \in {<<>>, d.r.queue}
        /\ r.answers = Answered(d.r, "errored")
        /\ d.r.state # "readable" => r.state = d.r.state
        /\ d.p.phase \in {"piping", "shuttingDown"} => r.locked
        /\ Working(d.w, r, d.p) => Working(d.w, d.r, d.p) /\ r.queue = d.r.queue
    BY <1>10, <1>11 DEF Working
  <2>. QED  BY <1>1, <1>9, <1>11, <2>1, SourceEnds
<1>13. f.r = [r EXCEPT !.answers = <<>>] /\ f.w = d.w /\ f.p.phase = "done"
       /\ (f.p.loop = "ready" => d.p.loop = "ready")
  BY <1>10, <1>12 DEF SourceMoved
<1>14. ~f.r.locked
  BY <1>11, <1>13 DEF R!Type
<1>15. Down(f, n)
  BY <1>10, <1>12, <1>13, <1>14 DEF Down, ReadyWaits, Unlocked
<1>16. s.p.loop = "off" => f.p.loop = "off"
  <2> SUFFICES ASSUME s.p.loop = "off"  PROVE f.p.loop = "off"
    OBVIOUS
  <2>1. ~(s.r.requests > 0) /\ d.p.loop = "off"
    BY <1>2, <1>10
  <2>2. r.answers = <<>>
    BY <1>11, <2>1 DEF Answered
  <2>. QED  BY <1>10, <1>12, <2>1, <2>2 DEF SourceMoved
<1>. QED  BY <1>13, <1>15, <1>16 DEF f

\* doTheRest() begins the action, once everything that counts has arrived.
LEMMA DoTheRestKeeps ==
  ASSUME NEW n, NEW s, Down(s, n), EndReached(s, n)
  PROVE  LET f == DoTheRest(s)
         IN  Down(f, n) /\ (s.p.loop = "off" => f.p.loop = "off")
<1> DEFINE f == DoTheRest(s)
<1>1. /\ s.p.action \in {"none", "close", "abort", "cancel", "signal"}
      /\ s.p.action \in {"abort", "cancel", "signal"} => ~EndsWell(s.p)
  BY DEF Down, Core, State, PipeType, Parts, PhaseInv
<1>2. CASE s.p.action = "none"
  <2>1. f = Finalize(s, TRUE)
    BY <1>2 DEF DoTheRest
  <2>. QED  BY Zenon, <2>1, FinalizeKeeps
<1>3. CASE s.p.action = "close"
  <2>1. f = CloseDestination(s)
    BY <1>3 DEF DoTheRest
  <2>. QED  BY <1>3, <2>1, CloseDestinationKeeps DEF SameEnd
<1>4. CASE s.p.action = "abort"
  <2>1. f = AbortDestination(s)
    BY <1>4 DEF DoTheRest
  <2>. QED  BY <1>1, <1>4, <2>1, AbortDestinationKeeps DEF SameEnd
<1>5. CASE s.p.action = "cancel"
  <2>1. f = CancelSource(s)
    BY <1>5 DEF DoTheRest
  <2>. QED  BY <1>5, <2>1, CancelSourceKeeps DEF SameEnd
<1>6. CASE s.p.action = "signal"
  <2>1. f = SignalActions(s)
    BY <1>6 DEF DoTheRest
  <2>. QED  BY <1>6, <2>1, SignalActionsKeeps DEF SameEnd
<1>. QED  BY <1>1, <1>2, <1>3, <1>4, <1>5, <1>6

\* waitForWritesToFinish() only notes what it waits for, or sees that it is there.
LEMMA WaitKeeps ==
  ASSUME NEW n, NEW s, Down(s, n), NEW depth \in Nat
  PROVE  LET f == WaitForWritesToFinish(s, depth)
         IN  Down(f, n) /\ f.p.loop = s.p.loop
<1> DEFINE p1 == [s.p EXCEPT !.awaited = s.p.current, !.depth = depth]
           waiting == [s EXCEPT !.p.awaited = s.p.current, !.p.depth = depth]
           f == WaitForWritesToFinish(s, depth)   c == s.p.current
<1>1. /\ s \in State /\ s.p \in PipeType /\ Core(s, n) /\ Balance(s, n)
      /\ s.p.phase \notin {"idle", "piping"}
      /\ EndsWell(s.p) /\ W!Accepts(s.w) => s.p.parts = {}
  BY Zenon, PartsAre DEF Down, Core, State
<1>2. p1 \in PipeType /\ SameStanding(s.p, p1) /\ p1.loop = s.p.loop /\ p1.parts = s.p.parts
  BY Zenon, <1>1 DEF PipeType, SameStanding
<1>3. waiting = [s EXCEPT !.p = p1]
  BY Zenon, <1>1 DEF State
<1>4. f = IF c \in s.p.written \cup {None} THEN Push(waiting, "waited", c) ELSE waiting
  BY DEF WaitForWritesToFinish
<1> HIDE DEF p1, waiting, f
<1>5. waiting \in State /\ SameStreams(s, waiting) /\ waiting.j = s.j /\ waiting.p = p1
  BY <1>1, <1>2, <1>3 DEF State, SameStreams
<1>6. Core(waiting, n) /\ Balance(waiting, n)
  BY <1>1, <1>2, <1>5, BookKeeps
<1>7. Down(waiting, n) /\ waiting.p.loop = s.p.loop /\ waiting.p.phase = s.p.phase
      /\ waiting.p.written = s.p.written
  BY <1>2, <1>5, <1>6 DEF Down, ReadyWaits, Unlocked, SameStreams, SameStanding
<1>8. c \in s.p.written \cup {None} =>
        Down(Push(waiting, "waited", c), n) /\ Push(waiting, "waited", c).p.loop = s.p.loop
  <2> SUFFICES ASSUME c \in s.p.written \cup {None}
               PROVE  Down(Push(waiting, "waited", c), n) /\ Push(waiting, "waited", c).p.loop = s.p.loop
    OBVIOUS
  <2> DEFINE g == Push(waiting, "waited", c)
  <2>1. <<"waited", c>> \in Job
    BY <1>1 DEF Job, PipeType
  <2> HIDE DEF c
  <2>2. MayPush(waiting, n, "waited", c)
    BY <1>1, <1>7, <2>1 DEF MayPush, LoopKinds
  <2>3. Core(g, n) /\ Balance(g, n)
    BY <1>6, <2>2, PushKeeps
  <2>4. SameStreams(waiting, g) /\ g.p = waiting.p
    BY <1>5, <2>1, PushIs
  <2> HIDE DEF g
  <2>. QED  BY <1>7, <2>3, <2>4 DEF Down, ReadyWaits, Unlocked, SameStreams, g
<1>. QED  BY <1>4, <1>7, <1>8 DEF f

\* A shutdown begins while the pipe runs; one that is no error because the source
\* has been closed.
Begins(s, action, isError) ==
  [s EXCEPT !.p.phase = "shuttingDown", !.p.action = action, !.p.isError = isError]

MayEnd(s, n, action, isError) ==
  /\ action \in Parts \cup {"none", "signal"} /\ isError \in BOOLEAN
  /\ action = "close" => ~isError
  /\ ~isError => /\ s.r.state = "closed" /\ action \in {"close", "none"}
                 /\ s.calls.closed \/ (s.w.state = "writable" /\ W!CloseQueuedOrInFlight(s.w))
                      => Reached(s.calls, s.w) = n

LEMMA BeginsKeeps ==
  ASSUME NEW n, NEW s, Core(s, n), Balance(s, n), ReadyWaits(s), s.p.phase = "piping",
         NEW action, NEW isError, MayEnd(s, n, action, isError)
  PROVE  LET f == Begins(s, action, isError)
         IN  Down(f, n) /\ f.p.loop = s.p.loop /\ SameStreams(s, f)
<1> DEFINE p1 == [s.p EXCEPT !.phase = "shuttingDown", !.action = action, !.isError = isError]
           f == Begins(s, action, isError)
<1>1. s \in State /\ s.p \in PipeType /\ Core(s, n)
  BY DEF Core, State
<1>2. /\ p1 \in PipeType /\ p1.phase = "shuttingDown" /\ p1.loop = s.p.loop /\ p1.parts = s.p.parts
      /\ p1.current = s.p.current /\ p1.written = s.p.written /\ p1.action = action
      /\ p1.isError = isError /\ p1.result = s.p.result
  BY Zenon, <1>1 DEF PipeType, MayEnd
<1>3. f = [s EXCEPT !.p = p1]
  BY Zenon, <1>1 DEF State, Begins
<1> HIDE DEF p1, f
<1>4. f \in State /\ SameStreams(s, f) /\ f.j = s.j /\ f.p = p1
  BY <1>1, <1>2, <1>3 DEF State, SameStreams
<1>5. EndsWell(p1) <=> ~isError
  BY <1>2 DEF EndsWell
<1>6. /\ s.p.parts = {} /\ s.p.action = "none" /\ s.p.result = "pending"
      /\ \A kind \in WaitKinds : ~Has(s.j, kind)
  BY <1>1 DEF Core, PhaseInv
<1>7. LoopInv(s.j, p1) /\ SourceInv(s.r, p1) /\ RoomInv(s.r, s.w, p1, s.j)
  BY <1>1, <1>2 DEF Core, LoopInv, SourceInv, RoomInv
<1>8. PhaseInv(s.r, s.w, p1, s.j)
  BY <1>1, <1>2, <1>5 DEF Core, PhaseInv, MayEnd
<1>9. WriteInv(s.calls, s.w, s.r, p1, s.j, n)
  <2>1. WriteInv(s.calls, s.w, s.r, s.p, s.j, n)
    BY DEF Core
  <2>. QED  BY <1>2, <2>1 DEF WriteInv
<1>10. BalanceInv(s.calls, s.w, s.r, p1, s.j, n)
  <2>1. Working(s.w, s.r, p1) => Working(s.w, s.r, s.p)
    BY <1>6 DEF Working
  <2>. QED  BY <2>1 DEF Balance, BalanceInv
<1>11. KnownInv(s.w, s.r, p1, s.j, n)
  <2>1. \A c : Known(s.w, p1, s.j, c) <=> Known(s.w, s.p, s.j, c)
    BY <1>2 DEF Known
  <2>. QED  BY <1>1, <1>2, <2>1 DEF Core, KnownInv
<1>12. EndInv(s.calls, s.w, p1, s.j, n)
  BY <1>2, <1>5, <1>6 DEF EndInv, WaitKinds, MayEnd
<1>13. Core(f, n) /\ Balance(f, n)
  BY <1>1, <1>4, <1>7, <1>8, <1>9, <1>10, <1>11, <1>12 DEF Core, Balance, SameStreams
<1>. QED  BY <1>2, <1>4, <1>13 DEF Down, ReadyWaits, Unlocked, SameStreams, f

\* shutdownWithAction() and shutdown() do nothing the second time.
LEMMA ShutdownKeeps ==
  ASSUME NEW n, NEW s, Core(s, n), Balance(s, n), ReadyWaits(s),
         NEW action, NEW isError, s.p.phase = "piping" => MayEnd(s, n, action, isError)
  PROVE  LET f == Shutdown(s, action, isError)
         IN  /\ s.p.phase = "piping" => Down(f, n)
             /\ s.p.phase # "piping" => f = s
             /\ s.p.loop = "off" => f.p.loop = "off"
<1> DEFINE f == Shutdown(s, action, isError)   b == Begins(s, action, isError)
<1>1. CASE s.p.phase # "piping"
  BY <1>1 DEF Shutdown
<1>2. CASE s.p.phase = "piping"
  <2>1. f = IF W!Accepts(s.w) THEN WaitForWritesToFinish(b, 0) ELSE DoTheRest(b)
    BY <1>2 DEF Shutdown, Begins
  <2>2. Down(b, n) /\ b.p.loop = s.p.loop /\ SameStreams(s, b)
    BY <1>2, BeginsKeeps
  <2> HIDE DEF b, f
  <2>3. CASE W!Accepts(s.w)
    <3>1. 0 \in Nat /\ f = WaitForWritesToFinish(b, 0)
      BY <2>1, <2>3
    <3>. QED  BY <1>2, <2>2, <3>1, WaitKeeps DEF f
  <2>4. CASE ~W!Accepts(s.w)
    <3>1. EndReached(b, n) /\ f = DoTheRest(b)
      BY <2>1, <2>2, <2>4 DEF EndReached, SameStreams
    <3>. QED  BY <1>2, <2>2, <3>1, DoTheRestKeeps DEF f
  <2>. QED  BY <2>3, <2>4
<1>. QED  BY <1>1, <1>2

\* The pipe's three reasons to end, but for the signal.
StaysOff(s, f) == s.p.loop = "off" => f.p.loop = "off"

LEMMA ReasonsToEnd ==
  ASSUME NEW n, NEW s, Core(s, n), Balance(s, n), ReadyWaits(s), NEW f,
         \/ f = SourceErrored(s) \/ f = DestinationErrored(s)
         \/ f = Shutdown(s, "signal", TRUE)
         \/ /\ f = SourceClosed(s) /\ s.r.state = "closed"
            /\ s.calls.closed \/ (s.w.state = "writable" /\ W!CloseQueuedOrInFlight(s.w))
                 => Reached(s.calls, s.w) = n
  PROVE  /\ s.p.phase = "piping" => Down(f, n)
         /\ s.p.phase # "piping" => f = s
         /\ StaysOff(s, f)
<1>1. CASE f = SourceErrored(s)
  <2> DEFINE a == ActionUnless(s, "abort")   e == TRUE
  <2>1. a \in {"none", "abort"} /\ f = Shutdown(s, a, e)
    BY <1>1 DEF ActionUnless, SourceErrored
  <2>2. MayEnd(s, n, a, e)
    BY <2>1 DEF MayEnd, Parts
  <2> HIDE DEF a, e
  <2>. QED  BY <2>1, <2>2, ShutdownKeeps DEF StaysOff
<1>2. CASE f = DestinationErrored(s)
  <2> DEFINE a == ActionUnless(s, "cancel")   e == TRUE
  <2>1. a \in {"none", "cancel"} /\ f = Shutdown(s, a, e)
    BY <1>2 DEF ActionUnless, DestinationErrored
  <2>2. MayEnd(s, n, a, e)
    BY <2>1 DEF MayEnd, Parts
  <2> HIDE DEF a, e
  <2>. QED  BY <2>1, <2>2, ShutdownKeeps DEF StaysOff
<1>3. CASE f = Shutdown(s, "signal", TRUE)
  <2> DEFINE e == TRUE
  <2>1. MayEnd(s, n, "signal", e)
    BY DEF MayEnd
  <2>2. f = Shutdown(s, "signal", e)
    BY <1>3
  <2> HIDE DEF e
  <2>. QED  BY <2>2, <2>1, ShutdownKeeps DEF StaysOff
<1>4. CASE /\ f = SourceClosed(s) /\ s.r.state = "closed"
           /\ s.calls.closed \/ (s.w.state = "writable" /\ W!CloseQueuedOrInFlight(s.w))
                => Reached(s.calls, s.w) = n
  <2> DEFINE a == ActionUnless(s, "close")   e == FALSE
  <2>1. a \in {"none", "close"} /\ f = Shutdown(s, a, e)
    BY <1>4 DEF ActionUnless, SourceClosed
  <2>2. MayEnd(s, n, a, e)
    BY <1>4, <2>1 DEF MayEnd, Parts
  <2> HIDE DEF a, e
  <2>. QED  BY <2>1, <2>2, ShutdownKeeps DEF StaysOff
<1>. QED  BY Zenon, <1>1, <1>2, <1>3, <1>4

-----------------------------------------------------------------------------
(* The jobs.                                                                *)

\* A pipe that has begun, between two steps.
Kept(s, n) ==
  /\ Core(s, n) /\ Balance(s, n) /\ ReadyWaits(s) /\ PipingInv(s) /\ Unlocked(s)
  /\ s.p.phase # "idle"

LEMMA KeptHolds ==
  ASSUME NEW n, NEW s
  PROVE  /\ Down(s, n) => Kept(s, n)
         /\ Kept(s, n) => PipeInv(s, n)
BY DEF Down, Kept, PipeInv, PipingInv, RestInv, Unlocked

\* A step that leaves the streams alone.
LEMMA StaysKept ==
  ASSUME NEW n, NEW s, Kept(s, n), NEW f, Core(f, n), Balance(f, n), SameStreams(s, f),
         f.p.phase = s.p.phase, f.p.loop = "ready" => s.p.loop = "ready" \/ s.w.ready = "pending"
  PROVE  Kept(f, n)
BY DEF Kept, SameStreams, ReadyWaits, PipingInv, Unlocked

LEMMA PushedKept ==
  ASSUME NEW n, NEW s, Kept(s, n), NEW kind, NEW arg, MayPush(s, n, kind, arg)
  PROVE  Kept(Push(s, kind, arg), n)
<1> DEFINE f == Push(s, kind, arg)
<1>1. Core(s, n) /\ Balance(s, n) /\ s \in State /\ <<kind, arg>> \in Job
  BY DEF Kept, Core, MayPush
<1>2. Core(f, n) /\ Balance(f, n)
  BY <1>1, PushKeeps
<1>3. SameStreams(s, f) /\ f.p = s.p
  BY <1>1, PushIs
<1> HIDE DEF f
<1>. QED  BY <1>2, <1>3, StaysKept DEF f

\* The loop waits for the writer.
LEMMA PipeStepKeeps ==
  ASSUME NEW n, NEW s, Kept(s, n), s.p.loop # "read", NoLoopJob(s.j)
  PROVE  Kept(PipeStep(s), n)
<1> DEFINE f == PipeStep(s)
<1>1. /\ Core(s, n) /\ Balance(s, n) /\ DestinationInv(s.w)
      /\ s.p.phase = "piping" => s.w.locked
  BY DEF Kept, Core, PhaseInv
<1>2. CASE s.p.phase # "piping" \/ s.w.ready = "rejected"
  <2> DEFINE v == "off"
  <2>1. f = [s EXCEPT !.p.loop = v] /\ v \in {"off", "ready"} /\ v # "ready"
    BY <1>2 DEF PipeStep
  <2> HIDE DEF f, v
  <2>2. /\ Core(f, n) /\ (Balance(s, n) => Balance(f, n))
        /\ SameStreams(s, f) /\ Notes(s, f) /\ f.p.loop = v
    BY <1>1, <2>1, LoopEnds
  <2>. QED  BY Zenon, <1>1, <2>1, <2>2, StaysKept DEF Notes, SameStanding, f
<1>3. CASE s.p.phase = "piping" /\ s.w.ready = "fulfilled"
  <2>1. HasRoom(s.w)
    <3>1. s.w.locked /\ ~W!CloseQueuedOrInFlight(s.w) /\ s.w.state # "closed"
      BY <1>1, <1>3 DEF Kept, PipingInv
    <3>2. s.w.state = "writable"
      BY <1>1, <1>3, <3>1 DEF DestinationInv, ReadyFollows, W!Type
    <3>3. ~W!Backpressure(s.w)
      BY <1>1, <1>3, <3>1, <3>2 DEF DestinationInv, ReadyFollows
    <3> DEFINE a == Len(W!QueuedChunks(s.w))
    <3>4. a \in Nat /\ SinkHighWaterMark \in Nat /\ ~(a >= SinkHighWaterMark)
      BY <1>1, <3>3, HeadOfQueue, PipeAssumption DEF W!Backpressure
    <3>5. a < SinkHighWaterMark
      <4> HIDE DEF a
      <4>. QED  BY <3>4
    <3>. QED  BY <3>5 DEF HasRoom
  <2>2. f = Push([s EXCEPT !.p.loop = "job"], "ready", None)
    BY <1>3 DEF PipeStep
  <2> HIDE DEF f
  <2>3. /\ Core(f, n) /\ (Balance(s, n) => Balance(f, n))
        /\ SameStreams(s, f) /\ Notes(s, f) /\ f.p.loop = "job"
    BY <1>1, <2>1, <2>2, LoopPushes
  <2>. QED  BY <1>1, <2>3, StaysKept DEF Notes, SameStanding, f
<1>4. CASE s.p.phase = "piping" /\ s.w.ready \notin {"rejected", "fulfilled"}
  <2> DEFINE v == "ready"
  <2>1. f = [s EXCEPT !.p.loop = v] /\ v \in {"off", "ready"}
    BY <1>4 DEF PipeStep
  <2>2. s.w.ready = "pending"
    BY <1>1, <1>4 DEF DestinationInv, ReadyFollows, W!Type, W!Settlement
  <2> HIDE DEF f, v
  <2>3. /\ Core(f, n) /\ (Balance(s, n) => Balance(f, n))
        /\ SameStreams(s, f) /\ Notes(s, f) /\ f.p.loop = v
    BY <1>1, <2>1, LoopEnds
  <2>. QED  BY <1>1, <2>2, <2>3, StaysKept DEF Notes, SameStanding, f
<1>. QED  BY <1>2, <1>3, <1>4

\* The source moves under a pipe that has begun.
LEMMA MovedKept ==
  ASSUME NEW n, NEW s, Kept(s, n), NEW r \in R!Type, r.locked <=> s.r.locked,
         NEW n2, NEW f, Core(f, n2), Balance(f, n2), SourceMoved(s, f, r)
  PROVE  Kept(f, n2)
<1>1. f.r = [r EXCEPT !.answers = <<>>] /\ f.w = s.w /\ f.calls = s.calls /\ f.p.phase = s.p.phase
      /\ (f.p.loop = "ready" => s.p.loop = "ready")
  BY DEF SourceMoved
<1>2. f.r.locked <=> s.r.locked
  BY <1>1 DEF R!Type
<1>. QED  BY <1>1, <1>2 DEF Kept, ReadyWaits, PipingInv, Unlocked

\* The next chunk is asked for.
LEMMA ReadForPipeKeeps ==
  ASSUME NEW n, NEW s, Kept(s, n), s.p.loop = "job", NoLoopJob(s.j),
         s.r.state # "closed" => HasRoom(s.w)
  PROVE  Kept(ReadForPipe(s), n)
<1> DEFINE f == ReadForPipe(s)   x == Looped(s, "read")   r == R!ReadChunk(s.r)
<1>1. Core(s, n) /\ Balance(s, n) /\ s \in State /\ s.p.loop # "read"
  BY DEF Kept, Core
<1>2. /\ s.r \in R!Type /\ s.r.answers = <<>> /\ SourceShape(s.r) /\ s.r.requests = 0
      /\ s.r.queue \in Seq(Chunk)
  <2>1. s.r \in R!Type /\ s.r.requests \in Nat /\ SourceInv(s.r, s.p)
    BY <1>1 DEF Core, State, R!Type
  <2>. QED  BY <1>1, <2>1 DEF SourceInv, R!Type
<1>3. CASE ~s.r.locked
  <2> DEFINE v == "off"
  <2>1. f = [s EXCEPT !.p.loop = v] /\ v \in {"off", "ready"} /\ v # "ready"
    BY <1>3 DEF ReadForPipe
  <2> HIDE DEF f, v
  <2>2. /\ Core(f, n) /\ (Balance(s, n) => Balance(f, n))
        /\ SameStreams(s, f) /\ Notes(s, f) /\ f.p.loop = v
    BY <1>1, <2>1, LoopEnds
  <2>. QED  BY Zenon, <1>1, <2>1, <2>2, StaysKept DEF Notes, SameStanding, f
<1>4. CASE s.r.locked
  <2>1. f = WithSource(x, r)
    BY <1>4 DEF ReadForPipe, Looped
  <2>2. x \in State /\ SameStreams(s, x) /\ x.j = s.j /\ SameStanding(s.p, x.p)
        /\ x.p.loop = "read" /\ x.p.parts = s.p.parts /\ x.p.awaited = s.p.awaited
    BY Zenon, <1>1, LoopSet
  <2> HIDE DEF x
  <2>3. Core(x, n) /\ (Balance(s, n) => Balance(x, n))
    <3>1. /\ s.p.phase \in {"idle", "piping"} => x.p.parts = {} /\ x.p.awaited = None
          /\ EndsWell(s.p) /\ W!Accepts(s.w) => x.p.parts = {}
      BY <1>1, <2>2, PartsAre
    <3>. QED  BY <1>1, <1>2, <2>2, <3>1, BookKeeps
  <2>4. Kept(x, n) /\ x.r = s.r /\ x.p.phase = s.p.phase
    <3>1. x.p.phase = s.p.phase
      BY <2>2 DEF SameStanding
    <3>. QED  BY <1>1, <2>2, <2>3, <3>1, StaysKept DEF SameStreams
  <2>5. /\ r \in R!Type /\ SourceShape(r) /\ r.locked
        /\ \/ /\ s.r.state # "readable" /\ r.state = s.r.state /\ r.queue = s.r.queue
              /\ r.requests = 0 /\ r.answers \in {<<"closed">>, <<"errored">>}
           \/ /\ s.r.state = "readable" /\ s.r.queue # <<>> /\ r.queue = Tail(s.r.queue)
              /\ r.requests = 0 /\ r.answers = <<Head(s.r.queue)>>
           \/ /\ s.r.state = "readable" /\ s.r.queue = <<>> /\ r.queue = <<>>
              /\ r.state = "readable" /\ r.requests = 1 /\ r.answers = <<>>
    BY <1>2, <1>4, ReadKeeps
  <2> HIDE DEF f, r
  <2>6. CASE /\ s.r.state # "readable" /\ r.state = s.r.state /\ r.queue = s.r.queue
             /\ r.requests = 0 /\ r.answers \in {<<"closed">>, <<"errored">>}
    <3>1. PICK a \in {"closed", "errored"} : r.answers = <<a>>
      BY <2>6
    <3>2. Working(x.w, r, x.p) => Working(x.w, x.r, x.p) /\ r.queue = x.r.queue
      BY <2>4, <2>6 DEF Working
    <3>3. Core(f, n) /\ SourceMoved(x, f, r) /\ Balance(f, n)
      BY <1>1, <2>1, <2>2, <2>3, <2>4, <2>5, <2>6, <3>1, <3>2, SourceEnds
    <3>. QED  BY <1>4, <2>4, <2>5, <3>3, MovedKept DEF f
  <2>7. CASE /\ s.r.state = "readable" /\ s.r.queue # <<>> /\ r.queue = Tail(s.r.queue)
             /\ r.requests = 0 /\ r.answers = <<Head(s.r.queue)>>
    <3> DEFINE q == s.r.queue   t == r.queue   a == Len(q)   a2 == Len(t)   c == Head(q)
    <3>1. /\ a \in Nat \ {0} /\ c = q[1] /\ c \in Chunk /\ a2 = a - 1
          /\ \A i \in 1..(a - 1) : t[i] = q[i + 1]
      <4>1. a \in Nat \ {0} /\ c = q[1]
        BY <1>2, <2>7, EmptySeq, LenProperties
      <4>. QED  BY <1>2, <2>7, <4>1, HeadTailProperties
    <3>2. QueueOrder(s.r, n) /\ n \in 0..Len(Chunks) /\ n \in Nat /\ Len(Chunks) \in Nat
      BY <1>1, SourceNumbers DEF Core, OrderInv
    <3>3. \A i \in 1..a : q[i] = Chunks[n - a + i]
      BY Zenon, <3>2 DEF QueueOrder
    <3> HIDE DEF q, t, a, a2, c
    <3>4. c = Chunks[n - a + 1]
      BY <3>1, <3>3
    <3>5. ASSUME NEW i \in 1..a2  PROVE t[i] = Chunks[n - a2 + i]
      <4>1. i + 1 \in 1..a /\ i \in 1..(a - 1) /\ n - a + (i + 1) = n - a2 + i
        BY <3>1, <3>2
      <4>. QED  BY <3>1, <3>3, <4>1
    <3>6. n - a + 1 = n - a2 /\ n <= n
      BY <3>1, <3>2
    <3>7. QueueOrder(r, n)
      BY <3>5 DEF QueueOrder, a2, t
    <3>8. Core(f, n) /\ SourceMoved(x, f, r) /\ Balance(f, n)
      <4>1. /\ n - Len(x.r.queue) + 1 = n - Len(r.queue) /\ c = Chunks[n - Len(x.r.queue) + 1]
            /\ r.answers = <<c>> /\ x.r.state = "readable"
        BY <2>4, <2>7, <3>4, <3>6 DEF q, t, a, a2, c
      <4>. QED  BY ZenonT(40), <1>1, <2>1, <2>2, <2>3, <2>5, <2>7, <3>1, <3>2, <3>6, <3>7, <4>1, SourceTakes
    <3>. QED  BY <1>4, <2>4, <2>5, <3>8, MovedKept DEF f
  <2>8. CASE /\ s.r.state = "readable" /\ s.r.queue = <<>> /\ r.queue = <<>>
             /\ r.state = "readable" /\ r.requests = 1 /\ r.answers = <<>>
    <3>1. n \in 0..Len(Chunks) /\ n \in Nat /\ Len(<<>>) = 0
      BY <1>1, SourceNumbers
    <3>2. n - 0 <= n - 0 /\ \A i \in 1..0 : FALSE
      BY <3>1
    <3>3. Follows(x, n, r, n)
      BY <2>2, <2>4, <2>5, <2>8, <3>1, <3>2 DEF Follows, QueueOrder
    <3>4. Working(x.w, r, x.p) => Working(x.w, x.r, x.p) /\ n - Len(x.r.queue) = n - Len(r.queue)
      BY <2>4, <2>8 DEF Working
    <3>5. Core(f, n) /\ SourceMoved(x, f, r) /\ Balance(f, n)
      BY <1>1, <2>1, <2>3, <2>8, <3>3, <3>4, SourceQuiet
    <3>. QED  BY <1>4, <2>4, <2>5, <3>5, MovedKept DEF f
  <2>. QED  BY <2>5, <2>6, <2>7, <2>8 DEF f
<1>. QED  BY <1>3, <1>4

\* What is settled says nothing about the rest of the destination.
Settled(w, d) == [w EXCEPT !.settled = d]

LEMMA SettledKeeps ==
  ASSUME NEW w, DestinationInv(w), w.settled = <<>>, NEW d \in Seq(Chunk)
  PROVE  LET w2 == Settled(w, d)
         IN  /\ DestinationInv(w2) /\ w2.settled = d /\ [w2 EXCEPT !.settled = <<>>] = w
             /\ \A c \in CallsType : SinkCalled(c, w, w2) = c
             /\ w2.ready = w.ready /\ w2.closed = w.closed /\ w2.locked = w.locked
<1> DEFINE w2 == Settled(w, d)
<1>1. w \in W!Type
  BY DEF DestinationInv
<1>2. w2 \in W!Type /\ [w2 EXCEPT !.settled = <<>>] = w
  BY Zenon, <1>1 DEF W!Type, Settled
<1>3. /\ w2.settled = d /\ w2.queue = w.queue /\ w2.inFlight = w.inFlight /\ w2.state = w.state
      /\ w2.closeRequest = w.closeRequest /\ w2.locked = w.locked /\ w2.started = w.started
      /\ w2.pendingAbort = w.pendingAbort /\ w2.aborting = w.aborting /\ w2.ready = w.ready
      /\ w2.closed = w.closed /\ w2.close = w.close /\ w2.abort = w.abort /\ ~w2.broken
      /\ w2.algorithms = w.algorithms /\ w2.backpressure = w.backpressure
  BY <1>1 DEF W!Type, DestinationInv, Settled
<1> HIDE DEF w2
<1>4. W!QueuedChunks(w2) = W!QueuedChunks(w) /\ (W!Backpressure(w2) <=> W!Backpressure(w))
  BY <1>3 DEF W!QueuedChunks, W!Backpressure
<1>5. QueueShape(w2) /\ InFlightShape(w2) /\ AlgorithmsKept(w2) /\ PromisesOwed(w2) /\ ReadyFollows(w2)
  BY <1>3, <1>4 DEF DestinationInv, QueueShape, InFlightShape, AlgorithmsKept, PromisesOwed,
     ReadyFollows, Alive, W!CloseQueuedOrInFlight
<1>6. \A c \in CallsType : SinkCalled(c, w, w2) = c
  BY <1>3 DEF SinkCalled
<1>. QED  BY <1>2, <1>3, <1>5, <1>6 DEF DestinationInv, w2

\* The chunk of the pipe's only deferred write, which the job after it follows.
LEMMA WriteIsNext ==
  ASSUME NEW n, NEW s, Core(s, n), s.j # <<>>, NEW chunk, Head(s.j) = <<"write", chunk>>
  PROVE  /\ chunk = s.p.current /\ chunk \in Chunk /\ Has(s.j, "write")
         /\ ~Has(Popped(s).j, "write") /\ ~Has(Popped(s).j, "ready") /\ Popped(s).p.loop = "job"
<1> DEFINE t == Tail(s.j)   m == Len(s.j)   s2 == Popped(s)
<1>1. s \in State /\ s.j \in Seq(Job) /\ s2.j = t /\ s2.p = s.p /\ LoopInv(s.j, s.p)
  BY DEF Core, State, Popped
<1> HIDE DEF s2
<1>2. /\ m \in Nat \ {0} /\ Len(t) = m - 1 /\ \A i \in 1..(m - 1) : t[i] = s.j[i + 1]
      /\ Head(s.j) = s.j[1] /\ Head(s.j) \in Job
  BY <1>1, JobPopped
<1> HIDE DEF t, m
<1>3. 1 \in 1..m /\ s.j[1] = <<"write", chunk>>
  BY <1>2
<1>4. 2 \in 1..m /\ s.j[2][1] = "adoptRead" /\ chunk = s.p.current
  BY <1>1, <1>3 DEF LoopInv, m
<1>5. chunk \in Chunk
  <2>1. <<"write", chunk>> \in Job
    BY <1>2
  <2>. QED  BY <2>1 DEF Job, LoopKinds
<1>6. s.p.loop = "job"
  BY <1>1, <1>4 DEF LoopInv, LoopKinds, m
<1>7. ~Has(t, "ready")
  <2> SUFFICES ASSUME NEW i \in 1..Len(t), t[i][1] = "ready"  PROVE FALSE
    BY DEF Has
  <2>1. i + 1 \in 1..m /\ s.j[i + 1][1] = "ready"
    BY <1>2
  <2>2. i + 1 = 2
    BY <1>1, <1>4, <2>1 DEF LoopInv, LoopKinds, m
  <2>. QED  BY <1>4, <2>1, <2>2
<1>8. ~Has(t, "write")
  <2> SUFFICES ASSUME NEW i \in 1..Len(t), t[i][1] = "write"  PROVE FALSE
    BY DEF Has
  <2>1. i + 1 \in 1..m /\ s.j[i + 1][1] = "write" /\ i \in Nat /\ i >= 1
    BY <1>2
  <2>2. (i + 1) + 1 \in 1..m /\ s.j[(i + 1) + 1][1] = "adoptRead"
    BY <1>1, <2>1 DEF LoopInv, m
  <2>3. (i + 1) + 1 = 2
    BY <1>1, <1>4, <2>2 DEF LoopInv, LoopKinds, m
  <2>. QED  BY <2>1, <2>3
<1>9. Has(s.j, "write")
  BY <1>3 DEF Has, m
<1>. QED  BY <1>1, <1>4, <1>5, <1>6, <1>7, <1>8, <1>9 DEF s2

\* The chunk joins the destination's queue.
LEMMA ArrivedQueues ==
  ASSUME NEW n, NEW s, Core(s, n), Balance(s, n), s.p.phase # "done", NEW chunk,
         s.j # <<>>, Head(s.j) = <<"write", chunk>>, W!Accepts(s.w),
         NEW w, DestinationInv(w), Queues(s.w, w, chunk)
  PROVE  LET s2 == Popped(s)
         IN  /\ Core(Arrived(s2, w), n) /\ Balance(Arrived(s2, w), n)
             /\ SinkCalled(s2.calls, s2.w, w) \in CallsType
             /\ SinkCalled(s2.calls, s2.w, w).closed = s.calls.closed
<1> DEFINE s2 == Popped(s)
           f == Arrived(s2, w)   w0 == [w EXCEPT !.settled = <<>>]   c == s.calls
           c2 == SinkCalled(c, s.w, w)
           q == W!QueuedChunks(s.w)   q2 == W!QueuedChunks(w)
           e == Reached(c, s.w)   e2 == Reached(c2, w)   k == Len(s.r.queue)
<1>1. /\ Core(s2, n) /\ SameStreams(s, s2) /\ s2.p = s.p
  BY ZenonT(40), PopKeeps
<1>2. /\ chunk = s.p.current /\ chunk \in Chunk /\ Has(s.j, "write")
      /\ ~Has(s2.j, "write") /\ ~Has(s2.j, "ready") /\ s2.p.loop = "job"
  BY WriteIsNext
<1> HIDE DEF s2
<1>3. /\ s \in State /\ s2 \in State /\ c \in CallsType /\ DestinationInv(s.w) /\ s.w.settled = <<>>
      /\ s2.w = s.w /\ s2.r = s.r /\ s2.calls = c /\ s2.j \in Seq(Job)
  BY <1>1 DEF Core, State, SameStreams
<1>4. /\ e + 1 + k <= n /\ chunk = Chunks[e + 1]
  BY <1>2 DEF Core, WriteInv
<1>5. SinkGiven(c, c2, s.w, w)
  <2>1. Len(s.r.queue) \in Nat /\ OrderInv(c, s.w, s.r, n) /\ ClosedInv(c, s.w)
    BY SourceNumbers DEF Core
  <2>2. chunk = Chunks[Reached(c, s.w) + 1]
    BY <1>4
  <2> HIDE DEF c2, e
  <2>. QED  BY <1>2, <1>3, <2>1, <2>2, SinkQueues DEF c2
<1>6. c2 \in CallsType /\ c2.closed = c.closed /\ e2 = e + 1
  BY <1>5 DEF SinkGiven
<1>7. DestinationInv(w0) /\ w0.settled = <<>> /\ SameDestination(w, w0)
  BY ClearKeeps
<1>8. /\ f \in State /\ f.r = s.r /\ f.p = s.p /\ f.w = w0 /\ f.j = s2.j /\ f.calls = c2
  <2>1. w.settled = <<>>
    BY DEF Queues
  <2>2. s2.j \o Adopted(<<>>) = s2.j
    BY Zenon, <1>3, JobsAdopted, EmptySeq
  <2>3. SinkCalled(s2.calls, s2.w, w) \in CallsType
    BY <1>3, <1>6
  <2> HIDE DEF f, w0
  <2>4. /\ f \in State /\ f.r = s2.r /\ f.p = s2.p /\ f.w = w0 /\ f.j = s2.j \o Adopted(w.settled)
        /\ f.calls = SinkCalled(s2.calls, s2.w, w)
    BY Zenon, <1>3, <2>3, ArrivedIs DEF f, w0
  <2>. QED  BY <1>1, <1>3, <2>1, <2>2, <2>4
<1>9. /\ Len(q) \in Nat /\ q2 = Append(q, chunk) /\ Len(q2) = Len(q) + 1
      /\ \A i \in 1..Len(q) : q2[i] = q[i]
      /\ q2[Len(q) + 1] = chunk
  <2>1. q \in Seq(Chunk) /\ Len(q) \in Nat
    BY <1>3, HeadOfQueue
  <2>2. q2 = Append(q, chunk)
    BY DEF Queues
  <2> HIDE DEF q, q2
  <2>. QED  BY <1>2, <2>1, <2>2, AppendProperties
<1> HIDE DEF f, w0, c2
<1>10. /\ w0.state = "writable" /\ w0.inFlight = w.inFlight /\ w0.locked = s.w.locked
       /\ W!QueuedChunks(w0) = q2 /\ W!Accepts(w0) /\ ~W!CloseQueuedOrInFlight(w0)
       /\ Alive(w0) /\ Base(c2, w0) = Base(c2, w) /\ Reached(c2, w0) = e2
       /\ W!Accepts(w)
  BY <1>7 DEF SameDestination, Base, Reached, Queues, W!Accepts, Alive
<1>11. LoopInv(f.j, f.p) /\ SourceInv(f.r, f.p)
  BY <1>1, <1>3, <1>8 DEF Core
<1>12. RoomInv(f.r, f.w, f.p, f.j)
  <2>1. HasRoom(s.w) /\ SinkHighWaterMark \in Nat
    BY <1>2, PipeAssumption DEF Core, RoomInv
  <2> DEFINE a == Len(q)   a2 == Len(q2)
  <2>2. a < SinkHighWaterMark /\ a2 = a + 1 /\ a \in Nat
    BY <1>9, <2>1 DEF HasRoom
  <2> HIDE DEF a, a2
  <2>3. a2 <= SinkHighWaterMark
    BY <2>1, <2>2
  <2>. QED  BY <1>1, <1>2, <1>8, <1>10, <2>3 DEF RoomInv, a2
<1>13. PhaseInv(f.r, f.w, f.p, f.j)
  <2>1. PhaseInv(s2.r, s2.w, s2.p, s2.j)
    BY <1>1 DEF Core
  <2>. QED  BY <1>1, <1>3, <1>8, <1>10, <2>1 DEF PhaseInv
<1>14. OrderInv(f.calls, f.w, f.r, n)
  <2>1. /\ n \in 0..Len(Chunks) /\ QueueOrder(s.r, n) /\ n \in Nat /\ e \in Nat /\ k \in Nat
    BY Zenon, SourceNumbers DEF Core, OrderInv
  <2>2. e2 + k <= n
    <3> HIDE DEF e, e2, k
    <3>. QED  BY <1>4, <1>6, <2>1
  <2>. QED  BY <1>5, <1>8, <1>10, <2>1, <2>2 DEF OrderInv, SinkGiven
<1>15. ClosedInv(f.calls, f.w)
  BY <1>5, <1>7, <1>8 DEF SinkGiven, ClosedInv, SameDestination
<1>16. WriteInv(f.calls, f.w, f.r, f.p, f.j, n)
  BY <1>2, <1>8 DEF WriteInv
<1>17. KnownInv(f.w, f.r, f.p, f.j, n)
  <2>1. KnownInv(s2.w, s2.r, s2.p, s2.j, n)
    BY <1>1 DEF Core
  <2>2. ASSUME NEW x, Known(w0, s.p, s2.j, x)  PROVE Known(s.w, s.p, s2.j, x) \/ x = s.p.current
    <3>1. ASSUME NEW i \in 1..Len(q2), q2[i] = x
          PROVE  (\E l \in 1..Len(q) : q[l] = x) \/ x = chunk
      <4>1. i \in 1..Len(q) \/ i = Len(q) + 1
        BY <1>9, <3>1
      <4>. QED  BY <1>9, <3>1, <4>1
    <3>. QED  BY <1>2, <1>10, <2>2, <3>1 DEF Known
  <2>. QED  BY <1>1, <1>2, <1>3, <1>8, <2>1, <2>2 DEF KnownInv
<1>18. EndInv(f.calls, f.w, f.p, f.j, n)
  <2>1. EndInv(s2.calls, s2.w, s2.p, s2.j, n) /\ ClosedInv(c, s.w)
    BY <1>1 DEF Core
  <2>2. ~c.closed
    BY <2>1 DEF ClosedInv, W!Accepts, W!CloseQueuedOrInFlight, Alive
  <2>. QED  BY <1>1, <1>2, <1>3, <1>6, <1>8, <1>10, <2>1, <2>2 DEF EndInv
<1>19. BalanceInv(f.calls, f.w, f.r, f.p, f.j, n)
  <2> SUFFICES ASSUME Working(w0, s.r, s.p)  PROVE e2 + k + 0 = n
    BY <1>2, <1>8, <1>10 DEF BalanceInv
  <2>1. Working(s.w, s.r, s.p)
    BY DEF Working
  <2>2. e + k + 1 = n
    BY <1>2, <2>1 DEF Balance, BalanceInv
  <2>3. n \in Nat /\ e \in Nat /\ k \in Nat
    BY SourceNumbers
  <2> HIDE DEF e, e2, k
  <2>. QED  BY <1>6, <2>2, <2>3
<1>20. Core(f, n) /\ Balance(f, n)
  BY <1>7, <1>8, <1>11, <1>12, <1>13, <1>14, <1>15, <1>16, <1>17, <1>18, <1>19 DEF Core, Balance
<1>. QED  BY <1>3, <1>6, <1>20 DEF f, c2, s2

\* The deferred write: the chunk is queued, or its promise is settled at once.
LEMMA WriteChunkKeeps ==
  ASSUME NEW n, NEW s, Kept(s, n), NEW chunk, s.j # <<>>, Head(s.j) = <<"write", chunk>>
  PROVE  Kept(WriteChunk(Popped(s), chunk), n)
<1> DEFINE s2 == Popped(s)   w == W!Write(s.w, chunk)   f == WriteChunk(s2, chunk)
<1>1. /\ Core(s, n) /\ Balance(s, n) /\ ReadyWaits(s) /\ PipingInv(s) /\ Unlocked(s)
      /\ s.p.phase # "idle" /\ s \in State
      /\ DestinationInv(s.w) /\ s.w.settled = <<>> /\ s.calls \in CallsType
  BY DEF Kept, Core, State
<1>2. Core(s2, n) /\ SameStreams(s, s2) /\ s2.p = s.p
  BY ZenonT(40), <1>1, PopKeeps
<1>3. /\ chunk = s.p.current /\ chunk \in Chunk
      /\ ~Has(s2.j, "write") /\ s2.p.loop = "job"
  BY <1>1, WriteIsNext
<1>4. f = IF ~s2.w.locked THEN Push(s2, "settle", chunk) ELSE WithDestination(s2, W!Write(s2.w, chunk))
  BY DEF WriteChunk
<1> HIDE DEF s2
<1>5. s2.w = s.w /\ s2.r = s.r /\ s2.calls = s.calls /\ s2 \in State
  BY <1>2 DEF SameStreams, Core
<1>6. Read(s.r, n, chunk)
  BY <1>1, <1>3 DEF Core, KnownInv
<1>7. ASSUME NEW kind \in {"adopt", "settle"}, NEW g, g = Push(s2, kind, chunk), ~Working(s.w, s.r, s.p)
      PROVE  Core(g, n) /\ SameStreams(s2, g) /\ g.p = s.p /\ Kept(g, n)
  <2>1. <<kind, chunk>> \in Job
    BY <1>3 DEF Job
  <2>2. MayPush(s2, n, kind, chunk)
    BY <1>3, <1>5, <1>6, <2>1 DEF MayPush, LoopKinds, WaitKinds
  <2>3. Core(g, n)
    BY <1>2, <1>7, <2>2, PushKeeps
  <2>4. SameStreams(s2, g) /\ g.p = s2.p
    BY <1>5, <1>7, <2>1, PushIs
  <2>5. Balance(g, n)
    BY <1>2, <1>5, <1>7, <2>4 DEF Balance, BalanceInv, SameStreams
  <2>6. SameStreams(s, g) /\ g.p = s.p
    BY <1>2, <2>4 DEF SameStreams
  <2>. QED  BY <2>3, <2>4, <2>5, <2>6, StaysKept
<1>8. CASE ~s.w.locked
  <2>1. f = Push(s2, "settle", chunk)
    BY <1>4, <1>5, <1>8
  <2>2. s.p.phase = "done"
    BY <1>1, <1>8 DEF Core, PhaseInv, State, PipeType
  <2>3. ~Working(s.w, s.r, s.p)
    BY <2>2 DEF Working
  <2> HIDE DEF f
  <2>. QED  BY <1>7, <2>1, <2>3 DEF f, s2
<1>9. CASE s.w.locked /\ W!Accepts(s.w)
  <2>1. f = WithDestination(s2, w)
    BY <1>4, <1>5, <1>9
  <2>2. DestinationInv(w) /\ Queues(s.w, w, chunk)
    BY Zenon, <1>1, <1>3, <1>9, WriteKeeps
  <2> HIDE DEF w, f
  <2>3. s.p.phase # "done"
    BY <1>1, <1>9 DEF Unlocked
  <2>4. /\ Core(Arrived(s2, w), n) /\ Balance(Arrived(s2, w), n)
        /\ SinkCalled(s2.calls, s2.w, w) \in CallsType
        /\ SinkCalled(s2.calls, s2.w, w).closed = s.calls.closed
    BY <1>1, <1>9, <2>2, <2>3, ArrivedQueues DEF s2
  <2>5. Core(f, n) /\ Balance(f, n) /\ Destined(s2, f, w)
    BY <1>3, <1>5, <2>1, <2>2, <2>4, DestinationTells
  <2>6. /\ f.w.state = "writable" /\ ~W!CloseQueuedOrInFlight(f.w)
        /\ f.calls.closed = s.calls.closed /\ f.p.phase = s.p.phase
    BY <1>2, <2>2, <2>4, <2>5, ClearKeeps DEF Destined, SameDestination, Queues, Notes, SameStanding
  <2>7. ~s.calls.closed
    BY <1>1, <1>9 DEF Core, ClosedInv, W!Accepts, W!CloseQueuedOrInFlight, Alive
  <2>8. Kept(f, n)
    BY <1>1, <2>3, <2>5, <2>6, <2>7 DEF Kept, PipingInv, Unlocked, Destined
  <2>. QED  BY <2>8 DEF f, s2
<1>10. CASE s.w.locked /\ ~W!Accepts(s.w)
  <2> DEFINE g == Push(s2, "adopt", chunk)   a == Arrived(s2, w)   t == Append(s2.j, <<"adopt", chunk>>)
  <2>1. f = WithDestination(s2, w)
    BY <1>4, <1>5, <1>10
  <2>2. w = Settled(s.w, <<chunk>>)
    BY Zenon, <1>1, <1>3, <1>10, WriteKeeps DEF Settled
  <2>3. <<chunk>> \in Seq(Chunk)
    BY <1>3
  <2>4. /\ DestinationInv(w) /\ w.settled = <<chunk>> /\ [w EXCEPT !.settled = <<>>] = s.w
        /\ SinkCalled(s.calls, s.w, w) = s.calls
        /\ w.ready = s.w.ready /\ w.closed = s.w.closed /\ w.locked = s.w.locked
    <3> DEFINE d == <<chunk>>
    <3>1. w = Settled(s.w, d) /\ d \in Seq(Chunk)
      BY <2>2, <2>3
    <3> HIDE DEF w, d
    <3>2. /\ DestinationInv(w) /\ w.settled = d /\ [w EXCEPT !.settled = <<>>] = s.w
          /\ \A c \in CallsType : SinkCalled(c, s.w, w) = c
          /\ w.ready = s.w.ready /\ w.closed = s.w.closed /\ w.locked = s.w.locked
      BY <1>1, <3>1, SettledKeeps
    <3>. QED  BY <1>1, <3>2 DEF d
  <2>5. ~Working(s.w, s.r, s.p)
    BY <1>10 DEF Working
  <2>6. Core(g, n) /\ SameStreams(s2, g) /\ g.p = s.p /\ Kept(g, n)
    BY <1>7, <2>5
  <2>7. g.j = t
    <3>1. <<"adopt", chunk>> \in Job
      BY <1>3 DEF Job
    <3>. QED  BY <1>5, <3>1, PushIs
  <2>8. s2.j \o Adopted(<<chunk>>) = t
    <3>1. Adopted(<<chunk>>) = <<<<"adopt", chunk>>>>
      BY DEF Adopted
    <3>2. s2.j \in Seq(Job) /\ <<"adopt", chunk>> \in Job
      BY <1>3, <1>5 DEF State, Job
    <3>. QED  BY Zenon, <3>1, <3>2, AppendIsConcat
  <2> HIDE DEF w, f, g, t
  <2>9. /\ a \in State /\ a.r = s.r /\ a.p = s.p /\ a.w = s.w /\ a.j = t /\ a.calls = s.calls
    <3>1. SinkCalled(s2.calls, s2.w, w) \in CallsType
      BY <1>1, <1>5, <2>4
    <3>2. /\ a \in State /\ a.r = s2.r /\ a.p = s2.p /\ a.w = [w EXCEPT !.settled = <<>>]
          /\ a.j = s2.j \o Adopted(w.settled) /\ a.calls = SinkCalled(s2.calls, s2.w, w)
      BY Zenon, <1>5, <2>4, <3>1, ArrivedIs
    <3>. QED  BY Zenon, <1>2, <1>5, <2>4, <2>8, <3>2
  <2> HIDE DEF a
  <2>10. a.r = g.r /\ a.w = g.w /\ a.p = g.p /\ a.j = g.j /\ a.calls = g.calls
    BY <1>5, <2>6, <2>7, <2>9 DEF SameStreams
  <2>11. Core(a, n) /\ Balance(a, n)
    BY <2>6, <2>9, <2>10 DEF Core, Balance, Kept
  <2>12. Core(f, n) /\ Balance(f, n) /\ Destined(s2, f, w)
    <3>1. SinkCalled(s2.calls, s2.w, w) \in CallsType
      BY <1>1, <1>5, <2>4
    <3>. QED  BY <1>3, <1>5, <2>1, <2>4, <2>11, <3>1, DestinationTells DEF a
  <2>13. f.w = s.w /\ f.r = s.r /\ f.calls = s.calls /\ f.p.phase = s.p.phase /\ ReadyWaits(f)
    BY <1>2, <1>5, <2>4, <2>12 DEF Destined, Notes, SameStanding
  <2>14. Kept(f, n)
    BY <1>1, <2>12, <2>13 DEF Kept, PipingInv, Unlocked
  <2>. QED  BY <2>14 DEF f, s2
<1>. QED  BY <1>8, <1>9, <1>10

\* The promise of a write settles.
LEMMA SettleKeeps ==
  ASSUME NEW n, NEW s, Kept(s, n), NEW chunk \in Chunk, MayPush(s, n, "settle", chunk)
  PROVE  Kept(CurrentWriteSettles(s, chunk), n)
<1> DEFINE x == s.p.written \cup {chunk}   p1 == [s.p EXCEPT !.written = x]
           s1 == [s EXCEPT !.p.written = @ \cup {chunk}]   f == CurrentWriteSettles(s, chunk)
<1>1. s \in State /\ s.p \in PipeType /\ Core(s, n) /\ Balance(s, n)
  BY DEF Kept, Core, State
<1>2. x \in SUBSET Chunk
  BY <1>1 DEF PipeType
<1>3. s1 = [s EXCEPT !.p = p1]
  BY <1>1 DEF State
<1>4. f = IF s.p.awaited = chunk THEN Push(s1, "waited", chunk) ELSE s1
  BY DEF CurrentWriteSettles
<1> HIDE DEF x, s1, f
<1>5. /\ p1 \in PipeType /\ p1.phase = s.p.phase /\ p1.loop = s.p.loop /\ p1.parts = s.p.parts
      /\ p1.current = s.p.current /\ p1.written = x /\ p1.action = s.p.action
      /\ p1.isError = s.p.isError /\ p1.result = s.p.result /\ p1.awaited = s.p.awaited
  BY <1>1, <1>2 DEF PipeType
<1> HIDE DEF p1
<1>6. s1 \in State /\ SameStreams(s, s1) /\ s1.j = s.j /\ s1.p = p1
  BY <1>1, <1>3, <1>5 DEF State, SameStreams
<1>7. EndsWell(p1) <=> EndsWell(s.p)
  BY <1>5 DEF EndsWell
<1>8. LoopInv(s.j, p1) /\ SourceInv(s.r, p1) /\ RoomInv(s.r, s.w, p1, s.j)
  BY <1>1, <1>5 DEF Core, LoopInv, SourceInv, RoomInv
<1>9. PhaseInv(s.r, s.w, p1, s.j) /\ WriteInv(s.calls, s.w, s.r, p1, s.j, n)
  BY <1>1, <1>5, <1>7 DEF Core, PhaseInv, WriteInv
<1>10. EndInv(s.calls, s.w, p1, s.j, n) /\ BalanceInv(s.calls, s.w, s.r, p1, s.j, n)
  BY <1>1, <1>5, <1>7 DEF Core, EndInv, Balance, BalanceInv, Working
<1>11. KnownInv(s.w, s.r, p1, s.j, n)
  <2>1. \A c : Known(s.w, p1, s.j, c) <=> Known(s.w, s.p, s.j, c) \/ c = chunk
    BY <1>5 DEF Known, x
  <2>2. Read(s.r, n, chunk) /\ (Has(s.j, "write") => chunk # s.p.current)
    BY DEF MayPush
  <2>3. KnownInv(s.w, s.r, s.p, s.j, n)
    BY <1>1 DEF Core
  <2>4. s.p.written \cup {None} \subseteq x \cup {None}
    BY DEF x
  <2>5. \A c \in Chunk : Known(s.w, p1, s.j, c) \/ c = p1.current => Read(s.r, n, c)
    BY <1>5, <2>1, <2>2, <2>3 DEF KnownInv
  <2>6. Has(s.j, "write") => ~Known(s.w, p1, s.j, p1.current)
    BY <1>5, <2>1, <2>2, <2>3 DEF KnownInv
  <2>7. \A i \in 1..Len(s.j) : s.j[i][1] = "waited" => s.j[i][2] \in p1.written \cup {None}
    BY <1>5, <2>3, <2>4 DEF KnownInv
  <2>. QED  BY <2>5, <2>6, <2>7 DEF KnownInv
<1>12. Core(s1, n) /\ Balance(s1, n)
  BY <1>1, <1>6, <1>8, <1>9, <1>10, <1>11 DEF Core, Balance, SameStreams
<1>13. Kept(s1, n)
  BY <1>5, <1>6, <1>12, StaysKept
<1>14. s.p.awaited = chunk => Kept(Push(s1, "waited", chunk), n)
  <2> SUFFICES ASSUME s.p.awaited = chunk  PROVE Kept(Push(s1, "waited", chunk), n)
    OBVIOUS
  <2>1. chunk # None
    BY PipeAssumption
  <2>2. s1.p.phase \notin {"idle", "piping"}
    BY <1>1, <1>5, <1>6, <2>1, PartsAre
  <2>3. <<"waited", chunk>> \in Job
    BY DEF Job
  <2>4. chunk \in s1.p.written
    BY <1>5, <1>6 DEF x
  <2>5. MayPush(s1, n, "waited", chunk)
    BY <2>2, <2>3, <2>4 DEF MayPush, LoopKinds
  <2>. QED  BY <1>13, <2>5, PushedKept
<1>. QED  BY <1>4, <1>13, <1>14 DEF f

\* The wait is over, unless another write has begun.
LEMMA WritesFinishedKeeps ==
  ASSUME NEW n, NEW s, Kept(s, n), NEW chunk, MayPush(s, n, "waited", chunk)
  PROVE  Kept(WritesFinished(s, chunk), n)
<1> DEFINE f == WritesFinished(s, chunk)
<1>1. /\ s \in State /\ s.p \in PipeType /\ Core(s, n) /\ s.p.phase \notin {"idle", "piping"}
      /\ chunk \in s.p.written \cup {None} /\ s.p.depth \in Nat
  BY DEF Kept, Core, State, MayPush, WaitKinds, PipeType
<1>2. CASE chunk # s.p.current
  <2> DEFINE d == s.p.depth + 1
  <2>1. f = WaitForWritesToFinish(s, d)
    BY <1>2 DEF WritesFinished
  <2>2. d \in Nat
    BY <1>1
  <2> HIDE DEF f, d
  <2>3. Down(s, n)
    BY <1>1 DEF Kept, Down, PipeType
  <2>. QED  BY <2>1, <2>2, <2>3, WaitKeeps, KeptHolds DEF f
<1>3. CASE chunk = s.p.current
  <2>1. f = Push(s, "rest", s.p.depth)
    BY <1>3 DEF WritesFinished
  <2>2. ~Has(s.j, "write")
    <3> SUFFICES ASSUME Has(s.j, "write")  PROVE FALSE
      OBVIOUS
    <3>1. ~Known(s.w, s.p, s.j, s.p.current)
      BY <1>1 DEF Core, KnownInv
    <3>2. s.p.current = None
      BY <1>1, <1>3, <3>1 DEF Known
    <3>3. PICK i \in 1..Len(s.j) : s.j[i][1] = "write"
      BY DEF Has
    <3>4. s.j[i] \in Job /\ s.j[i][2] = s.p.current
      BY <1>1, <3>3, ElementOfSeq DEF Core, LoopInv, State
    <3>5. s.j[i][2] \in Chunk
      BY <3>3, <3>4 DEF Job, LoopKinds
    <3>. QED  BY <3>2, <3>4, <3>5, PipeAssumption
  <2>3. <<"rest", s.p.depth>> \in Job
    BY <1>1 DEF Job
  <2>4. MayPush(s, n, "rest", s.p.depth)
    BY <1>1, <2>2, <2>3 DEF MayPush, LoopKinds
  <2>. QED  BY <2>1, <2>4, PushedKept
<1>. QED  BY <1>2, <1>3

\* The hops between the end of the wait and the action.
LEMMA RestKeeps ==
  ASSUME NEW n, NEW s, Kept(s, n), NEW k, MayPush(s, n, "rest", k)
  PROVE  Kept(IF k > 0 THEN Push(s, "rest", k - 1) ELSE DoTheRest(s), n)
<1>1. /\ k \in Nat /\ Core(s, n) /\ Balance(s, n) /\ s \in State
      /\ s.p.phase \in {"shuttingDown", "done"}
      /\ EndsWell(s.p) => ~Has(s.j, "write")
  <2>1. <<"rest", k>> \in Job
    BY DEF MayPush
  <2>2. k \in Nat
    BY <2>1 DEF Job, LoopKinds
  <2>. QED  BY <2>2 DEF Kept, Core, MayPush, WaitKinds, State, PipeType
<1>2. CASE k > 0
  <2> DEFINE l == k - 1
  <2>1. l \in Nat
    BY <1>1, <1>2
  <2>2. <<"rest", l>> \in Job
    BY <2>1 DEF Job
  <2>3. MayPush(s, n, "rest", l)
    <3> HIDE DEF l
    <3>. QED  BY <1>1, <2>2 DEF MayPush, LoopKinds
  <2>4. Kept(Push(s, "rest", l), n)
    <3> HIDE DEF l
    <3>. QED  BY <2>3, PushedKept
  <2>. QED  BY <1>2, <2>4
<1>3. CASE ~(k > 0)
  <2>1. Down(s, n)
    BY <1>1 DEF Kept, Down
  <2>2. EndReached(s, n)
    <3> SUFFICES ASSUME EndsWell(s.p), W!Accepts(s.w)  PROVE Reached(s.calls, s.w) = n
      BY DEF EndReached
    <3>1. CASE s.p.phase = "done"
      BY <1>1, <3>1 DEF Core, EndInv, W!Accepts
    <3>2. CASE s.p.phase # "done"
      <4>1. s.r.state = "closed" /\ s.r.queue = <<>> /\ s.p.action \in {"close", "none"}
        BY <1>1 DEF Core, PhaseInv, SourceInv, SourceShape
      <4>2. Working(s.w, s.r, s.p)
        BY <3>2, <4>1 DEF Working
      <4>3. Reached(s.calls, s.w) + Len(s.r.queue) + 0 = n
        BY <1>1, <4>2 DEF Balance, BalanceInv
      <4>4. Len(<<>>) = 0 /\ Reached(s.calls, s.w) \in Nat
        BY <1>1, SourceNumbers
      <4> DEFINE e == Reached(s.calls, s.w)   a == Len(s.r.queue)
      <4>5. e \in Nat /\ a = 0 /\ e + a + 0 = n
        BY <4>1, <4>3, <4>4
      <4> HIDE DEF e, a
      <4>6. e = n
        BY <4>5
      <4>. QED  BY <4>6 DEF e
    <3>. QED  BY <3>1, <3>2
  <2>. QED  BY <1>3, <2>1, <2>2, DoTheRestKeeps, KeptHolds
<1>. QED  BY <1>2, <1>3

\* The parts of the action that Promise.all() waits for.
LEMMA AllReactsKeeps ==
  ASSUME NEW n, NEW s, Kept(s, n), NEW ok \in BOOLEAN, MayPush(s, n, "all", ok)
  PROVE  Kept(AllReacts(s, ok), n)
<1> DEFINE k == IF ok /\ s.p.left > 0 THEN s.p.left - 1 ELSE 0
           x == Waited(s, k)   f == AllReacts(s, ok)
<1>1. Core(s, n) /\ Balance(s, n) /\ s.p.left \in 0..2
  BY DEF Kept, Core, State, PipeType
<1>2. k \in 0..2
  BY <1>1
<1>3. f = Push(x, "then", ok) \/ f = x
  BY DEF AllReacts, Waited
<1> HIDE DEF k, f
<1>4. /\ Core(x, n) /\ (Balance(s, n) => Balance(x, n))
      /\ SameStreams(s, x) /\ Notes(s, x) /\ x.p.loop = s.p.loop /\ x.j = s.j
  BY <1>1, <1>2, LeftKeeps
<1> HIDE DEF x
<1>5. x.p.phase = s.p.phase /\ (EndsWell(x.p) <=> EndsWell(s.p)) /\ x.w = s.w
  BY <1>4 DEF Notes, SameStanding, EndsWell, SameStreams
<1>6. Kept(x, n)
  BY <1>1, <1>4, <1>5, StaysKept
<1>7. <<"then", ok>> \in Job
  BY DEF Job
<1>8. MayPush(x, n, "then", ok)
  BY <1>5, <1>7 DEF MayPush, LoopKinds, WaitKinds
<1>9. Kept(Push(x, "then", ok), n)
  BY <1>6, <1>8, PushedKept
<1>. QED  BY <1>3, <1>6, <1>9 DEF f

\* A reason to end, found by a job.
LEMMA ReasonKeeps ==
  ASSUME NEW n, NEW s, Kept(s, n), NEW f,
         \/ f = SourceErrored(s) \/ f = DestinationErrored(s)
         \/ f = Shutdown(s, "signal", TRUE)
         \/ f = SourceClosed(s) /\ s.r.state = "closed"
  PROVE  Kept(f, n)
<1>1. Core(s, n) /\ Balance(s, n) /\ ReadyWaits(s)
  BY DEF Kept
<1>2. CASE s.p.phase = "piping"
  <2>1. ~(s.calls.closed \/ (s.w.state = "writable" /\ W!CloseQueuedOrInFlight(s.w)))
    BY <1>2 DEF Kept, PipingInv
  <2>3. \/ f = SourceErrored(s) \/ f = DestinationErrored(s)
        \/ f = Shutdown(s, "signal", TRUE)
        \/ /\ f = SourceClosed(s) /\ s.r.state = "closed"
           /\ s.calls.closed \/ (s.w.state = "writable" /\ W!CloseQueuedOrInFlight(s.w))
                => Reached(s.calls, s.w) = n
    BY Zenon, <2>1
  <2>2. Down(f, n)
    BY Zenon, <1>1, <1>2, <2>3, ReasonsToEnd
  <2>. QED  BY <2>2, KeptHolds
<1>3. CASE s.p.phase # "piping"
  <2>1. \A action, isError : Shutdown(s, action, isError) = s
    BY <1>3 DEF Shutdown
  <2>. QED  BY <2>1, Zenon DEF SourceErrored, DestinationErrored, SourceClosed
<1>. QED  BY <1>2, <1>3

\* Every job does what Perform says.
LEMMA PerformIs ==
  ASSUME NEW s, NEW arg
  PROVE  /\ Perform(s, "sourceErrored", arg) = SourceErrored(s)
         /\ Perform(s, "sourceClosed", arg) = SourceClosed(s)
         /\ Perform(s, "destinationErrored", arg) = DestinationErrored(s)
         /\ Perform(s, "ready", arg) = ReadForPipe(s)
         /\ Perform(s, "write", arg) = WriteChunk(s, arg)
         /\ Perform(s, "adoptRead", arg) = Push(s, "next", None)
         /\ Perform(s, "next", arg) = PipeStep(s)
         /\ Perform(s, "adopt", arg) = Push(s, "settle", arg)
         /\ Perform(s, "settle", arg) = CurrentWriteSettles(s, arg)
         /\ Perform(s, "waited", arg) = WritesFinished(s, arg)
         /\ Perform(s, "rest", arg) = IF arg > 0 THEN Push(s, "rest", arg - 1) ELSE DoTheRest(s)
         /\ Perform(s, "all", arg) = AllReacts(s, arg)
         /\ Perform(s, "then", arg) = Push(s, "finalize", arg)
         /\ Perform(s, "finalize", arg) = Finalize(s, arg)
BY DEF Perform

LEMMA JobKinds ==
  ASSUME NEW kind, NEW arg, <<kind, arg>> \in Job
  PROVE  \/ kind \in {"sourceErrored", "sourceClosed", "destinationErrored", "ready", "adoptRead", "next"}
            /\ arg = None
         \/ kind \in {"write", "adopt", "settle"} /\ arg \in Chunk
         \/ kind = "waited" /\ arg \in Chunk \cup {None}
         \/ kind = "rest" /\ arg \in Nat
         \/ kind \in {"all", "then", "finalize"} /\ arg \in BOOLEAN
BY DEF Job, LoopKinds

LEMMA PopBalance ==
  ASSUME NEW n, NEW s, Core(s, n), Balance(s, n), s.j # <<>>, Head(s.j)[1] # "write"
  PROVE  Balance(Popped(s), n)
<1> DEFINE s2 == Popped(s)   t == Tail(s.j)
<1>1. s \in State /\ s.j \in Seq(Job)
  BY DEF Core, State
<1>2. Has(t, "write") <=> Has(s.j, "write")
  BY <1>1, JobPopped
<1> HIDE DEF t
<1>3. SameStreams(s, s2) /\ s2.p = s.p /\ s2.j = t
  BY <1>1 DEF State, SameStreams, Popped, t
<1> HIDE DEF s2
<1>. QED  BY <1>2, <1>3 DEF Balance, BalanceInv, SameStreams, s2

\* One job is run to completion.
LEMMA PerformKeeps ==
  ASSUME NEW n, NEW s, Kept(s, n), NEW kind, NEW arg, s.j # <<>>, Head(s.j) = <<kind, arg>>
  PROVE  Kept(Perform(Popped(s), kind, arg), n)
<1> DEFINE s2 == Popped(s)   f == Perform(s2, kind, arg)
<1>1. /\ Core(s, n) /\ Balance(s, n) /\ ReadyWaits(s)
  BY DEF Kept
<1>2. /\ Core(s2, n) /\ SameStreams(s, s2) /\ s2.p = s.p
      /\ <<kind, arg>> \in Job
      /\ kind \notin {"write", "adoptRead"} => MayPush(s2, n, kind, arg)
      /\ kind # "write" /\ Balance(s, n) => Balance(s2, n)
      /\ kind \in LoopKinds => NoLoopJob(s2.j) /\ s2.p.loop = "job"
  <2>1. Core(s2, n) /\ SameStreams(s, s2) /\ s2.p = s.p
    BY ZenonT(40), <1>1, PopKeeps
  <2>2. <<kind, arg>> \in Job
    BY Zenon, <1>1, PopKeeps
  <2>3. kind \notin {"write", "adoptRead"} => MayPush(s2, n, kind, arg)
    BY Zenon, <1>1, PopKeeps
  <2>4. ASSUME kind # "write"  PROVE Balance(s2, n)
    <3>1. Head(s.j)[1] = kind
      OBVIOUS
    <3>. QED  BY <1>1, <2>4, <3>1, PopBalance
  <2>5. kind \in LoopKinds => NoLoopJob(s2.j) /\ s2.p.loop = "job"
    BY Zenon, <1>1, PopKeeps
  <2> HIDE DEF s2
  <2>. QED  BY <2>1, <2>2, <2>3, <2>4, <2>5
<1>3. kind = "write" => Kept(f, n)
  BY WriteChunkKeeps, PerformIs
<1> HIDE DEF s2
<1>4. kind # "write" => Kept(s2, n)
  BY <1>1, <1>2, StaysKept
<1>5. CASE kind \in {"sourceErrored", "sourceClosed", "destinationErrored"}
  <2>1. \/ f = SourceErrored(s2) \/ f = DestinationErrored(s2)
        \/ f = SourceClosed(s2) /\ kind = "sourceClosed"
    BY <1>5, PerformIs
  <2>2. kind = "sourceClosed" => s2.r.state = "closed"
    BY <1>2 DEF MayPush
  <2> HIDE DEF f
  <2>. QED  BY Zenon, <1>4, <1>5, <2>1, <2>2, ReasonKeeps DEF f, s2
<1>6. CASE kind = "ready"
  <2>1. f = ReadForPipe(s2)
    BY <1>6, PerformIs
  <2>2. (s2.r.state # "closed" => HasRoom(s2.w)) /\ s2.p.loop = "job" /\ NoLoopJob(s2.j)
    BY <1>2, <1>6 DEF MayPush, LoopKinds
  <2> HIDE DEF f
  <2>. QED  BY <1>4, <1>6, <2>1, <2>2, ReadForPipeKeeps DEF f, s2
<1>7. CASE kind = "adoptRead"
  <2>1. f = Push(s2, "next", None)
    BY <1>7, PerformIs
  <2>2. s2.p.loop = "job" /\ NoLoopJob(s2.j)
    BY <1>2, <1>7 DEF LoopKinds
  <2>3. <<"next", None>> \in Job
    BY DEF Job, LoopKinds
  <2>4. MayPush(s2, n, "next", None)
    BY <2>2, <2>3 DEF MayPush, LoopKinds, WaitKinds
  <2> HIDE DEF f
  <2>. QED  BY <1>4, <1>7, <2>1, <2>4, PushedKept DEF f, s2
<1>8. CASE kind = "next"
  <2>1. f = PipeStep(s2)
    BY <1>8, PerformIs
  <2>2. s2.p.loop # "read" /\ NoLoopJob(s2.j)
    BY <1>2, <1>8 DEF LoopKinds
  <2> HIDE DEF f
  <2>. QED  BY <1>4, <1>8, <2>1, <2>2, PipeStepKeeps DEF f, s2
<1>9. CASE kind = "adopt"
  <2>1. f = Push(s2, "settle", arg)
    BY <1>9, PerformIs
  <2>2. arg \in Chunk
    BY <1>2, <1>9, JobKinds
  <2>3. <<"settle", arg>> \in Job
    BY <2>2 DEF Job
  <2>4. MayPush(s2, n, "settle", arg)
    BY <1>2, <1>9, <2>3 DEF MayPush, LoopKinds, WaitKinds
  <2> HIDE DEF f
  <2>. QED  BY <1>4, <1>9, <2>1, <2>4, PushedKept DEF f, s2
<1>10. CASE kind = "settle"
  <2>1. f = CurrentWriteSettles(s2, arg)
    BY <1>10, PerformIs
  <2>2. arg \in Chunk
    BY <1>2, <1>10, JobKinds
  <2>3. MayPush(s2, n, "settle", arg)
    BY <1>2, <1>10
  <2> HIDE DEF f
  <2>. QED  BY <1>4, <1>10, <2>1, <2>2, <2>3, SettleKeeps DEF f, s2
<1>11. CASE kind = "waited"
  <2>1. f = WritesFinished(s2, arg)
    BY <1>11, PerformIs
  <2>2. MayPush(s2, n, "waited", arg)
    BY <1>2, <1>11
  <2> HIDE DEF f
  <2>. QED  BY <1>4, <1>11, <2>1, <2>2, WritesFinishedKeeps DEF f, s2
<1>12. CASE kind = "rest"
  <2>1. f = IF arg > 0 THEN Push(s2, "rest", arg - 1) ELSE DoTheRest(s2)
    BY <1>12, PerformIs
  <2>2. MayPush(s2, n, "rest", arg)
    BY <1>2, <1>12
  <2>3. Kept(IF arg > 0 THEN Push(s2, "rest", arg - 1) ELSE DoTheRest(s2), n)
    BY <1>4, <1>12, <2>2, RestKeeps
  <2>. QED  BY <2>1, <2>3 DEF s2
<1>13. CASE kind = "all"
  <2>1. f = AllReacts(s2, arg)
    BY <1>13, PerformIs
  <2>2. arg \in BOOLEAN
    BY <1>2, <1>13, JobKinds
  <2>3. MayPush(s2, n, "all", arg)
    BY <1>2, <1>13
  <2> HIDE DEF f
  <2>. QED  BY <1>4, <1>13, <2>1, <2>2, <2>3, AllReactsKeeps DEF f, s2
<1>14. CASE kind = "then"
  <2>1. f = Push(s2, "finalize", arg)
    BY <1>14, PerformIs
  <2>2. arg \in BOOLEAN
    BY <1>2, <1>14, JobKinds
  <2>3. <<"finalize", arg>> \in Job
    BY <2>2 DEF Job
  <2>4. MayPush(s2, n, "finalize", arg)
    BY <1>2, <1>14, <2>3 DEF MayPush, LoopKinds, WaitKinds
  <2> HIDE DEF f
  <2>. QED  BY <1>4, <1>14, <2>1, <2>4, PushedKept DEF f, s2
<1>15. CASE kind = "finalize"
  <2>1. f = Finalize(s2, arg)
    BY <1>15, PerformIs
  <2>2. arg \in BOOLEAN
    BY <1>2, <1>15, JobKinds
  <2>3. /\ s2.p.phase \in {"shuttingDown", "done"} /\ EndReached(s2, n)
    BY <1>2, <1>15 DEF MayPush, WaitKinds, EndReached, Core, State, PipeType
  <2>4. Down(s2, n)
    BY <1>4, <1>15, <2>3 DEF Kept, Down
  <2> HIDE DEF f
  <2>5. Down(f, n)
    BY <2>1, <2>2, <2>3, <2>4, FinalizeKeeps
  <2>. QED  BY <2>5, KeptHolds DEF f, s2
<1>16. kind = "write" \/ kind \in {"sourceErrored", "sourceClosed", "destinationErrored", "ready", "adoptRead",
          "next", "adopt", "settle", "waited", "rest", "all", "then", "finalize"}
  BY <1>2, JobKinds
<1>. QED  BY <1>3, <1>5, <1>6, <1>7, <1>8, <1>9, <1>10, <1>11, <1>12, <1>13, <1>14, <1>15, <1>16 DEF s2

-----------------------------------------------------------------------------
(* The actions, on the record of everything that a step may change.         *)

LEMMA BegunIsKept ==
  ASSUME NEW n, NEW s, PipeInv(s, n), s.p.phase # "idle"
  PROVE  Kept(s, n)
BY DEF PipeInv, RestInv, Kept, Unlocked

LEMMA JobRun ==
  ASSUME NEW n, NEW s, PipeInv(s, n), s.j # <<>>
  PROVE  PipeInv(Perform(Popped(s), Head(s.j)[1], Head(s.j)[2]), n)
<1> DEFINE kind == Head(s.j)[1]   arg == Head(s.j)[2]
<1>1. Kept(s, n)
  BY BegunIsKept DEF PipeInv, RestInv
<1>2. Head(s.j) \in Job
  BY <1>1, JobPopped DEF Kept, Core, State
<1>3. Head(s.j) = <<kind, arg>>
  BY <1>2 DEF Job
<1> HIDE DEF kind, arg
<1>4. Kept(Perform(Popped(s), kind, arg), n)
  BY <1>1, <1>3, PerformKeeps
<1>. QED  BY <1>4, KeptHolds DEF kind, arg

LEMMA SignalKeeps ==
  ASSUME NEW n, NEW s, PipeInv(s, n), NEW f, f = Shutdown(s, "signal", TRUE)
  PROVE  PipeInv(f, n)
<1>1. CASE s.p.phase = "idle"
  <2>1. f = s
    BY <1>1 DEF Shutdown
  <2>. QED  BY Zenon, <2>1
<1>2. CASE s.p.phase # "idle"
  <2>1. Kept(s, n)
    BY <1>2, BegunIsKept
  <2>3. Kept(f, n)
    BY Zenon, <2>1, ReasonKeeps
  <2>. QED  BY Zenon, <2>3, KeptHolds
<1>. QED  BY Zenon, <1>1, <1>2

\* The source moves, before the pipe or under it.
LEMMA SourceKeeps ==
  ASSUME NEW n, NEW s, PipeInv(s, n), NEW r \in R!Type, r.locked <=> s.r.locked,
         NEW n2, NEW f, Core(f, n2), Balance(f, n2), SourceMoved(s, f, r),
         s.p.phase = "idle" => r.answers = <<>> /\ (r.state # "errored" => Len(r.queue) = n2)
  PROVE  PipeInv(f, n2)
<1>1. CASE s.p.phase = "idle"
  <2>1. f.r = [r EXCEPT !.answers = <<>>] /\ f.w = s.w /\ f.calls = s.calls
        /\ f.p = s.p /\ f.j = s.j
    BY <1>1 DEF SourceMoved
  <2>2. f.r.locked = r.locked /\ f.r.state = r.state /\ f.r.queue = r.queue
    BY <2>1 DEF R!Type
  <2>3. s.p = IdlePipe /\ s.p.loop = "off"
    BY <1>1 DEF PipeInv, RestInv, IdlePipe
  <2>. QED  BY <1>1, <2>1, <2>2, <2>3 DEF PipeInv, RestInv, ReadyWaits, PipingInv
<1>2. CASE s.p.phase # "idle"
  <2>1. Kept(s, n)
    BY <1>2, BegunIsKept
  <2>. QED  BY <2>1, MovedKept, KeptHolds
<1>. QED  BY <1>1, <1>2

\* The destination moves, before the pipe or under it.
LEMMA SinkKeeps ==
  ASSUME NEW n, NEW s, PipeInv(s, n), NEW w, DestinationInv(w), Moves(s.w, w),
         AsksNothing(s.w, w) \/ s.p.phase = "idle"
  PROVE  PipeInv(WithDestination(s, w), n)
<1> DEFINE f == WithDestination(s, w)   c2 == SinkCalled(s.calls, s.w, w)
<1>1. /\ Core(s, n) /\ Balance(s, n) /\ ReadyWaits(s) /\ DestinationInv(s.w) /\ Flows(s.w, w)
      /\ s \in State /\ s.calls \in CallsType
  BY DEF PipeInv, Core, State, Moves
<1>2. s.p.phase = "idle" => s.p.loop = "off"
  BY DEF PipeInv, RestInv, IdlePipe
<1>3. LoopMay(s, w)
  <2>1. CASE s.p.phase = "idle"
    BY <1>2, <2>1 DEF LoopMay
  <2>2. CASE AsksNothing(s.w, w)
    <3>1. W!CloseQueuedOrInFlight(w) => W!CloseQueuedOrInFlight(s.w)
      BY <2>2 DEF AsksNothing
    <3>. QED  BY <1>1, <3>1, LoopMayMove
  <2>. QED  BY <2>1, <2>2
<1>4. MayMove(s, n, w)
  <2>1. s.p.phase \in {"piping", "shuttingDown"} => w.locked
    BY <1>1 DEF Core, PhaseInv, Moves
  <2>2. s.p.phase = "idle" => ~EndsWell(s.p)
    BY DEF EndsWell
  <2>. QED  BY <2>1, <2>2 DEF MayMove, AsksNothing
<1>5. /\ Core(f, n) /\ Balance(f, n) /\ Destined(s, f, w)
      /\ SinkTold(s.calls, c2, s.w, w) /\ OnlyLeave(s.w, w)
  BY <1>1, <1>3, <1>4, WithDestinationKeeps
<1>6. /\ f.w.locked = s.w.locked /\ f.w.state = w.state
      /\ W!QueuedChunks(f.w) = W!QueuedChunks(w)
      /\ (W!CloseQueuedOrInFlight(f.w) <=> W!CloseQueuedOrInFlight(w))
  BY <1>5, ClearKeeps DEF Destined, SameDestination, Moves
<1>7. f.r = s.r /\ f.p.phase = s.p.phase /\ f.calls = c2 /\ ReadyWaits(f)
  BY <1>5 DEF Destined, Notes, SameStanding
<1>8. CASE s.p.phase = "idle"
  <2>1. f = Arrived(s, w)
    BY <1>2, <1>5, <1>8 DEF Destined
  <2>2. c2 \in CallsType
    BY <1>5 DEF SinkTold
  <2> HIDE DEF f
  <2>3. f.p = s.p /\ f.j = s.j \o Adopted(w.settled)
    BY Zenon, <1>1, <2>1, <2>2, ArrivedIs
  <2>4. /\ s.p = IdlePipe /\ s.j = <<>> /\ ~s.r.locked /\ ~s.w.locked /\ s.calls.chunks = <<>>
        /\ W!QueuedChunks(s.w) = <<>> /\ (s.r.state # "errored" => Len(s.r.queue) = n)
    BY <1>8 DEF PipeInv, RestInv
  <2>5. s.w.inFlight # "write"
    <3>1. Len(<<>>) = 0
      OBVIOUS
    <3>. QED  BY <1>1, <2>4, <3>1, HeadOfQueue
  <2>6. w.settled = <<>> /\ W!QueuedChunks(w) = <<>>
    <3>1. w.state = "errored" => W!QueuedChunks(w) = <<>>
      BY HeadOfQueue DEF Alive
    <3>. QED  BY <1>1, <2>4, <2>5, <3>1 DEF Flows
  <2>7. w.inFlight # "write"
    <3>1. Len(<<>>) = 0
      OBVIOUS
    <3>. QED  BY <2>6, <3>1, HeadOfQueue
  <2>8. c2.chunks = <<>>
    BY <1>1, <2>4, <2>7, SinkCalledOf
  <2>9. f.j = <<>>
    <3>1. s.j \in Seq(Job) /\ w.settled \in Seq(Chunk)
      BY <1>1 DEF State, DestinationInv, W!Type
    <3>. QED  BY Zenon, <2>3, <2>4, <2>6, <3>1, JobsAdopted
  <2>10. RestInv(f, n)
    BY <1>6, <1>7, <1>8, <2>3, <2>4, <2>6, <2>8, <2>9 DEF RestInv
  <2>11. PipingInv(f)
    BY <1>7, <1>8 DEF PipingInv
  <2>. QED  BY <1>5, <1>7, <2>10, <2>11 DEF PipeInv, f
<1>9. CASE s.p.phase # "idle"
  <2> HIDE DEF f, c2
  <2>1. PipingInv(f)
    <3> SUFFICES ASSUME s.p.phase = "piping"
                 PROVE  ~W!CloseQueuedOrInFlight(f.w) /\ f.w.state # "closed" /\ ~f.calls.closed
      BY <1>7 DEF PipingInv
    <3>1. ~W!CloseQueuedOrInFlight(s.w) /\ s.w.state # "closed" /\ ~s.calls.closed
      BY DEF PipeInv, PipingInv
    <3>2. ~W!CloseQueuedOrInFlight(w) /\ w.inFlight # "close"
      BY <1>9, <3>1 DEF AsksNothing, W!CloseQueuedOrInFlight
    <3>3. w.state # "closed"
      BY <1>1, <3>1 DEF Flows, W!CloseQueuedOrInFlight
    <3>4. ~c2.closed
      BY <1>5, <3>1, <3>2 DEF SinkTold
    <3>. QED  BY <1>6, <1>7, <3>2, <3>3, <3>4
  <2>2. Unlocked(f)
    BY <1>6, <1>7 DEF PipeInv, RestInv, Unlocked
  <2>3. Kept(f, n)
    BY <1>5, <1>7, <1>9, <2>1, <2>2 DEF Kept
  <2>. QED  BY <2>3, KeptHolds DEF f
<1>. QED  BY <1>8, <1>9

\* pipeTo() locks both streams.
Locked(s, prevent) ==
  [s EXCEPT !.r = R!GetReader(s.r), !.w = W!GetWriter(s.w),
            !.p.phase = "piping", !.p.prevent = prevent]

LEMMA LockedIs ==
  ASSUME NEW n, NEW s, PipeInv(s, n), s.p.phase = "idle", NEW prevent \in SUBSET Parts
  PROVE  LET f == Locked(s, prevent)
         IN  /\ f \in State /\ f.r = R!GetReader(s.r) /\ f.w = W!GetWriter(s.w)
             /\ f.j = <<>> /\ f.calls = s.calls
             /\ f.p.phase = "piping" /\ f.p.loop = "off" /\ f.p.parts = {} /\ f.p.awaited = None
             /\ f.p.action = "none" /\ f.p.result = "pending" /\ f.p.written = {}
             /\ f.p.current = None
<1> DEFINE r2 == R!GetReader(s.r)   w2 == W!GetWriter(s.w)
           p2 == [s.p EXCEPT !.phase = "piping", !.prevent = prevent]   f == Locked(s, prevent)
<1>1. s \in State /\ DestinationInv(s.w) /\ SourceInv(s.r, s.p)
  BY DEF PipeInv, Core
<1>2. r2 \in R!Type
  BY <1>1, ReaderKeeps DEF SourceInv, State
<1>3. w2 \in W!Type
  BY <1>1, GetWriterKeeps DEF DestinationInv
<1>4. s.p = IdlePipe /\ s.j = <<>> /\ s.p \in PipeType
  BY <1>1 DEF PipeInv, RestInv, State
<1>5. p2 \in PipeType
  BY Zenon, <1>4 DEF PipeType
<1>6. f = [s EXCEPT !.r = r2, !.w = w2, !.p = p2]
  BY Zenon, <1>1 DEF Locked, State
<1>7. /\ p2.phase = "piping" /\ p2.loop = "off" /\ p2.parts = {} /\ p2.awaited = None
      /\ p2.action = "none" /\ p2.result = "pending" /\ p2.written = {}
      /\ p2.current = None
  BY <1>4 DEF IdlePipe
<1> HIDE DEF r2, w2, p2, f
<1>8. f \in State /\ f.r = r2 /\ f.w = w2 /\ f.p = p2 /\ f.j = s.j /\ f.calls = s.calls
  BY Zenon, <1>1, <1>2, <1>3, <1>5, <1>6 DEF State
<1>. QED  BY <1>4, <1>5, <1>7, <1>8 DEF f, r2, w2, p2

\* An idle pipe has moved nothing, so that the source still has all its chunks.
LEMMA NothingMoved ==
  ASSUME NEW n, NEW s, PipeInv(s, n), s.p.phase = "idle"
  PROVE  /\ Reached(s.calls, s.w) = 0
         /\ s.r.state # "errored" => Len(s.r.queue) = n
         /\ s.r.state = "closed" => n = 0
<1> DEFINE a == Len(W!QueuedChunks(s.w))   b == Base(s.calls, s.w)   m == Reached(s.calls, s.w)
           d == Len(s.calls.chunks)
<1>1. Core(s, n) /\ SourceShape(s.r)
  BY DEF PipeInv, Core, SourceInv
<1>2. Len(<<>>) = 0
  OBVIOUS
<1>3. a = 0 /\ d = 0 /\ (s.r.state # "errored" => Len(s.r.queue) = n)
  BY <1>2 DEF PipeInv, RestInv
<1>4. s.r.state = "closed" => n = 0
  BY <1>1, <1>2, <1>3 DEF SourceShape
<1>5. b \in Nat /\ m = b + a
  BY <1>1, SourceNumbers
<1>6. b = d - 0 \/ b = d - 1
  BY Zenon DEF Base
<1> HIDE DEF a, b, d, m
<1>7. m = 0
  BY <1>3, <1>5, <1>6
<1>. QED  BY <1>3, <1>4, <1>7 DEF m

LEMMA LockedKeeps ==
  ASSUME NEW n, NEW s, PipeInv(s, n), s.p.phase = "idle", NEW prevent \in SUBSET Parts
  PROVE  LET f == Locked(s, prevent)
         IN  /\ Core(f, n) /\ Balance(f, n) /\ ReadyWaits(f)
             /\ f.p.phase = "piping" /\ f.p.loop = "off"
             /\ f.r.state = s.r.state /\ f.w.state = s.w.state
             /\ (W!CloseQueuedOrInFlight(f.w) <=> W!CloseQueuedOrInFlight(s.w))
             /\ Reached(f.calls, f.w) = 0 /\ (f.r.state = "closed" => n = 0)
             /\ f.calls = s.calls /\ ClosedInv(f.calls, f.w)
<1> DEFINE f == Locked(s, prevent)
<1>1. /\ f \in State /\ f.r = R!GetReader(s.r) /\ f.w = W!GetWriter(s.w)
      /\ f.j = <<>> /\ f.calls = s.calls
  BY LockedIs
<1>7. /\ f.p.phase = "piping" /\ f.p.loop = "off" /\ f.p.parts = {} /\ f.p.awaited = None
      /\ f.p.action = "none" /\ f.p.result = "pending" /\ f.p.written = {}
      /\ f.p.current = None
  BY LockedIs
<1>2. /\ s \in State /\ DestinationInv(s.w) /\ SourceInv(s.r, s.p) /\ s.w.settled = <<>>
      /\ OrderInv(s.calls, s.w, s.r, n) /\ ClosedInv(s.calls, s.w)
      /\ W!QueuedChunks(s.w) = <<>>
  BY DEF PipeInv, Core, RestInv
<1> HIDE DEF f
<1>3. /\ SourceShape(f.r) /\ f.r.locked /\ f.r.requests = 0
      /\ f.r.state = s.r.state /\ f.r.queue = s.r.queue /\ f.r.answers = <<>>
  BY <1>1, <1>2, ReaderKeeps DEF SourceInv, State
<1>4. DestinationInv(f.w) /\ OnlyLock(s.w, f.w) /\ f.w.locked
  BY <1>1, <1>2, GetWriterKeeps
<1>5. /\ W!QueuedChunks(f.w) = <<>> /\ f.w.settled = <<>> /\ f.w.inFlight = s.w.inFlight
      /\ f.w.state = s.w.state /\ (Alive(f.w) <=> Alive(s.w))
      /\ (W!CloseQueuedOrInFlight(f.w) <=> W!CloseQueuedOrInFlight(s.w))
  BY <1>2, <1>4 DEF OnlyLock, W!QueuedChunks, W!CloseQueuedOrInFlight, Alive
<1>6. Base(f.calls, f.w) = Base(s.calls, s.w) /\ Reached(f.calls, f.w) = Reached(s.calls, s.w)
  BY <1>1, <1>2, <1>5 DEF Base, Reached
<1>8. Len(f.j) = 0 /\ Len(W!QueuedChunks(f.w)) = 0
  BY <1>1, <1>5
<1>9. \A kind : ~Has(f.j, kind)
  BY <1>8 DEF Has
<1>10. ~EndsWell(f.p)
  BY <1>7 DEF EndsWell
<1>11. LoopInv(f.j, f.p)
  BY <1>8 DEF LoopInv
<1>12. SourceInv(f.r, f.p)
  BY <1>3 DEF SourceInv
<1>13. RoomInv(f.r, f.w, f.p, f.j)
  BY <1>7, <1>8, <1>9, PipeAssumption DEF RoomInv
<1>14. PhaseInv(f.r, f.w, f.p, f.j)
  BY <1>3, <1>4, <1>7, <1>9, <1>10 DEF PhaseInv
<1>15. OrderInv(f.calls, f.w, f.r, n)
  <2>1. /\ n \in 0..Len(Chunks) /\ Base(s.calls, s.w) \in Nat
        /\ Reached(s.calls, s.w) + Len(s.r.queue) <= n
        /\ \A i \in 1..Len(s.calls.chunks) : s.calls.chunks[i] = Chunks[i]
        /\ QueueOrder(s.r, n)
    BY <1>2 DEF OrderInv
  <2>2. \A i \in 1..Len(W!QueuedChunks(f.w)) :
          W!QueuedChunks(f.w)[i] = Chunks[Base(f.calls, f.w) + i]
    BY <1>8
  <2>3. QueueOrder(f.r, n)
    BY <1>3, <2>1 DEF QueueOrder
  <2>. QED  BY <1>1, <1>3, <1>6, <2>1, <2>2, <2>3 DEF OrderInv
<1>16. ClosedInv(f.calls, f.w)
  BY <1>1, <1>2, <1>5 DEF ClosedInv
<1>17. WriteInv(f.calls, f.w, f.r, f.p, f.j, n) /\ EndInv(f.calls, f.w, f.p, f.j, n)
  BY <1>7, <1>9, <1>10 DEF WriteInv, EndInv
<1>18. KnownInv(f.w, f.r, f.p, f.j, n)
  <2>1. \A c : ~Known(f.w, f.p, f.j, c)
    BY <1>7, <1>8 DEF Known
  <2>2. \A c \in Chunk : c # f.p.current
    BY <1>7, PipeAssumption
  <2>. QED  BY <1>8, <1>9, <2>1, <2>2 DEF KnownInv
<1>19. Core(f, n)
  BY <1>1, <1>4, <1>5, <1>11, <1>12, <1>13, <1>14, <1>15, <1>16, <1>17, <1>18 DEF Core
<1>20. /\ Reached(f.calls, f.w) = 0 /\ (f.r.state = "closed" => n = 0)
       /\ (f.r.state # "errored" => Len(f.r.queue) = n)
  BY <1>3, <1>6, NothingMoved
<1>21. Balance(f, n)
  <2> SUFFICES ASSUME Working(f.w, f.r, f.p)
               PROVE  Reached(f.calls, f.w) + Len(f.r.queue) + 0 = n
    BY <1>9 DEF Balance, BalanceInv
  <2>1. f.r.state # "errored"
    BY DEF Working
  <2>2. Len(f.r.queue) = n /\ n \in Nat
    BY <1>19, <1>20, <2>1, SourceNumbers
  <2>. QED  BY <1>20, <2>2
<1>. QED  BY <1>1, <1>3, <1>5, <1>7, <1>16, <1>19, <1>20, <1>21 DEF ReadyWaits, f

\* The states of both streams are looked at, one after the other.
LEMMA OneReason ==
  ASSUME NEW n, NEW l, Core(l, n), Balance(l, n), ReadyWaits(l), l.p.phase = "piping", l.p.loop = "off",
         NEW s, s = l \/ (Down(s, n) /\ s.p.loop = "off"), NEW f,
         \/ f = SourceErrored(s) \/ f = DestinationErrored(s)
         \/ f = SourceClosed(s) /\ l.r.state = "closed" /\ Reached(l.calls, l.w) = n
  PROVE  Down(f, n) /\ f.p.loop = "off"
<1>1. CASE s = l
  <2>1. \/ f = SourceErrored(s) \/ f = DestinationErrored(s)
        \/ f = Shutdown(s, "signal", TRUE)
        \/ /\ f = SourceClosed(s) /\ s.r.state = "closed"
           /\ s.calls.closed \/ (s.w.state = "writable" /\ W!CloseQueuedOrInFlight(s.w))
                => Reached(s.calls, s.w) = n
    BY Zenon, <1>1
  <2>2. Core(s, n) /\ Balance(s, n) /\ ReadyWaits(s) /\ s.p.phase = "piping" /\ s.p.loop = "off"
    BY <1>1
  <2>3. Down(f, n)
    BY Zenon, <2>1, <2>2, ReasonsToEnd
  <2>4. StaysOff(s, f)
    BY Zenon, <2>1, <2>2, ReasonsToEnd
  <2>5. f.p.loop = "off"
    BY Zenon, <2>2, <2>4 DEF StaysOff
  <2>. QED  BY Zenon, <2>3, <2>5
<1>2. CASE Down(s, n) /\ s.p.loop = "off"
  <2>1. s.p.phase # "piping"
    BY <1>2 DEF Down
  <2>2. \A action, isError : Shutdown(s, action, isError) = s
    BY <2>1 DEF Shutdown
  <2>3. SourceErrored(s) = s /\ DestinationErrored(s) = s /\ SourceClosed(s) = s
    BY <2>2, Zenon DEF SourceErrored, DestinationErrored, SourceClosed
  <2>4. f = s
    BY <2>3, Zenon
  <2>. QED  BY Zenon, <1>2, <2>4
<1>. QED  BY Zenon, <1>1, <1>2

\* What pipeTo() does before the first read.
Looks1(s, l) == IF s.r.state = "errored" THEN SourceErrored(l) ELSE l
Looks2(s, l) == IF s.w.state = "errored" THEN DestinationErrored(Looks1(s, l)) ELSE Looks1(s, l)
Looks3(s, l) == IF s.r.state = "closed" THEN SourceClosed(Looks2(s, l)) ELSE Looks2(s, l)
Looks4(s, l) == IF W!CloseQueuedOrInFlight(s.w) \/ s.w.state = "closed"
                THEN DestinationErrored(Looks3(s, l)) ELSE Looks3(s, l)

LEMMA LooksKeep ==
  ASSUME NEW n, NEW s, PipeInv(s, n), s.p.phase = "idle", NEW prevent \in SUBSET Parts
  PROVE  /\ Kept(Looks4(s, Locked(s, prevent)), n)
         /\ Looks4(s, Locked(s, prevent)).p.loop = "off"
<1> DEFINE l == Locked(s, prevent)   s1 == Looks1(s, l)   s2 == Looks2(s, l)   s3 == Looks3(s, l)
           s4 == Looks4(s, l)
<1>1. /\ Core(l, n) /\ Balance(l, n) /\ ReadyWaits(l) /\ l.p.phase = "piping" /\ l.p.loop = "off"
      /\ l.r.state = s.r.state /\ l.w.state = s.w.state
      /\ (W!CloseQueuedOrInFlight(l.w) <=> W!CloseQueuedOrInFlight(s.w))
      /\ Reached(l.calls, l.w) = 0 /\ (l.r.state = "closed" => n = 0)
      /\ ClosedInv(l.calls, l.w)
  BY LockedKeeps
<1>2. /\ s1 = IF s.r.state = "errored" THEN SourceErrored(l) ELSE l
      /\ s2 = IF s.w.state = "errored" THEN DestinationErrored(s1) ELSE s1
      /\ s3 = IF s.r.state = "closed" THEN SourceClosed(s2) ELSE s2
      /\ s4 = IF W!CloseQueuedOrInFlight(s.w) \/ s.w.state = "closed"
              THEN DestinationErrored(s3) ELSE s3
  BY Zenon DEF Looks1, Looks2, Looks3, Looks4
<1> HIDE DEF l, s1, s2, s3, s4
<1> DEFINE Ok(x) == x = l \/ (Down(x, n) /\ x.p.loop = "off")
<1>3. Ok(s1)
  <2>1. ASSUME s1 = SourceErrored(l)  PROVE Down(s1, n) /\ s1.p.loop = "off"
    BY Zenon, <1>1, <2>1, OneReason
  <2>. QED  BY Zenon, <1>2, <2>1
<1>4. Ok(s2) /\ (s2 = l => s.w.state # "errored")
  <2>1. ASSUME s2 = DestinationErrored(s1)  PROVE Down(s2, n) /\ s2.p.loop = "off"
    BY Zenon, <1>1, <1>3, <2>1, OneReason
  <2>2. ASSUME s2 = DestinationErrored(s1)  PROVE s2 # l
    BY <1>1, <2>1, <2>2 DEF Down
  <2>. QED  BY Zenon, <1>2, <1>3, <2>1, <2>2
<1>5. Ok(s3) /\ (s3 = l => s.w.state # "errored")
  <2>1. ASSUME s3 = SourceClosed(s2), s.r.state = "closed"  PROVE Down(s3, n) /\ s3.p.loop = "off"
    <3>1. l.r.state = "closed" /\ Reached(l.calls, l.w) = n
      BY <1>1, <2>1
    <3>. QED  BY Zenon, <1>1, <1>4, <2>1, <3>1, OneReason
  <2>2. ASSUME s3 = SourceClosed(s2), s.r.state = "closed"  PROVE s3 # l
    BY <1>1, <2>1, <2>2 DEF Down
  <2>. QED  BY Zenon, <1>2, <1>4, <2>1, <2>2
<1>6. Ok(s4) /\ (s4 = l => /\ s.w.state \notin {"errored", "closed"}
                           /\ ~W!CloseQueuedOrInFlight(s.w))
  <2>1. ASSUME s4 = DestinationErrored(s3)  PROVE Down(s4, n) /\ s4.p.loop = "off"
    BY Zenon, <1>1, <1>5, <2>1, OneReason
  <2>2. ASSUME s4 = DestinationErrored(s3)  PROVE s4 # l
    BY <1>1, <2>1, <2>2 DEF Down
  <2>3. CASE W!CloseQueuedOrInFlight(s.w) \/ s.w.state = "closed"
    BY Zenon, <1>2, <2>1, <2>2, <2>3
  <2>4. CASE ~(W!CloseQueuedOrInFlight(s.w) \/ s.w.state = "closed")
    <3>1. s4 = s3
      BY Zenon, <1>2, <2>4
    <3>. QED  BY <1>5, <2>4, <3>1
  <2>. QED  BY <2>3, <2>4
<1>7. CASE s4 = l
  <2>1. ~W!CloseQueuedOrInFlight(l.w) /\ l.w.state \notin {"errored", "closed"}
    BY <1>1, <1>6, <1>7
  <2>2. Alive(l.w)
    BY <1>1, <2>1 DEF Alive, Core, State, W!Type
  <2>3. ~l.calls.closed
    BY <1>1, <2>1, <2>2 DEF ClosedInv, W!CloseQueuedOrInFlight
  <2>4. Kept(l, n)
    BY <1>1, <2>1, <2>3 DEF Kept, PipingInv, Unlocked
  <2>. QED  BY <1>1, <1>7, <2>4 DEF l, s4
<1>8. CASE Down(s4, n) /\ s4.p.loop = "off"
  BY <1>8, KeptHolds DEF l, s4
<1>. QED  BY <1>6, <1>7, <1>8

LEMMA PipeToKeeps ==
  ASSUME NEW n, NEW s, PipeInv(s, n), s.p.phase = "idle", NEW prevent \in SUBSET Parts, NEW f,
         \/ f = Shutdown(Locked(s, prevent), "signal", TRUE)
         \/ f = PipeStep(Looks4(s, Locked(s, prevent)))
  PROVE  PipeInv(f, n)
<1> DEFINE l == Locked(s, prevent)   s4 == Looks4(s, l)
<1>1. CASE f = Shutdown(l, "signal", TRUE)
  <2>1. Core(l, n) /\ Balance(l, n) /\ ReadyWaits(l) /\ l.p.phase = "piping"
    BY LockedKeeps
  <2>2. Down(f, n)
    BY Zenon, <1>1, <2>1, ReasonsToEnd
  <2>. QED  BY Zenon, <2>2, KeptHolds
<1>2. CASE f = PipeStep(s4)
  <2>1. Kept(s4, n) /\ s4.p.loop = "off"
    BY LooksKeep
  <2> HIDE DEF s4
  <2>2. NoLoopJob(s4.j) /\ s4.p.loop # "read"
    <3>1. Core(s4, n)
      BY <2>1 DEF Kept
    <3>. QED  BY <2>1, <3>1, LoopRests
  <2>3. Kept(f, n)
    BY <1>2, <2>1, <2>2, PipeStepKeeps
  <2>. QED  BY Zenon, <2>3, KeptHolds
<1>. QED  BY Zenon, <1>1, <1>2

LEMMA SourceQuietly ==
  ASSUME NEW n, NEW s, PipeInv(s, n), NEW r \in R!Type, SameSource(s.r, r)
  PROVE  PipeInv(WithSource(s, r), n)
<1> DEFINE f == WithSource(s, r)
<1>1. Core(s, n) /\ Balance(s, n) /\ s.r.answers = <<>>
  BY DEF PipeInv, Core, SourceInv
<1>2. Core(f, n) /\ Balance(f, n) /\ SourceMoved(s, f, r)
  BY <1>1, SourceRests
<1> HIDE DEF f
<1>3. /\ r.locked <=> s.r.locked
      /\ s.p.phase = "idle" => r.answers = <<>> /\ (r.state # "errored" => Len(r.queue) = n)
  BY <1>1 DEF SameSource, PipeInv, RestInv
<1>. QED  BY <1>2, <1>3, SourceKeeps DEF f

LEMMA SourceEnding ==
  ASSUME NEW n, NEW s, PipeInv(s, n), s.r.state = "readable", NEW a \in {"closed", "errored"},
         NEW r, Ended(s.r, r, a), r.state = "closed" => s.r.queue = <<>>
  PROVE  PipeInv(WithSource(s, r), n)
<1> DEFINE f == WithSource(s, r)
<1>1. /\ Core(s, n) /\ Balance(s, n) /\ SourceShape(s.r) /\ s.r.requests \in Nat
  BY DEF PipeInv, Core, SourceInv, State, R!Type
<1>2. /\ r \in R!Type /\ SourceShape(r) /\ r.state # "readable" /\ r.queue = <<>>
      /\ r.requests = 0 /\ r.locked = s.r.locked /\ r.answers = Answered(s.r, a)
  BY DEF Ended
<1>3. s.p.phase \in {"piping", "shuttingDown"} => r.locked
  BY <1>1, <1>2 DEF Core, PhaseInv
<1>4. Working(s.w, r, s.p) => Working(s.w, s.r, s.p) /\ r.queue = s.r.queue
  BY <1>2 DEF Working
<1>5. /\ r.queue \in {<<>>, s.r.queue} /\ (r.answers = Answered(s.r, a) \/ (s.p.loop = "read" /\ r.answers = <<a>>))
      /\ s.r.state # "readable" => r.state = s.r.state
  BY <1>2
<1>6. Core(f, n) /\ Balance(f, n) /\ SourceMoved(s, f, r)
  BY <1>1, <1>2, <1>3, <1>4, <1>5, SourceEnds
<1>7. s.p.phase = "idle" => r.answers = <<>> /\ (r.state # "errored" => Len(r.queue) = n)
  <2> SUFFICES ASSUME s.p.phase = "idle"  PROVE r.answers = <<>> /\ (r.state # "errored" => Len(r.queue) = n)
    OBVIOUS
  <2>1. ~s.r.locked /\ Len(s.r.queue) = n
    BY DEF PipeInv, RestInv
  <2>2. ~(s.r.requests > 0)
    BY <1>1, <2>1 DEF SourceShape
  <2>3. r.state # "errored" => r.state = "closed"
    BY <1>2 DEF R!Type
  <2>. QED  BY <1>2, <2>1, <2>2, <2>3 DEF Answered
<1> HIDE DEF f
<1>. QED  BY <1>2, <1>6, <1>7, SourceKeeps DEF f

LEMMA SourceEnqueuing ==
  ASSUME NEW n, NEW s, PipeInv(s, n), R!CanCloseOrEnqueue(s.r), n < Len(Chunks)
  PROVE  PipeInv(WithSource(s, R!Enqueue(s.r, Chunks[n + 1])), n + 1)
<1> DEFINE c == Chunks[n + 1]   r == R!Enqueue(s.r, c)   n2 == n + 1   f == WithSource(s, r)   m == Len(Chunks)
<1>1. /\ Core(s, n) /\ Balance(s, n) /\ SourceShape(s.r) /\ s.r.requests \in Nat
      /\ s.r.answers = <<>> /\ s.r \in R!Type /\ (s.r.requests > 0 => s.p.loop = "read")
      /\ s.r.queue \in Seq(Chunk)
  BY DEF PipeInv, Core, SourceInv, State, R!Type
<1>2. n \in Nat /\ m \in Nat /\ n < m /\ n \in 0..m /\ Len(s.r.queue) \in Nat
  BY <1>1, SourceNumbers
<1> HIDE DEF m
<1>3. n2 \in 1..m /\ n2 \in 0..m /\ n2 \in Nat /\ n <= n2 /\ n2 <= m
  BY <1>2
<1> HIDE DEF n2
<1>4. c \in Chunk
  <2>1. Chunks \in Seq(Chunk)
    BY PipeAssumption
  <2>. QED  BY <1>3, <2>1, ElementOfSeq DEF m, n2
<1>5. s.r.state = "readable"
  BY DEF R!CanCloseOrEnqueue
<1> HIDE DEF c
<1>6. /\ r \in R!Type /\ SourceShape(r) /\ r.state = "readable" /\ r.requests = 0
      /\ r.locked = s.r.locked /\ r.answers = Answered(s.r, c)
      /\ r.queue = IF s.r.requests > 0 THEN s.r.queue ELSE Append(s.r.queue, c)
  BY <1>1, <1>4, EnqueueKeeps
<1> HIDE DEF r
<1>7. CASE s.r.requests > 0
  <2>1. s.r.queue = <<>> /\ s.r.locked /\ s.p.loop = "read" /\ r.answers = <<c>> /\ r.queue = <<>>
    <3>1. Answered(s.r, c) = <<c>>
      BY Zenon, <1>7 DEF Answered
    <3>2. r.answers = <<c>>
      BY Zenon, <1>6, <3>1
    <3>3. r.queue = s.r.queue
      BY <1>6, <1>7
    <3>4. s.r.queue = <<>> /\ s.r.locked /\ s.p.loop = "read"
      BY <1>1, <1>7 DEF SourceShape
    <3>. QED  BY <3>2, <3>3, <3>4
  <2> DEFINE k == Len(s.r.queue)
  <2>2. k = 0 /\ Len(r.queue) = 0
    BY <2>1
  <2>3. n - Len(s.r.queue) + 1 = n2 - Len(r.queue)
    <3> HIDE DEF k
    <3>1. n - k + 1 = n2 - Len(r.queue)
      BY <1>2, <2>2 DEF n2
    <3>. QED  BY <3>1 DEF k
  <2>4. QueueOrder(r, n2)
    BY <2>2 DEF QueueOrder
  <2>5. c = Chunks[n - Len(s.r.queue) + 1]
    <3> HIDE DEF k
    <3>1. n - k + 1 = n + 1
      BY <1>2, <2>2
    <3>. QED  BY <3>1 DEF k, c
  <2>6. n2 \in 0..Len(Chunks)
    BY <1>3 DEF m
  <2>7. Core(f, n2) /\ SourceMoved(s, f, r) /\ Balance(f, n2)
    BY Zenon, <1>1, <1>3, <1>4, <1>5, <1>6, <2>1, <2>3, <2>4, <2>5, <2>6, SourceTakes
  <2>8. s.p.phase # "idle"
    BY <2>1 DEF PipeInv, RestInv
  <2> HIDE DEF f
  <2>. QED  BY <1>6, <2>7, <2>8, SourceKeeps DEF f, r, c, n2
<1>8. CASE ~(s.r.requests > 0)
  <2>1. s.r.requests = 0 /\ r.answers = <<>> /\ r.queue = Append(s.r.queue, c)
    <3>1. s.r.requests = 0
      BY <1>1, <1>8
    <3>2. Answered(s.r, c) = <<>>
      BY Zenon, <1>8 DEF Answered
    <3>3. r.queue = Append(s.r.queue, c)
      BY Zenon, <1>6, <1>8
    <3>. QED  BY Zenon, <1>6, <3>1, <3>2, <3>3
  <2>2. Core(f, n2) /\ SourceMoved(s, f, r) /\ Balance(f, n2)
    BY <1>1, <1>3, <1>5, <1>6, <2>1, SourceQueues DEF n2, c, m
  <2>3. Len(r.queue) = Len(s.r.queue) + 1
    BY <1>1, <1>4, <2>1, AppendProperties
  <2>4. s.p.phase = "idle" => Len(r.queue) = n2
    BY <1>2, <1>5, <2>3 DEF PipeInv, RestInv, n2
  <2> HIDE DEF f
  <2>. QED  BY <1>6, <2>1, <2>2, <2>4, SourceKeeps DEF f, r, c, n2
<1>. QED  BY <1>7, <1>8

\* The promise of the source's cancel algorithm settles.
Cancelled(s) == [s EXCEPT !.cancelling = FALSE]

LEMMA CancelSettling ==
  ASSUME NEW n, NEW s, PipeInv(s, n), NEW settlement
  PROVE  PipeInv(PartSettles(Cancelled(s), "cancel", settlement), n)
<1> DEFINE s1 == Cancelled(s)   f == PartSettles(s1, "cancel", settlement)
<1>1. Core(s, n) /\ Balance(s, n) /\ s \in State
  BY DEF PipeInv, Core
<1>2. s1 \in State /\ s1.r = s.r /\ s1.w = s.w /\ s1.p = s.p /\ s1.j = s.j /\ s1.calls = s.calls
  BY Zenon, <1>1 DEF State, Cancelled
<1> HIDE DEF s1
<1>3. PipeInv(s1, n)
  BY <1>2 DEF PipeInv, Core, Balance, ReadyWaits, PipingInv, RestInv
<1>4. Core(s1, n) /\ Balance(s1, n)
  BY <1>3 DEF PipeInv
<1>5. /\ Core(f, n) /\ Balance(f, n) /\ SameStreams(s1, f) /\ Notes(s1, f) /\ f.p.loop = s1.p.loop
      /\ s1.p.parts = {} => f = s1
  BY <1>4, PartKeeps
<1> HIDE DEF f
<1>6. CASE s1.p.phase = "idle"
  <2>1. f = s1
    BY <1>4, <1>5, <1>6, PartsAre
  <2>. QED  BY <1>3, <2>1 DEF f, s1
<1>7. CASE s1.p.phase # "idle"
  <2>1. Kept(s1, n)
    BY <1>3, <1>7, BegunIsKept
  <2>2. Kept(f, n)
    BY <1>5, <2>1, StaysKept DEF Notes, SameStanding
  <2>. QED  BY <2>2, KeptHolds DEF f, s1
<1>. QED  BY <1>6, <1>7

-----------------------------------------------------------------------------
(* The actions.                                                             *)

LEMMA BecomeKeeps ==
  ASSUME NEW s, Become(s), PipeInv(s, produced')
  PROVE  PipeInv(Now, produced)'
<1>1. s \in State
  BY DEF PipeInv, Core
<1>2. Now' = s
  BY <1>1 DEF Become, Now, State
<1>3. PipeInv(Now', produced')
  BY <1>2
<1>. QED  BY <1>3

LEMMA SourceStep ==
  ASSUME Inv, NEW r, SourceBecomes(r), PipeInv(WithSource(Now, r), produced'),
         answered' \in BOOLEAN, aborted' \in BOOLEAN
  PROVE  Inv'
<1>1. PipeInv(Now, produced)'
  BY BecomeKeeps DEF SourceBecomes
<1>. QED  BY <1>1 DEF Inv

LEMMA SinkStep ==
  ASSUME Inv, NEW w, SinkBecomes(w), DestinationInv(w), Moves(destination, w),
         AsksNothing(destination, w) \/ pipe.phase = "idle"
  PROVE  Inv'
<1>1. PipeInv(Now, produced) /\ Now.w = destination /\ Now.p = pipe
  BY DEF Inv, Now
<1> HIDE DEF Now
<1>2. PipeInv(WithDestination(Now, w), produced)
  BY <1>1, SinkKeeps
<1>3. produced' = produced /\ answered' = answered /\ aborted' = aborted
  BY DEF SinkBecomes
<1>4. PipeInv(Now, produced)'
  BY <1>2, <1>3, BecomeKeeps DEF SinkBecomes
<1>. QED  BY <1>3, <1>4 DEF Inv

\* What the destination's promises and errors do.
LEMMA SinkActions ==
  ASSUME Inv, SinkSettles \/ SinkErrors \/ DestinationCloses \/ DestinationAborts
  PROVE  Inv'
<1>1. DestinationInv(destination) /\ destination.settled = <<>>
  BY DEF Inv, PipeInv, Core, Now
<1>2. ASSUME NEW settlement \in {"fulfilled", "rejected"}, SinkStarts(settlement)  PROVE Inv'
  <2>1. CASE settlement = "fulfilled"
    BY <1>1, <1>2, <2>1, SinkStep, StartFulfilledKeeps DEF SinkStarts
  <2>2. CASE settlement = "rejected"
    BY <1>1, <1>2, <2>2, SinkStep, StartRejectedKeeps DEF SinkStarts
  <2>. QED  BY <2>1, <2>2
<1>3. ASSUME NEW settlement \in {"fulfilled", "rejected"}, SinkWriteSettles(settlement)  PROVE Inv'
  <2>1. CASE settlement = "fulfilled"
    BY <1>1, <1>3, <2>1, SinkStep, WriteFulfilledKeeps DEF SinkWriteSettles
  <2>2. CASE settlement = "rejected"
    BY <1>1, <1>3, <2>2, SinkStep, WriteRejectedKeeps DEF SinkWriteSettles
  <2>. QED  BY <2>1, <2>2
<1>4. ASSUME NEW settlement \in {"fulfilled", "rejected"}, SinkCloseSettles(settlement)  PROVE Inv'
  <2>1. CASE settlement = "fulfilled"
    BY <1>1, <1>4, <2>1, SinkStep, CloseFulfilledKeeps DEF SinkCloseSettles
  <2>2. CASE settlement = "rejected"
    BY <1>1, <1>4, <2>2, SinkStep, CloseRejectedKeeps DEF SinkCloseSettles
  <2>. QED  BY <2>1, <2>2
<1>5. ASSUME NEW settlement \in {"fulfilled", "rejected"}, SinkAbortSettles(settlement)  PROVE Inv'
  BY <1>1, <1>5, SinkStep, AbortSettledKeeps DEF SinkAbortSettles
<1>6. CASE SinkErrors
  BY <1>1, <1>6, SinkStep, ErrorKeeps DEF SinkErrors
<1>7. CASE DestinationCloses
  BY <1>1, <1>7, SinkStep, CloseKeeps DEF DestinationCloses
<1>8. CASE DestinationAborts
  BY <1>1, <1>8, SinkStep, AbortKeeps DEF DestinationAborts
<1>9. CASE SinkSettles
  BY <1>2, <1>3, <1>4, <1>5, <1>9 DEF SinkSettles
<1>. QED  BY <1>6, <1>7, <1>8, <1>9

\* What the source and its promises do.
LEMMA SourceActions ==
  ASSUME Inv, SourceSettles \/ SourceAnswers
  PROVE  Inv'
<1>1. /\ PipeInv(Now, produced) /\ Now.r = source /\ answered \in BOOLEAN /\ aborted \in BOOLEAN
      /\ source \in R!Type /\ source.answers = <<>> /\ SourceShape(source)
  BY DEF Inv, PipeInv, Core, SourceInv, State, Now
<1>2. CASE SourceStarts
  <2>1. R!Started(source) \in R!Type /\ SameSource(source, R!Started(source))
    BY <1>1, PullKeeps
  <2> HIDE DEF Now
  <2>2. PipeInv(WithSource(Now, R!Started(source)), produced)
    BY <1>1, <2>1, SourceQuietly
  <2>. QED  BY <1>1, <1>2, <2>2, SourceStep DEF SourceStarts
<1>3. CASE SourcePulled
  <2>1. R!Pulled(source) \in R!Type /\ SameSource(source, R!Pulled(source))
    BY <1>1, PullKeeps
  <2> HIDE DEF Now
  <2>2. PipeInv(WithSource(Now, R!Pulled(source)), produced)
    BY <1>1, <2>1, SourceQuietly
  <2>. QED  BY Zenon, <1>1, <1>3, <2>2, SourceStep DEF SourcePulled
<1>4. ASSUME NEW settlement \in {"fulfilled", "rejected"}, SourceCancelSettles(settlement)  PROVE Inv'
  <2>1. PipeInv(PartSettles(Cancelled(Now), "cancel", settlement), produced)
    BY <1>1, CancelSettling
  <2>2. Become(PartSettles(Cancelled(Now), "cancel", settlement))
    BY <1>4 DEF SourceCancelSettles, Cancelled
  <2>3. produced' = produced /\ answered' = answered /\ aborted' = aborted
    BY <1>4 DEF SourceCancelSettles
  <2> HIDE DEF Now
  <2>4. PipeInv(Now, produced)'
    BY <2>1, <2>2, <2>3, BecomeKeeps
  <2>. QED  BY <1>1, <2>3, <2>4 DEF Inv
<1>5. CASE SourceEnqueues
  <2> DEFINE r == R!Enqueue(source, Chunks[produced + 1])
  <2>1. /\ R!CanCloseOrEnqueue(source) /\ produced < Len(Chunks) /\ SourceBecomes(r)
        /\ produced' = produced + 1 /\ answered' = TRUE /\ aborted' = aborted
    BY <1>5 DEF SourceEnqueues
  <2> HIDE DEF Now
  <2>2. PipeInv(WithSource(Now, r), produced + 1)
    BY <1>1, <2>1, SourceEnqueuing
  <2>. QED  BY <1>1, <2>1, <2>2, SourceStep
<1>6. CASE SourceCloses
  <2> DEFINE r == R!Close(source)
  <2>1. /\ R!CanCloseOrEnqueue(source) /\ SourceBecomes(r) /\ source.state = "readable"
        /\ produced' = produced /\ answered' = answered /\ aborted' = aborted
    BY <1>6 DEF SourceCloses, R!CanCloseOrEnqueue
  <2> HIDE DEF Now, r
  <2>2. CASE source.queue = <<>>
    <3>1. Ended(source, r, "closed")
      BY <1>1, <2>1, <2>2, EndKeeps DEF r
    <3>2. PipeInv(WithSource(Now, r), produced)
      BY <1>1, <2>1, <2>2, <3>1, SourceEnding
    <3>. QED  BY <1>1, <2>1, <3>2, SourceStep
  <2>3. CASE source.queue # <<>>
    <3>1. r \in R!Type /\ SameSource(source, r)
      BY <1>1, <2>1, <2>3, EndKeeps DEF r
    <3>2. PipeInv(WithSource(Now, r), produced)
      BY <1>1, <3>1, SourceQuietly
    <3>. QED  BY <1>1, <2>1, <3>2, SourceStep
  <2>. QED  BY <2>2, <2>3
<1>7. CASE SourceErrors
  <2> DEFINE r == R!Error(source)
  <2>1. /\ SourceBecomes(r) /\ source.state = "readable"
        /\ produced' = produced /\ answered' = answered /\ aborted' = aborted
    BY <1>7 DEF SourceErrors
  <2>2. Ended(source, r, "errored") /\ r.state = "errored"
    BY <1>1, <2>1, EndKeeps
  <2> HIDE DEF Now, r
  <2>3. PipeInv(WithSource(Now, r), produced)
    BY <1>1, <2>1, <2>2, SourceEnding
  <2>. QED  BY <1>1, <2>1, <2>3, SourceStep
<1>. QED  BY <1>2, <1>3, <1>4, <1>5, <1>6, <1>7 DEF SourceSettles, SourceAnswers

LEMMA PipeToIs ==
  ASSUME NEW prevent, PipeTo(prevent)
  PROVE  Become(IF aborted THEN Shutdown(Locked(Now, prevent), "signal", TRUE)
                           ELSE PipeStep(Looks4(Now, Locked(Now, prevent))))
<1> DEFINE l == [Now EXCEPT !.r = R!GetReader(source), !.w = W!GetWriter(destination),
                            !.p.phase = "piping", !.p.prevent = prevent]
           s1 == IF source.state = "errored" THEN SourceErrored(l) ELSE l
           s2 == IF destination.state = "errored" THEN DestinationErrored(s1) ELSE s1
           s3 == IF source.state = "closed" THEN SourceClosed(s2) ELSE s2
           s4 == IF W!CloseQueuedOrInFlight(destination) \/ destination.state = "closed"
                 THEN DestinationErrored(s3) ELSE s3
<1>1. Now.r = source /\ Now.w = destination
  BY DEF Now
<1> HIDE DEF Now
<1>2. Become(IF aborted THEN Shutdown(l, "signal", TRUE) ELSE PipeStep(s4))
  BY Zenon DEF PipeTo
<1>3. l = Locked(Now, prevent)
  BY Zenon, <1>1 DEF Locked
<1> HIDE DEF l
<1>4. s1 = Looks1(Now, l)
  BY Zenon, <1>1 DEF Looks1
<1> HIDE DEF s1
<1>5. s2 = Looks2(Now, l)
  BY Zenon, <1>1, <1>4 DEF Looks2
<1> HIDE DEF s2
<1>6. s3 = Looks3(Now, l)
  BY Zenon, <1>1, <1>5 DEF Looks3
<1> HIDE DEF s3
<1>7. s4 = Looks4(Now, l)
  BY Zenon, <1>1, <1>6 DEF Looks4
<1> HIDE DEF s4
<1>. QED  BY Zenon, <1>2, <1>3, <1>7

\* What the pipe does.
LEMMA PipeActions ==
  ASSUME Inv, RunJob \/ SignalAbort \/ \E prevent \in SUBSET Parts : PipeTo(prevent)
  PROVE  Inv'
<1>1. PipeInv(Now, produced) /\ answered \in BOOLEAN /\ aborted \in BOOLEAN
  BY DEF Inv
<1>2. CASE RunJob
  <2>1. /\ Now.j # <<>> /\ Become(Perform(Popped(Now), Head(Now.j)[1], Head(Now.j)[2]))
        /\ produced' = produced /\ answered' = answered /\ aborted' = aborted
    BY <1>2 DEF RunJob, Popped, Now
  <2> HIDE DEF Now
  <2>2. PipeInv(Perform(Popped(Now), Head(Now.j)[1], Head(Now.j)[2]), produced)
    BY <1>1, <2>1, JobRun
  <2>3. PipeInv(Now, produced)'
    BY <2>1, <2>2, BecomeKeeps
  <2>. QED  BY <1>1, <2>1, <2>3 DEF Inv
<1>3. CASE SignalAbort
  <2> DEFINE f == Shutdown(Now, "signal", TRUE)
  <2>1. Become(f) /\ produced' = produced /\ answered' = answered /\ aborted' = TRUE
    BY Zenon, <1>3 DEF SignalAbort
  <2>2. PipeInv(f, produced)
    BY Zenon, <1>1, SignalKeeps
  <2> HIDE DEF Now, f
  <2>3. PipeInv(Now, produced)'
    BY <2>1, <2>2, BecomeKeeps
  <2>. QED  BY <1>1, <2>1, <2>3 DEF Inv
<1>4. ASSUME NEW prevent \in SUBSET Parts, PipeTo(prevent)  PROVE Inv'
  <2> DEFINE l == Locked(Now, prevent)
             f == IF aborted THEN Shutdown(l, "signal", TRUE) ELSE PipeStep(Looks4(Now, l))
  <2>0. /\ pipe.phase = "idle"
        /\ produced' = produced /\ answered' = answered /\ aborted' = aborted
    BY Zenon, <1>4 DEF PipeTo
  <2>1. Now.p.phase = "idle"
    BY <2>0 DEF Now
  <2>2. Become(f)
    BY Zenon, <1>4, PipeToIs
  <2>3. \/ f = Shutdown(Locked(Now, prevent), "signal", TRUE)
        \/ f = PipeStep(Looks4(Now, Locked(Now, prevent)))
    BY Zenon
  <2> HIDE DEF Now, f
  <2>4. PipeInv(f, produced)
    BY Zenon, <1>1, <2>1, <2>3, PipeToKeeps
  <2>5. PipeInv(Now, produced)'
    BY <2>0, <2>2, <2>4, BecomeKeeps
  <2>. QED  BY <1>1, <2>0, <2>5 DEF Inv
<1>. QED  BY <1>2, <1>3, <1>4

LEMMA NewStreams ==
  /\ DestinationInv(W!New) /\ W!New.settled = <<>> /\ W!QueuedChunks(W!New) = <<>>
  /\ W!New.inFlight = "none" /\ W!New.state = "writable" /\ ~W!New.locked
  /\ ~W!CloseQueuedOrInFlight(W!New)
  /\ R!New \in R!Type /\ SourceShape(R!New) /\ R!New.answers = <<>> /\ R!New.requests = 0
  /\ ~R!New.locked /\ R!New.state = "readable" /\ R!New.queue = <<>>
<1> DEFINE w == W!New   r == R!New   k == SinkHighWaterMark
<1>1. k \in Nat /\ k # 0
  BY PipeAssumption
<1>2. /\ w.queue = <<>> /\ w.settled = <<>> /\ w.inFlight = "none" /\ w.state = "writable"
      /\ ~w.locked /\ ~w.closeRequest /\ ~w.started /\ w.algorithms /\ w.pendingAbort = "none"
      /\ ~w.aborting /\ w.ready = "none" /\ w.closed = "none" /\ w.close = "none" /\ w.abort = "none"
      /\ ~w.broken /\ ~w.backpressure
  BY Zenon, <1>1 DEF W!New
<1>3. w \in W!Type
  <2> DEFINE q == <<>>   b == SinkHighWaterMark = 0
  <2>1. q \in Seq(Chunk) /\ q \in Seq(Chunk \cup {W!CloseSentinel}) /\ b \in BOOLEAN
    OBVIOUS
  <2> HIDE DEF q, b
  <2>2. W!New = [state |-> "writable", started |-> FALSE,
        backpressure |-> b, algorithms |-> TRUE,
        queue |-> q, inFlight |-> "none", closeRequest |-> FALSE,
        pendingAbort |-> "none", aborting |-> FALSE, locked |-> FALSE,
        ready |-> "none", closed |-> "none", close |-> "none",
        abort |-> "none", settled |-> q, broken |-> FALSE]
    BY DEF W!New, q, b
  <2>. QED  BY <2>1, <2>2 DEF W!Type, W!Settlement
<1>4. /\ r \in R!Type /\ r.answers = <<>> /\ r.requests = 0 /\ ~r.locked /\ r.state = "readable"
      /\ r.queue = <<>> /\ r.closed = "pending"
  BY DEF R!New, R!Type, R!Settlement
<1> HIDE DEF w, r
<1>5. W!QueuedChunks(w) = <<>> /\ ~W!CloseQueuedOrInFlight(w) /\ Alive(w)
  BY <1>2 DEF W!QueuedChunks, W!CloseQueuedOrInFlight, Alive
<1>6. ~W!Backpressure(w) /\ Len(w.queue) = 0
  <2>1. Len(<<>>) = 0 /\ ~(0 >= k)
    BY <1>1
  <2>. QED  BY <1>2, <1>5, <2>1 DEF W!Backpressure
<1>7. QueueShape(w) /\ InFlightShape(w) /\ AlgorithmsKept(w) /\ PromisesOwed(w)
  BY <1>2, <1>5, <1>6 DEF QueueShape, InFlightShape, AlgorithmsKept, PromisesOwed
<1>8. ReadyFollows(w)
  BY <1>2, <1>5, <1>6 DEF ReadyFollows
<1>9. SourceShape(r)
  BY <1>4 DEF SourceShape
<1>. QED  BY <1>2, <1>3, <1>4, <1>5, <1>7, <1>8, <1>9 DEF DestinationInv, w, r

LEMMA InitKeeps ==
  ASSUME Init
  PROVE  Inv
<1> DEFINE s == Now   e == [chunks |-> <<>>, closed |-> FALSE, aborted |-> FALSE]
<1>1. /\ s.r = R!New /\ s.w = W!New /\ s.p = IdlePipe /\ s.j = <<>> /\ s.calls = e
      /\ s = [r |-> R!New, w |-> W!New, p |-> IdlePipe, j |-> <<>>, calls |-> e, cancelling |-> FALSE]
      /\ produced = 0 /\ answered = FALSE /\ aborted = FALSE
  BY Zenon DEF Init, Now
<1>2. e \in CallsType /\ e.chunks = <<>> /\ ~e.closed
  BY DEF CallsType
<1>3. IdlePipe \in PipeType
  BY DEF PipeType, IdlePipe
<1>4. /\ s.p.phase = "idle" /\ s.p.loop = "off" /\ s.p.parts = {} /\ s.p.awaited = None
      /\ s.p.action = "none" /\ s.p.result = "pending" /\ s.p.written = {} /\ s.p.current = None
  BY <1>1 DEF IdlePipe
<1>5. Len(s.j) = 0 /\ Len(s.calls.chunks) = 0 /\ Len(W!QueuedChunks(s.w)) = 0 /\ Len(s.r.queue) = 0
  BY <1>1, <1>2, NewStreams
<1>6. s \in State
  <2> HIDE DEF s, e
  <2> DEFINE q == <<>>
  <2>1. q \in Seq(Job) /\ W!New \in W!Type
    BY NewStreams DEF DestinationInv
  <2> HIDE DEF q
  <2>2. s = [r |-> R!New, w |-> W!New, p |-> IdlePipe, j |-> q, calls |-> e, cancelling |-> FALSE]
    BY <1>1 DEF q
  <2>. QED  BY <1>2, <1>3, <2>1, <2>2, NewStreams DEF State
<1> HIDE DEF s, e
<1>7. /\ DestinationInv(s.w) /\ s.w.settled = <<>> /\ s.w.inFlight = "none" /\ s.w.state = "writable"
      /\ SourceShape(s.r) /\ s.r.answers = <<>> /\ s.r.requests = 0 /\ ~s.r.locked /\ ~s.w.locked
      /\ s.r.state = "readable" /\ ~W!CloseQueuedOrInFlight(s.w) /\ W!QueuedChunks(s.w) = <<>>
  BY <1>1, NewStreams
<1>8. (\A kind : ~Has(s.j, kind)) /\ ~EndsWell(s.p)
  BY <1>4, <1>5 DEF Has, EndsWell
<1>9. LoopInv(s.j, s.p) /\ SourceInv(s.r, s.p)
  BY <1>5, <1>7 DEF LoopInv, SourceInv
<1>10. RoomInv(s.r, s.w, s.p, s.j) /\ PhaseInv(s.r, s.w, s.p, s.j)
  BY <1>4, <1>5, <1>8, PipeAssumption DEF RoomInv, PhaseInv
<1>11. Base(s.calls, s.w) = 0 /\ Reached(s.calls, s.w) = 0
  BY <1>5, <1>7 DEF Base, Reached
<1>12. OrderInv(s.calls, s.w, s.r, 0)
  <2>1. Len(Chunks) \in Nat
    BY PipeAssumption, LenProperties
  <2>2. QueueOrder(s.r, 0)
    BY <1>5 DEF QueueOrder
  <2>. QED  BY <1>5, <1>11, <2>1, <2>2 DEF OrderInv
<1>13. ClosedInv(s.calls, s.w)
  BY <1>1, <1>2, <1>7 DEF ClosedInv
<1>14. WriteInv(s.calls, s.w, s.r, s.p, s.j, 0) /\ EndInv(s.calls, s.w, s.p, s.j, 0)
  BY <1>4, <1>8 DEF WriteInv, EndInv
<1>15. KnownInv(s.w, s.r, s.p, s.j, 0)
  <2>1. \A c : ~Known(s.w, s.p, s.j, c)
    BY <1>4, <1>5 DEF Known
  <2>2. \A c \in Chunk : c # s.p.current
    BY <1>4, PipeAssumption
  <2>. QED  BY <1>5, <1>8, <2>1, <2>2 DEF KnownInv
<1>16. Core(s, 0)
  BY <1>6, <1>7, <1>9, <1>10, <1>12, <1>13, <1>14, <1>15 DEF Core
<1>17. Balance(s, 0) /\ ReadyWaits(s) /\ PipingInv(s)
  BY <1>4, <1>5, <1>8, <1>11 DEF Balance, BalanceInv, ReadyWaits, PipingInv
<1>18. RestInv(s, 0)
  BY <1>1, <1>2, <1>4, <1>5, <1>7 DEF RestInv
<1>. QED  BY Zenon, <1>1, <1>16, <1>17, <1>18 DEF PipeInv, Inv, s

LEMMA NextKeeps ==
  ASSUME Inv, [Next]_vars
  PROVE  Inv'
<1>1. CASE UNCHANGED vars
  <2>1. Now' = Now /\ produced' = produced /\ answered' = answered /\ aborted' = aborted
    BY <1>1 DEF vars, Now
  <2> HIDE DEF Now
  <2>2. PipeInv(Now', produced')
    BY <2>1 DEF Inv
  <2>. QED  BY <2>1, <2>2 DEF Inv
<1>2. CASE RunJob \/ SignalAbort \/ \E prevent \in SUBSET Parts : PipeTo(prevent)
  BY <1>2, PipeActions
<1>3. CASE SourceSettles \/ SourceAnswers
  BY <1>3, SourceActions
<1>4. CASE SinkSettles \/ SinkErrors \/ DestinationCloses \/ DestinationAborts
  BY <1>4, SinkActions
<1>. QED  BY <1>1, <1>2, <1>3, <1>4 DEF Next

-----------------------------------------------------------------------------
(* The theorems.                                                            *)

\* Inv is an invariant: the streams, the pipe's notes, its microtasks and the
\* sink's calls fit together in every state.
THEOREM PipeKeepsInv == Spec => []Inv
<1>1. Init => Inv
  BY InitKeeps
<1>2. Inv /\ [Next]_vars => Inv'
  BY NextKeeps
<1>. QED  BY <1>1, <1>2, PTL DEF Spec

\* Every variable stays within its type, and no promise or read request is
\* left settled with nobody told.
THEOREM TypeCorrect == Spec => []TypeOK
<1>1. Inv => TypeOK
  <2> SUFFICES ASSUME Inv  PROVE TypeOK
    OBVIOUS
  <2>1. /\ Now \in State /\ Now.w.settled = <<>> /\ Now.r.answers = <<>>
        /\ produced \in 0..Len(Chunks) /\ answered \in BOOLEAN /\ aborted \in BOOLEAN
    BY DEF Inv, PipeInv, Core, SourceInv, OrderInv
  <2>2. /\ source \in R!Type /\ destination \in W!Type /\ pipe \in PipeType
        /\ calls \in CallsType /\ cancelling \in BOOLEAN
        /\ destination.settled = <<>> /\ source.answers = <<>>
    BY <2>1 DEF State, Now
  <2>. QED  BY <2>1, <2>2 DEF TypeOK, CallsType
<1>. QED  BY <1>1, PipeKeepsInv, PTL

\* None of the InternalErrors that guard the writable stream's algorithms is
\* ever thrown, whatever the order of writes, closes, aborts and errors.
THEOREM NeverBroken == Spec => []NoInternalError
<1>1. Inv => NoInternalError
  BY DEF Inv, PipeInv, Core, DestinationInv, NoInternalError, Now
<1>. QED  BY <1>1, PipeKeepsInv, PTL

\* A finished destination leaves no promise pending, and the writer's ready
\* promise is pending exactly while there is no room for a chunk.
THEOREM PromisesAreTrue == Spec => []PromisesTellTheState
<1>1. Inv => PromisesTellTheState
  <2> SUFFICES ASSUME Inv  PROVE RequestsSettle /\ ReadyMeansRoom
    BY DEF PromisesTellTheState
  <2>1. DestinationInv(destination)
    BY DEF Inv, PipeInv, Core, Now
  <2>2. RequestsSettle
    BY <2>1 DEF RequestsSettle, DestinationInv, QueueShape, InFlightShape, PromisesOwed, ReadyFollows,
       Alive, W!Finished
  <2>3. ReadyMeansRoom
    BY <2>1 DEF ReadyMeansRoom, DestinationInv, ReadyFollows
  <2>. QED  BY <2>2, <2>3
<1>. QED  BY <1>1, PipeKeepsInv, PTL

\* A chunk is read only when the destination has room for it: what is queued
\* and what is on its way never exceed the sink's high water mark.
THEOREM BackpressureHolds == Spec => []BackpressureObeyed
<1>1. Inv => BackpressureObeyed
  <2> SUFFICES ASSUME Inv  PROVE BackpressureObeyed
    OBVIOUS
  <2> DEFINE j == Now.j   D == {i \in DOMAIN jobs : jobs[i][1] = "write"}   c == Cardinality(D)
             a == Len(W!QueuedChunks(destination))   k == SinkHighWaterMark
  <2>1. /\ j = jobs /\ j \in Seq(Job) /\ LoopInv(j, Now.p) /\ DestinationInv(destination)
        /\ Has(j, "write") => HasRoom(destination)
        /\ a <= k
    BY DEF Inv, PipeInv, Core, RoomInv, State, Now
  <2>2. a \in Nat /\ k \in Nat /\ (Has(j, "write") => a < k)
    BY <2>1, HeadOfQueue, PipeAssumption DEF HasRoom
  <2> HIDE DEF j
  <2>3. DOMAIN jobs = 1..Len(jobs)
    BY <2>1, LenProperties
  <2>4. \A i \in D, m \in D : i = m
    <3> SUFFICES ASSUME NEW i \in D, NEW m \in D  PROVE i = m
      OBVIOUS
    <3>1. i \in 1..Len(j) /\ m \in 1..Len(j) /\ j[i][1] = "write" /\ j[m][1] = "write"
      BY <2>1, <2>3
    <3>2. /\ i + 1 \in 1..Len(j) /\ j[i + 1][1] \in LoopKinds
          /\ m + 1 \in 1..Len(j) /\ j[m + 1][1] \in LoopKinds
      BY Zenon, <2>1, <3>1 DEF LoopInv, LoopKinds
    <3>3. i + 1 = m + 1
      BY <2>1, <3>2 DEF LoopInv
    <3>. QED  BY <3>1, <3>3
  <2>5. CASE D = {}
    <3>1. c = 0
      BY <2>5, FS_EmptySet
    <3> HIDE DEF a, c, k
    <3>2. a + c <= k
      BY <2>1, <2>2, <3>1
    <3>. QED  BY <3>2 DEF BackpressureObeyed, a, c, k
  <2>6. CASE D # {}
    <3>1. PICK i \in D : TRUE
      BY <2>6
    <3>2. D = {i}
      BY <2>4, <3>1
    <3>3. c = 1
      BY Zenon, <3>2, FS_Singleton
    <3>4. Has(j, "write")
      BY <2>1, <2>3, <3>1 DEF Has
    <3> HIDE DEF a, c, k, D
    <3>5. a + c <= k
      BY <2>2, <3>3, <3>4
    <3>. QED  BY <3>5 DEF BackpressureObeyed, a, c, k, D
  <2>. QED  BY <2>5, <2>6
<1>. QED  BY <1>1, PipeKeepsInv, PTL

LEMMA FirstChunks ==
  ASSUME NEW q \in Seq(Chunk), NEW n \in 0..Len(Chunks), Len(q) = n,
         \A i \in 1..Len(q) : q[i] = Chunks[i]
  PROVE  q = SubSeq(Chunks, 1, n)
<1> DEFINE t == SubSeq(Chunks, 1, n)   m == Len(Chunks)
<1>1. Chunks \in Seq(Chunk) /\ m \in Nat /\ \A i \in 1..m : Chunks[i] \in Chunk
  BY PipeAssumption, ElementOfSeq, LenProperties
<1>2. n \in Int /\ 1 \in Int /\ \A i \in 1..n : Chunks[i] \in Chunk
  BY <1>1
<1>3. t \in Seq(Chunk) /\ Len(t) = (IF 1 <= n THEN n - 1 + 1 ELSE 0)
      /\ \A i \in 1..(n - 1 + 1) : t[i] = Chunks[1 + i - 1]
  BY <1>2, SubSeqProperties
<1> HIDE DEF t, m
<1>4. n \in Nat /\ n - 1 + 1 = n /\ \A i \in 1..n : 1 + i - 1 = i
  BY <1>1 DEF m
<1>5. Len(t) = n /\ \A i \in 1..n : t[i] = Chunks[i]
  BY <1>3, <1>4
<1>. QED  BY <1>3, <1>5, SeqEqual DEF t

\* The sink gets the chunks in the source's order, and the pipe closes it only
\* after every chunk of the source.
THEOREM InOrder == Spec => []DeliversInOrder
<1>1. Inv => DeliversInOrder
  <2> SUFFICES ASSUME Inv  PROVE DeliversInOrder
    OBVIOUS
  <2> DEFINE s == Now   q == calls.chunks   k == Len(q)   n == produced
  <2>1. /\ Core(s, n) /\ s.calls = calls /\ s.w = destination /\ s.p = pipe
        /\ q \in Seq(Chunk)
    BY DEF Inv, PipeInv, Core, State, CallsType, Now
  <2> HIDE DEF s
  <2>2. /\ k \in Nat /\ n \in 0..Len(Chunks) /\ Len(Chunks) \in Nat
        /\ \A i \in 1..k : q[i] = Chunks[i]
    BY Zenon, <2>1, SourceNumbers, LenProperties DEF Core, OrderInv
  <2>3. k <= Len(Chunks)
    <3> DEFINE a == Len(W!QueuedChunks(s.w))   b == Base(s.calls, s.w)   m == Reached(s.calls, s.w)
               e == Len(s.r.queue)   N == Len(Chunks)
    <3>1. /\ a \in Nat /\ b \in Nat /\ m = b + a /\ e \in Nat /\ m + e <= n /\ n \in 0..N
          /\ N \in Nat
      BY <2>1, SourceNumbers
    <3>2. b = k - (IF destination.inFlight = "write" THEN 1 ELSE 0)
      BY <2>1 DEF Base
    <3>3. destination.inFlight = "write" => a >= 1
      BY <2>1, HeadOfQueue DEF Core
    <3> HIDE DEF a, b, m, e, N, k, n
    <3>4. k <= N
      BY <2>2, <3>1, <3>2, <3>3
    <3>. QED  BY <3>4 DEF N
  <2>4. IsPrefix(q, Chunks)
    <3>1. k \in 0..Len(Chunks)
      BY <2>2, <2>3
    <3>2. q = SubSeq(Chunks, 1, k)
      BY <2>1, <2>2, <3>1, FirstChunks
    <3>3. SubSeq(q, 1, k) = q
      BY <2>1, SubSeqFull
    <3>. QED  BY <2>3, <3>2, <3>3 DEF IsPrefix
  <2>5. ASSUME pipe.action = "close", calls.closed  PROVE q = SubSeq(Chunks, 1, n)
    <3>1. Reached(s.calls, s.w) = n
      BY <2>1, <2>5 DEF Core, PhaseInv, EndInv
    <3>2. W!QueuedChunks(s.w) = <<>> /\ s.w.inFlight # "write"
      BY <2>1, <2>5, HeadOfQueue DEF Core, ClosedInv
    <3>3. Len(W!QueuedChunks(s.w)) = 0
      BY <3>2
    <3>4. k - 0 + 0 = n
      BY <2>1, <3>1, <3>2, <3>3 DEF Reached, Base
    <3>5. k = n
      <4> HIDE DEF k, n
      <4>. QED  BY <2>2, <3>4
    <3>. QED  BY <2>1, <2>2, <3>5, FirstChunks
  <2>. QED  BY <2>4, <2>5 DEF DeliversInOrder
<1>. QED  BY <1>1, PipeKeepsInv, PTL

\* What is handed over is what is counted as having reached the destination.
LEMMA HandedIs ==
  ASSUME NEW n, NEW s, Core(s, n)
  PROVE  LET h == s.calls.chunks \o W!WriteRequests(s.w)
         IN  /\ h \in Seq(Chunk) /\ Len(h) = Reached(s.calls, s.w)
             /\ \A i \in 1..Len(h) : h[i] = Chunks[i]
<1> DEFINE c == s.calls.chunks   q == W!QueuedChunks(s.w)   v == W!WriteRequests(s.w)   h == c \o v
           k == Len(c)   a == Len(q)   b == Base(s.calls, s.w)   m == Reached(s.calls, s.w)   u == Len(v)
           x == IF s.w.inFlight = "write" THEN 1 ELSE 0
<1>1. /\ c \in Seq(Chunk) /\ DestinationInv(s.w)
      /\ \A i \in 1..k : c[i] = Chunks[i]
      /\ \A i \in 1..a : q[i] = Chunks[b + i]
  BY DEF Core, OrderInv, State, CallsType
<1>2. q \in Seq(Chunk) /\ a \in Nat /\ k \in Nat /\ (s.w.inFlight = "write" => a >= 1)
  BY <1>1, HeadOfQueue, LenProperties
<1>3. b \in Nat /\ m = b + a /\ b = k - x /\ x \in {0, 1}
  <2>1. b \in Nat /\ m = b + a
    BY SourceNumbers
  <2>. QED  BY <2>1 DEF Base
<1>4. v \in Seq(Chunk) /\ u = a - x /\ \A i \in 1..(a - x) : v[i] = q[i + x]
  <2>1. CASE s.w.inFlight = "write"
    <3>1. v = Tail(q) /\ q # <<>> /\ x = 1
      BY <1>2, <2>1 DEF W!WriteRequests
    <3> HIDE DEF q, v, x
    <3>2. Tail(q) \in Seq(Chunk) /\ Len(Tail(q)) = a - 1 /\ \A i \in 1..Len(Tail(q)) : Tail(q)[i] = q[i + 1]
      BY <1>2, <3>1, HeadTailProperties
    <3>3. a - 1 = a - x /\ Len(Tail(q)) = a - x
      BY <3>1, <3>2
    <3> HIDE DEF a
    <3>. QED  BY <3>1, <3>2, <3>3
  <2>2. CASE s.w.inFlight # "write"
    <3>1. v = q /\ x = 0
      BY <2>2 DEF W!WriteRequests
    <3> HIDE DEF q, v, x
    <3>2. a - x = a /\ \A i \in 1..a : i + x = i
      BY <1>2, <3>1
    <3>. QED  BY <1>2, <3>1, <3>2
  <2>. QED  BY <2>1, <2>2
<1>5. h \in Seq(Chunk) /\ Len(h) = k + u
      /\ \A i \in 1..(k + u) : h[i] = IF i <= k THEN c[i] ELSE v[i - k]
  <2>1. c \in Seq(Chunk) /\ v \in Seq(Chunk)
    BY <1>1, <1>4
  <2> HIDE DEF c, v
  <2>. QED  BY <2>1, ConcatProperties
<1> HIDE DEF c, q, v, h, k, a, b, m, u, x
<1>6. Len(h) = m /\ k + u = m /\ m \in Nat
  BY <1>2, <1>3, <1>4, <1>5
<1>7. ASSUME NEW i \in 1..m  PROVE h[i] = Chunks[i]
  <2>1. CASE i <= k
    BY <1>1, <1>2, <1>5, <1>6, <2>1
  <2>2. CASE ~(i <= k)
    <3>1. i - k \in 1..(a - x) /\ i - k + x \in 1..a /\ b + (i - k + x) = i
      BY <1>2, <1>3, <1>4, <1>6, <2>2
    <3>2. h[i] = v[i - k]
      BY <1>5, <1>6, <2>2
    <3>. QED  BY <1>1, <1>4, <3>1, <3>2
  <2>. QED  BY <2>1, <2>2
<1>. QED  BY Zenon, <1>5, <1>6, <1>7 DEF h, c, v, m

LEMMA EndHasAll ==
  ASSUME Inv
  PROVE  AllDelivered
<1> SUFFICES ASSUME pipe.result = "fulfilled", destination.state \in {"writable", "closed"}
             PROVE  Handed = SubSeq(Chunks, 1, produced)
  BY DEF AllDelivered
<1> DEFINE s == Now   n == produced
<1>1. Core(s, n) /\ s.calls = calls /\ s.w = destination /\ s.p = pipe
  BY DEF Inv, PipeInv, Now
<1> HIDE DEF s
<1>2. s.p.phase = "done" /\ EndsWell(s.p)
  BY <1>1 DEF Core, EndInv, EndsWell
<1>3. s.w.state = "closed" => s.calls.closed
  BY <1>1 DEF Core, ClosedInv
<1>4. Reached(s.calls, s.w) = n
  BY <1>1, <1>2, <1>3 DEF Core, EndInv
<1>5. Handed \in Seq(Chunk) /\ Len(Handed) = n /\ \A i \in 1..Len(Handed) : Handed[i] = Chunks[i]
  BY Zenon, <1>1, <1>4, HandedIs DEF Handed
<1>6. n \in 0..Len(Chunks)
  BY <1>1, SourceNumbers
<1>. QED  BY <1>5, <1>6, FirstChunks

\* A pipe whose promise is fulfilled has handed over everything.
THEOREM EndsWithAll == Spec => []AllDelivered
<1>1. Inv => AllDelivered
  BY EndHasAll
<1>. QED  BY <1>1, PipeKeepsInv, PTL

-----------------------------------------------------------------------------
(* The chunk that a shutdown waits for.                                     *)

SettleKinds == {"adopt", "settle"}
ActKinds == {"rest", "all", "then", "finalize"}

Settles(j, c) == \E i \in 1..Len(j) : j[i][1] \in SettleKinds /\ j[i][2] = c
Queued(w, c) == \E i \in 1..Len(W!QueuedChunks(w)) : W!QueuedChunks(w)[i] = c
Called(calls0, c) == \E i \in 1..Len(calls0.chunks) : calls0.chunks[i] = c

\* The promise of a write settles once: the chunk is in the queue, or its
\* promise is on its way to the pipe, or the pipe has seen it settle.
OnceInv(w, p, j) ==
  /\ \A i, k \in 1..Len(j) :
       j[i][1] \in SettleKinds /\ j[k][1] \in SettleKinds /\ j[i][2] = j[k][2] => i = k
  /\ \A c \in Chunk : Settles(j, c) => c \notin p.written
  /\ \A c \in Chunk : Queued(w, c) => c \notin p.written /\ ~Settles(j, c)

\* As long as the destination works, a write settles because the sink wrote.
SentInv(calls0, w, p, j) ==
  p.phase # "done" /\ W!Accepts(w) =>
    \A c \in Chunk : c \in p.written \/ Settles(j, c) => Called(calls0, c)

WriteOnce(s) ==
  /\ OnceInv(s.w, s.p, s.j) /\ SentInv(s.calls, s.w, s.p, s.j)
  /\ s.calls.aborted => s.w.state = "errored"

\* Nobody has aborted or closed the destination.
Pure(w, calls0) ==
  /\ w.pendingAbort # "fresh" /\ ~w.aborting /\ w.inFlight # "close" /\ w.state # "closed"
  /\ ~calls0.aborted /\ ~calls0.closed

Untouched(w, calls0) == Pure(w, calls0) /\ ~w.closeRequest
Failed(w, calls0) == Pure(w, calls0) /\ w.state \in {"erroring", "errored"}

\* The chunk has been handed to the sink, or the destination failed before.
Good(s) == s.p.awaited = None \/ Called(s.calls, s.p.awaited) \/ Failed(s.w, s.calls)

\* The shutdown waits: for the chunk, or for the job that tells of it.
Waiting(s) ==
  /\ s.p.phase = "shuttingDown"
  /\ s.p.awaited \notin s.p.written \cup {None} \/ Has(s.j, "waited")

\* One job at most tells of the end of the wait, and of the chunk awaited.
OneWait(s) ==
  /\ \A i, k \in 1..Len(s.j) : s.j[i][1] = "waited" /\ s.j[k][1] = "waited" => i = k
  /\ \A i \in 1..Len(s.j) :
       s.j[i][1] = "waited" => s.p.phase = "shuttingDown" /\ s.j[i][2] = s.p.awaited
  /\ s.p.phase = "done" => s.p.awaited \in s.p.written \cup {None}

\* No part of the action has begun.
NotYet(s) == s.p.parts = {} /\ \A kind \in ActKinds : ~Has(s.j, kind)

WaitInv(s) ==
  /\ OneWait(s)
  /\ Waiting(s) => Untouched(s.w, s.calls) /\ NotYet(s)
  /\ s.p.phase \in {"shuttingDown", "done"} /\ ~Waiting(s) => Good(s)

AwaitInv(s) == WriteOnce(s) /\ WaitInv(s)

-----------------------------------------------------------------------------
(* Steps that leave the wait alone.                                         *)

WaitedStay(j, t) == \A i \in 1..Len(t) : t[i][1] = "waited" => i \in 1..Len(j) /\ t[i] = j[i]

\* Jobs are pushed that stand for no write and for no wait.
Grows(j, t) ==
  /\ \A i \in 1..Len(j) : i \in 1..Len(t) /\ t[i] = j[i]
  /\ \A i \in 1..Len(t) : t[i][1] \in SettleKinds \cup {"waited"} => i \in 1..Len(j)

Lasts(p, p2) ==
  /\ p2.written = p.written /\ p2.awaited = p.awaited
  /\ p2.phase = p.phase \/ (p.phase = "shuttingDown" /\ p2.phase = "done")

Light(s, f) == f.w = s.w /\ f.calls = s.calls /\ Lasts(s.p, f.p) /\ Grows(s.j, f.j)

\* What a step may do once the wait is over.
Drift(s, f) ==
  /\ Lasts(s.p, f.p)
  /\ Has(f.j, "waited") => Has(s.j, "waited")
  /\ \A c : Called(s.calls, c) => Called(f.calls, c)
  /\ Failed(s.w, s.calls) => Failed(f.w, f.calls)
  /\ WriteOnce(s) => WriteOnce(f)

\* What it may do before that: the action does not begin, either.
Still(s, f) ==
  /\ Drift(s, f) /\ f.p.phase = s.p.phase
  /\ WaitedStay(s.j, f.j) /\ WaitedStay(f.j, s.j)
  /\ Untouched(s.w, s.calls) => Untouched(f.w, f.calls)

Calm(s, f) == Still(s, f) /\ (NotYet(s) => NotYet(f))

LEMMA LightDrifts ==
  ASSUME NEW s, NEW f, Light(s, f)
  PROVE  /\ Drift(s, f)
         /\ f.p.phase = s.p.phase => Still(s, f)
<1>1. \A i \in 1..Len(f.j) : f.j[i][1] \in SettleKinds \cup {"waited"} => i \in 1..Len(s.j) /\ f.j[i] = s.j[i]
  BY DEF Light, Grows
<1>2. WaitedStay(s.j, f.j) /\ (Has(f.j, "waited") => Has(s.j, "waited"))
  BY <1>1 DEF WaitedStay, Has
<1>3. WaitedStay(f.j, s.j)
  BY DEF Light, Grows, WaitedStay
<1>4. \A c : Settles(f.j, c) => Settles(s.j, c)
  BY <1>1 DEF Settles
<1>5. ASSUME OnceInv(s.w, s.p, s.j)  PROVE OnceInv(f.w, f.p, f.j)
  <2>1. \A i, k \in 1..Len(f.j) :
          f.j[i][1] \in SettleKinds /\ f.j[k][1] \in SettleKinds /\ f.j[i][2] = f.j[k][2] => i = k
    BY Zenon, <1>1, <1>5 DEF OnceInv
  <2>. QED  BY <1>4, <1>5, <2>1 DEF OnceInv, Light, Lasts
<1>6. SentInv(s.calls, s.w, s.p, s.j) => SentInv(f.calls, f.w, f.p, f.j)
  BY <1>4 DEF SentInv, Light, Lasts
<1>7. Drift(s, f)
  BY <1>2, <1>5, <1>6 DEF Drift, Light, WriteOnce
<1>. QED  BY <1>2, <1>3, <1>7 DEF Still, Light

LEMMA DriftsOn ==
  ASSUME NEW s, NEW t, NEW f, Drift(s, t), Drift(t, f)
  PROVE  Drift(s, f)
BY DEF Drift, Lasts

LEMMA StillsOn ==
  ASSUME NEW s, NEW t, NEW f, Still(s, t), Still(t, f)
  PROVE  Still(s, f)
<1>1. Drift(s, f)
  BY DriftsOn DEF Still
<1>2. WaitedStay(s.j, f.j) /\ WaitedStay(f.j, s.j)
  BY Zenon DEF Still, WaitedStay
<1>. QED  BY <1>1, <1>2 DEF Still

LEMMA CalmsOn ==
  ASSUME NEW s, NEW t, NEW f, Calm(s, t), Calm(t, f)
  PROVE  Calm(s, f)
BY StillsOn DEF Calm

\* A step that only changes what the pipe notes down.
LEMMA SameJobs ==
  ASSUME NEW s, NEW f, f.w = s.w, f.calls = s.calls, Lasts(s.p, f.p), f.j = s.j
  PROVE  /\ Drift(s, f)
         /\ f.p.phase = s.p.phase => Still(s, f)
         /\ f.p.phase = s.p.phase /\ f.p.parts = s.p.parts => Calm(s, f)
<1>1. Light(s, f)
  BY DEF Light, Grows
<1>2. f.p.parts = s.p.parts => (NotYet(s) => NotYet(f))
  BY DEF NotYet
<1>. QED  BY <1>1, <1>2, LightDrifts DEF Calm

LEMMA PushDrifts ==
  ASSUME NEW s \in State, NEW kind, NEW arg, <<kind, arg>> \in Job,
         kind \notin SettleKinds \cup {"waited"}
  PROVE  LET f == Push(s, kind, arg)
         IN  /\ f \in State /\ Still(s, f) /\ f.p = s.p /\ f.r = s.r /\ f.w = s.w
             /\ f.calls = s.calls /\ f.cancelling = s.cancelling
             /\ kind \notin ActKinds => Calm(s, f)
<1> DEFINE f == Push(s, kind, arg)   e == <<kind, arg>>
<1>1. /\ f \in State /\ SameStreams(s, f) /\ f.p = s.p /\ f.cancelling = s.cancelling
      /\ f.j = Append(s.j, e)
  BY PushIs
<1>2. s.j \in Seq(Job) /\ e \in Job /\ e[1] = kind
  BY DEF State
<1> HIDE DEF f, e
<1>3. /\ Len(s.j) \in Nat /\ Len(f.j) = Len(s.j) + 1
      /\ \A i \in 1..Len(s.j) : f.j[i] = s.j[i]
      /\ f.j[Len(s.j) + 1] = e
      /\ \A k : Has(f.j, k) <=> Has(s.j, k) \/ e[1] = k
  BY <1>1, <1>2, JobPushed
<1>4. Grows(s.j, f.j)
  <2>1. \A i \in 1..Len(f.j) : i \in 1..Len(s.j) \/ i = Len(s.j) + 1
    BY <1>3
  <2>2. \A i \in 1..Len(s.j) : i \in 1..Len(f.j)
    BY <1>3
  <2>. QED  BY <1>2, <1>3, <2>1, <2>2 DEF Grows
<1>5. Light(s, f)
  BY <1>1, <1>4 DEF Light, Lasts, SameStreams
<1>6. kind \notin ActKinds => (NotYet(s) => NotYet(f))
  BY <1>1, <1>2, <1>3 DEF NotYet
<1>. QED  BY <1>1, <1>5, <1>6, LightDrifts DEF SameStreams, Calm, f

\* Some part of the action that the pipe waits for may have settled.
LEMMA PartCalms ==
  ASSUME NEW s \in State, NEW part, NEW settlement
  PROVE  LET f == PartSettles(s, part, settlement)
         IN  /\ f \in State /\ Calm(s, f) /\ f.p.loop = s.p.loop /\ f.r = s.r /\ f.w = s.w
             /\ f.calls = s.calls
<1> DEFINE f == PartSettles(s, part, settlement)   p1 == [s.p EXCEPT !.parts = @ \ {part}]
           b == [s EXCEPT !.p.parts = @ \ {part}]
           kind == IF s.p.action = "signal" THEN "all" ELSE "finalize"   ok == settlement = "fulfilled"
<1>1. Calm(s, s)
  BY SameJobs DEF Lasts
<1>2. CASE part \notin s.p.parts \/ settlement \notin {"fulfilled", "rejected"}
  <2>1. f = s
    BY <1>2 DEF PartSettles
  <2>. QED  BY <1>1, <2>1
<1>3. CASE part \in s.p.parts /\ settlement \in {"fulfilled", "rejected"}
  <2>1. f = Push(b, kind, ok)
    BY <1>3 DEF PartSettles
  <2>2. p1 \in PipeType /\ p1.loop = s.p.loop /\ p1.phase = s.p.phase /\ p1.written = s.p.written
        /\ p1.awaited = s.p.awaited
    BY DEF State, PipeType
  <2> HIDE DEF p1
  <2>3. b = [s EXCEPT !.p = p1]
    BY DEF p1
  <2>4. b \in State /\ b.p = p1 /\ b.r = s.r /\ b.w = s.w /\ b.calls = s.calls /\ b.j = s.j
    BY <2>2, <2>3 DEF State
  <2>5. <<kind, ok>> \in Job /\ kind \in {"all", "finalize"}
    BY Zenon DEF Job
  <2> HIDE DEF b, kind, ok
  <2>6. kind \notin SettleKinds \cup {"waited"}
    BY <2>5 DEF SettleKinds
  <2>7. /\ f \in State /\ Still(b, f) /\ f.p = b.p /\ f.r = b.r /\ f.w = b.w /\ f.calls = b.calls
    BY <2>1, <2>4, <2>5, <2>6, PushDrifts
  <2>8. Still(s, b)
    BY <2>2, <2>4, SameJobs DEF Lasts
  <2>9. ~NotYet(s)
    BY <1>3 DEF NotYet
  <2> HIDE DEF f
  <2>10. Calm(s, f)
    BY <2>7, <2>8, <2>9, StillsOn DEF Calm
  <2>. QED  BY <2>2, <2>4, <2>7, <2>10 DEF f
<1>. QED  BY <1>2, <1>3

\* The loop moves.
LEMMA LoopedCalms ==
  ASSUME NEW s \in State, NEW v, v \in {"off", "ready", "read", "job"}
  PROVE  LET f == Looped(s, v)
         IN  /\ f \in State /\ Calm(s, f) /\ f.r = s.r /\ f.w = s.w /\ f.calls = s.calls
             /\ f.p.phase = s.p.phase
<1> DEFINE p1 == [s.p EXCEPT !.loop = v]   f == Looped(s, v)
<1>1. p1 \in PipeType /\ Lasts(s.p, p1) /\ p1.phase = s.p.phase /\ p1.parts = s.p.parts
  BY DEF State, PipeType, Lasts
<1>2. f = [s EXCEPT !.p = p1]
  BY DEF Looped
<1> HIDE DEF p1
<1>3. f \in State /\ f.r = s.r /\ f.w = s.w /\ f.calls = s.calls /\ f.p = p1 /\ f.j = s.j
  BY <1>1, <1>2 DEF State
<1> HIDE DEF f
<1>4. Calm(s, f)
  BY <1>1, <1>3, SameJobs
<1>. QED  BY <1>1, <1>3, <1>4 DEF f

LEMMA WriterToldCalms ==
  ASSUME NEW s \in State, NEW w
  PROVE  LET f == WriterTold(s, w)
         IN  /\ f \in State /\ Calm(s, f) /\ f.r = s.r /\ f.w = s.w /\ f.calls = s.calls
             /\ f.p.phase = s.p.phase
<1> DEFINE f == WriterTold(s, w)   l == Looped(s, "job")
<1>1. Calm(s, s)
  BY SameJobs DEF Lasts
<1>2. \/ f = s \/ f = Looped(s, "off")
      \/ f = Push(l, "ready", None)
  BY DEF WriterTold, Looped
<1>3. CASE f = s
  BY <1>1, <1>3
<1>4. CASE f = Looped(s, "off")
  BY <1>4, LoopedCalms
<1>5. CASE f = Push(l, "ready", None)
  <2>1. l \in State /\ Calm(s, l) /\ l.r = s.r /\ l.w = s.w /\ l.calls = s.calls /\ l.p.phase = s.p.phase
    BY LoopedCalms
  <2>2. <<"ready", None>> \in Job /\ "ready" \notin SettleKinds \cup {"waited"} /\ "ready" \notin ActKinds
    BY DEF Job, LoopKinds, SettleKinds, ActKinds
  <2> HIDE DEF l, f
  <2>3. /\ f \in State /\ Calm(l, f) /\ f.r = l.r /\ f.w = l.w /\ f.calls = l.calls
        /\ f.p = l.p
    BY <1>5, <2>1, <2>2, PushDrifts
  <2>. QED  BY <2>1, <2>3, CalmsOn DEF f
<1>. QED  BY <1>2, <1>3, <1>4, <1>5

LEMMA ToldCalms ==
  ASSUME NEW s \in State, NEW r \in R!Type
  PROVE  LET f == Told(s, r)
         IN  f \in State /\ Calm(s, f) /\ f.w = s.w /\ f.calls = s.calls /\ f.p = s.p
<1> DEFINE f == Told(s, r)   r0 == [r EXCEPT !.answers = <<>>]   b == [s EXCEPT !.r = r0]
           kind == IF r.closed = "fulfilled" THEN "sourceClosed" ELSE "sourceErrored"
<1>1. r0 \in R!Type
  <2>1. <<>> \in Seq(R!Answers)
    OBVIOUS
  <2>. QED  BY Zenon, <2>1 DEF R!Type
<1>2. f = b \/ f = Push(b, kind, None)
  BY DEF Told
<1> HIDE DEF r0
<1>3. b \in State /\ b.w = s.w /\ b.calls = s.calls /\ b.p = s.p /\ b.j = s.j
  BY <1>1 DEF State
<1>4. <<kind, None>> \in Job /\ kind \notin SettleKinds \cup {"waited"} /\ kind \notin ActKinds
  BY DEF Job, SettleKinds, ActKinds
<1> HIDE DEF b, kind, f
<1>5. Calm(s, b)
  BY <1>3, SameJobs DEF Lasts
<1>6. CASE f = b
  BY <1>3, <1>5, <1>6 DEF f
<1>7. CASE f = Push(b, kind, None)
  <2>1. f \in State /\ Calm(b, f) /\ f.w = b.w /\ f.calls = b.calls /\ f.p = b.p
    BY <1>3, <1>4, <1>7, PushDrifts
  <2>. QED  BY <1>3, <1>5, <2>1, CalmsOn DEF f
<1>. QED  BY <1>2, <1>6, <1>7

LEMMA ReadAnsweredCalms ==
  ASSUME NEW s \in State, NEW a
  PROVE  LET f == ReadAnswered(s, a)
         IN  f \in State /\ Calm(s, f) /\ f.w = s.w /\ f.calls = s.calls /\ f.p.phase = s.p.phase
<1> DEFINE f == ReadAnswered(s, a)   p1 == Carrying(s.p, a)   b == [s EXCEPT !.p = p1]
           g == Push(b, "write", a)
<1>1. CASE a \notin Chunk
  <2>1. f = Looped(s, "off")
    BY <1>1 DEF ReadAnswered, Looped
  <2>. QED  BY <2>1, LoopedCalms
<1>2. CASE a \in Chunk
  <2>1. p1 \in PipeType /\ Lasts(s.p, p1) /\ p1.phase = s.p.phase /\ p1.parts = s.p.parts
    BY Zenon, <1>2 DEF Carrying, State, PipeType, Lasts
  <2>2. [s EXCEPT !.p.current = a, !.p.loop = "job"] = b
    BY Zenon DEF Carrying, State
  <2>3. f = Push(g, "adoptRead", None)
    BY <1>2, <2>2 DEF ReadAnswered
  <2> HIDE DEF p1
  <2>4. b \in State /\ b.w = s.w /\ b.calls = s.calls /\ b.p = p1 /\ b.j = s.j
    BY <2>1 DEF State
  <2>5. /\ <<"write", a>> \in Job /\ <<"adoptRead", None>> \in Job
        /\ "write" \notin SettleKinds \cup {"waited"} /\ "write" \notin ActKinds
        /\ "adoptRead" \notin SettleKinds \cup {"waited"} /\ "adoptRead" \notin ActKinds
    BY <1>2 DEF Job, LoopKinds, SettleKinds, ActKinds
  <2> HIDE DEF b, f, g
  <2>6. Calm(s, b)
    BY <2>1, <2>4, SameJobs
  <2>7. g \in State /\ Calm(b, g) /\ g.w = b.w /\ g.calls = b.calls /\ g.p = b.p
    BY <2>4, <2>5, PushDrifts DEF g
  <2>8. f \in State /\ Calm(g, f) /\ f.w = g.w /\ f.calls = g.calls /\ f.p = g.p
    BY <2>3, <2>5, <2>7, PushDrifts
  <2>. QED  BY <2>1, <2>4, <2>6, <2>7, <2>8, CalmsOn DEF f
<1>. QED  BY <1>1, <1>2

\* The source moves.
LEMMA SourceCalms ==
  ASSUME NEW s \in State, NEW r \in R!Type
  PROVE  LET f == WithSource(s, r)
         IN  f \in State /\ Calm(s, f) /\ f.w = s.w /\ f.calls = s.calls /\ f.p.phase = s.p.phase
<1> DEFINE f == WithSource(s, r)   t == Told(s, r)
<1>1. t \in State /\ Calm(s, t) /\ t.w = s.w /\ t.calls = s.calls /\ t.p = s.p
  BY ToldCalms
<1>2. f = t \/ f = ReadAnswered(t, Head(r.answers))
  BY DEF WithSource, Told
<1> HIDE DEF t, f
<1>3. CASE f = t
  BY <1>1, <1>3 DEF f
<1>4. CASE f = ReadAnswered(t, Head(r.answers))
  <2>1. f \in State /\ Calm(t, f) /\ f.w = t.w /\ f.calls = t.calls /\ f.p.phase = t.p.phase
    BY <1>1, <1>4, ReadAnsweredCalms
  <2>. QED  BY <1>1, <2>1, CalmsOn DEF f
<1>. QED  BY <1>2, <1>3, <1>4

-----------------------------------------------------------------------------
(* What moves of the destination do to the wait.                            *)

\* What a move needs of the streams, wherever the pipe stands.
Firm(s, n) ==
  /\ s \in State /\ DestinationInv(s.w) /\ s.w.settled = <<>>
  /\ SourceShape(s.r) /\ s.r.answers = <<>>
  /\ OrderInv(s.calls, s.w, s.r, n) /\ ClosedInv(s.calls, s.w)

LEMMA CoreFirm ==
  ASSUME NEW n, NEW s, Core(s, n)
  PROVE  /\ Firm(s, n)
         /\ \A f : f \in State /\ SameStreams(s, f) => Firm(f, n)
BY DEF Core, Firm, SourceInv, SameStreams

\* A chunk is queued once; when it is being written, the sink has been called with it.
LEMMA QueuedOnce ==
  ASSUME NEW n, NEW s, Firm(s, n)
  PROVE  LET q == W!QueuedChunks(s.w)
         IN  /\ \A i, k \in 1..Len(q) : q[i] = q[k] => i = k
             /\ s.w.inFlight = "write" => 1 \in 1..Len(q) /\ Called(s.calls, q[1])
<1> DEFINE q == W!QueuedChunks(s.w)   a == Len(q)   b == Base(s.calls, s.w)   e == Len(s.calls.chunks)
           m == Len(Chunks)   l == Len(s.r.queue)   going == s.w.inFlight = "write"
<1>1. /\ a \in Nat /\ (going => a >= 1) /\ q \in Seq(Chunk)
  BY HeadOfQueue DEF Firm
<1>2. l \in Nat /\ m \in Nat /\ e \in Nat /\ DOMAIN Chunks = 1..m /\ IsInjective(Chunks)
  BY PipeAssumption, LenProperties DEF Firm, State, R!Type, CallsType
<1>3. /\ n \in 0..m /\ b \in Nat /\ b + a + l <= n /\ b = e - (IF going THEN 1 ELSE 0)
      /\ \A i \in 1..a : q[i] = Chunks[b + i]
      /\ \A i \in 1..e : s.calls.chunks[i] = Chunks[i]
  BY Zenon DEF Firm, OrderInv, Reached, Base
<1> HIDE DEF q, a, b, e, m, l, going
<1>4. \A i \in 1..a : b + i \in 1..m
  BY <1>1, <1>2, <1>3
<1>5. ASSUME NEW i \in 1..a, NEW k \in 1..a, q[i] = q[k]  PROVE i = k
  <2>1. b + i = b + k
    BY <1>2, <1>3, <1>4, <1>5 DEF IsInjective
  <2>. QED  BY <1>3, <2>1
<1>6. ASSUME going  PROVE 1 \in 1..a /\ Called(s.calls, q[1])
  <2>1. 1 \in 1..a /\ e \in 1..e /\ b + 1 = e
    BY <1>1, <1>2, <1>3, <1>6
  <2>2. s.calls.chunks[e] = q[1]
    BY <1>3, <2>1
  <2>. QED  BY <2>1, <2>2 DEF Called, e
<1>. QED  BY <1>5, <1>6 DEF q, a, going

\* The chunks whose promises a move settles.
LEMMA SettledOnce ==
  ASSUME NEW n, NEW s, Firm(s, n), NEW w, DestinationInv(w), Flows(s.w, w)
  PROVE  LET d == w.settled
         IN  /\ \A i, k \in 1..Len(d) : d[i] = d[k] => i = k
             /\ \A i \in 1..Len(d) : Queued(s.w, d[i]) /\ ~Queued(w, d[i])
             /\ \A c : Queued(w, c) => Queued(s.w, c)
             /\ W!Accepts(w) => \A i \in 1..Len(d) : Called(s.calls, d[i])
<1> DEFINE d == w.settled   q == W!QueuedChunks(s.w)   q2 == W!QueuedChunks(w)
<1>1. DestinationInv(s.w)
  BY DEF Firm
<1>2. OnlyLeave(s.w, w)
  BY <1>1, FlowsLeave
<1>3. (\A c : Queued(w, c) => Queued(s.w, c)) /\ \A i \in 1..Len(d) : Queued(s.w, d[i])
  BY Zenon, <1>2 DEF OnlyLeave, Queued
<1>4. /\ \A i, k \in 1..Len(q) : q[i] = q[k] => i = k
      /\ s.w.inFlight = "write" => 1 \in 1..Len(q) /\ Called(s.calls, q[1])
  BY QueuedOnce
<1>5. q \in Seq(Chunk) /\ Len(q) \in Nat
  BY <1>1, HeadOfQueue
<1>6. CASE d = <<>>
  <2>1. Len(d) = 0
    BY <1>6
  <2>. QED  BY <1>3, <2>1
<1>7. CASE q2 = Tail(q) /\ s.w.inFlight = "write" /\ d = <<Head(q)>>
  <2>1. q # <<>> /\ Head(q) = q[1]
    BY <1>4, <1>5, <1>7
  <2>2. Len(d) = 1 /\ d[1] = q[1]
    BY <1>7, <2>1
  <2>3. Len(q2) = Len(q) - 1 /\ \A i \in 1..(Len(q) - 1) : q2[i] = q[i + 1]
    BY <1>5, <1>7, <2>1, HeadTailProperties
  <2> HIDE DEF d, q, q2
  <2>4. ~Queued(w, q[1])
    <3> SUFFICES ASSUME NEW i \in 1..Len(q2), q2[i] = q[1]  PROVE FALSE
      BY DEF Queued, q2
    <3>1. i + 1 \in 1..Len(q) /\ i + 1 # 1 /\ q2[i] = q[i + 1]
      BY <1>5, <2>3
    <3>. QED  BY <1>4, <1>7, <3>1
  <2>5. /\ \A i, k \in 1..Len(d) : i = k
        /\ \A i \in 1..Len(d) : d[i] = q[1]
    BY <2>2
  <2>. QED  BY <1>3, <1>4, <1>7, <2>4, <2>5 DEF d
<1>8. CASE w.state = "errored" /\ d = q
  <2>1. q2 = <<>> /\ ~W!Accepts(w)
    BY <1>8, HeadOfQueue DEF Alive, W!Accepts
  <2>2. \A c : ~Queued(w, c)
    BY <2>1 DEF Queued
  <2>. QED  BY <1>3, <1>4, <1>8, <2>1, <2>2
<1>. QED  BY <1>6, <1>7, <1>8 DEF Flows

LEMMA SinkAborted ==
  ASSUME NEW c \in CallsType, NEW w, NEW w2, w2.inFlight = "write" => Head(w2.queue) \in Chunk
  PROVE  /\ SinkCalled(c, w, w2).aborted => c.aborted \/ (w2.aborting /\ ~w.aborting)
         /\ \A x : Called(c, x) => Called(SinkCalled(c, w, w2), x)
<1> DEFINE c2 == SinkCalled(c, w, w2)   h == Head(w2.queue)   t == Append(c.chunks, h)
<1>1. \/ c2 = [c EXCEPT !.chunks = t] /\ h \in Chunk
      \/ c2 = [c EXCEPT !.closed = TRUE]
      \/ c2 = [c EXCEPT !.aborted = TRUE] /\ w2.aborting /\ ~w.aborting
      \/ c2 = c
  BY DEF SinkCalled
<1> HIDE DEF c2, h, t
<1>2. CASE c2 = [c EXCEPT !.chunks = t] /\ h \in Chunk
  <2>1. /\ c.chunks \in Seq(Chunk) /\ c2.chunks = t /\ c2.aborted = c.aborted
    BY <1>2 DEF CallsType
  <2>2. Len(c.chunks) \in Nat /\ Len(t) = Len(c.chunks) + 1 /\ \A i \in 1..Len(c.chunks) : t[i] = c.chunks[i]
    BY <1>2, <2>1, AppendProperties, LenProperties DEF t
  <2>3. \A i \in 1..Len(c.chunks) : i \in 1..Len(t)
    BY <2>2
  <2>. QED  BY <2>1, <2>2, <2>3 DEF Called, c2
<1>3. CASE c2.chunks = c.chunks /\ (c2.aborted => c.aborted \/ (w2.aborting /\ ~w.aborting))
  BY <1>3 DEF Called, c2
<1>. QED  BY <1>1, <1>2, <1>3 DEF CallsType, c2

\* Nothing begins to abort the destination.
NoAbort(w, w2) ==
  w2.pendingAbort = "fresh" \/ w2.aborting => w.pendingAbort = "fresh" \/ w.aborting

\* The promises that a move settles are added to those that are on their way.
LEMMA ArrivedOnce ==
  ASSUME NEW n, NEW s, Firm(s, n), NEW w, DestinationInv(w), Flows(s.w, w),
         OnceInv(s.w, s.p, s.j)
  PROVE  LET t == s.j \o Adopted(w.settled)
         IN  /\ OnceInv(w, s.p, t)
             /\ \A c : Settles(t, c) => Settles(s.j, c) \/ \E i \in 1..Len(w.settled) : w.settled[i] = c
<1> DEFINE d == w.settled   t == s.j \o Adopted(d)   j == s.j   m == Len(j)
<1>1. /\ d \in Seq(Chunk) /\ j \in Seq(Job) /\ m \in Nat /\ Len(d) \in Nat
      /\ \A i \in 1..Len(d) : d[i] \in Chunk
  BY LenProperties, ElementOfSeq DEF Firm, State, DestinationInv, W!Type
<1>2. /\ \A i \in 1..m : i \in 1..Len(t) /\ t[i] = j[i]
      /\ \A i \in 1..Len(t) : \/ i \in 1..m
                              \/ (i - m \in 1..Len(d) /\ t[i] = <<"adopt", d[i - m]>>)
  BY Zenon, <1>1, JobsAdopted
<1>3. Len(t) \in Nat
  <2>1. t \in Seq(Job)
    BY <1>1, JobsAdopted
  <2>. QED  BY Zenon, <2>1, LenProperties
<1>4. /\ \A i, k \in 1..Len(d) : d[i] = d[k] => i = k
      /\ \A i \in 1..Len(d) : Queued(s.w, d[i]) /\ ~Queued(w, d[i])
      /\ \A c : Queued(w, c) => Queued(s.w, c)
  BY SettledOnce
<1> HIDE DEF d, t, m, j
<1>5. \A c : Settles(t, c) => Settles(j, c) \/ \E i \in 1..Len(d) : d[i] = c
  <2> SUFFICES ASSUME NEW i \in 1..Len(t), t[i][1] \in SettleKinds
               PROVE  Settles(j, t[i][2]) \/ \E k \in 1..Len(d) : d[k] = t[i][2]
    BY DEF Settles
  <2>1. CASE i \in 1..m
    BY <1>2, <2>1 DEF Settles, m
  <2>2. CASE i - m \in 1..Len(d) /\ t[i] = <<"adopt", d[i - m]>>
    BY <2>2
  <2>. QED  BY <1>2, <2>1, <2>2
<1>6. \A c \in Chunk : /\ Settles(j, c) => c \notin s.p.written
                       /\ Queued(s.w, c) => c \notin s.p.written /\ ~Settles(j, c)
  BY DEF OnceInv, j
<1>7. ASSUME NEW i \in 1..Len(t), NEW k \in 1..Len(t), t[i][1] \in SettleKinds, t[k][1] \in SettleKinds,
             t[i][2] = t[k][2]
      PROVE  i = k
  <2>1. CASE i \in 1..m /\ k \in 1..m
    BY Zenon, <1>2, <1>7, <2>1 DEF OnceInv, j, m
  <2>2. CASE i \in 1..m /\ k - m \in 1..Len(d) /\ t[k] = <<"adopt", d[k - m]>>
    BY <1>1, <1>2, <1>4, <1>6, <1>7, <2>2 DEF Settles, m
  <2>3. CASE k \in 1..m /\ i - m \in 1..Len(d) /\ t[i] = <<"adopt", d[i - m]>>
    BY <1>1, <1>2, <1>4, <1>6, <1>7, <2>3 DEF Settles, m
  <2>4. CASE /\ i - m \in 1..Len(d) /\ t[i] = <<"adopt", d[i - m]>>
             /\ k - m \in 1..Len(d) /\ t[k] = <<"adopt", d[k - m]>>
    <3>1. i - m = k - m
      BY <1>4, <1>7, <2>4
    <3>. QED  BY <1>1, <1>3, <3>1
  <2>. QED  BY <1>2, <2>1, <2>2, <2>3, <2>4
<1>8. \A c \in Chunk : Settles(t, c) => c \notin s.p.written
  BY <1>4, <1>5, <1>6
<1>9. \A c \in Chunk : Queued(w, c) => c \notin s.p.written /\ ~Settles(t, c)
  BY <1>4, <1>5, <1>6
<1>10. OnceInv(w, s.p, t)
  BY <1>7, <1>8, <1>9 DEF OnceInv
<1>. QED  BY <1>5, <1>10 DEF t, d, j

\* A destination that has failed stays so; one that nobody has aborted or closed is
\* left so by a move that asks for neither.
LEMMA PurePersists ==
  ASSUME NEW s, NEW n, Firm(s, n), NEW w, DestinationInv(w), Flows(s.w, w), NoAbort(s.w, w),
         NEW c2, c2 = SinkCalled(s.calls, s.w, w), Pure(s.w, s.calls),
         w.inFlight # "close" \/ s.w.state # "writable"
  PROVE  /\ Pure(w, c2)
         /\ s.w.state \in {"erroring", "errored"} => w.state \in {"erroring", "errored"}
<1>1. /\ s.calls \in CallsType /\ DestinationInv(s.w) /\ ClosedInv(s.calls, s.w)
      /\ OrderInv(s.calls, s.w, s.r, n) /\ Len(s.r.queue) \in Nat
  BY LenProperties DEF Firm, State, R!Type
<1>2. c2.closed => s.calls.closed \/ (w.inFlight = "close" /\ s.w.inFlight # "close")
  BY Zenon, <1>1, SinkFollows DEF SinkTold
<1>3. w.inFlight = "write" => Head(w.queue) \in Chunk
  BY HeadOfQueue
<1>4. c2.aborted => s.calls.aborted \/ (w.aborting /\ ~s.w.aborting)
  BY <1>1, <1>3, SinkAborted
<1>5. w.inFlight # "close"
  BY DEF Pure, Flows
<1>6. w.pendingAbort # "fresh" /\ ~w.aborting /\ w.state # "closed"
  BY DEF Pure, NoAbort, Flows
<1>7. w.state \in {"writable", "erroring", "errored", "closed"}
  BY DEF DestinationInv, W!Type
<1>. QED  BY <1>2, <1>4, <1>5, <1>6, <1>7 DEF Pure, Flows

LEMMA AdoptedStay ==
  ASSUME NEW j \in Seq(Job), NEW d \in Seq(Chunk), NEW t, t = j \o Adopted(d)
  PROVE  /\ \A kind : kind # "adopt" => (Has(t, kind) <=> Has(j, kind))
         /\ WaitedStay(j, t) /\ WaitedStay(t, j)
<1> DEFINE u == j \o Adopted(d)
<1>1. /\ \A kind : kind # "adopt" => (Has(u, kind) <=> Has(j, kind))
      /\ \A i \in 1..Len(u) : u[i][1] = "waited" => i \in 1..Len(j) /\ u[i] = j[i]
      /\ \A i \in 1..Len(j) : i \in 1..Len(u) /\ u[i] = j[i]
  BY JobsAdopted
<1> HIDE DEF u
<1>2. t = u
  BY DEF u
<1>. QED  BY <1>1, <1>2 DEF WaitedStay

\* The destination moves.
LEMMA ArrivedDrifts ==
  ASSUME NEW n, NEW s, Firm(s, n), NEW w, DestinationInv(w), Flows(s.w, w),
         s.w.state # "writable" => NoAbort(s.w, w)
  PROVE  LET f == Arrived(s, w)
         IN  /\ f \in State /\ f.p = s.p /\ f.r = s.r
             /\ Drift(s, f) /\ (AsksNothing(s.w, w) => Calm(s, f))
<1> DEFINE f == Arrived(s, w)   c2 == SinkCalled(s.calls, s.w, w)   w0 == [w EXCEPT !.settled = <<>>]
           d == w.settled
<1>1. /\ s.calls \in CallsType /\ DestinationInv(s.w) /\ ClosedInv(s.calls, s.w) /\ s \in State
      /\ OrderInv(s.calls, s.w, s.r, n) /\ Len(s.r.queue) \in Nat /\ s.j \in Seq(Job) /\ d \in Seq(Chunk)
  BY LenProperties DEF Firm, State, R!Type, DestinationInv, W!Type
<1>2. c2 \in CallsType
  BY Zenon, <1>1, SinkFollows DEF SinkTold
<1>3. w.inFlight = "write" => Head(w.queue) \in Chunk
  BY HeadOfQueue
<1>4. /\ c2.aborted => s.calls.aborted \/ (w.aborting /\ ~s.w.aborting)
      /\ \A x : Called(s.calls, x) => Called(c2, x)
  BY <1>1, <1>3, SinkAborted
<1>5. /\ f \in State /\ f.r = s.r /\ f.p = s.p /\ f.w = w0 /\ f.calls = c2
      /\ f.j = s.j \o Adopted(d)
  BY Zenon, <1>1, <1>2, ArrivedIs
<1>6. SameDestination(w, w0)
  BY ClearKeeps
<1> HIDE DEF f, c2, w0
<1>7. /\ \A kind : kind # "adopt" => (Has(f.j, kind) <=> Has(s.j, kind))
      /\ WaitedStay(s.j, f.j) /\ WaitedStay(f.j, s.j)
  BY Zenon, <1>1, <1>5, AdoptedStay
<1>8. \A c : Pure(f.w, c) <=> Pure(w, c)
  BY <1>5, <1>6 DEF Pure, SameDestination
<1>9. Failed(s.w, s.calls) => Failed(f.w, f.calls)
  <2> SUFFICES ASSUME Failed(s.w, s.calls)  PROVE Failed(f.w, f.calls)
    OBVIOUS
  <2>1. Pure(s.w, s.calls) /\ s.w.state \in {"erroring", "errored"}
    BY DEF Failed
  <2>2. Pure(w, c2) /\ w.state \in {"erroring", "errored"}
    BY <2>1, PurePersists DEF c2
  <2>. QED  BY <1>5, <1>6, <1>8, <2>2 DEF Failed, SameDestination
<1>10. ASSUME AsksNothing(s.w, w), Untouched(s.w, s.calls)  PROVE Untouched(f.w, f.calls)
  <2>1. Pure(s.w, s.calls) /\ w.inFlight # "close" /\ ~w.closeRequest /\ NoAbort(s.w, w)
    BY <1>10 DEF Untouched, Pure, AsksNothing, NoAbort, W!CloseQueuedOrInFlight
  <2>2. Pure(w, c2)
    BY <2>1, PurePersists DEF c2
  <2>. QED  BY <1>5, <1>6, <1>8, <2>1, <2>2 DEF Untouched, SameDestination
<1>11. ASSUME WriteOnce(s)  PROVE WriteOnce(f)
  <2>1. /\ OnceInv(w, s.p, f.j)
        /\ \A c : Settles(f.j, c) => Settles(s.j, c) \/ \E i \in 1..Len(d) : d[i] = c
    BY <1>5, <1>11, ArrivedOnce DEF WriteOnce
  <2>2. W!Accepts(w) => \A i \in 1..Len(d) : Called(s.calls, d[i])
    BY SettledOnce
  <2>3. OnceInv(f.w, f.p, f.j)
    BY Zenon, <1>5, <1>6, <2>1 DEF OnceInv, Queued, SameDestination
  <2>4. SentInv(f.calls, f.w, f.p, f.j)
    <3> SUFFICES ASSUME f.p.phase # "done", W!Accepts(f.w), NEW c \in Chunk,
                        c \in f.p.written \/ Settles(f.j, c)
                 PROVE  Called(f.calls, c)
      BY DEF SentInv
    <3>1. W!Accepts(w) /\ W!Accepts(s.w)
      BY <1>5, <1>6 DEF SameDestination, Flows
    <3>2. c \in s.p.written \/ Settles(s.j, c) => Called(s.calls, c)
      BY <1>5, <1>11, <3>1 DEF WriteOnce, SentInv
    <3>3. Called(s.calls, c)
      BY <1>5, <2>1, <2>2, <3>1, <3>2
    <3>. QED  BY <1>4, <1>5, <3>3
  <2>5. f.calls.aborted => f.w.state = "errored"
    <3>1. w.aborting => w.state = "errored"
      BY DEF DestinationInv, PromisesOwed
    <3>2. s.w.state = "errored" => w.state = "errored"
      BY DEF Flows, Alive
    <3>. QED  BY <1>4, <1>5, <1>6, <1>11, <3>1, <3>2 DEF WriteOnce, SameDestination
  <2>. QED  BY <2>3, <2>4, <2>5 DEF WriteOnce
<1>12. Drift(s, f)
  BY <1>4, <1>5, <1>7, <1>9, <1>11 DEF Drift, Lasts
<1>13. NotYet(s) => NotYet(f)
  BY <1>5, <1>7 DEF NotYet, ActKinds
<1>14. AsksNothing(s.w, w) => Calm(s, f)
  BY <1>5, <1>7, <1>10, <1>12, <1>13 DEF Calm, Still
<1>. QED  BY <1>5, <1>12, <1>14 DEF f

LEMMA MoveTold ==
  ASSUME NEW s \in State, NEW w, Arrived(s, w) \in State, Arrived(s, w).p = s.p,
         Arrived(s, w).r = s.r
  PROVE  LET f == WithDestination(s, w)
         IN  f \in State /\ Calm(Arrived(s, w), f) /\ f.r = s.r
<1> DEFINE f0 == Arrived(s, w)
           f1 == PartSettles(f0, "close", w.close)
           f2 == PartSettles(f1, "abort", w.abort)
           f3 == WriterTold(f2, w)
           last == s.p.phase = "piping" /\ w.closed = "rejected" /\ s.w.closed # "rejected"
           f == WithDestination(s, w)
<1>1. f0 \in State /\ f0.p = s.p /\ f0.r = s.r
  OBVIOUS
<1> HIDE DEF f0
<1>2. f1 \in State /\ Calm(f0, f1) /\ f1.p.loop = s.p.loop /\ f1.r = s.r
  BY <1>1, PartCalms
<1> HIDE DEF f1
<1>3. f2 \in State /\ Calm(f1, f2) /\ f2.p.loop = s.p.loop /\ f2.r = s.r
  BY <1>2, PartCalms
<1> HIDE DEF f2
<1>4. f3 \in State /\ Calm(f2, f3) /\ f3.r = s.r
  BY <1>3, WriterToldCalms
<1>5. f = IF last THEN Push(f3, "destinationErrored", None) ELSE f3
  BY <1>3, WithDestinationOf DEF f0, f1, f2
<1> HIDE DEF f3, f
<1>6. Calm(f0, f3)
  BY <1>2, <1>3, <1>4, CalmsOn
<1>7. CASE last
  <2> DEFINE g == Push(f3, "destinationErrored", None)
  <2>1. <<"destinationErrored", None>> \in Job /\ "destinationErrored" \notin SettleKinds \cup {"waited"}
        /\ "destinationErrored" \notin ActKinds
    BY DEF Job, SettleKinds, ActKinds
  <2>2. g \in State /\ Calm(f3, g) /\ g.r = f3.r
    BY <1>4, <2>1, PushDrifts
  <2>3. f = g
    BY <1>5, <1>7
  <2> HIDE DEF g
  <2>. QED  BY <1>4, <1>6, <2>2, <2>3, CalmsOn DEF f0, f
<1>. QED  BY <1>4, <1>5, <1>6, <1>7 DEF f0, f

LEMMA MoveDrifts ==
  ASSUME NEW n, NEW s, Firm(s, n), NEW w, DestinationInv(w), Flows(s.w, w),
         s.w.state # "writable" => NoAbort(s.w, w)
  PROVE  LET f == WithDestination(s, w)
         IN  /\ f \in State /\ f.r = s.r
             /\ Drift(s, f) /\ (AsksNothing(s.w, w) => Calm(s, f))
<1> DEFINE a == Arrived(s, w)   f == WithDestination(s, w)
<1>1. a \in State /\ a.p = s.p /\ a.r = s.r /\ Drift(s, a) /\ (AsksNothing(s.w, w) => Calm(s, a))
  BY ArrivedDrifts
<1>2. f \in State /\ Calm(a, f) /\ f.r = s.r
  BY <1>1, MoveTold DEF Firm
<1>3. Drift(a, f)
  BY <1>2 DEF Calm, Still
<1> HIDE DEF a, f
<1>. QED  BY <1>1, <1>2, <1>3, DriftsOn, CalmsOn DEF f

\* The parts of the action begin, and settle, once the wait is over.
LEMMA BegunDrifts ==
  ASSUME NEW n, NEW s, Firm(s, n), NEW part \in Parts
  PROVE  LET f == Begun(s, part)
         IN  Firm(f, n) /\ Drift(s, f) /\ f.r = s.r /\ f.w = s.w /\ f.p.phase = s.p.phase
<1> DEFINE f == Begun(s, part)
<1>1. s \in State
  BY DEF Firm
<1>2. /\ f \in State /\ SameStreams(s, f) /\ f.j = s.j /\ SameStanding(s.p, f.p) /\ Notes(s, f)
  BY <1>1, BegunIs
<1> HIDE DEF f
<1>3. Firm(f, n)
  BY <1>2 DEF Firm, SameStreams
<1>4. Drift(s, f)
  BY <1>2, SameJobs DEF SameStreams, SameStanding, Notes, Lasts
<1>. QED  BY <1>2, <1>3, <1>4 DEF SameStreams, SameStanding, f

LEMMA CloseDrifts ==
  ASSUME NEW n, NEW s, Firm(s, n)
  PROVE  CloseDestination(s) \in State /\ Drift(s, CloseDestination(s))
<1> DEFINE b == Begun(s, "close")   w == W!Close(s.w)   f == CloseDestination(s)
<1>1. Firm(b, n) /\ Drift(s, b) /\ b.w = s.w
  BY BegunDrifts DEF Parts
<1>2. \/ f = PartSettles(b, "close", "fulfilled") \/ f = PartSettles(b, "close", "rejected")
      \/ ~W!CloseQueuedOrInFlight(s.w) /\ f = WithDestination(b, w)
  BY DEF CloseDestination, Begun
<1> HIDE DEF b, f, w
<1>3. ASSUME NEW v, f = PartSettles(b, "close", v)  PROVE f \in State /\ Drift(b, f)
  BY <1>1, <1>3, PartCalms DEF Firm, Calm, Still
<1>4. ASSUME ~W!CloseQueuedOrInFlight(s.w), f = WithDestination(b, w)
      PROVE  f \in State /\ Drift(b, f)
  <2>1. DestinationInv(w) /\ Flows(b.w, w) /\ NoAbort(b.w, w)
    BY <1>1, <1>4, CloseKeeps DEF Firm, Moves, NoAbort, w
  <2>. QED  BY <1>1, <1>4, <2>1, MoveDrifts
<1>5. f \in State /\ Drift(b, f)
  BY <1>2, <1>3, <1>4
<1>. QED  BY <1>1, <1>5, DriftsOn DEF f

LEMMA AbortDrifts ==
  ASSUME NEW n, NEW s, Firm(s, n)
  PROVE  LET f == AbortDestination(s)
         IN  f \in State /\ Drift(s, f) /\ f.r = s.r
<1> DEFINE b == Begun(s, "abort")   w == W!Abort(s.w)   f == AbortDestination(s)
<1>1. Firm(b, n) /\ Drift(s, b) /\ b.w = s.w /\ b.r = s.r
  BY BegunDrifts DEF Parts
<1>2. f = PartSettles(b, "abort", "fulfilled") \/ f = WithDestination(b, w)
  BY DEF AbortDestination, Begun
<1> HIDE DEF b, f, w
<1>3. ASSUME f = PartSettles(b, "abort", "fulfilled")
      PROVE  f \in State /\ Drift(b, f) /\ f.r = b.r
  BY <1>1, <1>3, PartCalms DEF Firm, Calm, Still
<1>4. ASSUME f = WithDestination(b, w)  PROVE f \in State /\ Drift(b, f) /\ f.r = b.r
  <2>1. /\ DestinationInv(w) /\ Flows(b.w, w)
        /\ b.w.state # "writable" => NoAbort(b.w, w)
    BY <1>1, AbortKeeps DEF Firm, Moves, AsksNothing, NoAbort, w
  <2>. QED  BY <1>1, <1>4, <2>1, MoveDrifts
<1>5. f \in State /\ Drift(b, f) /\ f.r = b.r
  BY <1>2, <1>3, <1>4
<1>. QED  BY <1>1, <1>5, DriftsOn DEF f

LEMMA CancelDrifts ==
  ASSUME NEW s \in State, s.r.answers = <<>>, SourceShape(s.r)
  PROVE  CancelSource(s) \in State /\ Drift(s, CancelSource(s))
<1> DEFINE b == Begun(s, "cancel")   b2 == [b EXCEPT !.cancelling = TRUE]
           r == R!Cancel(s.r)   f == CancelSource(s)
<1>1. "cancel" \in Parts
  BY DEF Parts
<1>2. /\ b \in State /\ SameStreams(s, b) /\ b.j = s.j /\ SameStanding(s.p, b.p) /\ Notes(s, b)
  BY <1>1, BegunIs
<1>3. \/ f = PartSettles(b, "cancel", "rejected") \/ f = PartSettles(b, "cancel", "fulfilled")
      \/ s.r.state = "readable" /\ f = WithSource(b2, r)
  BY DEF CancelSource, Begun
<1> HIDE DEF b, f
<1>4. Drift(s, b)
  BY <1>2, SameJobs DEF SameStreams, SameStanding, Notes, Lasts
<1>5. ASSUME NEW v, f = PartSettles(b, "cancel", v)  PROVE f \in State /\ Drift(b, f)
  BY <1>2, <1>5, PartCalms DEF Calm, Still
<1>6. ASSUME s.r.state = "readable", f = WithSource(b2, r)  PROVE f \in State /\ Drift(b, f)
  <2>1. b2 \in State /\ b2.w = b.w /\ b2.calls = b.calls /\ b2.p = b.p /\ b2.j = b.j
    BY Zenon, <1>2 DEF State
  <2> HIDE DEF b2
  <2>2. Drift(b, b2)
    BY <2>1, SameJobs DEF Lasts
  <2>3. s.r \in R!Type
    BY DEF State
  <2>4. r \in R!Type
    BY <1>6, <2>3, EndKeeps DEF Ended
  <2> HIDE DEF r
  <2>5. f \in State /\ Drift(b2, f)
    BY <1>6, <2>1, <2>4, SourceCalms DEF Calm, Still
  <2>. QED  BY <2>2, <2>5, DriftsOn
<1>7. f \in State /\ Drift(b, f)
  BY <1>3, <1>5, <1>6
<1>. QED  BY <1>4, <1>7, DriftsOn DEF f

LEMMA SignalDrifts ==
  ASSUME NEW n, NEW s, Firm(s, n)
  PROVE  SignalActions(s) \in State /\ Drift(s, SignalActions(s))
<1> DEFINE called == {"abort", "cancel"} \ s.p.prevent   k == Cardinality(called)
           all == Waited(s, k)
           first == IF "abort" \in called THEN AbortDestination(all) ELSE all
           f == SignalActions(s)
<1>1. k \in 0..2 /\ s \in State
  BY CalledParts DEF Firm
<1>2. f = IF called = {} THEN Push(all, "then", TRUE)
          ELSE IF "cancel" \in called THEN CancelSource(first) ELSE first
  BY DEF SignalActions, Waited
<1> HIDE DEF called, k, f
<1>3. /\ all \in State /\ SameStreams(s, all) /\ all.j = s.j /\ all.p.phase = s.p.phase
      /\ all.p.written = s.p.written /\ all.p.awaited = s.p.awaited
  <2> DEFINE p1 == [s.p EXCEPT !.left = k]
  <2>1. p1 \in PipeType /\ p1.phase = s.p.phase /\ p1.written = s.p.written
        /\ p1.awaited = s.p.awaited
    BY <1>1 DEF State, PipeType
  <2>2. all = [s EXCEPT !.p = p1]
    BY <1>1 DEF State, Waited
  <2> HIDE DEF p1, all
  <2>. QED  BY <1>1, <2>1, <2>2 DEF State, SameStreams
<1> HIDE DEF all
<1>4. Firm(all, n) /\ Drift(s, all)
  <2>1. Firm(all, n)
    BY <1>3 DEF Firm, SameStreams
  <2>2. Drift(s, all)
    BY <1>3, SameJobs DEF SameStreams, Lasts
  <2>. QED  BY <2>1, <2>2
<1>5. first \in State /\ Drift(s, first) /\ first.r = s.r
  <2>1. AbortDestination(all) \in State /\ Drift(all, AbortDestination(all))
        /\ AbortDestination(all).r = all.r
    BY <1>4, AbortDrifts
  <2>2. Drift(s, AbortDestination(all))
    BY <1>4, <2>1, DriftsOn
  <2>. QED  BY <1>3, <1>4, <2>1, <2>2 DEF SameStreams
<1> HIDE DEF first
<1>6. CancelSource(first) \in State /\ Drift(s, CancelSource(first))
  <2>1. CancelSource(first) \in State /\ Drift(first, CancelSource(first))
    BY <1>5, CancelDrifts DEF Firm
  <2>. QED  BY <1>5, <2>1, DriftsOn
<1>7. Push(all, "then", TRUE) \in State /\ Drift(s, Push(all, "then", TRUE))
  <2> DEFINE e == TRUE   g == Push(all, "then", e)
  <2>1. <<"then", e>> \in Job /\ "then" \notin SettleKinds \cup {"waited"}
    BY Zenon DEF Job, SettleKinds
  <2> HIDE DEF e
  <2>2. g \in State /\ Still(all, g)
    BY <1>3, <2>1, PushDrifts
  <2> HIDE DEF g
  <2>3. Drift(s, g)
    BY <1>4, <2>2, DriftsOn DEF Still
  <2>. QED  BY Zenon, <2>2, <2>3 DEF g, e
<1>. QED  BY Zenon, <1>2, <1>5, <1>6, <1>7 DEF f

\* finalize() lets go of both streams.
LEMMA FinalizeDrifts ==
  ASSUME NEW n, NEW s, Firm(s, n), s.p.phase \in {"shuttingDown", "done"}, NEW ok
  PROVE  LET f == Finalize(s, ok)
         IN  f \in State /\ Drift(s, f) /\ f.p.phase = "done"
<1> DEFINE v == IF ok /\ ~s.p.isError THEN "fulfilled" ELSE "rejected"
           done == Noted(s, v)   w == W!Release(s.w)   d == WithDestination(done, w)
           r == R!Release(s.r)   f == Finalize(s, ok)
<1>1. f = WithSource(d, r)
  BY DEF Finalize, Noted
<1>2. v \in {"fulfilled", "rejected"} /\ s \in State
  BY DEF Firm
<1> HIDE DEF v, f
<1>3. /\ done \in State /\ SameStreams(s, done) /\ done.j = s.j /\ done.p.phase = "done"
      /\ done.p.written = s.p.written /\ done.p.awaited = s.p.awaited
  <2> DEFINE p1 == [s.p EXCEPT !.phase = "done", !.result = v]
  <2>1. /\ p1 \in PipeType /\ p1.phase = "done" /\ p1.written = s.p.written
        /\ p1.awaited = s.p.awaited
    BY Zenon, <1>2 DEF State, PipeType
  <2>2. done = [s EXCEPT !.p = p1]
    BY Zenon, <1>2 DEF State, Noted
  <2> HIDE DEF p1, done
  <2>. QED  BY <1>2, <2>1, <2>2 DEF State, SameStreams
<1> HIDE DEF done
<1>4. Firm(done, n) /\ Drift(s, done) /\ done.w = s.w
  <2>1. Firm(done, n)
    BY <1>3 DEF Firm, SameStreams
  <2>2. Lasts(s.p, done.p)
    BY <1>3 DEF Lasts
  <2>. QED  BY <1>3, <2>1, <2>2, SameJobs DEF SameStreams
<1>5. DestinationInv(w) /\ Flows(s.w, w) /\ NoAbort(s.w, w)
  BY ReleaseKeeps, LockFlows DEF Firm, OnlyLock, NoAbort
<1> HIDE DEF w
<1>6. d \in State /\ Drift(done, d)
  BY <1>4, <1>5, MoveDrifts
<1>7. r \in R!Type
  BY <1>2, ReaderKeeps DEF Firm, State
<1> HIDE DEF r, d
<1>8. f \in State /\ Calm(d, f)
  BY <1>1, <1>6, <1>7, SourceCalms
<1>9. Drift(d, f)
  BY <1>8 DEF Calm, Still
<1>10. Drift(done, f)
  BY <1>6, <1>9, DriftsOn
<1>11. Drift(s, f)
  BY <1>4, <1>10, DriftsOn
<1>12. f.p.phase = "done"
  BY <1>3, <1>10 DEF Drift, Lasts
<1>. QED  BY <1>8, <1>11, <1>12 DEF f

\* doTheRest() leaves what has been awaited where it is.
LEMMA RestDrifts ==
  ASSUME NEW n, NEW s, Firm(s, n), s.p.phase \in {"shuttingDown", "done"}
  PROVE  DoTheRest(s) \in State /\ Drift(s, DoTheRest(s))
<1> DEFINE f == DoTheRest(s)
<1>1. s.p.action \in {"none", "close", "abort", "cancel", "signal"} /\ s \in State
      /\ s.r.answers = <<>> /\ SourceShape(s.r)
  BY DEF Firm, State, PipeType, Parts
<1>2. CASE s.p.action = "none"
  <2> DEFINE ok == TRUE
  <2>1. f = Finalize(s, ok)
    BY <1>2 DEF DoTheRest
  <2> HIDE DEF ok
  <2>. QED  BY <2>1, FinalizeDrifts
<1>3. CASE s.p.action = "close"
  <2>1. f = CloseDestination(s)
    BY <1>3 DEF DoTheRest
  <2>. QED  BY <2>1, CloseDrifts
<1>4. CASE s.p.action = "abort"
  <2>1. f = AbortDestination(s)
    BY <1>4 DEF DoTheRest
  <2>. QED  BY <2>1, AbortDrifts
<1>5. CASE s.p.action = "cancel"
  <2>1. f = CancelSource(s)
    BY <1>5 DEF DoTheRest
  <2>. QED  BY <1>1, <2>1, CancelDrifts
<1>6. CASE s.p.action = "signal"
  <2>1. f = SignalActions(s)
    BY <1>6 DEF DoTheRest
  <2>. QED  BY <2>1, SignalDrifts
<1>. QED  BY <1>1, <1>2, <1>3, <1>4, <1>5, <1>6

-----------------------------------------------------------------------------
(* The wait, step by step.                                                  *)

\* A step that comes after the wait, and one that leaves the wait alone.
LEMMA DriftKeeps ==
  ASSUME NEW s, NEW f, AwaitInv(s), ~Waiting(s), Drift(s, f)
  PROVE  AwaitInv(f)
<1>1. WriteOnce(s) /\ OneWait(s) /\ (s.p.phase \in {"shuttingDown", "done"} => Good(s))
  BY DEF AwaitInv, WaitInv
<1>2. WriteOnce(f) /\ f.p.written = s.p.written /\ f.p.awaited = s.p.awaited
      /\ (f.p.phase = s.p.phase \/ (s.p.phase = "shuttingDown" /\ f.p.phase = "done"))
  BY <1>1 DEF Drift, Lasts
<1>3. ~Has(s.j, "waited")
  BY <1>1 DEF Waiting, OneWait, Has
<1>4. ~Has(f.j, "waited")
  BY <1>3 DEF Drift
<1>5. s.p.phase \in {"shuttingDown", "done"} => s.p.awaited \in s.p.written \cup {None}
  BY <1>1 DEF Waiting, OneWait
<1>6. OneWait(f)
  BY <1>2, <1>4, <1>5 DEF OneWait, Has
<1>7. ~Waiting(f)
  BY <1>2, <1>4, <1>5 DEF Waiting
<1>8. f.p.phase \in {"shuttingDown", "done"} => Good(f)
  BY <1>1, <1>2 DEF Good, Drift
<1>. QED  BY <1>2, <1>6, <1>7, <1>8 DEF AwaitInv, WaitInv

LEMMA CalmKeeps ==
  ASSUME NEW s, NEW f, AwaitInv(s), Calm(s, f)
  PROVE  AwaitInv(f)
<1>1. WriteOnce(s) /\ WaitInv(s) /\ OneWait(s)
  BY DEF AwaitInv, WaitInv
<1>2. WriteOnce(f) /\ f.p.written = s.p.written /\ f.p.awaited = s.p.awaited /\ f.p.phase = s.p.phase
  BY <1>1 DEF Calm, Still, Drift, Lasts
<1>3. WaitedStay(s.j, f.j) /\ WaitedStay(f.j, s.j)
  BY DEF Calm, Still
<1>4. OneWait(f)
  BY Zenon, <1>1, <1>2, <1>3 DEF OneWait, WaitedStay
<1>5. Waiting(f) <=> Waiting(s)
  BY <1>2, <1>3 DEF Waiting, WaitedStay, Has
<1>6. /\ Untouched(s.w, s.calls) => Untouched(f.w, f.calls)
      /\ NotYet(s) => NotYet(f)
      /\ Good(s) => Good(f)
  BY <1>2 DEF Calm, Still, Drift, Good
<1>. QED  BY <1>1, <1>2, <1>4, <1>5, <1>6 DEF AwaitInv, WaitInv

\* The job at the head of the queue tells what it stood for.
WriteSettles(s, c) ==
  /\ c \in Chunk /\ c \notin s.p.written /\ ~Settles(s.j, c) /\ ~Queued(s.w, c)
  /\ s.p.phase # "done" /\ W!Accepts(s.w) => Called(s.calls, c)

WaitEnds(s, c) ==
  /\ WriteOnce(s) /\ s.p.phase = "shuttingDown" /\ c = s.p.awaited /\ ~Has(s.j, "waited")
  /\ Untouched(s.w, s.calls) /\ NotYet(s) /\ c \in s.p.written \cup {None}

LEMMA PopWaits ==
  ASSUME NEW n, NEW s, Core(s, n), AwaitInv(s), s.j # <<>>,
         NEW kind, NEW arg, Head(s.j) = <<kind, arg>>
  PROVE  LET t == Popped(s)
         IN  /\ kind # "waited" => AwaitInv(t)
             /\ kind \in SettleKinds => WriteSettles(t, arg)
             /\ kind = "waited" => WaitEnds(t, arg)
             /\ kind \in ActKinds => ~Waiting(t)
<1> DEFINE t == Popped(s)   m == Len(s.j)
<1>1. s \in State /\ s.j \in Seq(Job) /\ WriteOnce(s) /\ WaitInv(s) /\ OneWait(s)
  BY DEF Core, State, AwaitInv, WaitInv
<1>2. /\ t.j = Tail(s.j) /\ t.p = s.p /\ t.w = s.w /\ t.calls = s.calls
  BY <1>1 DEF State, Popped
<1>3. /\ m \in Nat \ {0} /\ Len(t.j) = m - 1 /\ \A i \in 1..(m - 1) : t.j[i] = s.j[i + 1]
      /\ s.j[1] = <<kind, arg>> /\ <<kind, arg>> \in Job
      /\ \A k : Has(t.j, k) => Has(s.j, k)
      /\ \A k : Has(s.j, k) => Has(t.j, k) \/ kind = k
  <2>1. \A k : Has(s.j, k) => Has(Tail(s.j), k) \/ Head(s.j)[1] = k
    BY <1>1, JobPopped
  <2>2. Head(s.j)[1] = kind
    OBVIOUS
  <2>. QED  BY <1>1, <1>2, <2>1, <2>2, JobPopped
<1> HIDE DEF t, m
<1>4. \A i \in 1..Len(t.j) : i + 1 \in 1..m /\ i + 1 # 1 /\ t.j[i] = s.j[i + 1]
  BY <1>3
<1>5. 1 \in 1..m /\ s.j[1][1] = kind /\ s.j[1][2] = arg
  BY <1>3
<1>6. \A c : Settles(t.j, c) => Settles(s.j, c)
  BY Zenon, <1>4 DEF Settles, m
<1>7. OnceInv(t.w, t.p, t.j)
  <2>1. OnceInv(s.w, s.p, s.j)
    BY <1>1 DEF WriteOnce
  <2>2. ASSUME NEW i \in 1..Len(t.j), NEW k \in 1..Len(t.j), t.j[i][1] \in SettleKinds,
               t.j[k][1] \in SettleKinds, t.j[i][2] = t.j[k][2]
        PROVE  i = k
    <3>1. i + 1 \in 1..Len(s.j) /\ k + 1 \in 1..Len(s.j) /\ t.j[i] = s.j[i + 1] /\ t.j[k] = s.j[k + 1]
      BY <1>4 DEF m
    <3>2. i + 1 = k + 1
      BY <2>1, <2>2, <3>1 DEF OnceInv
    <3>. QED  BY <3>2
  <2>. QED  BY <1>2, <1>6, <2>1, <2>2 DEF OnceInv
<1>8. WriteOnce(t)
  BY <1>1, <1>2, <1>6, <1>7 DEF WriteOnce, SentInv
<1>9. NotYet(s) => NotYet(t)
  BY <1>2, <1>3 DEF NotYet
<1>10. ASSUME kind # "waited"  PROVE AwaitInv(t)
  <2>1. Has(t.j, "waited") <=> Has(s.j, "waited")
    BY <1>3, <1>10
  <2>2. OneWait(t)
    <3>1. ASSUME NEW i \in 1..Len(t.j), NEW k \in 1..Len(t.j), t.j[i][1] = "waited", t.j[k][1] = "waited"
          PROVE  i = k
      <4>1. i + 1 \in 1..Len(s.j) /\ k + 1 \in 1..Len(s.j) /\ t.j[i] = s.j[i + 1] /\ t.j[k] = s.j[k + 1]
        BY <1>4 DEF m
      <4>2. i + 1 = k + 1
        BY <1>1, <3>1, <4>1 DEF OneWait
      <4>. QED  BY <4>2
    <3>2. ASSUME NEW i \in 1..Len(t.j), t.j[i][1] = "waited"
          PROVE  t.p.phase = "shuttingDown" /\ t.j[i][2] = t.p.awaited
      BY <1>1, <1>2, <1>4, <3>2 DEF OneWait, m
    <3>. QED  BY <1>1, <1>2, <3>1, <3>2 DEF OneWait
  <2>3. (Waiting(t) <=> Waiting(s)) /\ (Good(t) <=> Good(s))
    BY <1>2, <2>1 DEF Waiting, Good
  <2>. QED  BY <1>1, <1>2, <1>8, <1>9, <2>2, <2>3 DEF AwaitInv, WaitInv
<1>11. ASSUME kind \in SettleKinds  PROVE WriteSettles(t, arg)
  <2>1. arg \in Chunk
    BY <1>3, <1>11, JobKinds DEF SettleKinds
  <2>2. Settles(s.j, arg)
    BY <1>5, <1>11 DEF Settles, m
  <2>3. OnceInv(s.w, s.p, s.j) /\ SentInv(s.calls, s.w, s.p, s.j)
    BY <1>1 DEF WriteOnce
  <2>4. ~Settles(t.j, arg)
    <3> SUFFICES ASSUME NEW i \in 1..Len(t.j), t.j[i][1] \in SettleKinds, t.j[i][2] = arg  PROVE FALSE
      BY DEF Settles
    <3>1. i + 1 \in 1..Len(s.j) /\ 1 \in 1..Len(s.j) /\ t.j[i] = s.j[i + 1] /\ i + 1 # 1
      BY <1>4, <1>5 DEF m
    <3>. QED  BY <1>5, <1>11, <2>3, <3>1 DEF OnceInv
  <2>. QED  BY <1>2, <2>1, <2>2, <2>3, <2>4 DEF WriteSettles, OnceInv, SentInv
<1>12. ASSUME kind = "waited"  PROVE WaitEnds(t, arg)
  <2>1. s.p.phase = "shuttingDown" /\ arg = s.p.awaited /\ Has(s.j, "waited")
    BY <1>1, <1>5, <1>12 DEF OneWait, Has, m
  <2>2. Waiting(s)
    BY <2>1 DEF Waiting
  <2>3. Untouched(s.w, s.calls) /\ NotYet(s)
    BY <1>1, <2>2 DEF WaitInv
  <2>4. ~Has(t.j, "waited")
    <3> SUFFICES ASSUME NEW i \in 1..Len(t.j), t.j[i][1] = "waited"  PROVE FALSE
      BY DEF Has
    <3>1. i + 1 \in 1..Len(s.j) /\ 1 \in 1..Len(s.j) /\ t.j[i] = s.j[i + 1] /\ i + 1 # 1
      BY <1>4, <1>5 DEF m
    <3>. QED  BY <1>1, <1>5, <1>12, <3>1 DEF OneWait
  <2>5. arg \in s.p.written \cup {None}
    BY <1>5, <1>12 DEF Core, KnownInv, m
  <2>. QED  BY <1>2, <1>8, <1>9, <2>1, <2>3, <2>4, <2>5 DEF WaitEnds
<1>13. ASSUME kind \in ActKinds  PROVE ~Waiting(t)
  <2>1. ~NotYet(s)
    BY <1>5, <1>13 DEF NotYet, Has, m
  <2>2. ~Waiting(s)
    BY <1>1, <2>1 DEF WaitInv
  <2>. QED  BY <1>2, <1>3, <2>2 DEF Waiting
<1>. QED  BY <1>10, <1>11, <1>12, <1>13 DEF t

\* The promise of a write that settles is on its way to the pipe.
LEMMA SettlePushed ==
  ASSUME NEW s \in State, NEW kind \in SettleKinds, NEW c, WriteSettles(s, c),
         NEW f, f.p = s.p, f.w = s.w, f.calls = s.calls, f.j = Append(s.j, <<kind, c>>)
  PROVE  Calm(s, f)
<1> DEFINE m == Len(s.j)   job == <<kind, c>>
<1>1. job \in Job /\ s.j \in Seq(Job) /\ c \in Chunk /\ job[1] = kind /\ job[2] = c
      /\ kind \notin ActKinds /\ kind # "waited"
  BY DEF Job, State, WriteSettles, SettleKinds, ActKinds
<1> DEFINE t == Append(s.j, job)
<1>8. f.j = t
  BY Zenon
<1> HIDE DEF job
<1>9. /\ m \in Nat /\ Len(t) = m + 1 /\ \A i \in 1..m : t[i] = s.j[i]
      /\ t[m + 1] = job
      /\ \A k : Has(t, k) <=> Has(s.j, k) \/ job[1] = k
  BY <1>1, JobPushed
<1> HIDE DEF t
<1>2. /\ m \in Nat /\ Len(f.j) = m + 1 /\ \A i \in 1..m : f.j[i] = s.j[i]
      /\ f.j[m + 1] = job
      /\ \A k : Has(f.j, k) <=> Has(s.j, k) \/ kind = k
  BY Zenon, <1>1, <1>8, <1>9
<1>3. \A i \in 1..Len(f.j) : i \in 1..m \/ i = m + 1
  BY <1>2
<1>4. \A x : Settles(f.j, x) => Settles(s.j, x) \/ x = c
  BY <1>1, <1>2, <1>3 DEF Settles, m
<1>5. WaitedStay(s.j, f.j) /\ WaitedStay(f.j, s.j)
  <2>1. WaitedStay(s.j, f.j)
    BY <1>1, <1>2, <1>3 DEF WaitedStay, m
  <2>2. \A i \in 1..m : i \in 1..Len(f.j)
    BY <1>2
  <2>3. WaitedStay(f.j, s.j)
    BY <1>2, <2>2 DEF WaitedStay, m
  <2>. QED  BY <2>1, <2>3
<1>6. NotYet(s) => NotYet(f)
  BY Zenon, <1>1, <1>2 DEF NotYet
<1>7. ASSUME WriteOnce(s)  PROVE WriteOnce(f)
  <2>1. OnceInv(s.w, s.p, s.j) /\ SentInv(s.calls, s.w, s.p, s.j)
    BY <1>7 DEF WriteOnce
  <2>2. ASSUME NEW i \in 1..Len(f.j), NEW k \in 1..Len(f.j), f.j[i][1] \in SettleKinds,
               f.j[k][1] \in SettleKinds, f.j[i][2] = f.j[k][2]
        PROVE  i = k
    <3>1. CASE i \in 1..m /\ k \in 1..m
      BY <1>2, <2>1, <2>2, <3>1 DEF OnceInv, m
    <3>2. CASE i \in 1..m /\ k = m + 1
      BY <1>1, <1>2, <2>2, <3>2 DEF WriteSettles, Settles, m
    <3>3. CASE i = m + 1 /\ k \in 1..m
      BY <1>1, <1>2, <2>2, <3>3 DEF WriteSettles, Settles, m
    <3>. QED  BY <1>3, <3>1, <3>2, <3>3
  <2>3. OnceInv(f.w, f.p, f.j)
    BY <1>4, <2>1, <2>2 DEF OnceInv, WriteSettles
  <2>4. SentInv(f.calls, f.w, f.p, f.j)
    BY <1>4, <2>1 DEF SentInv, WriteSettles
  <2>. QED  BY <1>7, <2>3, <2>4 DEF WriteOnce
<1>. QED  BY <1>2, <1>5, <1>6, <1>7 DEF Calm, Still, Drift, Lasts, WaitedStay, Has

\* The pipe is told that the chunk it waits for has settled.
LEMMA WaitedPushed ==
  ASSUME NEW s \in State, WriteOnce(s), s.p.phase = "shuttingDown", ~Has(s.j, "waited"),
         Untouched(s.w, s.calls), NotYet(s), NEW c \in Chunk \cup {None}, s.p.awaited = c
  PROVE  AwaitInv(Push(s, "waited", c))
<1> DEFINE m == Len(s.j)   job == <<"waited", c>>   f == Push(s, "waited", c)
<1>1. job \in Job /\ job[1] = "waited" /\ job[2] = c /\ s.j \in Seq(Job)
  BY DEF Job, State
<1>2. f.w = s.w /\ f.calls = s.calls /\ f.p = s.p /\ f.j = Append(s.j, job)
  BY DEF Push, State
<1> HIDE DEF job, f
<1>3. /\ m \in Nat /\ Len(f.j) = m + 1 /\ \A i \in 1..m : f.j[i] = s.j[i]
      /\ f.j[m + 1] = job
      /\ \A k : Has(f.j, k) <=> Has(s.j, k) \/ job[1] = k
  BY <1>1, <1>2, JobPushed
<1>4. \A i \in 1..Len(f.j) : i \in 1..m \/ i = m + 1
  BY <1>3
<1>5. \A i \in 1..Len(f.j) : f.j[i][1] = "waited" => i = m + 1
  BY <1>3, <1>4 DEF Has, m
<1>6. OneWait(f)
  BY <1>1, <1>2, <1>3, <1>5 DEF OneWait
<1>7. Waiting(f)
  BY <1>1, <1>2, <1>3 DEF Waiting
<1>8. NotYet(f)
  BY <1>1, <1>2, <1>3 DEF NotYet, ActKinds
<1>9. WriteOnce(f)
  <2>1. \A i \in 1..Len(f.j) : f.j[i][1] \in SettleKinds => i \in 1..m
    BY <1>1, <1>3, <1>4 DEF SettleKinds
  <2>2. \A y : Settles(f.j, y) => Settles(s.j, y)
    BY Zenon, <1>3, <2>1 DEF Settles, m
  <2>3. \A i, l \in 1..Len(f.j) :
          f.j[i][1] \in SettleKinds /\ f.j[l][1] \in SettleKinds /\ f.j[i][2] = f.j[l][2] => i = l
    BY Zenon, <1>3, <2>1 DEF WriteOnce, OnceInv, m
  <2>. QED  BY <1>2, <2>2, <2>3 DEF WriteOnce, OnceInv, SentInv
<1>10. Untouched(f.w, f.calls)
  BY <1>2
<1>. QED  BY <1>6, <1>7, <1>8, <1>9, <1>10 DEF AwaitInv, WaitInv, f

\* The pipe waits for the chunk that it found being written.
Noting(s, depth) == [s EXCEPT !.p.awaited = s.p.current, !.p.depth = depth]

LEMMA WaitGoesOn ==
  ASSUME NEW s \in State, WriteOnce(s), s.p.phase = "shuttingDown", ~Has(s.j, "waited"),
         Untouched(s.w, s.calls), NotYet(s), NEW depth \in Nat
  PROVE  AwaitInv(WaitForWritesToFinish(s, depth))
<1> DEFINE p1 == [s.p EXCEPT !.awaited = s.p.current, !.depth = depth]
           c == s.p.current   y == Noting(s, depth)   f == WaitForWritesToFinish(s, depth)
<1>1. s.p \in PipeType /\ c \in Chunk \cup {None} /\ s.j \in Seq(Job)
  BY DEF State, PipeType
<1>2. y = [s EXCEPT !.p = p1]
  BY Zenon, <1>1 DEF State, Noting
<1>3. f = IF c \in s.p.written \cup {None} THEN Push(y, "waited", c) ELSE y
  BY DEF WaitForWritesToFinish, Noting
<1> HIDE DEF c, y, f
<1>4. /\ p1 \in PipeType /\ p1.phase = s.p.phase /\ p1.written = s.p.written
      /\ p1.parts = s.p.parts /\ p1.awaited = c
  BY Zenon, <1>1 DEF PipeType, c
<1> HIDE DEF p1
<1>5. y \in State /\ y.w = s.w /\ y.calls = s.calls /\ y.j = s.j /\ y.p = p1
  BY <1>2, <1>4 DEF State
<1>6. WriteOnce(y) /\ Untouched(y.w, y.calls) /\ NotYet(y)
  BY <1>4, <1>5 DEF WriteOnce, OnceInv, SentInv, NotYet
<1>7. CASE c \notin s.p.written \cup {None}
  <2>1. Waiting(y) /\ OneWait(y)
    BY <1>4, <1>5, <1>7 DEF Waiting, OneWait, Has
  <2>. QED  BY <1>3, <1>6, <1>7, <2>1 DEF AwaitInv, WaitInv, f
<1>8. CASE c \in s.p.written \cup {None}
  <2>1. f = Push(y, "waited", c) /\ y.p.awaited = c /\ y.p.phase = "shuttingDown"
    BY <1>3, <1>4, <1>5, <1>8
  <2>. QED  BY <1>1, <1>5, <1>6, <2>1, WaitedPushed DEF f, c
<1>. QED  BY <1>7, <1>8

\* The wait is over, or goes on for the chunk that is being written now.
LEMMA FinishedWaits ==
  ASSUME NEW s \in State, NEW c, WaitEnds(s, c)
  PROVE  AwaitInv(WritesFinished(s, c))
<1> DEFINE f == WritesFinished(s, c)
<1>1. /\ WriteOnce(s) /\ s.p.phase = "shuttingDown" /\ c = s.p.awaited /\ ~Has(s.j, "waited")
      /\ Untouched(s.w, s.calls) /\ NotYet(s) /\ c \in s.p.written \cup {None}
      /\ s.p.depth \in Nat /\ s.p.written \subseteq Chunk /\ s.w \in W!Type
  BY DEF WaitEnds, State, PipeType
<1>2. CASE c # s.p.current
  <2> DEFINE d == s.p.depth + 1
  <2>1. f = WaitForWritesToFinish(s, d) /\ d \in Nat
    BY <1>1, <1>2 DEF WritesFinished
  <2> HIDE DEF d
  <2>. QED  BY <1>1, <2>1, WaitGoesOn
<1>3. CASE c = s.p.current
  <2> DEFINE d == s.p.depth
  <2>1. f = Push(s, "rest", d)
    BY <1>3 DEF WritesFinished
  <2>2. <<"rest", d>> \in Job /\ "rest" \notin SettleKinds \cup {"waited"}
    BY <1>1 DEF Job, SettleKinds
  <2> HIDE DEF d
  <2>3. Still(s, f)
    BY <2>1, <2>2, PushDrifts
  <2>4. Good(s)
    <3>1. CASE c = None
      BY <1>1, <3>1 DEF Good
    <3>2. CASE c # None /\ W!Accepts(s.w)
      BY <1>1, <3>2 DEF Good, WriteOnce, SentInv
    <3>3. CASE ~W!Accepts(s.w)
      <4>1. s.w.state \in {"erroring", "errored"}
        BY <1>1, <3>3 DEF Untouched, Pure, W!Accepts, W!CloseQueuedOrInFlight, W!Type
      <4>. QED  BY <1>1, <4>1 DEF Good, Failed, Untouched
    <3>. QED  BY <3>1, <3>2, <3>3
  <2>5. ~Waiting(s) /\ OneWait(s)
    BY <1>1 DEF Waiting, OneWait, Has
  <2>6. AwaitInv(s)
    BY <1>1, <2>4, <2>5 DEF AwaitInv, WaitInv
  <2>. QED  BY <2>3, <2>5, <2>6, DriftKeeps DEF Still
<1>. QED  BY <1>2, <1>3

\* The pipe sees a write settle; it may be the one it waits for.
LEMMA SettledWaits ==
  ASSUME NEW n, NEW s, Core(s, n), AwaitInv(s), NEW c, WriteSettles(s, c)
  PROVE  AwaitInv(CurrentWriteSettles(s, c))
<1> DEFINE x == s.p.written \cup {c}   p1 == [s.p EXCEPT !.written = x]
           s1 == [s EXCEPT !.p.written = @ \cup {c}]   f == CurrentWriteSettles(s, c)
<1>1. /\ s \in State /\ s.p \in PipeType /\ s.j \in Seq(Job) /\ c \in Chunk /\ c # None
      /\ c \notin s.p.written /\ ~Settles(s.j, c) /\ ~Queued(s.w, c)
      /\ s.p.phase # "done" /\ W!Accepts(s.w) => Called(s.calls, c)
      /\ WriteOnce(s) /\ WaitInv(s) /\ OneWait(s)
  BY PipeAssumption DEF Core, State, WriteSettles, AwaitInv, WaitInv
<1>2. s1 = [s EXCEPT !.p = p1]
  BY <1>1 DEF State
<1>3. f = IF s.p.awaited = c THEN Push(s1, "waited", c) ELSE s1
  BY DEF CurrentWriteSettles
<1>4. x \in SUBSET Chunk
  BY <1>1 DEF PipeType
<1> HIDE DEF s1, f, x
<1>5. /\ p1 \in PipeType /\ p1.phase = s.p.phase /\ p1.written = x
      /\ p1.parts = s.p.parts /\ p1.awaited = s.p.awaited
  BY <1>1, <1>4 DEF PipeType
<1> HIDE DEF p1
<1>6. s1 \in State /\ s1.w = s.w /\ s1.calls = s.calls /\ s1.j = s.j /\ s1.p = p1
  BY <1>1, <1>2, <1>5 DEF State
<1>7. WriteOnce(s1)
  <2>1. OnceInv(s1.w, s1.p, s1.j)
    BY <1>1, <1>5, <1>6 DEF WriteOnce, OnceInv, x
  <2>2. SentInv(s1.calls, s1.w, s1.p, s1.j)
    BY <1>1, <1>5, <1>6 DEF WriteOnce, SentInv, x
  <2>. QED  BY <1>1, <1>6, <2>1, <2>2 DEF WriteOnce
<1>8. NotYet(s1) <=> NotYet(s)
  BY <1>5, <1>6 DEF NotYet
<1>9. CASE s.p.awaited # c
  <2>1. s.p.awaited \in x \cup {None} <=> s.p.awaited \in s.p.written \cup {None}
    BY <1>9 DEF x
  <2>2. (Waiting(s1) <=> Waiting(s)) /\ (Good(s1) <=> Good(s)) /\ OneWait(s1)
    BY <1>1, <1>5, <1>6, <2>1 DEF Waiting, Good, OneWait
  <2>. QED  BY <1>1, <1>3, <1>5, <1>6, <1>7, <1>8, <1>9, <2>2 DEF AwaitInv, WaitInv, f
<1>10. CASE s.p.awaited = c
  <2>1. s.p.phase = "shuttingDown"
    BY <1>1, <1>10 DEF Core, PhaseInv, OneWait, PipeType
  <2>2. Waiting(s)
    BY <1>1, <1>10, <2>1 DEF Waiting
  <2>3. Untouched(s.w, s.calls) /\ NotYet(s)
    BY <1>1, <2>2 DEF WaitInv
  <2>4. ~Has(s.j, "waited")
    BY <1>1, <1>10 DEF Core, KnownInv, OneWait, Has
  <2>5. f = Push(s1, "waited", c)
    BY <1>3, <1>10
  <2>6. s1.p.phase = "shuttingDown" /\ ~Has(s1.j, "waited") /\ Untouched(s1.w, s1.calls)
        /\ NotYet(s1) /\ s1.p.awaited = c
    BY <1>5, <1>6, <1>8, <1>10, <2>1, <2>3, <2>4
  <2>. QED  BY <1>1, <1>6, <1>7, <2>5, <2>6, WaitedPushed DEF f
<1>. QED  BY <1>9, <1>10

\* The chunk that is being written joins the destination's queue.
LEMMA QueuedWaits ==
  ASSUME NEW n, NEW s, Core(s, n), NEW c \in Chunk, ~Known(s.w, s.p, s.j, c), W!Accepts(s.w),
         NEW w, DestinationInv(w), Queues(s.w, w, c)
  PROVE  LET a == Arrived(s, w)
         IN  a \in State /\ a.p = s.p /\ a.r = s.r /\ Calm(s, a)
<1> DEFINE a == Arrived(s, w)   c2 == SinkCalled(s.calls, s.w, w)   w0 == [w EXCEPT !.settled = <<>>]
           q == W!QueuedChunks(s.w)
<1>1. /\ s \in State /\ s.calls \in CallsType /\ s.j \in Seq(Job) /\ DestinationInv(s.w)
      /\ ClosedInv(s.calls, s.w)
  BY DEF Core, State
<1>2. w.inFlight = "write" => Head(w.queue) \in Chunk
  BY HeadOfQueue
<1>3. /\ c2 \in CallsType /\ (c2.closed <=> s.calls.closed \/ (w.inFlight = "close" /\ s.w.inFlight # "close"))
      /\ c2.aborted => s.calls.aborted \/ (w.aborting /\ ~s.w.aborting)
      /\ \A x : Called(s.calls, x) => Called(c2, x)
  BY <1>1, <1>2, SinkCalledOf, SinkAborted
<1>4. /\ a \in State /\ a.r = s.r /\ a.p = s.p /\ a.w = w0 /\ a.calls = c2
      /\ a.j = s.j \o Adopted(w.settled)
  BY Zenon, <1>1, <1>3, ArrivedIs
<1>5. SameDestination(w, w0)
  BY ClearKeeps
<1> HIDE DEF a, c2, w0
<1>6. a.j = s.j
  <2>1. w.settled = <<>> /\ w.settled \in Seq(Chunk)
    BY DEF Queues
  <2>. QED  BY Zenon, <1>1, <1>4, <2>1, JobsAdopted
<1>7. /\ w.state = "writable" /\ s.w.state = "writable" /\ ~W!CloseQueuedOrInFlight(w)
      /\ w.inFlight # "close" /\ ~w.closeRequest
      /\ w.pendingAbort = s.w.pendingAbort /\ w.aborting = s.w.aborting
  BY DEF Queues, W!Accepts, W!CloseQueuedOrInFlight
<1>8. Untouched(s.w, s.calls) => Untouched(a.w, a.calls)
  BY <1>3, <1>4, <1>5, <1>7 DEF Untouched, Pure, SameDestination
<1>9. ~Failed(s.w, s.calls)
  BY <1>7 DEF Failed
<1>10. ASSUME WriteOnce(s)  PROVE WriteOnce(a)
  <2>1. \A x : Queued(a.w, x) => Queued(s.w, x) \/ x = c
    <3> SUFFICES ASSUME NEW x, Queued(a.w, x)  PROVE Queued(s.w, x) \/ x = c
      OBVIOUS
    <3>1. W!QueuedChunks(a.w) = Append(q, c)
      BY <1>4, <1>5 DEF Queues, SameDestination
    <3>2. q \in Seq(Chunk) /\ Len(q) \in Nat
      BY <1>1, HeadOfQueue
    <3> HIDE DEF q
    <3>3. Len(Append(q, c)) = Len(q) + 1 /\ Append(q, c)[Len(q) + 1] = c
          /\ \A i \in 1..Len(q) : Append(q, c)[i] = q[i]
      BY <3>2, AppendProperties
    <3>4. PICK i \in 1..Len(Append(q, c)) : Append(q, c)[i] = x
      BY <3>1 DEF Queued
    <3>5. i \in 1..Len(q) \/ i = Len(q) + 1
      BY <3>2, <3>3
    <3>. QED  BY <3>3, <3>4, <3>5 DEF Queued, q
  <2>2. c \notin s.p.written /\ ~Settles(s.j, c)
    BY DEF Known, Settles, SettleKinds
  <2>3. OnceInv(a.w, a.p, a.j)
    BY <1>4, <1>6, <1>10, <2>1, <2>2 DEF WriteOnce, OnceInv
  <2>4. SentInv(a.calls, a.w, a.p, a.j)
    BY <1>3, <1>4, <1>6, <1>10 DEF WriteOnce, SentInv
  <2>5. a.calls.aborted => a.w.state = "errored"
    BY <1>3, <1>4, <1>7, <1>10 DEF WriteOnce
  <2>. QED  BY <2>3, <2>4, <2>5 DEF WriteOnce
<1>11. WaitedStay(s.j, a.j) /\ WaitedStay(a.j, s.j)
  BY <1>6 DEF WaitedStay
<1>12. Calm(s, a)
  BY <1>3, <1>4, <1>6, <1>8, <1>9, <1>10, <1>11 DEF Calm, Still, Drift, Lasts, NotYet
<1>. QED  BY <1>4, <1>12 DEF a

LEMMA WriteWaits ==
  ASSUME NEW n, NEW s, Kept(s, n), AwaitInv(s), NEW chunk, s.j # <<>>,
         Head(s.j) = <<"write", chunk>>
  PROVE  AwaitInv(WriteChunk(Popped(s), chunk))
<1> DEFINE t == Popped(s)   w == W!Write(t.w, chunk)   f == WriteChunk(t, chunk)
<1>1. /\ Core(s, n) /\ Unlocked(s) /\ s.p.phase # "idle" /\ s \in State /\ s.j \in Seq(Job)
  BY DEF Kept, Core, State
<1>2. Core(t, n) /\ SameStreams(s, t) /\ t.p = s.p
  BY ZenonT(40), <1>1, PopKeeps
<1>3. chunk = s.p.current /\ chunk \in Chunk /\ Has(s.j, "write")
  BY <1>1, WriteIsNext
<1>4. AwaitInv(t)
  BY <1>1, PopWaits
<1>5. f = IF ~t.w.locked THEN Push(t, "settle", chunk) ELSE WithDestination(t, w)
  BY DEF WriteChunk
<1>6. t.j = Tail(s.j)
  BY <1>1 DEF Popped, State
<1> HIDE DEF t, w, f
<1>7. /\ t \in State /\ DestinationInv(t.w) /\ t.w.settled = <<>> /\ t.calls \in CallsType
      /\ t.w = s.w /\ t.r = s.r /\ t.calls = s.calls /\ t.j \in Seq(Job)
  BY <1>2 DEF Core, State, SameStreams
<1>8. ~Known(t.w, t.p, t.j, chunk)
  <2>1. ~Known(s.w, s.p, s.j, chunk)
    BY <1>1, <1>3 DEF Core, KnownInv
  <2>2. /\ Len(t.j) = Len(s.j) - 1 /\ Len(s.j) \in Nat \ {0}
        /\ \A i \in 1..(Len(s.j) - 1) : t.j[i] = s.j[i + 1]
    BY <1>1, <1>6, JobPopped
  <2>3. \A i \in 1..Len(t.j) : i + 1 \in 1..Len(s.j) /\ t.j[i] = s.j[i + 1]
    BY <2>2
  <2>. QED  BY Zenon, <1>2, <1>7, <2>1, <2>3 DEF Known
<1>9. chunk \notin t.p.written /\ ~Settles(t.j, chunk) /\ ~Queued(t.w, chunk)
  BY <1>8 DEF Known, Settles, SettleKinds, Queued
<1>10. CASE ~t.w.locked
  <2>1. f = Push(t, "settle", chunk) /\ <<"settle", chunk>> \in Job
    BY <1>3, <1>5, <1>10 DEF Job
  <2>2. t.p.phase = "done"
    BY <1>1, <1>2, <1>10 DEF Core, PhaseInv, State, PipeType, SameStreams
  <2>3. WriteSettles(t, chunk)
    BY <1>3, <1>9, <2>2 DEF WriteSettles
  <2>4. f.p = t.p /\ f.w = t.w /\ f.calls = t.calls /\ f.j = Append(t.j, <<"settle", chunk>>)
    BY <1>7, <2>1 DEF Push, State
  <2>5. "settle" \in SettleKinds
    BY DEF SettleKinds
  <2>6. Calm(t, f)
    BY <1>7, <2>3, <2>4, <2>5, SettlePushed
  <2>. QED  BY <1>4, <2>6, CalmKeeps DEF f, t
<1>11. CASE t.w.locked /\ W!Accepts(t.w)
  <2> DEFINE a == Arrived(t, w)
  <2>1. f = WithDestination(t, w)
    BY <1>5, <1>11
  <2>2. DestinationInv(w) /\ Queues(t.w, w, chunk)
    BY Zenon, <1>3, <1>7, <1>11, WriteKeeps DEF w
  <2>3. a \in State /\ a.p = t.p /\ a.r = t.r /\ Calm(t, a)
    BY <1>2, <1>3, <1>8, <1>11, <2>2, QueuedWaits
  <2>4. Calm(a, f)
    BY <1>7, <2>1, <2>3, MoveTold
  <2> HIDE DEF a
  <2>5. Calm(t, f)
    BY <2>3, <2>4, CalmsOn
  <2>. QED  BY <1>4, <2>5, CalmKeeps DEF f, t
<1>12. CASE t.w.locked /\ ~W!Accepts(t.w)
  <2> DEFINE a == Arrived(t, w)   job == <<"adopt", chunk>>   d == <<chunk>>
  <2>1. f = WithDestination(t, w)
    BY <1>5, <1>12
  <2>2. w = Settled(t.w, d)
    BY Zenon, <1>3, <1>7, <1>12, WriteKeeps DEF Settled, w
  <2>3. d \in Seq(Chunk)
    BY <1>3
  <2>4. t.j \o Adopted(d) = Append(t.j, job)
    <3>1. Adopted(d) = <<job>>
      BY DEF Adopted
    <3>2. job \in Job
      BY <1>3 DEF Job
    <3>. QED  BY Zenon, <1>7, <3>1, <3>2, AppendIsConcat
  <2> HIDE DEF a, d
  <2>5. /\ DestinationInv(w) /\ w.settled = d /\ [w EXCEPT !.settled = <<>>] = t.w
        /\ SinkCalled(t.calls, t.w, w) = t.calls
    BY <1>7, <2>2, <2>3, SettledKeeps
  <2>6. /\ a \in State /\ a.r = t.r /\ a.p = t.p /\ a.w = t.w /\ a.j = Append(t.j, job)
        /\ a.calls = t.calls
    BY ZenonT(40), <1>7, <2>4, <2>5, ArrivedIs DEF a
  <2>7. WriteSettles(t, chunk) /\ "adopt" \in SettleKinds
    BY <1>3, <1>9, <1>12 DEF WriteSettles, SettleKinds
  <2>8. Calm(t, a)
    <3>1. t \in State /\ a.p = t.p /\ a.w = t.w /\ a.calls = t.calls
          /\ a.j = Append(t.j, <<"adopt", chunk>>)
      BY <1>7, <2>6
    <3>. QED  BY Zenon, <2>7, <3>1, SettlePushed
  <2>9. Calm(a, f)
    BY <1>7, <2>1, <2>6, MoveTold DEF a
  <2>10. Calm(t, f)
    BY <2>8, <2>9, CalmsOn
  <2>. QED  BY <1>4, <2>10, CalmKeeps DEF f, t
<1>. QED  BY <1>10, <1>11, <1>12 DEF f, t

\* The loop reads and waits while the pipe may be waiting for a write.
LEMMA LoopCalms ==
  ASSUME NEW s \in State, s.r.answers = <<>>, SourceShape(s.r), s.r.requests = 0
  PROVE  Calm(s, PipeStep(s)) /\ Calm(s, ReadForPipe(s))
<1>1. Calm(s, PipeStep(s))
  <2> DEFINE t == Looped(s, "job")   f == PipeStep(s)
  <2>1. f = Looped(s, "off") \/ f = Looped(s, "ready") \/ f = Push(t, "ready", None)
    BY DEF PipeStep, Looped
  <2> HIDE DEF f
  <2>2. Calm(s, Looped(s, "off")) /\ Calm(s, Looped(s, "ready"))
    BY LoopedCalms
  <2>3. t \in State /\ Calm(s, t)
    BY LoopedCalms
  <2> HIDE DEF t
  <2>4. Calm(t, Push(t, "ready", None))
    <3>1. <<"ready", None>> \in Job /\ "ready" \notin SettleKinds \cup {"waited"}
          /\ "ready" \notin ActKinds
      BY DEF Job, LoopKinds, SettleKinds, ActKinds
    <3>. QED  BY <2>3, <3>1, PushDrifts
  <2>5. Calm(s, Push(t, "ready", None))
    BY <2>3, <2>4, CalmsOn
  <2>. QED  BY <2>1, <2>2, <2>5 DEF f
<1>2. Calm(s, ReadForPipe(s))
  <2> DEFINE t == Looped(s, "read")   r == R!ReadChunk(s.r)   f == ReadForPipe(s)
  <2>1. f = IF ~s.r.locked THEN Looped(s, "off") ELSE WithSource(t, r)
    BY DEF ReadForPipe, Looped
  <2> HIDE DEF f
  <2>2. Calm(s, Looped(s, "off")) /\ t \in State /\ Calm(s, t)
    BY LoopedCalms
  <2> HIDE DEF t
  <2>3. s.r.locked => Calm(s, WithSource(t, r))
    <3> SUFFICES ASSUME s.r.locked  PROVE Calm(s, WithSource(t, r))
      OBVIOUS
    <3>1. s.r \in R!Type
      BY DEF State
    <3>2. r \in R!Type
      BY <3>1, ReadKeeps
    <3> HIDE DEF r
    <3>3. Calm(t, WithSource(t, r))
      BY <2>2, <3>2, SourceCalms
    <3>. QED  BY <2>2, <3>3, CalmsOn
  <2>. QED  BY <2>1, <2>2, <2>3 DEF f
<1>. QED  BY <1>1, <1>2

\* A shutdown begins: it waits for the chunk being written, or the destination accepts none.
LEMMA ShutdownWaits ==
  ASSUME NEW n, NEW s, Core(s, n), AwaitInv(s), NEW action \in Parts \cup {"none", "signal"},
         NEW isError \in BOOLEAN
  PROVE  AwaitInv(Shutdown(s, action, isError))
<1> DEFINE b == Begins(s, action, isError)   f == Shutdown(s, action, isError)
<1>1. f = IF s.p.phase # "piping" THEN s
          ELSE IF W!Accepts(s.w) THEN WaitForWritesToFinish(b, 0) ELSE DoTheRest(b)
  BY DEF Shutdown, Begins
<1>2. s \in State /\ s.p \in PipeType /\ WriteOnce(s) /\ OneWait(s) /\ DestinationInv(s.w)
      /\ ClosedInv(s.calls, s.w)
  BY DEF Core, State, AwaitInv, WaitInv
<1> SUFFICES ASSUME s.p.phase = "piping"  PROVE AwaitInv(f)
  BY <1>1
<1>3. /\ s.p.parts = {} /\ s.p.awaited = None
      /\ \A kind \in WaitKinds : ~Has(s.j, kind)
  BY DEF Core, PhaseInv
<1>4. /\ b \in State /\ SameStreams(s, b) /\ b.j = s.j /\ b.p.phase = "shuttingDown"
      /\ b.p.written = s.p.written /\ b.p.awaited = None /\ b.p.parts = {}
  <2> DEFINE p1 == [s.p EXCEPT !.phase = "shuttingDown", !.action = action, !.isError = isError]
  <2>1. /\ p1 \in PipeType /\ p1.phase = "shuttingDown" /\ p1.written = s.p.written
        /\ p1.awaited = s.p.awaited /\ p1.parts = s.p.parts
    BY Zenon, <1>2 DEF PipeType
  <2>2. b = [s EXCEPT !.p = p1]
    BY Zenon, <1>2 DEF State, Begins
  <2> HIDE DEF p1, b
  <2>. QED  BY <1>2, <1>3, <2>1, <2>2 DEF State, SameStreams
<1> HIDE DEF b, f
<1>5. WriteOnce(b)
  BY <1>2, <1>4 DEF WriteOnce, OnceInv, SentInv, SameStreams
<1>6. ~Has(b.j, "waited") /\ NotYet(b)
  BY <1>3, <1>4 DEF NotYet, ActKinds, WaitKinds
<1>7. CASE W!Accepts(s.w)
  <2>1. Untouched(s.w, s.calls)
    BY <1>2, <1>7 DEF Untouched, Pure, W!Accepts, W!CloseQueuedOrInFlight, DestinationInv,
                      PromisesOwed, ClosedInv, Alive, WriteOnce
  <2>2. Untouched(b.w, b.calls)
    BY <1>4, <2>1 DEF SameStreams
  <2> DEFINE z == 0
  <2>3. f = WaitForWritesToFinish(b, z) /\ z \in Nat
    BY <1>1, <1>7
  <2> HIDE DEF z
  <2>. QED  BY <1>4, <1>5, <1>6, <2>2, <2>3, WaitGoesOn
<1>8. CASE ~W!Accepts(s.w)
  <2>1. OneWait(b) /\ ~Waiting(b) /\ Good(b)
    BY <1>4, <1>6 DEF OneWait, Waiting, Good, Has
  <2>2. AwaitInv(b)
    BY <1>5, <2>1 DEF AwaitInv, WaitInv
  <2>3. Firm(b, n)
    BY <1>4, CoreFirm
  <2>4. f = DoTheRest(b) /\ Drift(b, f)
    BY <1>1, <1>4, <1>8, <2>3, RestDrifts
  <2>. QED  BY <2>1, <2>2, <2>4, DriftKeeps
<1>. QED  BY <1>7, <1>8

LEMMA ReasonWaits ==
  ASSUME NEW n, NEW s, Core(s, n), AwaitInv(s)
  PROVE  /\ AwaitInv(SourceErrored(s)) /\ AwaitInv(DestinationErrored(s))
         /\ AwaitInv(SourceClosed(s)) /\ AwaitInv(Shutdown(s, "signal", TRUE))
<1> DEFINE e == TRUE   o == FALSE
<1>1. e \in BOOLEAN /\ o \in BOOLEAN
  OBVIOUS
<1>2. /\ SourceErrored(s) = Shutdown(s, ActionUnless(s, "abort"), e)
      /\ DestinationErrored(s) = Shutdown(s, ActionUnless(s, "cancel"), e)
      /\ SourceClosed(s) = Shutdown(s, ActionUnless(s, "close"), o)
  BY DEF SourceErrored, DestinationErrored, SourceClosed
<1>3. \A a \in Parts : ActionUnless(s, a) \in Parts \cup {"none", "signal"}
  BY DEF ActionUnless
<1>4. {"abort", "cancel", "close"} \subseteq Parts
  BY DEF Parts
<1>5. AwaitInv(Shutdown(s, "signal", e))
  <2> HIDE DEF e
  <2>. QED  BY <1>1, ShutdownWaits
<1>6. \A a \in Parts : AwaitInv(Shutdown(s, ActionUnless(s, a), e))
                       /\ AwaitInv(Shutdown(s, ActionUnless(s, a), o))
  <2> HIDE DEF e, o
  <2>. QED  BY <1>1, <1>3, ShutdownWaits
<1>. QED  BY Zenon, <1>2, <1>4, <1>5, <1>6

\* One part of Promise.all() settles.
LEMMA AllDrifts ==
  ASSUME NEW s \in State, NEW ok \in BOOLEAN
  PROVE  Drift(s, AllReacts(s, ok))
<1> DEFINE k == IF ok /\ s.p.left > 0 THEN s.p.left - 1 ELSE 0   t == Waited(s, k)
<1>1. s.p \in PipeType /\ s.p.left \in 0..2
  BY DEF State, PipeType
<1>2. k \in 0..2
  BY <1>1
<1>3. AllReacts(s, ok) = IF s.p.left > 0 /\ k = 0 THEN Push(t, "then", ok) ELSE t
  BY Zenon DEF AllReacts, Waited
<1> HIDE DEF k
<1> DEFINE p2 == [s.p EXCEPT !.left = k]
<1>4. p2 \in PipeType /\ Lasts(s.p, p2)
  BY <1>1, <1>2 DEF PipeType, Lasts
<1>5. t = [s EXCEPT !.p = p2]
  BY DEF Waited, State
<1> HIDE DEF p2, t
<1>6. t \in State /\ t.p = p2 /\ t.w = s.w /\ t.calls = s.calls /\ t.j = s.j
  BY <1>4, <1>5 DEF State
<1>7. Drift(s, t)
  BY <1>4, <1>6, SameJobs
<1>8. <<"then", ok>> \in Job /\ "then" \notin SettleKinds \cup {"waited"}
  BY DEF Job, SettleKinds
<1>9. Still(t, Push(t, "then", ok))
  BY <1>6, <1>8, PushDrifts
<1>10. Drift(s, Push(t, "then", ok))
  BY <1>7, <1>9, DriftsOn DEF Still
<1>. QED  BY Zenon, <1>3, <1>7, <1>10

\* One job is run to completion.
LEMMA PerformWaits ==
  ASSUME NEW n, NEW s, Kept(s, n), AwaitInv(s), NEW kind, NEW arg, s.j # <<>>,
         Head(s.j) = <<kind, arg>>
  PROVE  AwaitInv(Perform(Popped(s), kind, arg))
<1> DEFINE s2 == Popped(s)   f == Perform(s2, kind, arg)
<1>1. Core(s, n)
  BY DEF Kept
<1>2. /\ Core(s2, n) /\ <<kind, arg>> \in Job
      /\ kind \notin {"write", "adoptRead"} => MayPush(s2, n, kind, arg)
      /\ kind \in LoopKinds => s2.p.loop = "job"
  BY Zenon, <1>1, PopKeeps
<1>3. /\ kind # "waited" => AwaitInv(s2)
      /\ kind \in SettleKinds => WriteSettles(s2, arg)
      /\ kind = "waited" => WaitEnds(s2, arg)
      /\ kind \in ActKinds => ~Waiting(s2)
  BY <1>1, PopWaits
<1>4. CASE kind = "write"
  <2>1. f = WriteChunk(s2, arg)
    BY <1>4, PerformIs
  <2>2. AwaitInv(WriteChunk(s2, arg))
    BY <1>4, WriteWaits
  <2> HIDE DEF f, s2
  <2>. QED  BY Zenon, <2>1, <2>2 DEF f, s2
<1> HIDE DEF s2
<1>5. /\ s2 \in State /\ s2.r.answers = <<>> /\ SourceShape(s2.r) /\ Firm(s2, n)
      /\ kind \in LoopKinds => s2.r.requests = 0
      /\ kind \in ActKinds => s2.p.phase \in {"shuttingDown", "done"}
  <2>1. s2 \in State /\ SourceInv(s2.r, s2.p) /\ s2.r.requests \in Nat
    BY <1>2 DEF Core, State, R!Type
  <2>2. Firm(s2, n)
    BY <1>2, CoreFirm
  <2>3. kind \in LoopKinds => s2.r.requests = 0
    BY <1>2, <2>1 DEF SourceInv
  <2>4. kind \in ActKinds => s2.p.phase \in {"shuttingDown", "done"}
    BY <1>2, <2>1 DEF MayPush, ActKinds, WaitKinds, State, PipeType
  <2>. QED  BY <2>1, <2>2, <2>3, <2>4 DEF SourceInv
<1>6. CASE kind \in {"sourceErrored", "sourceClosed", "destinationErrored"}
  <2>1. f = SourceErrored(s2) \/ f = DestinationErrored(s2) \/ f = SourceClosed(s2)
    BY <1>6, PerformIs
  <2>2. AwaitInv(s2)
    BY <1>3, <1>6
  <2>3. AwaitInv(SourceErrored(s2)) /\ AwaitInv(DestinationErrored(s2)) /\ AwaitInv(SourceClosed(s2))
    BY Zenon, <1>2, <2>2, ReasonWaits
  <2> HIDE DEF f
  <2>. QED  BY Zenon, <2>1, <2>3 DEF f, s2
<1>7. CASE kind \in {"ready", "next"}
  <2>1. f = ReadForPipe(s2) \/ f = PipeStep(s2)
    BY <1>7, PerformIs
  <2>2. AwaitInv(s2) /\ s2.r.requests = 0
    BY <1>3, <1>5, <1>7 DEF LoopKinds
  <2>3. Calm(s2, PipeStep(s2)) /\ Calm(s2, ReadForPipe(s2))
    BY <1>5, <2>2, LoopCalms
  <2> HIDE DEF f
  <2>4. Calm(s2, f)
    BY Zenon, <2>1, <2>3
  <2>5. AwaitInv(f)
    BY <2>2, <2>4, CalmKeeps
  <2>. QED  BY <2>5 DEF f, s2
<1>8. CASE kind = "adoptRead"
  <2>1. f = Push(s2, "next", None)
    BY <1>8, PerformIs
  <2>2. AwaitInv(s2)
    BY <1>3, <1>8
  <2>3. <<"next", None>> \in Job
    BY DEF Job, LoopKinds
  <2>4. Calm(s2, Push(s2, "next", None))
    BY <1>5, <2>3, PushDrifts DEF SettleKinds, ActKinds
  <2> HIDE DEF f
  <2>5. AwaitInv(f)
    BY <2>1, <2>2, <2>4, CalmKeeps
  <2>. QED  BY <2>5 DEF f, s2
<1>9. CASE kind = "adopt"
  <2>1. f = Push(s2, "settle", arg)
    BY <1>9, PerformIs
  <2>2. AwaitInv(s2) /\ WriteSettles(s2, arg)
    BY <1>3, <1>9 DEF SettleKinds
  <2>3. f.p = s2.p /\ f.w = s2.w /\ f.calls = s2.calls /\ f.j = Append(s2.j, <<"settle", arg>>)
    BY <1>5, <2>1 DEF Push, State
  <2> HIDE DEF f
  <2>4. Calm(s2, f)
    BY <1>5, <2>2, <2>3, SettlePushed DEF SettleKinds
  <2>5. AwaitInv(f)
    BY <2>2, <2>4, CalmKeeps
  <2>. QED  BY <2>5 DEF f, s2
<1>10. CASE kind = "settle"
  <2>1. f = CurrentWriteSettles(s2, arg)
    BY <1>10, PerformIs
  <2>2. AwaitInv(s2) /\ WriteSettles(s2, arg)
    BY <1>3, <1>10 DEF SettleKinds
  <2>3. AwaitInv(CurrentWriteSettles(s2, arg))
    BY <1>2, <2>2, SettledWaits
  <2>. QED  BY Zenon, <2>1, <2>3 DEF s2
<1>11. CASE kind = "waited"
  <2>1. f = WritesFinished(s2, arg)
    BY <1>11, PerformIs
  <2>2. AwaitInv(WritesFinished(s2, arg))
    BY <1>3, <1>5, <1>11, FinishedWaits
  <2>. QED  BY Zenon, <2>1, <2>2 DEF s2
<1>12. CASE kind \in ActKinds
  <2>1. AwaitInv(s2) /\ ~Waiting(s2) /\ s2.p.phase \in {"shuttingDown", "done"}
    BY <1>3, <1>5, <1>12 DEF ActKinds
  <2>2. \A k \in ActKinds : \A a : <<k, a>> \in Job => Drift(s2, Push(s2, k, a))
    <3> SUFFICES ASSUME NEW k \in ActKinds, NEW a, <<k, a>> \in Job
                 PROVE  Drift(s2, Push(s2, k, a))
      OBVIOUS
    <3>1. k \notin SettleKinds \cup {"waited"}
      BY DEF ActKinds, SettleKinds
    <3>2. Still(s2, Push(s2, k, a))
      BY <1>5, <3>1, PushDrifts
    <3>. QED  BY <3>2 DEF Still
  <2>3. ASSUME kind = "rest"  PROVE Drift(s2, f)
    <3>1. f = IF arg > 0 THEN Push(s2, "rest", arg - 1) ELSE DoTheRest(s2)
      BY <2>3, PerformIs
    <3>2. arg \in Nat
      BY <1>2, <2>3, JobKinds
    <3>3. arg > 0 => <<"rest", arg - 1>> \in Job
      BY <3>2 DEF Job
    <3>4. Drift(s2, DoTheRest(s2))
      BY <1>5, <2>1, RestDrifts
    <3> HIDE DEF f
    <3>5. arg > 0 => Drift(s2, Push(s2, "rest", arg - 1))
      BY <2>2, <3>3 DEF ActKinds
    <3>. QED  BY Zenon, <3>1, <3>4, <3>5
  <2>4. ASSUME kind = "all"  PROVE Drift(s2, f)
    <3>1. f = AllReacts(s2, arg)
      BY <2>4, PerformIs
    <3>2. arg \in BOOLEAN
      BY <1>2, <2>4, JobKinds
    <3>3. Drift(s2, AllReacts(s2, arg))
      BY <1>5, <3>2, AllDrifts
    <3>. QED  BY Zenon, <3>1, <3>3
  <2>5. ASSUME kind = "then"  PROVE Drift(s2, f)
    <3>1. f = Push(s2, "finalize", arg)
      BY <2>5, PerformIs
    <3>2. <<"finalize", arg>> \in Job
      BY <1>2, <2>5, JobKinds DEF Job
    <3> HIDE DEF f
    <3>. QED  BY <2>2, <3>1, <3>2 DEF ActKinds
  <2>6. ASSUME kind = "finalize"  PROVE Drift(s2, f)
    <3>1. f = Finalize(s2, arg)
      BY <2>6, PerformIs
    <3>2. Drift(s2, Finalize(s2, arg))
      BY <1>5, <2>1, FinalizeDrifts
    <3>. QED  BY Zenon, <3>1, <3>2
  <2>7. Drift(s2, f)
    BY Zenon, <1>12, <2>3, <2>4, <2>5, <2>6 DEF ActKinds
  <2> HIDE DEF f
  <2>8. AwaitInv(f)
    BY <2>1, <2>7, DriftKeeps
  <2>. QED  BY <2>8 DEF f, s2
<1>13. \/ kind = "write" \/ kind \in {"sourceErrored", "sourceClosed", "destinationErrored"}
       \/ kind \in {"ready", "next"} \/ kind = "adoptRead" \/ kind = "adopt" \/ kind = "settle"
       \/ kind = "waited" \/ kind \in ActKinds
  BY <1>2, JobKinds DEF ActKinds
<1>. QED  BY Zenon, <1>4, <1>6, <1>7, <1>8, <1>9, <1>10, <1>11, <1>12, <1>13 DEF s2

\* pipeTo() locks both streams and looks at their states.
LEMMA LockedWaits ==
  ASSUME NEW n, NEW s, PipeInv(s, n), AwaitInv(s), s.p.phase = "idle", NEW prevent \in SUBSET Parts
  PROVE  AwaitInv(Locked(s, prevent))
<1> DEFINE f == Locked(s, prevent)
<1>1. /\ f.j = <<>> /\ f.calls = s.calls /\ f.w = W!GetWriter(s.w)
      /\ f.p.phase = "piping" /\ f.p.written = {}
  BY LockedIs
<1> HIDE DEF f
<1>2. f.w.state = s.w.state
  <2>1. DestinationInv(s.w)
    BY DEF PipeInv, Core
  <2>. QED  BY <1>1, <2>1, GetWriterKeeps DEF OnlyLock
<1>3. Len(f.j) = 0
  BY <1>1
<1>4. /\ \A c : ~Settles(f.j, c)
      /\ \A kind : ~Has(f.j, kind)
  BY <1>3 DEF Settles, Has
<1>5. OnceInv(f.w, f.p, f.j) /\ SentInv(f.calls, f.w, f.p, f.j)
  BY <1>1, <1>3, <1>4 DEF OnceInv, SentInv
<1>6. f.calls.aborted => f.w.state = "errored"
  BY <1>1, <1>2 DEF AwaitInv, WriteOnce
<1>7. OneWait(f) /\ ~Waiting(f)
  BY <1>1, <1>3 DEF OneWait, Waiting
<1>. QED  BY <1>1, <1>5, <1>6, <1>7 DEF AwaitInv, WriteOnce, WaitInv, f

LEMMA LookWaits ==
  ASSUME NEW n, NEW l, Core(l, n), NEW s, s = l \/ (Down(s, n) /\ s.p.loop = "off"), AwaitInv(s)
  PROVE  AwaitInv(SourceErrored(s)) /\ AwaitInv(DestinationErrored(s)) /\ AwaitInv(SourceClosed(s))
<1>1. Core(s, n)
  BY DEF Down
<1>. QED  BY Zenon, <1>1, ReasonWaits

LEMMA PipeToWaits ==
  ASSUME NEW n, NEW s, PipeInv(s, n), AwaitInv(s), s.p.phase = "idle", NEW prevent \in SUBSET Parts,
         NEW f,
         \/ f = Shutdown(Locked(s, prevent), "signal", TRUE)
         \/ f = PipeStep(Looks4(s, Locked(s, prevent)))
  PROVE  AwaitInv(f)
<1> DEFINE l == Locked(s, prevent)   s1 == Looks1(s, l)   s2 == Looks2(s, l)   s3 == Looks3(s, l)
           s4 == Looks4(s, l)
<1>1. /\ Core(l, n) /\ Balance(l, n) /\ ReadyWaits(l) /\ l.p.phase = "piping" /\ l.p.loop = "off"
      /\ Reached(l.calls, l.w) = 0 /\ (l.r.state = "closed" => n = 0)
      /\ l.r.state = s.r.state
  BY LockedKeeps
<1>2. AwaitInv(l)
  BY LockedWaits
<1>3. /\ s1 = IF s.r.state = "errored" THEN SourceErrored(l) ELSE l
      /\ s2 = IF s.w.state = "errored" THEN DestinationErrored(s1) ELSE s1
      /\ s3 = IF s.r.state = "closed" THEN SourceClosed(s2) ELSE s2
      /\ s4 = IF W!CloseQueuedOrInFlight(s.w) \/ s.w.state = "closed"
              THEN DestinationErrored(s3) ELSE s3
  BY Zenon DEF Looks1, Looks2, Looks3, Looks4
<1>4. Kept(s4, n) /\ s4.p.loop = "off"
  BY LooksKeep
<1>5. f = Shutdown(l, "signal", TRUE) \/ f = PipeStep(s4)
  BY Zenon
<1> HIDE DEF l, s1, s2, s3, s4
<1> DEFINE Ok(x) == (x = l \/ (Down(x, n) /\ x.p.loop = "off")) /\ AwaitInv(x)
<1>6. Ok(l)
  BY Zenon, <1>2
<1>7. \A x : Ok(x) => Ok(SourceErrored(x)) /\ Ok(DestinationErrored(x))
                      /\ (s.r.state = "closed" => Ok(SourceClosed(x)))
  <2> SUFFICES ASSUME NEW x, x = l \/ (Down(x, n) /\ x.p.loop = "off"), AwaitInv(x)
               PROVE  /\ Ok(SourceErrored(x)) /\ Ok(DestinationErrored(x))
                      /\ s.r.state = "closed" => Ok(SourceClosed(x))
    BY Zenon
  <2>1. AwaitInv(SourceErrored(x)) /\ AwaitInv(DestinationErrored(x)) /\ AwaitInv(SourceClosed(x))
    BY Zenon, <1>1, LookWaits
  <2>2. Down(SourceErrored(x), n) /\ SourceErrored(x).p.loop = "off"
    BY Zenon, <1>1, OneReason
  <2>3. Down(DestinationErrored(x), n) /\ DestinationErrored(x).p.loop = "off"
    BY Zenon, <1>1, OneReason
  <2>4. ASSUME s.r.state = "closed"
        PROVE  Down(SourceClosed(x), n) /\ SourceClosed(x).p.loop = "off"
    <3>1. l.r.state = "closed" /\ Reached(l.calls, l.w) = n
      BY <1>1, <2>4
    <3>. QED  BY Zenon, <1>1, <3>1, OneReason
  <2>. QED  BY Zenon, <2>1, <2>2, <2>3, <2>4
<1> HIDE DEF Ok
<1>8. Ok(s1)
  BY Zenon, <1>3, <1>6, <1>7
<1>9. Ok(s2)
  BY Zenon, <1>3, <1>7, <1>8
<1>10. Ok(s3)
  BY Zenon, <1>3, <1>7, <1>9
<1>11. Ok(s4)
  BY Zenon, <1>3, <1>7, <1>10
<1>12. CASE f = Shutdown(l, "signal", TRUE)
  <2>1. AwaitInv(Shutdown(l, "signal", TRUE))
    BY Zenon, <1>1, <1>2, ReasonWaits
  <2>. QED  BY Zenon, <1>12, <2>1
<1>13. CASE f = PipeStep(s4)
  <2>1. AwaitInv(s4)
    BY Zenon, <1>11 DEF Ok
  <2>2. s4 \in State /\ SourceInv(s4.r, s4.p)
    BY <1>4 DEF Kept, Core
  <2>3. s4.r.answers = <<>> /\ SourceShape(s4.r) /\ s4.r.requests = 0
    BY <1>4, <2>2 DEF SourceInv, State, R!Type
  <2>4. Calm(s4, PipeStep(s4))
    BY <2>2, <2>3, LoopCalms
  <2>5. AwaitInv(PipeStep(s4))
    BY <2>1, <2>4, CalmKeeps
  <2>. QED  BY Zenon, <1>13, <2>5
<1>. QED  BY Zenon, <1>5, <1>12, <1>13

LEMMA JobWaits ==
  ASSUME NEW n, NEW s, PipeInv(s, n), AwaitInv(s), s.j # <<>>
  PROVE  AwaitInv(Perform(Popped(s), Head(s.j)[1], Head(s.j)[2]))
<1> DEFINE kind == Head(s.j)[1]   arg == Head(s.j)[2]
<1>1. Kept(s, n)
  BY BegunIsKept DEF PipeInv, RestInv
<1>2. Head(s.j) \in Job
  BY <1>1, JobPopped DEF Kept, Core, State
<1>3. Head(s.j) = <<kind, arg>>
  BY <1>2 DEF Job
<1> HIDE DEF kind, arg
<1>4. AwaitInv(Perform(Popped(s), kind, arg))
  BY <1>1, <1>3, PerformWaits
<1>. QED  BY <1>4 DEF kind, arg

\* The destination moves, before the pipe or under it.
LEMMA SinkWaits ==
  ASSUME NEW n, NEW s, PipeInv(s, n), AwaitInv(s), NEW w, DestinationInv(w), Moves(s.w, w),
         \/ AsksNothing(s.w, w)
         \/ s.p.phase = "idle" /\ (s.w.state # "writable" => NoAbort(s.w, w))
  PROVE  AwaitInv(WithDestination(s, w))
<1> DEFINE f == WithDestination(s, w)
<1>1. Firm(s, n)
  BY CoreFirm DEF PipeInv
<1>2. Flows(s.w, w) /\ (s.w.state # "writable" => NoAbort(s.w, w))
  BY DEF Moves, AsksNothing, NoAbort
<1>3. Drift(s, f) /\ (AsksNothing(s.w, w) => Calm(s, f))
  BY <1>1, <1>2, MoveDrifts
<1>4. s.p.phase = "idle" => ~Waiting(s)
  BY DEF Waiting
<1> HIDE DEF f
<1>5. CASE AsksNothing(s.w, w)
  BY <1>3, <1>5, CalmKeeps DEF f
<1>6. CASE s.p.phase = "idle"
  BY <1>3, <1>4, <1>6, DriftKeeps DEF f
<1>. QED  BY <1>5, <1>6

-----------------------------------------------------------------------------
(* The wait, action by action.                                              *)

LEMMA AwaitBecomes ==
  ASSUME NEW s, Become(s), s \in State, AwaitInv(s)
  PROVE  AwaitInv(Now)'
<1>1. Now' = s
  BY DEF Become, Now, State
<1>2. AwaitInv(Now')
  BY <1>1
<1>. QED  BY <1>2

LEMMA SinkStepWaits ==
  ASSUME Inv, AwaitInv(Now), NEW w, SinkBecomes(w), DestinationInv(w), Moves(destination, w),
         \/ AsksNothing(destination, w)
         \/ pipe.phase = "idle" /\ (destination.state # "writable" => NoAbort(destination, w))
  PROVE  AwaitInv(Now)'
<1>1. PipeInv(Now, produced) /\ Now.w = destination /\ Now.p = pipe
  BY DEF Inv, Now
<1> DEFINE f == WithDestination(Now, w)
<1>2. Become(f)
  BY DEF SinkBecomes
<1>3. AsksNothing(destination, w) \/ pipe.phase = "idle"
  OBVIOUS
<1> HIDE DEF Now
<1>4. PipeInv(f, produced)
  BY <1>1, <1>3, SinkKeeps
<1>5. AwaitInv(f)
  BY <1>1, SinkWaits
<1> HIDE DEF f
<1>6. f \in State
  BY <1>4 DEF PipeInv, Core
<1>. QED  BY <1>2, <1>5, <1>6, AwaitBecomes

LEMMA SinkActionsWait ==
  ASSUME Inv, AwaitInv(Now), SinkSettles \/ SinkErrors \/ DestinationCloses \/ DestinationAborts
  PROVE  AwaitInv(Now)'
<1>1. DestinationInv(destination) /\ destination.settled = <<>>
  BY DEF Inv, PipeInv, Core, Now
<1> DEFINE Good2(w) == DestinationInv(w) /\ Moves(destination, w) /\ AsksNothing(destination, w)
<1>2. ASSUME NEW w, SinkBecomes(w), Good2(w)  PROVE AwaitInv(Now)'
  BY <1>2, SinkStepWaits
<1>3. ASSUME NEW settlement \in {"fulfilled", "rejected"}, SinkStarts(settlement)
      PROVE  \E w : SinkBecomes(w) /\ Good2(w)
  BY <1>1, <1>3, StartFulfilledKeeps, StartRejectedKeeps DEF SinkStarts
<1>4. ASSUME NEW settlement \in {"fulfilled", "rejected"}, SinkWriteSettles(settlement)
      PROVE  \E w : SinkBecomes(w) /\ Good2(w)
  BY <1>1, <1>4, WriteFulfilledKeeps, WriteRejectedKeeps DEF SinkWriteSettles
<1>5. ASSUME NEW settlement \in {"fulfilled", "rejected"}, SinkCloseSettles(settlement)
      PROVE  \E w : SinkBecomes(w) /\ Good2(w)
  BY <1>1, <1>5, CloseFulfilledKeeps, CloseRejectedKeeps DEF SinkCloseSettles
<1>6. ASSUME NEW settlement \in {"fulfilled", "rejected"}, SinkAbortSettles(settlement)
      PROVE  \E w : SinkBecomes(w) /\ Good2(w)
  BY <1>1, <1>6, AbortSettledKeeps DEF SinkAbortSettles
<1>7. ASSUME SinkErrors  PROVE \E w : SinkBecomes(w) /\ Good2(w)
  BY <1>1, <1>7, ErrorKeeps DEF SinkErrors
<1>8. CASE SinkSettles \/ SinkErrors
  <2> HIDE DEF Good2
  <2>. QED  BY <1>2, <1>3, <1>4, <1>5, <1>6, <1>7, <1>8 DEF SinkSettles
<1>9. CASE DestinationCloses
  BY <1>1, <1>9, SinkStepWaits, CloseKeeps DEF DestinationCloses, NoAbort
<1>10. CASE DestinationAborts
  BY <1>1, <1>10, SinkStepWaits, AbortKeeps DEF DestinationAborts
<1>. QED  BY <1>8, <1>9, <1>10

LEMMA SourceActionsWait ==
  ASSUME Inv, AwaitInv(Now), SourceSettles \/ SourceAnswers
  PROVE  AwaitInv(Now)'
<1>1. /\ Now \in State /\ Now.r = source
      /\ source \in R!Type /\ source.answers = <<>> /\ SourceShape(source)
  BY DEF Inv, PipeInv, Core, SourceInv, State, Now
<1>2. ASSUME NEW r \in R!Type, SourceBecomes(r)  PROVE AwaitInv(Now)'
  <2> DEFINE f == WithSource(Now, r)
  <2>1. Become(f)
    BY <1>2 DEF SourceBecomes
  <2> HIDE DEF Now
  <2>2. f \in State /\ Calm(Now, f)
    BY <1>1, SourceCalms
  <2> HIDE DEF f
  <2>3. AwaitInv(f)
    BY <2>2, CalmKeeps
  <2>. QED  BY <2>1, <2>2, <2>3, AwaitBecomes
<1>3. ASSUME SourceStarts \/ SourcePulled  PROVE \E r \in R!Type : SourceBecomes(r)
  BY <1>1, <1>3, PullKeeps DEF SourceStarts, SourcePulled
<1>4. ASSUME SourceEnqueues  PROVE \E r \in R!Type : SourceBecomes(r)
  <2> DEFINE c == Chunks[produced + 1]
  <2>1. /\ R!CanCloseOrEnqueue(source) /\ produced < Len(Chunks)
        /\ SourceBecomes(R!Enqueue(source, c))
    BY <1>4 DEF SourceEnqueues
  <2>2. c \in Chunk
    <3>1. produced \in 0..Len(Chunks) /\ Len(Chunks) \in Nat
      BY PipeAssumption, LenProperties DEF Inv, PipeInv, Core, OrderInv
    <3>2. Chunks \in Seq(Chunk) /\ produced + 1 \in 1..Len(Chunks)
      BY <2>1, <3>1, PipeAssumption
    <3>. QED  BY <3>2, ElementOfSeq
  <2> HIDE DEF c
  <2>3. R!Enqueue(source, c) \in R!Type
    BY <1>1, <2>1, <2>2, EnqueueKeeps
  <2>. QED  BY <2>1, <2>3
<1>5. ASSUME SourceCloses \/ SourceErrors  PROVE \E r \in R!Type : SourceBecomes(r)
  <2>1. source.state = "readable"
    BY <1>5 DEF SourceCloses, SourceErrors, R!CanCloseOrEnqueue
  <2>2. /\ R!CanCloseOrEnqueue(source) => R!Close(source) \in R!Type
        /\ R!Error(source) \in R!Type
    BY <1>1, <2>1, EndKeeps DEF Ended
  <2>. QED  BY <1>5, <2>2 DEF SourceCloses, SourceErrors
<1>6. ASSUME NEW settlement \in {"fulfilled", "rejected"}, SourceCancelSettles(settlement)
      PROVE  AwaitInv(Now)'
  <2> DEFINE t == Cancelled(Now)   f == PartSettles(t, "cancel", settlement)
  <2>1. Become(f)
    BY <1>6 DEF SourceCancelSettles, Cancelled
  <2> HIDE DEF Now
  <2>2. t \in State /\ t.p = Now.p /\ t.j = Now.j /\ t.w = Now.w /\ t.calls = Now.calls
    BY Zenon, <1>1 DEF State, Cancelled
  <2> HIDE DEF t
  <2>3. Calm(Now, t)
    BY <2>2, SameJobs DEF Lasts
  <2>4. f \in State /\ Calm(t, f)
    BY <2>2, PartCalms
  <2> HIDE DEF f
  <2>5. AwaitInv(f)
    BY <2>3, <2>4, CalmKeeps
  <2>. QED  BY <2>1, <2>4, <2>5, AwaitBecomes
<1>. QED  BY <1>2, <1>3, <1>4, <1>5, <1>6 DEF SourceSettles, SourceAnswers

LEMMA PipeActionsWait ==
  ASSUME Inv, AwaitInv(Now), RunJob \/ SignalAbort \/ \E prevent \in SUBSET Parts : PipeTo(prevent)
  PROVE  AwaitInv(Now)'
<1>1. PipeInv(Now, produced)
  BY DEF Inv
<1>2. CASE RunJob
  <2> DEFINE f == Perform(Popped(Now), Head(Now.j)[1], Head(Now.j)[2])
  <2>1. Now.j # <<>> /\ Become(f)
    BY <1>2 DEF RunJob, Popped, Now
  <2> HIDE DEF Now
  <2>2. PipeInv(f, produced)
    BY <1>1, <2>1, JobRun
  <2>3. AwaitInv(f)
    BY <1>1, <2>1, JobWaits
  <2> HIDE DEF f
  <2>4. f \in State
    BY <2>2 DEF PipeInv, Core
  <2>. QED  BY <2>1, <2>3, <2>4, AwaitBecomes
<1>3. CASE SignalAbort
  <2> DEFINE f == Shutdown(Now, "signal", TRUE)
  <2>1. Become(f)
    BY Zenon, <1>3 DEF SignalAbort
  <2> HIDE DEF Now
  <2>2. PipeInv(f, produced)
    BY Zenon, <1>1, SignalKeeps
  <2>3. Core(Now, produced)
    BY <1>1 DEF PipeInv
  <2>4. AwaitInv(f)
    BY Zenon, <2>3, ReasonWaits
  <2> HIDE DEF f
  <2>5. f \in State
    BY <2>2 DEF PipeInv, Core
  <2>. QED  BY <2>1, <2>4, <2>5, AwaitBecomes
<1>4. ASSUME NEW prevent \in SUBSET Parts, PipeTo(prevent)  PROVE AwaitInv(Now)'
  <2> DEFINE l == Locked(Now, prevent)
             f == IF aborted THEN Shutdown(l, "signal", TRUE) ELSE PipeStep(Looks4(Now, l))
  <2>0. pipe.phase = "idle"
    BY Zenon, <1>4 DEF PipeTo
  <2>1. Now.p.phase = "idle"
    BY <2>0 DEF Now
  <2>2. Become(f)
    BY Zenon, <1>4, PipeToIs
  <2>3. \/ f = Shutdown(Locked(Now, prevent), "signal", TRUE)
        \/ f = PipeStep(Looks4(Now, Locked(Now, prevent)))
    BY Zenon
  <2> HIDE DEF Now, f
  <2>4. PipeInv(f, produced)
    BY Zenon, <1>1, <2>1, <2>3, PipeToKeeps
  <2>5. AwaitInv(f)
    BY Zenon, <1>1, <2>1, <2>3, PipeToWaits
  <2>6. f \in State
    BY <2>4 DEF PipeInv, Core
  <2>. QED  BY <2>2, <2>5, <2>6, AwaitBecomes
<1>. QED  BY <1>2, <1>3, <1>4

LEMMA InitWaits ==
  ASSUME Init
  PROVE  AwaitInv(Now)
<1> DEFINE s == Now
<1>1. /\ s.j = <<>> /\ s.w = W!New /\ s.p = IdlePipe /\ ~s.calls.aborted
  BY DEF Init, Now
<1> HIDE DEF s
<1>2. Len(s.j) = 0 /\ s.p.phase = "idle" /\ s.p.written = {}
  BY <1>1 DEF IdlePipe
<1>3. (\A c : ~Settles(s.j, c)) /\ \A kind : ~Has(s.j, kind)
  BY <1>2 DEF Settles, Has
<1>4. WriteOnce(s)
  BY <1>1, <1>2, <1>3 DEF WriteOnce, OnceInv, SentInv
<1>5. OneWait(s) /\ ~Waiting(s)
  BY <1>2 DEF OneWait, Waiting
<1>. QED  BY <1>2, <1>4, <1>5 DEF AwaitInv, WaitInv, s

LEMMA NextWaits ==
  ASSUME Inv, AwaitInv(Now), [Next]_vars
  PROVE  AwaitInv(Now)'
<1>1. CASE UNCHANGED vars
  <2>1. Now' = Now
    BY <1>1 DEF vars, Now
  <2> HIDE DEF Now
  <2>2. AwaitInv(Now')
    BY <2>1
  <2>. QED  BY <2>2
<1>2. CASE RunJob \/ SignalAbort \/ \E prevent \in SUBSET Parts : PipeTo(prevent)
  BY <1>2, PipeActionsWait
<1>3. CASE SourceSettles \/ SourceAnswers
  BY <1>3, SourceActionsWait
<1>4. CASE SinkSettles \/ SinkErrors \/ DestinationCloses \/ DestinationAborts
  BY <1>4, SinkActionsWait
<1>. QED  BY <1>1, <1>2, <1>3, <1>4 DEF Next

\* When the pipe is done, what the wait was for has been handed over.
LEMMA HandedBefore ==
  ASSUME Inv, AwaitInv(Now)
  PROVE  AwaitedIsHanded
<1> SUFFICES ASSUME pipe.phase = "done", pipe.awaited # None,
                    W!Accepts(destination) \/ calls.aborted \/ calls.closed
             PROVE  Contains(Handed, pipe.awaited)
  BY DEF AwaitedIsHanded
<1> DEFINE q == W!WriteRequests(destination)   h == calls.chunks   c == pipe.awaited
<1>1. Now.p = pipe /\ Now.calls = calls /\ Now.w = destination
  BY DEF Now
<1>2. h \in Seq(Chunk) /\ q \in Seq(Chunk)
  <2> DEFINE q0 == W!QueuedChunks(destination)
  <2>1. h \in Seq(Chunk) /\ DestinationInv(destination)
    BY <1>1 DEF Inv, PipeInv, Core, State, CallsType
  <2>2. q0 \in Seq(Chunk) /\ (destination.inFlight = "write" => Len(q0) >= 1)
    BY <2>1, HeadOfQueue
  <2>3. q = IF destination.inFlight = "write" THEN Tail(q0) ELSE q0
    BY DEF W!WriteRequests
  <2> HIDE DEF q, q0
  <2>4. q0 # <<>> => Tail(q0) \in Seq(Chunk)
    BY <2>2
  <2>5. destination.inFlight = "write" => q0 # <<>>
    BY <2>2
  <2>. QED  BY <2>1, <2>2, <2>3, <2>4, <2>5
<1>3. Called(calls, c)
  <2>1. Good(Now)
    <3> HIDE DEF Now
    <3>. QED  BY <1>1 DEF AwaitInv, WaitInv, Waiting
  <2>2. ~Failed(destination, calls)
    BY DEF Failed, Pure, W!Accepts
  <2> HIDE DEF Now
  <2>. QED  BY <1>1, <2>1, <2>2 DEF Good
<1>4. PICK i \in 1..Len(h) : h[i] = c
  BY <1>3 DEF Called
<1> HIDE DEF q, h, c
<1>5. i \in 1..Len(h \o q) /\ (h \o q)[i] = c
  BY <1>2, <1>4, ConcatProperties
<1>6. Handed = h \o q
  BY DEF Handed, h, q
<1>. QED  BY <1>5, <1>6 DEF Contains, c

\* The locks are released, and the shutdown's action is taken, only after the
\* chunk that shutdown() found in flight was handed to the sink, unless the
\* destination failed; a pipe whose promise is fulfilled has lost no chunk.
THEOREM NothingIsLost == Spec => []NothingReadIsLost
<1>1. Init => Inv /\ AwaitInv(Now)
  BY InitKeeps, InitWaits
<1>2. Inv /\ AwaitInv(Now) /\ [Next]_vars => (Inv /\ AwaitInv(Now))'
  BY NextKeeps, NextWaits
<1>3. Inv /\ AwaitInv(Now) => AwaitedIsHanded
  BY HandedBefore
<1>4. AwaitedIsHanded /\ AllDelivered => NothingReadIsLost
  BY DEF NothingReadIsLost
<1>. QED  BY <1>1, <1>2, <1>3, <1>4, EndsWithAll, PTL DEF Spec

=============================================================================
