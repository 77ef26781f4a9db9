----------------------------- MODULE MessagePort -----------------------------
(***************************************************************************)
(* The two ends of a message channel while messages are posted and either  *)
(* end is transferred (browlet/communication/message-port.ts): received in *)
(* its own thread, or promoted to a native pipe and received in another,   *)
(* closed, or discarded with the message that carried it.                  *)
(*                                                                         *)
(* An end is a PortEndpoint: it outlives the MessagePortImpl objects that  *)
(* hold it, which are numbered.  The messages that carry ends, and the     *)
(* event loops, appear as the actions they allow.                          *)
(***************************************************************************)
EXTENDS Naturals, Sequences, FiniteSets, SequencesExt

CONSTANTS Thread, NoThread,
          MaxMessages,      \* bounds: messages posted to each end
          MaxMoves          \* bounds: transfers of each end

Ends == {"port1", "port2"}

ASSUME MessagePortAssumption == /\ NoThread \notin Thread
                                /\ MaxMessages \in [Ends -> Nat]
                                /\ MaxMoves \in [Ends -> Nat]

Peer(e) == IF e = "port1" THEN "port2" ELSE "port1"

VARIABLES
  place,       \* held by a port, in transit, in portable form, or discarded
  thread,      \* the thread that holds it or held it last
  port,        \* the number of its last port object
  started,     \* the last port object's #enabled
  closed,      \* its port was closed by its author and cannot be transferred
  shipped,     \* hasBeenShipped
  messages,    \* endpoint.messages, in order
  tasks,       \* the delivery tasks queued by the ports that held it
  remote,      \* the two ends refer to each other
  native,      \* endpoint.native, a handle of the native pipe
  pipe,        \* messages on their way in the native pipe, by receiver
  notices,     \* `owner' packets on their way there
  hangup,      \* the other handle of the pipe was closed
  remoteEnvId, \* the thread that holds the other end, as far as it is known
  posted, received     \* history: messages posted to an end, and received

object == <<place, thread, port, started, closed>>
queue == <<shipped, messages, tasks>>
link == <<remote, native, pipe, notices, hangup, remoteEnvId>>
history == <<posted, received>>
vars == <<object, queue, link, history>>

Tasks == [port: Nat, shipped: BOOLEAN, message: Nat]

TypeOK ==
  /\ place \in [Ends -> {"held", "transit", "portable", "discarded"}]
  /\ thread \in [Ends -> Thread]
  /\ port \in [Ends -> Nat]
  /\ started \in [Ends -> BOOLEAN]
  /\ closed \in [Ends -> BOOLEAN] /\ shipped \in [Ends -> BOOLEAN]
  /\ messages \in [Ends -> Seq(Nat)]
  /\ tasks \in [Ends -> Seq(Tasks)]
  /\ remote \in BOOLEAN /\ native \in [Ends -> BOOLEAN]
  /\ pipe \in [Ends -> Seq(Nat)]
  /\ notices \in [Ends -> Seq(Thread \cup {NoThread})]
  /\ hangup \in [Ends -> BOOLEAN]
  /\ remoteEnvId \in [Ends -> Thread \cup {NoThread}]
  /\ posted \in [Ends -> Nat]
  /\ received \in [Ends -> Seq(Nat)]

Every(x) == [e \in Ends |-> x]

\* A MessageChannel: two entangled ports of one thread.
Init ==
  /\ place = Every("held") /\ \E t \in Thread: thread = Every(t)
  /\ port = Every(0) /\ started = Every(FALSE)
  /\ closed = Every(FALSE) /\ shipped = Every(FALSE)
  /\ messages = Every(<<>>) /\ tasks = Every(<<>>)
  /\ remote = TRUE /\ native = Every(FALSE)
  /\ pipe = Every(<<>>) /\ notices = Every(<<>>) /\ hangup = Every(FALSE)
  /\ remoteEnvId = Every(NoThread)
  /\ posted = Every(0) /\ received = Every(<<>>)

-----------------------------------------------------------------------------
(* Delivery tasks.                                                          *)

\* #enqueue(): shipped ends have a task source of their own, the others of a
\* thread share one.
TaskFor(e, m) == [port |-> port[e], shipped |-> shipped[e], message |-> m]

\* Mutant: only later deliveries use the port's own source.
Unmoved(e) == tasks[e]

\* #ship(): pending deliveries move to the port's own source, in order.
Shipped(e) ==
  IF shipped[e] \/ place[e] # "held" THEN tasks[e]
  ELSE [i \in DOMAIN tasks[e] |-> [tasks[e][i] EXCEPT !.shipped = TRUE]]

\* The event loop takes the first task of some source.
IsFirst(e, i) ==
  \A j \in 1..(i - 1): \/ tasks[e][j].port # tasks[e][i].port
                       \/ tasks[e][j].shipped # tasks[e][i].shipped

\* A task of a former port, which may have been started, finds another
\* endpoint behind its port.
Deliver(e) == \E i \in DOMAIN tasks[e]:
  LET task == tasks[e][i]
  IN  /\ (task.port = port[e] => started[e]) /\ IsFirst(e, i)
      /\ tasks' = [tasks EXCEPT ![e] = RemoveAt(@, i)]
      /\ received' = [received EXCEPT ![e] = Append(@, task.message)]
      /\ IF place[e] = "held" /\ task.port = port[e]
         THEN \E k \in DOMAIN messages[e]:
                /\ messages[e][k] = task.message
                /\ messages' = [messages EXCEPT ![e] = RemoveAt(@, k)]
         ELSE UNCHANGED messages
      /\ UNCHANGED <<object, shipped, link, posted>>

Start(e) ==
  /\ place[e] = "held" /\ ~started[e]
  /\ started' = [started EXCEPT ![e] = TRUE]
  /\ UNCHANGED <<place, thread, port, closed, queue, link, history>>

-----------------------------------------------------------------------------
(* The native pipe.                                                         *)

\* Mutant: the other end is not told who holds this one.
Untold(e, t) == notices

\* `owner' packets; what is sent to a closed handle is dropped.
Notified(e, t) ==
  IF native[Peer(e)] THEN [notices EXCEPT ![Peer(e)] = Append(@, t)]
                     ELSE notices

\* #listen(): messages are read while a port holds the end.
Listening(e) == place[e] = "held" /\ native[e]

MessageArrives(e) ==
  /\ Listening(e) /\ pipe[e] # <<>>
  /\ pipe' = [pipe EXCEPT ![e] = Tail(@)]
  /\ messages' = [messages EXCEPT ![e] = Append(@, Head(pipe[e]))]
  /\ tasks' = [tasks EXCEPT ![e] = Append(@, TaskFor(e, Head(pipe[e])))]
  /\ UNCHANGED <<object, shipped, remote, native, notices, hangup,
                 remoteEnvId, history>>

OwnerArrives(e) ==
  /\ Listening(e) /\ notices[e] # <<>>
  /\ remoteEnvId' = [remoteEnvId EXCEPT ![e] = Head(notices[e])]
  /\ notices' = [notices EXCEPT ![e] = Tail(@)]
  /\ UNCHANGED <<object, queue, remote, native, pipe, hangup, history>>

\* onClose: the host tells it once, after what was sent before it; without a
\* listener nobody learns of it.
HangupArrives(e) ==
  /\ native[e] /\ hangup[e] /\ pipe[e] = <<>> /\ notices[e] = <<>>
  /\ hangup' = [hangup EXCEPT ![e] = FALSE]
  /\ IF place[e] = "held"
     THEN /\ native' = [native EXCEPT ![e] = FALSE]
          /\ remoteEnvId' = [remoteEnvId EXCEPT ![e] = NoThread]
     ELSE UNCHANGED <<native, remoteEnvId>>
  /\ UNCHANGED <<object, queue, remote, pipe, notices, history>>

-----------------------------------------------------------------------------
(* Posting.                                                                 *)

\* postMessage() with nothing of this channel in its transfer list.  A port
\* without a channel discards the message.
CanPost(e) ==
  /\ place[e] = "held" /\ posted[Peer(e)] < MaxMessages[Peer(e)]
  /\ posted' = [posted EXCEPT ![Peer(e)] = @ + 1]

PostToPipe(e) ==
  /\ CanPost(e) /\ native[e]
  /\ pipe' = IF native[Peer(e)]
             THEN [pipe EXCEPT ![Peer(e)] = Append(@, posted[Peer(e)] + 1)]
             ELSE pipe
  /\ UNCHANGED <<object, queue, remote, native, notices, hangup, remoteEnvId,
                 received>>

PostLocally(e) ==
  /\ CanPost(e) /\ remote
  /\ messages' = [messages EXCEPT ![Peer(e)] = Append(@, posted[Peer(e)] + 1)]
  /\ tasks' = IF place[Peer(e)] # "held" THEN tasks
              ELSE [tasks EXCEPT ![Peer(e)] =
                      Append(@, TaskFor(Peer(e), posted[Peer(e)] + 1))]
  /\ UNCHANGED <<object, shipped, link, received>>

-----------------------------------------------------------------------------
(* Transfer.                                                                *)

\* Mutant: the deliveries of the former port go on.
Kept(e) == [tasks EXCEPT ![Peer(e)] = IF remote THEN Shipped(Peer(e)) ELSE @]

\* The deliveries queued by others than the port.
OfOthers(e) == LET Other(t) == t.port # port[e]
               IN  IF \E i \in DOMAIN tasks[e]: Other(tasks[e][i])
                   THEN SelectSeq(tasks[e], Other) ELSE <<>>

\* transferSteps(): the port gives its end away.  Its deliveries are cancelled
\* and wait for the next port; the other end goes on with a source of its own.
Given(e) == [tasks EXCEPT ![e] = OfOthers(e),
                          ![Peer(e)] = IF remote THEN Shipped(Peer(e)) ELSE @]
ShippedWith(e) == [shipped EXCEPT ![e] = TRUE, ![Peer(e)] = @ \/ remote]

CanTransfer(e) == place[e] = "held" /\ ~closed[e] /\ port[e] < MaxMoves[e]

Transfer(e) ==
  /\ CanTransfer(e)
  /\ place' = [place EXCEPT ![e] = "transit"]
  /\ tasks' = Given(e) /\ shipped' = ShippedWith(e)
  /\ notices' = IF native[e] THEN Notified(e, NoThread) ELSE notices
  /\ UNCHANGED <<thread, port, started, closed, messages, remote, native,
                 pipe, hangup, remoteEnvId, history>>

\* #prepareEndpoint(): the message that carries the end leaves the thread, and
\* so does a local channel become a native pipe.  The other end listens to it.
Prepare(e) ==
  /\ place[e] = "transit" /\ place' = [place EXCEPT ![e] = "portable"]
  /\ remote' = FALSE
  /\ IF remote
     THEN LET owner == IF place[Peer(e)] = "held" THEN thread[Peer(e)]
                                               ELSE NoThread
          IN  /\ native' = Every(TRUE)
              /\ remoteEnvId' = [remoteEnvId EXCEPT ![e] = owner,
                                                    ![Peer(e)] = NoThread]
              /\ notices' = IF place[Peer(e)] = "held"
                            THEN [notices EXCEPT ![e] = Append(@, owner)]
                            ELSE notices
     ELSE UNCHANGED <<native, notices, remoteEnvId>>
  /\ UNCHANGED <<thread, port, started, closed, queue, pipe, hangup, history>>

\* Mutant: messages that waited for a port get no task.
Forgotten(e) == tasks[e]

Requeued(e) ==
  tasks[e] \o [i \in DOMAIN messages[e] |->
                 [port |-> port[e] + 1, shipped |-> TRUE,
                  message |-> messages[e][i]]]

\* transferReceivingSteps(): a new port, not started, gets the end and first
\* of all its pending messages.
Receive(e, t) ==
  /\ \/ place[e] = "transit" /\ t = thread[e]
     \/ place[e] = "portable"
  /\ place' = [place EXCEPT ![e] = "held"]
  /\ thread' = [thread EXCEPT ![e] = t]
  /\ port' = [port EXCEPT ![e] = @ + 1]
  /\ started' = [started EXCEPT ![e] = FALSE]
  /\ tasks' = [tasks EXCEPT ![e] = Requeued(e)]
  /\ notices' = IF native[e] THEN Notified(e, t) ELSE notices
  /\ UNCHANGED <<closed, shipped, messages, remote, native, pipe, hangup,
                 remoteEnvId, history>>

-----------------------------------------------------------------------------
(* The end of a channel.                                                    *)

\* #disentangle(): queued messages stay, those in the pipe are lost.
Disentangle(e) ==
  /\ remote' = FALSE
  /\ native' = [native EXCEPT ![e] = FALSE]
  /\ pipe' = [pipe EXCEPT ![e] = <<>>]
  /\ hangup' = [hangup EXCEPT ![e] = FALSE,
                              ![Peer(e)] = @ \/ (native[e] /\ native[Peer(e)])]
  /\ remoteEnvId' = [remoteEnvId EXCEPT ![e] = NoThread]

Close(e) ==
  /\ place[e] = "held" /\ ~closed[e]
  /\ closed' = [closed EXCEPT ![e] = TRUE]
  /\ Disentangle(e) /\ notices' = [notices EXCEPT ![e] = <<>>]
  /\ UNCHANGED <<place, thread, port, started, queue, history>>

\* #discardMessage(): the message that carries the end is dropped or cannot be
\* deserialized.
Discard(e) ==
  /\ place[e] \in {"transit", "portable"}
  /\ place' = [place EXCEPT ![e] = "discarded"]
  /\ messages' = [messages EXCEPT ![e] = <<>>]
  /\ Disentangle(e) /\ notices' = [notices EXCEPT ![e] = <<>>]
  /\ UNCHANGED <<thread, port, started, closed, shipped, tasks, history>>

\* postMessage() with the other end in its transfer list: it is transferred
\* and discarded at once.
PostDoomed(e) ==
  /\ place[e] = "held" /\ (remote \/ native[e])
  /\ CanTransfer(Peer(e)) /\ thread[Peer(e)] = thread[e]
  /\ place' = [place EXCEPT ![Peer(e)] = "discarded"]
  /\ messages' = [messages EXCEPT ![Peer(e)] = <<>>]
  /\ tasks' = Given(Peer(e)) /\ shipped' = ShippedWith(Peer(e))
  /\ Disentangle(Peer(e))
  /\ notices' = [notices EXCEPT
                   ![Peer(e)] = <<>>,
                   ![e] = IF native[Peer(e)] THEN Append(@, NoThread) ELSE @]
  /\ UNCHANGED <<thread, port, started, closed, history>>

-----------------------------------------------------------------------------
Deliveries(e) == \/ Deliver(e) \/ MessageArrives(e)
                 \/ OwnerArrives(e) \/ HangupArrives(e)
Receipt(e) == \E t \in Thread: Receive(e, t)

Next == \E e \in Ends:
  \/ Start(e) \/ Deliveries(e) \/ Receipt(e)
  \/ PostToPipe(e) \/ PostLocally(e) \/ PostDoomed(e)
  \/ Transfer(e) \/ Prepare(e) \/ Close(e) \/ Discard(e)

Spec == Init /\ [][Next]_vars

\* The event loops and the pipe deliver, and what carries an end arrives.
FairSpec == Spec /\ \A e \in Ends: WF_vars(Deliveries(e)) /\ WF_vars(Receipt(e))

-----------------------------------------------------------------------------
(* Properties.                                                              *)

C == INSTANCE Channel

\* Whatever is transferred, promoted, closed or discarded on the way, an end
\* receives the messages posted to it once and in order.
Reliable == C!Spec

\* Exactly the port that holds an end has its delivery tasks, one for each
\* pending message, in order and in one task source: nothing is delivered to
\* a port that gave its end away, not even by a task queued before.
TasksOfHolder == \A e \in Ends:
  tasks[e] = IF place[e] = "held"
             THEN [i \in DOMAIN messages[e] |-> TaskFor(e, messages[e][i])]
             ELSE <<>>

\* After the packets on their way, each end of a native channel knows which
\* thread holds the other end, or that it is in transit: the lifetime of a
\* worker depends on it (isEntangledOutsideGlobal).
OwnersKnown == \A e \in Ends:
  native[e] /\ native[Peer(e)] =>
    (IF notices[e] = <<>> THEN remoteEnvId[e] ELSE Last(notices[e]))
      = IF place[Peer(e)] = "held" THEN thread[Peer(e)] ELSE NoThread

Broken == closed # Every(FALSE) \/ \E e \in Ends: place[e] = "discarded"

\* A posted message is received, unless the channel ends or the port that
\* holds it is never started.
EveryMessageArrives == \A e \in Ends: \A m \in 1..MaxMessages[e]:
  posted[e] >= m ~> \/ Len(received[e]) >= m
                    \/ Broken
                    \/ place[e] = "held" /\ ~started[e]
=============================================================================
