------------------------- MODULE ParallelQueueProofs ------------------------
(***************************************************************************)
(* The parallel queue keeps exactly one wake-up for waiting steps, and     *)
(* implements a serial executor, for every set of steps and every pattern  *)
(* of errors and refusals.                                                 *)
(***************************************************************************)
EXTENDS ParallelQueue, SequenceTheorems, TLAPS

Waiting == SubSeq(algorithmQueue, algorithmIndex + 1, Len(algorithmQueue))

IInv ==
  /\ TypeOK /\ OneWakeup /\ NoLostDrain
  /\ executing # None => draining

LEMMA InitInv == Init => IInv
<1>1. <<>> \in Seq(Steps) /\ Len(<<>>) = 0
  OBVIOUS
<1> SUFFICES ASSUME Init PROVE IInv
  OBVIOUS
<1>2. /\ algorithmQueue \in Seq(Steps) /\ Len(algorithmQueue) = 0
      /\ algorithmIndex = 0 /\ callbacks = 0 /\ executing = None
      /\ draining = FALSE /\ drainScheduled = FALSE /\ refused = FALSE
  BY <1>1 DEF Init
<1>3. algorithmIndex \in 0..Len(algorithmQueue) /\ ~(algorithmIndex < Len(algorithmQueue))
  BY <1>2
<1>. QED  BY <1>2, <1>3 DEF IInv, TypeOK, OneWakeup, NoLostDrain

\* A request leaves one wake-up for the steps behind the index.
LEMMA RequestFacts ==
  ASSUME NEW queue, NEW index \in Nat, NEW busy \in BOOLEAN, NEW scheduled \in BOOLEAN,
         Len(queue) \in Nat, callbacks \in Nat, refused \in BOOLEAN,
         callbacks = IF scheduled THEN 1 ELSE 0, scheduled => ~busy,
         RequestDrain(queue, index, busy, scheduled)
  PROVE  /\ drainScheduled' \in BOOLEAN /\ callbacks' \in Nat /\ refused' \in BOOLEAN
         /\ callbacks' = IF drainScheduled' THEN 1 ELSE 0
         /\ drainScheduled' => ~busy
         /\ ~busy /\ index < Len(queue) => drainScheduled' \/ refused'
<1> DEFINE n == Len(queue)
<1>1. /\ n \in Nat
      /\ IF index >= n \/ busy \/ scheduled
         THEN drainScheduled' = scheduled /\ callbacks' = callbacks /\ refused' = refused
         ELSE \/ drainScheduled' = TRUE /\ callbacks' = callbacks + 1 /\ refused' = FALSE
              \/ drainScheduled' = FALSE /\ callbacks' = callbacks /\ refused' = TRUE
  BY DEF RequestDrain
<1> HIDE DEF n
<1>2. refused' \in BOOLEAN /\ drainScheduled' \in BOOLEAN
  BY <1>1, Zenon
<1>3. CASE index >= n \/ busy \/ scheduled
  <2>1. index < n /\ ~busy => scheduled
    BY <1>1, <1>3
  <2>. QED  BY <1>1, <1>2, <1>3, <2>1 DEF n
<1>4. CASE ~(index >= n \/ busy \/ scheduled)
  <2>1. ~busy /\ callbacks = 0
    BY <1>4
  <2>2. CASE drainScheduled' = TRUE /\ callbacks' = callbacks + 1
    BY <1>2, <2>1, <2>2
  <2>3. CASE drainScheduled' = FALSE /\ callbacks' = callbacks /\ refused' = TRUE
    BY <1>2, <2>1, <2>3
  <2>. QED  BY <1>1, <1>4, <2>2, <2>3
<1>. QED  BY <1>3, <1>4

LEMMA StepInv == IInv /\ [Next]_vars => IInv'
<1> SUFFICES ASSUME IInv, [Next]_vars PROVE IInv'
  OBVIOUS
<1> USE DEF IInv, TypeOK, OneWakeup, NoLostDrain
<1>0. Len(algorithmQueue) \in Nat
  BY LenProperties
<1>1. ASSUME NEW s \in Steps, Enqueue(s) PROVE IInv'
  <2>1. /\ algorithmQueue' \in Seq(Steps) /\ Len(algorithmQueue') = Len(algorithmQueue) + 1
        /\ UNCHANGED <<algorithmIndex, draining, executing>>
        /\ RequestDrain(algorithmQueue', algorithmIndex, draining, drainScheduled)
    BY <1>1, AppendProperties DEF Enqueue
  <2>2. algorithmIndex' \in 0..Len(algorithmQueue')
    BY <1>0, <2>1
  <2>3. /\ drainScheduled' \in BOOLEAN /\ callbacks' \in Nat /\ refused' \in BOOLEAN
        /\ callbacks' = IF drainScheduled' THEN 1 ELSE 0
        /\ drainScheduled' => ~draining
        /\ ~draining /\ algorithmIndex < Len(algorithmQueue') => drainScheduled' \/ refused'
    BY <1>0, <2>1, RequestFacts
  <2>. QED  BY <2>1, <2>2, <2>3
<1>2. ASSUME BeginDrain PROVE IInv'
  <2>1. /\ callbacks > 0 /\ callbacks' = callbacks - 1 /\ drainScheduled' = FALSE /\ draining' = TRUE
        /\ algorithmQueue' = algorithmQueue /\ algorithmIndex' = algorithmIndex
        /\ executing' = executing /\ refused' = refused
    BY <1>2 DEF BeginDrain
  <2>2. callbacks' = 0
    <3>1. callbacks = 0 \/ callbacks = 1
      BY DEF OneWakeup
    <3>. QED  BY <2>1, <3>1
  <2>3. TypeOK'
    <3> HIDE DEF OneWakeup, NoLostDrain
    <3>1. algorithmIndex' \in 0..Len(algorithmQueue')
      BY <2>1, Zenon
    <3>2. callbacks' \in Nat
      BY <2>2
    <3>. QED  BY <2>1, <3>1, <3>2, Zenon
  <2>4. OneWakeup' /\ NoLostDrain'
    BY <2>1, <2>2
  <2>. QED  BY <2>1, <2>3, <2>4
<1>3. ASSUME TakeSteps PROVE IInv'
  <2>1. algorithmIndex + 1 \in 1..Len(algorithmQueue)
    BY <1>0, <1>3 DEF TakeSteps
  <2>2. algorithmQueue[algorithmIndex + 1] \in Steps
    BY <2>1, ElementOfSeq
  <2>3. algorithmIndex' \in 0..Len(algorithmQueue')
    BY <1>0, <1>3, <2>1 DEF TakeSteps
  <2>4. /\ executing' \in Steps /\ draining /\ draining' = draining
        /\ UNCHANGED <<algorithmQueue, drainScheduled, callbacks, refused>>
    BY <1>3, <2>2 DEF TakeSteps, requestVars
  <2>. QED  BY <2>3, <2>4
<1>4. ASSUME StepsReturn PROVE IInv'
  BY <1>4 DEF StepsReturn, requestVars
<1>5. ASSUME StepsThrow PROVE IInv'
  <2>1. /\ drainScheduled' \in BOOLEAN /\ callbacks' \in Nat /\ refused' \in BOOLEAN
        /\ callbacks' = IF drainScheduled' THEN 1 ELSE 0
        /\ algorithmIndex < Len(algorithmQueue) => drainScheduled' \/ refused'
    <3>1. RequestDrain(algorithmQueue, algorithmIndex, FALSE, drainScheduled)
      BY <1>5 DEF StepsThrow
    <3>2. algorithmIndex \in Nat
      BY <1>0
    <3>. QED  BY <1>0, <3>1, <3>2, RequestFacts
  <2>. QED  BY <1>5, <2>1 DEF StepsThrow
<1>6. ASSUME EndDrain PROVE IInv'
  <2>1. Len(<<>>) = 0 /\ <<>> \in Seq(Steps)
    OBVIOUS
  <2>2. drainScheduled' = drainScheduled /\ callbacks' = callbacks /\ refused' = refused
    BY <1>6, <2>1 DEF EndDrain, RequestDrain
  <2>3. /\ algorithmQueue' = <<>> /\ algorithmIndex' = 0 /\ draining' = FALSE
        /\ executing' = executing /\ executing = None
    BY <1>6 DEF EndDrain
  <2>4. /\ algorithmQueue' \in Seq(Steps) /\ algorithmIndex' \in 0..Len(algorithmQueue')
        /\ ~(algorithmIndex' < Len(algorithmQueue'))
    BY <2>1, <2>3
  <2>5. drainScheduled => FALSE
    BY <1>6 DEF EndDrain
  <2>. QED  BY <2>2, <2>3, <2>4, <2>5
<1>7. ASSUME UNCHANGED vars PROVE IInv'
  BY <1>7 DEF vars, requestVars
<1> HIDE DEF IInv, TypeOK, OneWakeup, NoLostDrain
<1>. QED  BY <1>1, <1>2, <1>3, <1>4, <1>5, <1>6, <1>7 DEF Next, Drain

\* The inductive invariant of the queue: its types, its one wake-up, and that
\* steps execute only inside a drain.
THEOREM Invariance == Spec => []IInv
BY InitInv, StepInv, PTL DEF Spec

\* The types of the queue's state: the index stays within the array.
THEOREM TypeCorrect == Spec => []TypeOK
<1>1. IInv => TypeOK
  BY DEF IInv
<1>. QED  BY <1>1, Invariance, PTL

\* At most one drain is pending, and none during a drain, whatever throws; and waiting
\* steps always have one coming, unless the host refused the last one.
THEOREM WakesWhenNeeded == Spec => []DrainWhenNeeded
<1>1. IInv => DrainWhenNeeded
  BY DEF IInv, DrainWhenNeeded
<1>. QED  BY <1>1, Invariance, PTL
-----------------------------------------------------------------------------
(* The refinement *)

LEMMA WaitingAppend ==
  ASSUME NEW q \in Seq(Steps), NEW i \in 0..Len(q), NEW s \in Steps
  PROVE  SubSeq(Append(q, s), i + 1, Len(Append(q, s))) = Append(SubSeq(q, i + 1, Len(q)), s)
<1> DEFINE n == Len(q)
           a == SubSeq(Append(q, s), i + 1, n + 1)
           b == SubSeq(q, i + 1, n)
<1>1. /\ n \in Nat /\ Append(q, s) \in Seq(Steps) /\ Len(Append(q, s)) = n + 1
      /\ \A k \in 1..n : Append(q, s)[k] = q[k]
      /\ Append(q, s)[n + 1] = s
  BY AppendProperties, LenProperties
<1>2. \A k \in 1..n : q[k] \in Steps
  BY ElementOfSeq
<1>3. b \in Seq(Steps) /\ Len(b) = n - i /\ \A k \in 1..(n - i) : b[k] = q[i + k]
  BY <1>1, <1>2, SubSeqProperties
<1>4. a \in Seq(Steps) /\ Len(a) = n - i + 1 /\ \A k \in 1..(n - i + 1) : a[k] = Append(q, s)[i + k]
  BY <1>1, <1>2, SubSeqProperties
<1>5. Append(b, s) \in Seq(Steps) /\ Len(Append(b, s)) = n - i + 1
      /\ (\A k \in 1..(n - i) : Append(b, s)[k] = b[k]) /\ Append(b, s)[n - i + 1] = s
  BY <1>3, AppendProperties
<1>6. \A k \in 1..(n - i + 1) : a[k] = Append(b, s)[k]
  <2>1. i \in Nat /\ i <= n
    BY <1>1
  <2> HIDE DEF n, a, b
  <2> TAKE k \in 1..(n - i + 1)
  <2>2. CASE k = n - i + 1
    BY <1>1, <1>4, <1>5, <2>1, <2>2
  <2>3. CASE k \in 1..(n - i)
    BY <1>1, <1>3, <1>4, <1>5, <2>1, <2>3
  <2>4. k = n - i + 1 \/ k \in 1..(n - i)
    BY <1>1, <2>1
  <2>. QED  BY <2>2, <2>3, <2>4
<1>. QED
  <2>1. SubSeq(Append(q, s), i + 1, Len(Append(q, s))) = a
    BY <1>1
  <2> HIDE DEF n, a
  <2>2. a = Append(b, s)
    BY <1>4, <1>5, <1>6, SeqEqual
  <2>. QED  BY <2>1, <2>2 DEF n

LEMMA WaitingTake ==
  ASSUME NEW q \in Seq(Steps), NEW i \in Nat, i < Len(q)
  PROVE  /\ SubSeq(q, i + 1, Len(q)) # <<>>
         /\ Head(SubSeq(q, i + 1, Len(q))) = q[i + 1]
         /\ Tail(SubSeq(q, i + 1, Len(q))) = SubSeq(q, i + 2, Len(q))
<1> DEFINE n == Len(q)
           b == SubSeq(q, i + 1, n)
           c == SubSeq(q, i + 2, n)
<1>1. n \in Nat /\ i < n /\ \A k \in 1..n : q[k] \in Steps
  BY LenProperties, ElementOfSeq
<1>2. b \in Seq(Steps) /\ Len(b) = n - i /\ \A k \in 1..(n - i) : b[k] = q[i + k]
  BY <1>1, SubSeqProperties
<1>3. c \in Seq(Steps) /\ Len(c) = n - i - 1 /\ \A k \in 1..(n - i - 1) : c[k] = q[i + 1 + k]
  BY <1>1, SubSeqProperties
<1> HIDE DEF n, b, c
<1>4. b # <<>> /\ Head(b) = q[i + 1]
  BY <1>1, <1>2, HeadTailProperties, EmptySeq
<1>5. Tail(b) \in Seq(Steps) /\ Len(Tail(b)) = n - i - 1 /\ \A k \in 1..(n - i - 1) : Tail(b)[k] = b[k + 1]
  BY <1>1, <1>2, <1>4, HeadTailProperties
<1>6. \A k \in 1..(n - i - 1) : Tail(b)[k] = c[k]
  BY <1>1, <1>2, <1>3, <1>5
<1>7. Tail(b) = c
  BY <1>3, <1>5, <1>6, SeqEqual
<1>. QED  BY <1>4, <1>7 DEF n, b, c

LEMMA WaitingNone == ASSUME NEW q \in Seq(Steps) PROVE SubSeq(q, Len(q) + 1, Len(q)) = <<>>
<1>1. Len(q) \in Nat
  BY LenProperties
<1>. QED  BY <1>1, SubSeqEmpty

LEMMA InitRefines == Init => Executor!Init
BY DEF Init, Executor!Init

LEMMA StepRefines == IInv /\ [Next]_vars => [Executor!Next]_(Executor!vars)
<1> SUFFICES ASSUME IInv, [Next]_vars PROVE Executor!Next \/ UNCHANGED Executor!vars
  OBVIOUS
<1> DEFINE n == Len(algorithmQueue)
<1>0. /\ algorithmQueue \in Seq(Steps) /\ n \in Nat /\ algorithmIndex \in 0..n
      /\ executing # None => draining
      /\ None \notin Steps
  BY ParallelQueueAssumption, LenProperties DEF IInv, TypeOK
<1> USE DEF Executor!vars
<1>1. ASSUME NEW s \in Steps, Enqueue(s) PROVE Executor!Next
  <2>1. algorithmQueue' = Append(algorithmQueue, s) /\ UNCHANGED <<algorithmIndex, executing>>
    BY <1>1 DEF Enqueue
  <2>2. Executor!Submit(s)
    BY <1>0, <2>1, WaitingAppend DEF Executor!Submit
  <2>. QED  BY <2>2 DEF Executor!Next
<1>2. ASSUME BeginDrain PROVE UNCHANGED Executor!vars
  BY <1>2 DEF BeginDrain
<1>3. ASSUME TakeSteps PROVE Executor!Next
  <2>1. /\ executing = None /\ executing' = algorithmQueue[algorithmIndex + 1]
        /\ algorithmIndex \in Nat /\ algorithmIndex < Len(algorithmQueue)
        /\ algorithmIndex' = algorithmIndex + 1 /\ algorithmQueue' = algorithmQueue
    BY <1>0, <1>3 DEF TakeSteps
  <2>2. algorithmIndex' + 1 = algorithmIndex + 2
    BY <2>1
  <2>3. Executor!Start
    BY <1>0, <2>1, <2>2, WaitingTake DEF Executor!Start
  <2>. QED  BY <2>3 DEF Executor!Next
<1>4. ASSUME StepsReturn \/ StepsThrow PROVE Executor!Next
  <2>1. Executor!Finish
    BY <1>4 DEF StepsReturn, StepsThrow, Executor!Finish
  <2>. QED  BY <2>1 DEF Executor!Next
<1>5. ASSUME EndDrain PROVE UNCHANGED Executor!vars
  <2>1. /\ algorithmIndex = Len(algorithmQueue) /\ algorithmQueue' = <<>> /\ algorithmIndex' = 0
        /\ executing' = executing
    BY <1>0, <1>5 DEF EndDrain
  <2>2. Waiting = <<>>
    BY <1>0, <2>1, WaitingNone DEF Waiting
  <2>3. Waiting' = <<>>
    BY <2>1 DEF Waiting
  <2>. QED  BY <2>1, <2>2, <2>3 DEF Waiting
<1>6. ASSUME UNCHANGED vars PROVE UNCHANGED Executor!vars
  BY <1>6 DEF vars
<1>. QED  BY <1>1, <1>2, <1>3, <1>4, <1>5, <1>6 DEF Next, Drain

\* Every behaviour of the queue is one of a serial executor: steps are neither lost,
\* repeated, reordered nor overlapped, whatever they throw and whatever the host refuses.
THEOREM Refines == Spec => SerialInOrder
BY InitRefines, StepRefines, Invariance, PTL DEF Spec, SerialInOrder, Executor!SafeSpec
=============================================================================
