------------------------ MODULE TraversalQueueProofs ------------------------
(***************************************************************************)
(* The traversal queue keeps one wake-up, tells its own steps from         *)
(* suspended ones, and serializes, for every set of steps and navigables   *)
(* and every pattern of suspensions, errors and refusals.                  *)
(***************************************************************************)
EXTENDS TraversalQueue, SequenceTheorems, TLAPS

E(kind, before) == [kind |-> kind, before |-> before]

\* The stacks of synchronous entries: in a drain, or in a continuation at rest.
Draining == Append(<<>>, E("drain", FALSE))
InSteps == Append(Draining, E("steps", FALSE))
JumpInSteps == Append(InSteps, E("jump", TRUE))
NestedInSteps == Append(JumpInSteps, E("nested", TRUE))
JumpAtRest == Append(<<>>, E("jump", FALSE))
NestedAtRest == Append(JumpAtRest, E("nested", TRUE))
Resumed == Append(<<>>, E("resume", FALSE))
NestedResumed == Append(Resumed, E("nested", FALSE))

\* Which stack goes with which occupation of the queue.
Shape ==
  \/ /\ entries = <<>> /\ executing = FALSE
     /\ running = (occupant # None) /\ (jumping => jumper # None)
  \/ /\ entries = Draining /\ executing = FALSE
     /\ running = TRUE /\ occupant = None /\ jumping = FALSE
  \/ /\ entries = InSteps /\ executing = TRUE
     /\ running = TRUE /\ occupant # None /\ (jumping => jumper # None)
  \/ /\ entries \in {JumpInSteps, JumpAtRest} /\ executing = TRUE
     /\ running = TRUE /\ occupant # None /\ jumping = TRUE /\ jumper = None
  \/ /\ entries = Resumed /\ executing = FALSE
     /\ running = TRUE /\ occupant # None /\ jumping = TRUE /\ jumper = None
  \/ /\ entries \in {NestedInSteps, NestedAtRest, NestedResumed} /\ executing = TRUE
     /\ running = TRUE /\ occupant # None /\ jumping = TRUE /\ jumper # None

IInv == TypeOK /\ OneWakeup /\ NoLostDrain /\ JumpsAreGuarded /\ Shape

LEMMA AppendPop ==
  ASSUME NEW S, NEW s \in Seq(S), NEW x \in S
  PROVE  /\ Append(s, x) \in Seq(S) /\ Append(s, x) # <<>>
         /\ Front(Append(s, x)) = s /\ Last(Append(s, x)) = x
<1> DEFINE a == Append(s, x)
<1>1. /\ a \in Seq(S) /\ a # <<>> /\ Len(a) = Len(s) + 1 /\ Len(s) \in Nat
      /\ \A i \in 1..Len(s) : a[i] = s[i]
      /\ a[Len(s) + 1] = x
  BY AppendProperties, LenProperties
<1> HIDE DEF a
<1>2. /\ Front(a) \in Seq(S) /\ Len(Front(a)) = Len(s)
      /\ \A i \in 1..Len(s) : Front(a)[i] = s[i]
  <2>1. Front(a) = SubSeq(a, 1, Len(s))
    BY <1>1 DEF Front
  <2>2. \A i \in 1..Len(s) : a[i] \in S
    BY <1>1, ElementOfSeq
  <2>3. /\ SubSeq(a, 1, Len(s)) \in Seq(S)
        /\ Len(SubSeq(a, 1, Len(s))) = IF 1 <= Len(s) THEN Len(s) - 1 + 1 ELSE 0
        /\ \A i \in 1..(Len(s) - 1 + 1) : SubSeq(a, 1, Len(s))[i] = a[1 + i - 1]
    BY <1>1, <2>2, SubSeqProperties
  <2>. QED  BY <1>1, <2>1, <2>3
<1>3. Front(a) = s
  BY <1>2, SeqEqual
<1>4. Last(a) = x
  BY <1>1 DEF Last
<1>. QED  BY <1>1, <1>3, <1>4 DEF a

LEMMA Stacks ==
  /\ <<>> \in Seq(Entry)
  /\ Draining \in Seq(Entry) /\ Draining # <<>>
  /\ Front(Draining) = <<>> /\ Last(Draining) = E("drain", FALSE)
  /\ InSteps \in Seq(Entry) /\ InSteps # <<>>
  /\ Front(InSteps) = Draining /\ Last(InSteps) = E("steps", FALSE)
  /\ JumpInSteps \in Seq(Entry) /\ JumpInSteps # <<>>
  /\ Front(JumpInSteps) = InSteps /\ Last(JumpInSteps) = E("jump", TRUE)
  /\ NestedInSteps \in Seq(Entry) /\ NestedInSteps # <<>>
  /\ Front(NestedInSteps) = JumpInSteps /\ Last(NestedInSteps) = E("nested", TRUE)
  /\ JumpAtRest \in Seq(Entry) /\ JumpAtRest # <<>>
  /\ Front(JumpAtRest) = <<>> /\ Last(JumpAtRest) = E("jump", FALSE)
  /\ NestedAtRest \in Seq(Entry) /\ NestedAtRest # <<>>
  /\ Front(NestedAtRest) = JumpAtRest /\ Last(NestedAtRest) = E("nested", TRUE)
  /\ Resumed \in Seq(Entry) /\ Resumed # <<>>
  /\ Front(Resumed) = <<>> /\ Last(Resumed) = E("resume", FALSE)
  /\ NestedResumed \in Seq(Entry) /\ NestedResumed # <<>>
  /\ Front(NestedResumed) = Resumed /\ Last(NestedResumed) = E("nested", FALSE)
<1>0. <<>> \in Seq(Entry)
  OBVIOUS
<1>1. \A k \in {"drain", "steps", "jump", "resume", "nested"}, b \in BOOLEAN : E(k, b) \in Entry
  BY DEF E, Entry
<1>2. \A s \in Seq(Entry), x \in Entry :
        /\ Append(s, x) \in Seq(Entry) /\ Append(s, x) # <<>>
        /\ Front(Append(s, x)) = s /\ Last(Append(s, x)) = x
  BY AppendPop
<1>3. /\ E("drain", FALSE) \in Entry /\ E("steps", FALSE) \in Entry /\ E("jump", TRUE) \in Entry
      /\ E("jump", FALSE) \in Entry /\ E("nested", TRUE) \in Entry /\ E("nested", FALSE) \in Entry
      /\ E("resume", FALSE) \in Entry
  BY <1>1
<1>4. /\ Draining \in Seq(Entry) /\ Draining # <<>>
      /\ Front(Draining) = <<>> /\ Last(Draining) = E("drain", FALSE)
  BY <1>0, <1>2, <1>3, Zenon DEF Draining
<1>5. /\ InSteps \in Seq(Entry) /\ InSteps # <<>>
      /\ Front(InSteps) = Draining /\ Last(InSteps) = E("steps", FALSE)
  BY <1>2, <1>3, <1>4, Zenon DEF InSteps
<1>6. /\ JumpInSteps \in Seq(Entry) /\ JumpInSteps # <<>>
      /\ Front(JumpInSteps) = InSteps /\ Last(JumpInSteps) = E("jump", TRUE)
  BY <1>2, <1>3, <1>5, Zenon DEF JumpInSteps
<1>7. /\ NestedInSteps \in Seq(Entry) /\ NestedInSteps # <<>>
      /\ Front(NestedInSteps) = JumpInSteps /\ Last(NestedInSteps) = E("nested", TRUE)
  BY <1>2, <1>3, <1>6, Zenon DEF NestedInSteps
<1>8. /\ JumpAtRest \in Seq(Entry) /\ JumpAtRest # <<>>
      /\ Front(JumpAtRest) = <<>> /\ Last(JumpAtRest) = E("jump", FALSE)
  BY <1>0, <1>2, <1>3, Zenon DEF JumpAtRest
<1>9. /\ NestedAtRest \in Seq(Entry) /\ NestedAtRest # <<>>
      /\ Front(NestedAtRest) = JumpAtRest /\ Last(NestedAtRest) = E("nested", TRUE)
  BY <1>2, <1>3, <1>8, Zenon DEF NestedAtRest
<1>10. /\ Resumed \in Seq(Entry) /\ Resumed # <<>>
       /\ Front(Resumed) = <<>> /\ Last(Resumed) = E("resume", FALSE)
  BY <1>0, <1>2, <1>3, Zenon DEF Resumed
<1>11. /\ NestedResumed \in Seq(Entry) /\ NestedResumed # <<>>
       /\ Front(NestedResumed) = Resumed /\ Last(NestedResumed) = E("nested", FALSE)
  BY <1>2, <1>3, <1>10, Zenon DEF NestedResumed
<1>. QED  BY <1>0, <1>4, <1>5, <1>6, <1>7, <1>8, <1>9, <1>10, <1>11, Zenon

\* What the innermost entry says of the stack and of the queue.
LEMMA Tops ==
  ASSUME Shape
  PROVE  /\ entries = <<>> =>
              /\ executing = FALSE
              /\ running = (occupant # None) /\ (jumping => jumper # None)
         /\ entries # <<>> /\ Last(entries).kind = "drain" =>
              /\ entries = Draining /\ executing = FALSE
              /\ running = TRUE /\ occupant = None /\ jumping = FALSE
         /\ entries # <<>> /\ Last(entries).kind = "steps" =>
              /\ entries = InSteps /\ executing = TRUE
              /\ running = TRUE /\ occupant # None /\ (jumping => jumper # None)
         /\ entries # <<>> /\ Last(entries).kind \in {"jump", "resume"} =>
              /\ \/ entries \in {JumpInSteps, JumpAtRest} /\ executing = TRUE
                 \/ entries = Resumed /\ executing = FALSE
              /\ running = TRUE /\ occupant # None /\ jumping = TRUE /\ jumper = None
         /\ entries # <<>> /\ Last(entries).kind = "nested" =>
              /\ entries \in {NestedInSteps, NestedAtRest, NestedResumed} /\ executing = TRUE
              /\ running = TRUE /\ occupant # None /\ jumping = TRUE /\ jumper # None
<1>1. \A k, b : E(k, b).kind = k
  BY DEF E
<1>2. /\ Last(Draining).kind = "drain" /\ Last(InSteps).kind = "steps"
      /\ Last(JumpInSteps).kind = "jump" /\ Last(JumpAtRest).kind = "jump"
      /\ Last(Resumed).kind = "resume" /\ Last(NestedInSteps).kind = "nested"
      /\ Last(NestedAtRest).kind = "nested" /\ Last(NestedResumed).kind = "nested"
  BY <1>1, Stacks, Zenon
<1>3. /\ Draining # <<>> /\ InSteps # <<>> /\ JumpInSteps # <<>> /\ JumpAtRest # <<>>
      /\ Resumed # <<>> /\ NestedInSteps # <<>> /\ NestedAtRest # <<>> /\ NestedResumed # <<>>
  BY Stacks
<1>. QED  BY <1>2, <1>3 DEF Shape

LEMMA InitInv == Init => IInv
<1>1. <<>> \in Seq(Steps) /\ <<>> \in Seq(Entry) /\ 0 \in Nat
  OBVIOUS
<1> SUFFICES ASSUME Init PROVE IInv
  OBVIOUS
<1>2. TypeOK
  BY <1>1 DEF Init, TypeOK
<1>3. OneWakeup /\ NoLostDrain /\ JumpsAreGuarded
  BY DEF Init, OneWakeup, NoLostDrain, JumpsAreGuarded
<1>4. Shape
  BY DEF Init, Shape
<1>. QED  BY <1>2, <1>3, <1>4 DEF IInv

\* A request leaves one wake-up for the pending algorithms of a released queue.
LEMMA RequestFacts ==
  ASSUME NEW pending, NEW occupied \in BOOLEAN,
         drainScheduled \in BOOLEAN, callbacks \in Nat, refused \in BOOLEAN,
         callbacks = IF drainScheduled THEN 1 ELSE 0, drainScheduled => ~occupied,
         RequestDrain(pending, occupied)
  PROVE  /\ drainScheduled' \in BOOLEAN /\ callbacks' \in Nat /\ refused' \in BOOLEAN
         /\ callbacks' = IF drainScheduled' THEN 1 ELSE 0
         /\ drainScheduled' => ~occupied
         /\ ~occupied /\ pending # <<>> => drainScheduled' \/ refused'
<1>1. IF pending = <<>> \/ occupied \/ drainScheduled
      THEN drainScheduled' = drainScheduled /\ callbacks' = callbacks /\ refused' = refused
      ELSE \/ drainScheduled' = TRUE /\ callbacks' = callbacks + 1 /\ refused' = FALSE
           \/ drainScheduled' = drainScheduled /\ callbacks' = callbacks /\ refused' = TRUE
  BY DEF RequestDrain, requestVars
<1>2. refused' \in BOOLEAN /\ drainScheduled' \in BOOLEAN
  BY <1>1, Zenon
<1>3. CASE pending = <<>> \/ occupied \/ drainScheduled
  BY <1>1, <1>2, <1>3
<1>4. CASE ~(pending = <<>> \/ occupied \/ drainScheduled)
  <2>1. callbacks = 0
    BY <1>4
  <2>. QED  BY <1>1, <1>2, <1>4, <2>1
<1>. QED  BY <1>3, <1>4

\* The end of an algorithm, with what it appended still pending.
LEMMA FinishFacts ==
  ASSUME IInv, Finish, running = TRUE, algorithmSet' = algorithmSet
  PROVE  /\ running' = FALSE
         /\ drainScheduled' \in BOOLEAN /\ callbacks' \in Nat /\ refused' \in BOOLEAN
         /\ OneWakeup' /\ NoLostDrain'
<1>1. /\ drainScheduled \in BOOLEAN /\ callbacks \in Nat /\ refused \in BOOLEAN
      /\ callbacks = IF drainScheduled THEN 1 ELSE 0
      /\ drainScheduled => ~FALSE
      /\ RequestDrain(algorithmSet, FALSE) /\ running' = FALSE
  BY DEF IInv, TypeOK, OneWakeup, Finish
<1>2. FALSE \in BOOLEAN
  OBVIOUS
<1>3. /\ drainScheduled' \in BOOLEAN /\ callbacks' \in Nat /\ refused' \in BOOLEAN
      /\ callbacks' = IF drainScheduled' THEN 1 ELSE 0
      /\ ~FALSE /\ algorithmSet # <<>> => drainScheduled' \/ refused'
  BY <1>1, <1>2, RequestFacts
<1>4. OneWakeup'
  BY <1>1, <1>3 DEF OneWakeup
<1>5. NoLostDrain'
  BY <1>1, <1>3 DEF NoLostDrain
<1>. QED  BY <1>1, <1>3, <1>4, <1>5

\* Steps that leave an occupied queue alone leave it without a wake-up.
LEMMA QueueKept ==
  ASSUME IInv, running' = running, drainScheduled' = drainScheduled, callbacks' = callbacks,
         refused' = refused, running = TRUE \/ algorithmSet' = algorithmSet
  PROVE  OneWakeup' /\ NoLostDrain'
BY DEF IInv, OneWakeup, NoLostDrain
-----------------------------------------------------------------------------
LEMMA AppendStepsInv == \A s \in Steps : IInv /\ AppendSteps(s) => IInv'
<1> SUFFICES ASSUME NEW s \in Steps, IInv, AppendSteps(s) PROVE IInv'
  OBVIOUS
<1>1. /\ running' = running /\ executing' = executing /\ occupant' = occupant
      /\ jumping' = jumping /\ jumper' = jumper /\ nestedApply' = nestedApply
      /\ waitingSet' = waitingSet /\ entries' = entries
      /\ algorithmSet' = Append(algorithmSet, s)
      /\ RequestDrain(algorithmSet', running)
  BY DEF AppendSteps, jumpVars
<1>2. /\ running \in BOOLEAN /\ drainScheduled \in BOOLEAN /\ callbacks \in Nat
      /\ refused \in BOOLEAN
      /\ callbacks = IF drainScheduled THEN 1 ELSE 0
      /\ drainScheduled => ~running
  BY DEF IInv, TypeOK, OneWakeup
<1>3. /\ drainScheduled' \in BOOLEAN /\ callbacks' \in Nat /\ refused' \in BOOLEAN
      /\ callbacks' = IF drainScheduled' THEN 1 ELSE 0
      /\ drainScheduled' => ~running
      /\ ~running /\ algorithmSet' # <<>> => drainScheduled' \/ refused'
  BY <1>1, <1>2, RequestFacts
<1>4. algorithmSet' \in Seq(Steps)
  BY <1>1, AppendProperties DEF IInv, TypeOK
<1>5. TypeOK'
  BY <1>1, <1>3, <1>4 DEF IInv, TypeOK
<1>6. OneWakeup' /\ NoLostDrain'
  BY <1>1, <1>3 DEF OneWakeup, NoLostDrain
<1>7. JumpsAreGuarded'
  BY <1>1 DEF IInv, JumpsAreGuarded
<1>8. Shape'
  BY <1>1, Zenon DEF IInv, Shape
<1>. QED  BY <1>5, <1>6, <1>7, <1>8 DEF IInv

LEMMA BeginDrainInv == IInv /\ BeginDrain => IInv'
<1> SUFFICES ASSUME IInv, BeginDrain PROVE IInv'
  OBVIOUS
<1>1. /\ entries = <<>> /\ callbacks > 0 /\ callbacks' = callbacks - 1
      /\ drainScheduled' = FALSE /\ running' = TRUE /\ refused' = refused
      /\ entries' = Append(entries, E("drain", executing))
      /\ algorithmSet' = algorithmSet /\ executing' = executing /\ occupant' = occupant
      /\ jumping' = jumping /\ jumper' = jumper /\ nestedApply' = nestedApply
      /\ waitingSet' = waitingSet
  BY DEF BeginDrain, AtRest, Enter, E, jumpVars
<1>2. drainScheduled = TRUE /\ callbacks' = 0
  <2>1. drainScheduled \in BOOLEAN /\ callbacks = IF drainScheduled THEN 1 ELSE 0
    BY DEF IInv, TypeOK, OneWakeup
  <2>. QED  BY <1>1, <2>1
<1>3. running = FALSE
  BY <1>2 DEF IInv, TypeOK, OneWakeup
<1>4. executing = FALSE /\ occupant = None
  BY <1>1, <1>3, Tops DEF IInv
<1>5. jumping = FALSE
  BY <1>3 DEF IInv, JumpsAreGuarded, TypeOK
<1>6. entries' = Draining
  BY <1>1, <1>4 DEF Draining
<1>7. TypeOK'
  <2>1. callbacks' \in Nat /\ drainScheduled' \in BOOLEAN /\ running' \in BOOLEAN
    <3>1. 0 \in Nat
      OBVIOUS
    <3>2. callbacks' = 0 /\ drainScheduled' = FALSE /\ running' = TRUE
      BY <1>1, <1>2, Zenon
    <3>. QED  BY <3>1, <3>2, Zenon
  <2>2. entries' \in Seq(Entry)
    BY <1>6, Stacks, Zenon
  <2>. QED  BY <1>1, <2>1, <2>2, Zenon DEF IInv, TypeOK
<1>8. OneWakeup' /\ NoLostDrain'
  BY <1>1, <1>2 DEF OneWakeup, NoLostDrain
<1>9. JumpsAreGuarded'
  BY <1>1, <1>5 DEF IInv, JumpsAreGuarded
<1>10. Shape'
  BY <1>1, <1>4, <1>5, <1>6 DEF Shape
<1>. QED  BY <1>7, <1>8, <1>9, <1>10 DEF IInv

LEMMA TakeAlgorithmInv == IInv /\ TakeAlgorithm => IInv'
<1> SUFFICES ASSUME IInv, TakeAlgorithm PROVE IInv'
  OBVIOUS
<1>1. /\ entries # <<>> /\ Last(entries).kind = "drain" /\ algorithmSet # <<>>
      /\ occupant' = Head(algorithmSet) /\ algorithmSet' = Tail(algorithmSet)
      /\ entries' = Append(entries, E("steps", executing)) /\ executing' = TRUE
      /\ running' = running /\ drainScheduled' = drainScheduled /\ callbacks' = callbacks
      /\ refused' = refused
      /\ jumping' = jumping /\ jumper' = jumper /\ nestedApply' = nestedApply
      /\ waitingSet' = waitingSet
  BY DEF TakeAlgorithm, TopIs, AtRest, Enter, E, jumpVars, requestVars
<1>2. /\ entries = Draining /\ executing = FALSE
      /\ running = TRUE /\ occupant = None /\ jumping = FALSE
  BY <1>1, Tops DEF IInv
<1>4. entries' = InSteps
  BY <1>1, <1>2 DEF InSteps
<1>5. occupant' \in Steps /\ algorithmSet' \in Seq(Steps)
  BY <1>1, HeadTailProperties DEF IInv, TypeOK
<1>6. TypeOK'
  BY <1>1, <1>4, <1>5, Stacks DEF IInv, TypeOK
<1>7. OneWakeup' /\ NoLostDrain'
  BY <1>1, <1>2, QueueKept
<1>8. JumpsAreGuarded'
  BY <1>1, <1>2 DEF IInv, JumpsAreGuarded
<1>9. occupant' # None
  BY <1>5, TraversalQueueAssumption, Zenon
<1>10. Shape'
  BY <1>1, <1>2, <1>4, <1>9 DEF Shape
<1>. QED  BY <1>6, <1>7, <1>8, <1>10 DEF IInv

LEMMA OccupantReturnsInv == IInv /\ OccupantReturns => IInv'
<1> SUFFICES ASSUME IInv, OccupantReturns PROVE IInv'
  OBVIOUS
<1>1. /\ entries # <<>> /\ Last(entries).kind = "steps" /\ ~jumping
      /\ executing' = Last(entries).before /\ entries' = Front(entries) /\ occupant' = None
      /\ running' = running /\ algorithmSet' = algorithmSet
      /\ drainScheduled' = drainScheduled /\ callbacks' = callbacks
      /\ refused' = refused
      /\ jumping' = jumping /\ jumper' = jumper /\ nestedApply' = nestedApply
      /\ waitingSet' = waitingSet
  BY DEF OccupantReturns, TopIs, AtRest, jumpVars, queueVars, requestVars
<1>2. entries = InSteps /\ running = TRUE
  BY <1>1, Tops DEF IInv
<1>3. entries' = Draining /\ executing' = FALSE
  BY <1>1, <1>2, Stacks DEF E
<1>4. TypeOK'
  BY <1>1, <1>3, Stacks DEF IInv, TypeOK
<1>5. OneWakeup' /\ NoLostDrain'
  BY <1>1, QueueKept
<1>6. JumpsAreGuarded'
  BY <1>1 DEF IInv, JumpsAreGuarded
<1>7. Shape'
  BY <1>1, <1>2, <1>3 DEF IInv, TypeOK, Shape
<1>. QED  BY <1>4, <1>5, <1>6, <1>7 DEF IInv

LEMMA OccupantWaitsInv == IInv /\ OccupantWaits => IInv'
<1> SUFFICES ASSUME IInv, OccupantWaits PROVE IInv'
  OBVIOUS
<1>1. /\ entries # <<>> /\ Last(entries).kind = "steps"
      /\ executing' = Last(entries).before /\ entries' = Front(Front(entries))
      /\ occupant' = occupant /\ running' = running /\ algorithmSet' = algorithmSet
      /\ drainScheduled' = drainScheduled /\ callbacks' = callbacks
      /\ refused' = refused
      /\ jumping' = jumping /\ jumper' = jumper /\ nestedApply' = nestedApply
      /\ waitingSet' = waitingSet
  BY DEF OccupantWaits, TopIs, AtRest, jumpVars, queueVars, requestVars
<1>2. entries = InSteps /\ running = TRUE /\ occupant # None /\ (jumping => jumper # None)
  BY <1>1, Tops DEF IInv
<1>3. entries' = <<>> /\ executing' = FALSE
  BY <1>1, <1>2, Stacks DEF E
<1>4. TypeOK'
  BY <1>1, <1>3, Stacks DEF IInv, TypeOK
<1>5. OneWakeup' /\ NoLostDrain'
  BY <1>1, QueueKept
<1>6. JumpsAreGuarded'
  BY <1>1 DEF IInv, JumpsAreGuarded
<1>7. Shape'
  BY <1>1, <1>2, <1>3 DEF Shape
<1>. QED  BY <1>4, <1>5, <1>6, <1>7 DEF IInv

LEMMA OccupantThrowsInv == IInv /\ OccupantThrows => IInv'
<1> SUFFICES ASSUME IInv, OccupantThrows PROVE IInv'
  OBVIOUS
<1>1. /\ entries # <<>> /\ Last(entries).kind = "steps" /\ ~jumping
      /\ executing' = Last(entries).before /\ entries' = Front(Front(entries))
      /\ occupant' = None /\ algorithmSet' = algorithmSet
      /\ jumping' = jumping /\ jumper' = jumper /\ nestedApply' = nestedApply
      /\ waitingSet' = waitingSet /\ Finish
  BY DEF OccupantThrows, TopIs, AtRest, jumpVars
<1>2. entries = InSteps /\ running = TRUE
  BY <1>1, Tops DEF IInv
<1>3. entries' = <<>> /\ executing' = FALSE
  BY <1>1, <1>2, Stacks DEF E
<1>4. /\ running' = FALSE /\ drainScheduled' \in BOOLEAN /\ callbacks' \in Nat /\ refused' \in BOOLEAN
      /\ OneWakeup' /\ NoLostDrain'
  BY <1>1, <1>2, FinishFacts
<1>5. TypeOK'
  BY <1>1, <1>3, <1>4, Stacks DEF IInv, TypeOK
<1>6. JumpsAreGuarded'
  BY <1>1 DEF IInv, JumpsAreGuarded
<1>7. Shape'
  BY <1>1, <1>3, <1>4 DEF Shape
<1>. QED  BY <1>4, <1>5, <1>6, <1>7 DEF IInv

LEMMA OccupantSettlesInv == IInv /\ OccupantSettles => IInv'
<1> SUFFICES ASSUME IInv, OccupantSettles PROVE IInv'
  OBVIOUS
<1>1. /\ entries = <<>> /\ occupant # None /\ ~jumping
      /\ executing' = executing /\ entries' = entries
      /\ occupant' = None /\ algorithmSet' = algorithmSet
      /\ jumping' = jumping /\ jumper' = jumper /\ nestedApply' = nestedApply
      /\ waitingSet' = waitingSet /\ Finish
  BY DEF OccupantSettles, AtRest, jumpVars
<1>2. running = TRUE /\ executing = FALSE
  BY <1>1, Tops DEF IInv
<1>3. /\ running' = FALSE /\ drainScheduled' \in BOOLEAN /\ callbacks' \in Nat /\ refused' \in BOOLEAN
      /\ OneWakeup' /\ NoLostDrain'
  BY <1>1, <1>2, FinishFacts
<1>4. TypeOK'
  BY <1>1, <1>3 DEF IInv, TypeOK
<1>5. JumpsAreGuarded'
  BY <1>1 DEF IInv, JumpsAreGuarded
<1>6. Shape'
  BY <1>1, <1>2, <1>3 DEF Shape
<1>. QED  BY <1>3, <1>4, <1>5, <1>6 DEF IInv

LEMMA EndDrainInv == IInv /\ EndDrain => IInv'
<1> SUFFICES ASSUME IInv, EndDrain PROVE IInv'
  OBVIOUS
<1>1. /\ entries # <<>> /\ Last(entries).kind = "drain"
      /\ executing' = executing /\ entries' = Front(entries)
      /\ occupant' = occupant /\ algorithmSet' = algorithmSet
      /\ jumping' = jumping /\ jumper' = jumper /\ nestedApply' = nestedApply
      /\ waitingSet' = waitingSet /\ Finish
  BY DEF EndDrain, TopIs, AtRest, jumpVars
<1>2. /\ entries = Draining /\ running = TRUE /\ executing = FALSE
      /\ occupant = None /\ jumping = FALSE
  BY <1>1, Tops DEF IInv
<1>3. /\ running' = FALSE /\ drainScheduled' \in BOOLEAN /\ callbacks' \in Nat /\ refused' \in BOOLEAN
      /\ OneWakeup' /\ NoLostDrain'
  BY <1>1, <1>2, FinishFacts
<1>4. entries' = <<>>
  BY <1>1, <1>2, Stacks
<1>5. TypeOK'
  BY <1>1, <1>3, <1>4, Stacks DEF IInv, TypeOK
<1>6. JumpsAreGuarded'
  BY <1>1, <1>2 DEF IInv, JumpsAreGuarded
<1>7. Shape'
  BY <1>1, <1>2, <1>3, <1>4 DEF Shape
<1>. QED  BY <1>3, <1>5, <1>6, <1>7 DEF IInv
-----------------------------------------------------------------------------
LEMMA BeginJumpInv == \A w \in SUBSET Navigable : IInv /\ BeginJump(w) => IInv'
<1> SUFFICES ASSUME NEW w \in SUBSET Navigable, IInv, BeginJump(w) PROVE IInv'
  OBVIOUS
<1>1. /\ \/ entries # <<>> /\ Last(entries).kind = "steps"
         \/ entries = <<>> /\ occupant # None
      /\ ~jumping /\ jumping' = TRUE /\ waitingSet' = w
      /\ entries' = Append(entries, E("jump", executing)) /\ executing' = TRUE
      /\ running' = running /\ algorithmSet' = algorithmSet
      /\ drainScheduled' = drainScheduled /\ callbacks' = callbacks
      /\ refused' = refused
      /\ occupant' = occupant /\ jumper' = jumper /\ nestedApply' = nestedApply
  BY DEF BeginJump, TopIs, AtRest, Enter, E, queueVars, requestVars
<1>2. running = TRUE /\ occupant # None
  BY <1>1, Tops DEF IInv
<1>3. jumper = None
  BY <1>1 DEF IInv, JumpsAreGuarded
<1>4. entries' \in {JumpInSteps, JumpAtRest}
  <2>1. CASE entries # <<>> /\ Last(entries).kind = "steps"
    BY <1>1, <2>1, Tops DEF IInv, JumpInSteps
  <2>2. CASE entries = <<>> /\ occupant # None
    BY <1>1, <2>2, Tops DEF IInv, JumpAtRest
  <2>. QED  BY <1>1, <2>1, <2>2
<1>5. entries' \in Seq(Entry)
  BY <1>4, Stacks
<1>6. TypeOK'
  BY <1>1, <1>5 DEF IInv, TypeOK
<1>7. OneWakeup' /\ NoLostDrain'
  BY <1>1, QueueKept
<1>8. JumpsAreGuarded'
  BY <1>1, <1>2 DEF IInv, JumpsAreGuarded
<1>9. Shape'
  BY <1>1, <1>2, <1>3, <1>4 DEF Shape
<1>. QED  BY <1>6, <1>7, <1>8, <1>9 DEF IInv

LEMMA ChangeWaitingInv == \A w \in SUBSET Navigable : IInv /\ ChangeWaiting(w) => IInv'
<1> SUFFICES ASSUME NEW w \in SUBSET Navigable, IInv, ChangeWaiting(w) PROVE IInv'
  OBVIOUS
<1>1. /\ waitingSet' = w
      /\ running' = running /\ executing' = executing /\ algorithmSet' = algorithmSet
      /\ drainScheduled' = drainScheduled /\ callbacks' = callbacks
      /\ refused' = refused
      /\ occupant' = occupant /\ jumping' = jumping
      /\ jumper' = jumper /\ nestedApply' = nestedApply /\ entries' = entries
  BY DEF ChangeWaiting, queueVars, requestVars, jumpVars
<1>2. TypeOK'
  BY <1>1 DEF IInv, TypeOK
<1>3. OneWakeup' /\ NoLostDrain'
  BY <1>1, QueueKept
<1>4. JumpsAreGuarded'
  BY <1>1 DEF IInv, JumpsAreGuarded
<1>5. Shape'
  BY <1>1, Zenon DEF IInv, Shape
<1>. QED  BY <1>2, <1>3, <1>4, <1>5 DEF IInv

\* What is left when the i-th algorithm is taken.
LEMMA RemovalFacts ==
  ASSUME NEW s \in Seq(Steps), NEW i \in 1..Len(s)
  PROVE  RemoveAt(s, i) \in Seq(Steps) /\ s[i] \in Steps
<1>1. Len(s) \in Nat /\ \A k \in 1..Len(s) : s[k] \in Steps
  BY LenProperties, ElementOfSeq
<1>2. SubSeq(s, 1, i - 1) \in Seq(Steps)
  BY <1>1, SubSeqProperties
<1>3. SubSeq(s, i + 1, Len(s)) \in Seq(Steps)
  BY <1>1, SubSeqProperties
<1>4. SubSeq(s, 1, i - 1) \o SubSeq(s, i + 1, Len(s)) \in Seq(Steps)
  BY <1>2, <1>3, ConcatProperties
<1>. QED  BY <1>1, <1>4 DEF RemoveAt

LEMMA TakeJumperInv == IInv /\ TakeJumper => IInv'
<1> SUFFICES ASSUME IInv, TakeJumper PROVE IInv'
  OBVIOUS
<1>1. /\ entries # <<>> /\ Last(entries).kind \in {"jump", "resume"}
      /\ nestedApply' = TRUE
      /\ entries' = Append(entries, E("nested", executing)) /\ executing' = TRUE
      /\ running' = running /\ drainScheduled' = drainScheduled /\ callbacks' = callbacks
      /\ refused' = refused
      /\ occupant' = occupant /\ jumping' = jumping /\ waitingSet' = waitingSet
  BY DEF TakeJumper, TopIs, AtRest, Enter, E, requestVars
<1>2. PICK i \in DOMAIN algorithmSet :
        /\ FirstEligible(i)
        /\ jumper' = algorithmSet[i]
        /\ algorithmSet' = RemoveAt(algorithmSet, i)
  BY DEF TakeJumper
<1>3. algorithmSet \in Seq(Steps) /\ i \in 1..Len(algorithmSet)
  BY <1>2, LenProperties DEF IInv, TypeOK
<1>4. algorithmSet' \in Seq(Steps) /\ jumper' \in Steps
  BY <1>2, <1>3, RemovalFacts
<1>5. jumper' \in Tagged /\ jumper' # None
  BY <1>2, <1>4, TraversalQueueAssumption DEF FirstEligible, Eligible, Tagged
<1>6. /\ \/ entries \in {JumpInSteps, JumpAtRest} /\ executing = TRUE
         \/ entries = Resumed /\ executing = FALSE
      /\ running = TRUE /\ occupant # None /\ jumping = TRUE /\ jumper = None
  BY <1>1, Tops DEF IInv
<1>7. entries' \in {NestedInSteps, NestedAtRest, NestedResumed}
  BY <1>1, <1>6, Zenon DEF NestedInSteps, NestedAtRest, NestedResumed
<1>8. entries' \in Seq(Entry)
  BY <1>7, Stacks
<1>9. TypeOK'
  BY <1>1, <1>4, <1>5, <1>8 DEF IInv, TypeOK
<1>10. OneWakeup' /\ NoLostDrain'
  BY <1>1, <1>6, QueueKept
<1>11. JumpsAreGuarded'
  BY <1>1, <1>5, <1>6 DEF JumpsAreGuarded
<1>12. Shape'
  BY <1>1, <1>5, <1>6, <1>7 DEF Shape
<1>. QED  BY <1>9, <1>10, <1>11, <1>12 DEF IInv

LEMMA EndJumpInv == IInv /\ EndJump => IInv'
<1> SUFFICES ASSUME IInv, EndJump PROVE IInv'
  OBVIOUS
<1>1. /\ entries # <<>> /\ Last(entries).kind \in {"jump", "resume"}
      /\ jumping' = FALSE
      /\ entries' = Front(entries) /\ executing' = Last(entries).before
      /\ running' = running /\ algorithmSet' = algorithmSet
      /\ drainScheduled' = drainScheduled /\ callbacks' = callbacks
      /\ refused' = refused
      /\ occupant' = occupant /\ jumper' = jumper /\ nestedApply' = nestedApply
      /\ waitingSet' = waitingSet
  BY DEF EndJump, TopIs, AtRest, queueVars, requestVars
<1>2. /\ entries \in {JumpInSteps, JumpAtRest, Resumed}
      /\ running = TRUE /\ occupant # None /\ jumper = None
  BY <1>1, Tops DEF IInv
<1>3. \/ entries' = InSteps /\ executing' = TRUE
      \/ entries' = <<>> /\ executing' = FALSE
  BY <1>1, <1>2, Stacks DEF E
<1>4. TypeOK'
  BY <1>1, <1>3, Stacks DEF IInv, TypeOK
<1>5. OneWakeup' /\ NoLostDrain'
  BY <1>1, QueueKept
<1>6. JumpsAreGuarded'
  BY <1>1, <1>2 DEF IInv, JumpsAreGuarded
<1>7. Shape'
  BY <1>1, <1>2, <1>3 DEF Shape
<1>. QED  BY <1>4, <1>5, <1>6, <1>7 DEF IInv

LEMMA JumperReturnsInv == IInv /\ JumperReturns => IInv'
<1> SUFFICES ASSUME IInv, JumperReturns PROVE IInv'
  OBVIOUS
<1>1. /\ entries # <<>> /\ Last(entries).kind = "nested"
      /\ jumper' = None /\ nestedApply' = FALSE
      /\ entries' = Front(entries) /\ executing' = Last(entries).before
      /\ running' = running /\ algorithmSet' = algorithmSet
      /\ drainScheduled' = drainScheduled /\ callbacks' = callbacks
      /\ refused' = refused
      /\ occupant' = occupant /\ jumping' = jumping /\ waitingSet' = waitingSet
  BY DEF JumperReturns, TopIs, AtRest, queueVars, requestVars
<1>2. /\ entries \in {NestedInSteps, NestedAtRest, NestedResumed}
      /\ running = TRUE /\ occupant # None /\ jumping = TRUE
  BY <1>1, Tops DEF IInv
<1>3. \/ entries' \in {JumpInSteps, JumpAtRest} /\ executing' = TRUE
      \/ entries' = Resumed /\ executing' = FALSE
  BY <1>1, <1>2, Stacks DEF E
<1>4. entries' \in Seq(Entry) /\ executing' \in BOOLEAN
  BY <1>3, Stacks
<1>5. TypeOK'
  BY <1>1, <1>4 DEF IInv, TypeOK
<1>6. OneWakeup' /\ NoLostDrain'
  BY <1>1, QueueKept
<1>7. JumpsAreGuarded'
  BY <1>1, <1>2 DEF JumpsAreGuarded
<1>8. Shape'
  BY <1>1, <1>2, <1>3 DEF Shape
<1>. QED  BY <1>5, <1>6, <1>7, <1>8 DEF IInv

\* Waiting or failing selected steps return to what ran before their jump.
LEMMA NestedUnwinds ==
  ASSUME IInv, entries # <<>>, Last(entries).kind = "nested",
         executing' = Last(Front(entries)).before, entries' = Front(Front(entries))
  PROVE  \/ entries' = InSteps /\ executing' = TRUE
         \/ entries' = <<>> /\ executing' = FALSE
<1>1. entries \in {NestedInSteps, NestedAtRest, NestedResumed}
  BY Tops DEF IInv
<1>. QED  BY <1>1, Stacks DEF E

LEMMA JumperWaitsInv == IInv /\ JumperWaits => IInv'
<1> SUFFICES ASSUME IInv, JumperWaits PROVE IInv'
  OBVIOUS
<1>1. /\ entries # <<>> /\ Last(entries).kind = "nested"
      /\ entries' = Front(Front(entries)) /\ executing' = Last(Front(entries)).before
      /\ running' = running /\ algorithmSet' = algorithmSet
      /\ drainScheduled' = drainScheduled /\ callbacks' = callbacks
      /\ refused' = refused
      /\ occupant' = occupant /\ jumping' = jumping /\ jumper' = jumper
      /\ nestedApply' = nestedApply /\ waitingSet' = waitingSet
  BY DEF JumperWaits, TopIs, AtRest, queueVars, requestVars, jumpVars
<1>2. running = TRUE /\ occupant # None /\ jumping = TRUE /\ jumper # None
  BY <1>1, Tops DEF IInv
<1>3. \/ entries' = InSteps /\ executing' = TRUE
      \/ entries' = <<>> /\ executing' = FALSE
  BY <1>1, NestedUnwinds
<1>4. TypeOK'
  BY <1>1, <1>3, Stacks DEF IInv, TypeOK
<1>5. OneWakeup' /\ NoLostDrain'
  BY <1>1, QueueKept
<1>6. JumpsAreGuarded'
  BY <1>1 DEF IInv, JumpsAreGuarded
<1>7. Shape'
  BY <1>1, <1>2, <1>3 DEF Shape
<1>. QED  BY <1>4, <1>5, <1>6, <1>7 DEF IInv

LEMMA JumperThrowsInv == IInv /\ JumperThrows => IInv'
<1> SUFFICES ASSUME IInv, JumperThrows PROVE IInv'
  OBVIOUS
<1>1. /\ entries # <<>> /\ Last(entries).kind = "nested"
      /\ jumper' = None /\ jumping' = FALSE /\ nestedApply' = FALSE
      /\ entries' = Front(Front(entries)) /\ executing' = Last(Front(entries)).before
      /\ running' = running /\ algorithmSet' = algorithmSet
      /\ drainScheduled' = drainScheduled /\ callbacks' = callbacks
      /\ refused' = refused
      /\ occupant' = occupant /\ waitingSet' = waitingSet
  BY DEF JumperThrows, TopIs, AtRest, queueVars, requestVars
<1>2. running = TRUE /\ occupant # None
  BY <1>1, Tops DEF IInv
<1>3. \/ entries' = InSteps /\ executing' = TRUE
      \/ entries' = <<>> /\ executing' = FALSE
  BY <1>1, NestedUnwinds
<1>4. TypeOK'
  BY <1>1, <1>3, Stacks DEF IInv, TypeOK
<1>5. OneWakeup' /\ NoLostDrain'
  BY <1>1, QueueKept
<1>6. JumpsAreGuarded'
  BY <1>1 DEF JumpsAreGuarded
<1>7. Shape'
  BY <1>1, <1>2, <1>3 DEF Shape
<1>. QED  BY <1>4, <1>5, <1>6, <1>7 DEF IInv

LEMMA JumperSettlesInv == IInv /\ JumperSettles => IInv'
<1> SUFFICES ASSUME IInv, JumperSettles PROVE IInv'
  OBVIOUS
<1>1. /\ entries = <<>> /\ jumper # None
      /\ jumper' = None /\ nestedApply' = FALSE
      /\ entries' = Append(entries, E("resume", executing)) /\ executing' = executing
      /\ running' = running /\ algorithmSet' = algorithmSet
      /\ drainScheduled' = drainScheduled /\ callbacks' = callbacks
      /\ refused' = refused
      /\ occupant' = occupant /\ jumping' = jumping /\ waitingSet' = waitingSet
  BY DEF JumperSettles, AtRest, Enter, E, queueVars, requestVars
<1>2. executing = FALSE
  BY <1>1, Tops DEF IInv
<1>3. jumping = TRUE /\ running = TRUE /\ occupant # None
  BY <1>1 DEF IInv, JumpsAreGuarded, TypeOK
<1>4. entries' = Resumed
  BY <1>1, <1>2 DEF Resumed
<1>5. TypeOK'
  BY <1>1, <1>4, Stacks DEF IInv, TypeOK
<1>6. OneWakeup' /\ NoLostDrain'
  BY <1>1, QueueKept
<1>7. JumpsAreGuarded'
  BY <1>1, <1>3 DEF JumpsAreGuarded
<1>8. Shape'
  BY <1>1, <1>2, <1>3, <1>4 DEF Shape
<1>. QED  BY <1>5, <1>6, <1>7, <1>8 DEF IInv

LEMMA JumperRejectsInv == IInv /\ JumperRejects => IInv'
<1> SUFFICES ASSUME IInv, JumperRejects PROVE IInv'
  OBVIOUS
<1>1. /\ entries = <<>> /\ jumper # None
      /\ jumper' = None /\ jumping' = FALSE /\ nestedApply' = FALSE
      /\ entries' = entries /\ executing' = executing
      /\ running' = running /\ algorithmSet' = algorithmSet
      /\ drainScheduled' = drainScheduled /\ callbacks' = callbacks
      /\ refused' = refused
      /\ occupant' = occupant /\ waitingSet' = waitingSet
  BY DEF JumperRejects, AtRest, queueVars, requestVars
<1>2. executing = FALSE /\ running = (occupant # None)
  BY <1>1, Tops DEF IInv
<1>3. TypeOK'
  BY <1>1 DEF IInv, TypeOK
<1>4. OneWakeup' /\ NoLostDrain'
  BY <1>1, QueueKept
<1>5. JumpsAreGuarded'
  BY <1>1 DEF JumpsAreGuarded
<1>6. Shape'
  BY <1>1, <1>2 DEF Shape
<1>. QED  BY <1>3, <1>4, <1>5, <1>6 DEF IInv
-----------------------------------------------------------------------------
LEMMA StepInv == IInv /\ [Next]_vars => IInv'
<1> SUFFICES ASSUME IInv, [Next]_vars PROVE IInv'
  OBVIOUS
<1>1. CASE Drain
  BY <1>1, BeginDrainInv, TakeAlgorithmInv, EndDrainInv DEF Drain
<1>2. CASE EndOccupant \/ OccupantSettles
  BY <1>2, OccupantReturnsInv, OccupantWaitsInv, OccupantThrowsInv, OccupantSettlesInv DEF EndOccupant
<1>3. CASE Jump
  BY <1>3, TakeJumperInv, EndJumpInv DEF Jump
<1>4. CASE EndJumper \/ JumperSettles \/ JumperRejects
  BY <1>4, JumperReturnsInv, JumperWaitsInv, JumperThrowsInv, JumperSettlesInv, JumperRejectsInv
     DEF EndJumper
<1>5. ASSUME NEW s \in Steps, AppendSteps(s) PROVE IInv'
  BY <1>5, AppendStepsInv
<1>6. ASSUME NEW w \in SUBSET Navigable, BeginJump(w) \/ ChangeWaiting(w) PROVE IInv'
  BY <1>6, BeginJumpInv, ChangeWaitingInv
<1>7. CASE UNCHANGED vars
  <2>1. /\ algorithmSet' = algorithmSet /\ drainScheduled' = drainScheduled
        /\ callbacks' = callbacks /\ refused' = refused /\ running' = running /\ executing' = executing
        /\ occupant' = occupant /\ jumping' = jumping /\ jumper' = jumper
        /\ nestedApply' = nestedApply /\ waitingSet' = waitingSet /\ entries' = entries
    BY <1>7 DEF vars, queueVars, requestVars, jumpVars
  <2>2. TypeOK' /\ JumpsAreGuarded'
    BY <2>1, Zenon DEF IInv, TypeOK, JumpsAreGuarded
  <2>3. OneWakeup' /\ NoLostDrain'
    BY <2>1, QueueKept
  <2>4. Shape'
    BY <2>1, Zenon DEF IInv, Shape
  <2>. QED  BY <2>2, <2>3, <2>4 DEF IInv
<1>. QED  BY <1>1, <1>2, <1>3, <1>4, <1>5, <1>6, <1>7 DEF Next

\* The inductive invariant: which stack of entries goes with which state of the queue.
THEOREM Invariance == Spec => []IInv
BY InitInv, StepInv, PTL DEF Spec

\* The queue has at most one drain pending, and none while an algorithm occupies it,
\* also a suspended one; it has one whenever it needs one, unless the last was refused.
THEOREM WakesWhenNeeded == Spec => []DrainWhenNeeded
<1>1. IInv => DrainWhenNeeded
  BY DEF IInv, DrainWhenNeeded
<1>. QED  BY <1>1, Invariance, PTL

\* The guard against nested applications is set exactly while selected steps run or wait,
\* whichever of them return, wait, throw, are fulfilled or rejected.
THEOREM JumpsGuarded == Spec => []JumpsAreGuarded
<1>1. IInv => JumpsAreGuarded
  BY DEF IInv
<1>. QED  BY <1>1, Invariance, PTL

\* isExecuting tells the queue's own steps from other code of the thread, at every
\* point of every nesting.
THEOREM ExecutingIsExact == Spec => []ExecutingInsideSteps
<1> DEFINE Kinds == {"steps", "jump", "nested"}
<1>1. ASSUME IInv PROVE ExecutingInsideSteps
  <2>0. Shape /\ entries \in Seq(Entry)
    BY <1>1 DEF IInv, TypeOK
  <2>1. ASSUME entries # <<>>
        PROVE  Len(entries) \in DOMAIN entries /\ Last(entries) = entries[Len(entries)]
    <3>1. Len(entries) \in Nat \ {0} /\ DOMAIN entries = 1..Len(entries)
      BY <2>0, <2>1, EmptySeq, LenProperties
    <3>2. Len(entries) \in 1..Len(entries)
      BY <3>1
    <3>. QED  BY <3>1, <3>2 DEF Last
  <2>2. CASE executing = TRUE
    <3>1. entries # <<>> /\ Last(entries).kind \in Kinds
      BY <2>0, <2>2, Stacks DEF Shape, E
    <3>. QED  BY <2>1, <2>2, <3>1 DEF ExecutingInsideSteps
  <2>3. CASE executing = FALSE
    <3>1. entries = <<>> \/ entries = Draining \/ entries = Resumed
      BY <2>0, <2>3 DEF Shape
    <3>2. CASE entries = <<>>
      BY <2>3, <3>2 DEF ExecutingInsideSteps
    <3>3. CASE entries = Draining \/ entries = Resumed
      <4>1. \A e \in Entry : /\ Append(<<>>, e)[1] = e
                             /\ DOMAIN Append(<<>>, e) = {1}
        <5> TAKE e \in Entry
        <5>1. <<>> \in Seq(Entry) /\ Len(<<>>) = 0
          OBVIOUS
        <5>2. /\ Append(<<>>, e) \in Seq(Entry) /\ Len(Append(<<>>, e)) = 1
              /\ Append(<<>>, e)[1] = e
          BY <5>1, AppendProperties
        <5>3. DOMAIN Append(<<>>, e) = 1..1
          BY <5>2, LenProperties
        <5>. QED  BY <5>2, <5>3
      <4>2. E("drain", FALSE) \in Entry /\ E("resume", FALSE) \in Entry
        BY DEF E, Entry
      <4>3. DOMAIN entries = {1} /\ entries[1].kind \in {"drain", "resume"}
        <5>1. entries = Append(<<>>, E("drain", FALSE)) \/ entries = Append(<<>>, E("resume", FALSE))
          BY <3>3 DEF Draining, Resumed
        <5>2. E("drain", FALSE).kind = "drain" /\ E("resume", FALSE).kind = "resume"
          BY DEF E
        <5>. QED  BY <4>1, <4>2, <5>1, <5>2
      <4>. QED  BY <2>3, <4>3 DEF ExecutingInsideSteps
    <3>. QED  BY <3>1, <3>2, <3>3
  <2>4. executing \in BOOLEAN
    BY <1>1 DEF IInv, TypeOK
  <2>. QED  BY <2>2, <2>3, <2>4
<1>. QED  BY <1>1, Invariance, PTL

\* Both flags are exact.
THEOREM FlagsExact == Spec => []FlagsAreExact
BY JumpsGuarded, ExecutingIsExact, PTL DEF FlagsAreExact

-----------------------------------------------------------------------------
(* The refinement *)

LEMMA InitRefines == Init => Executor!Init
BY DEF Init, Executor!Init

LEMMA StepRefines == IInv /\ [Next]_vars => [Executor!Next]_(Executor!vars)
<1> SUFFICES ASSUME IInv, [Next]_vars PROVE Executor!Next \/ UNCHANGED Executor!vars
  OBVIOUS
<1> USE DEF Executor!vars
<1>0. /\ algorithmSet \in Seq(Steps) /\ None \notin Steps
      /\ jumping \in BOOLEAN /\ (jumper # None => jumping) /\ (jumping => occupant # None)
  BY TraversalQueueAssumption DEF IInv, TypeOK, JumpsAreGuarded
<1>1. ASSUME NEW s \in Steps, AppendSteps(s) PROVE Executor!Next
  <2>1. Executor!Submit(s)
    BY <1>1 DEF AppendSteps, jumpVars, Executor!Submit
  <2>. QED  BY <2>1 DEF Executor!Next
<1>2. CASE BeginDrain
  BY <1>2 DEF BeginDrain, jumpVars
<1>3. CASE TakeAlgorithm
  <2>1. occupant = None
    BY <1>3, Tops DEF IInv, TakeAlgorithm, TopIs, AtRest
  <2>2. Executor!Start
    BY <1>0, <1>3, <2>1 DEF TakeAlgorithm, jumpVars, Executor!Start
  <2>. QED  BY <2>2 DEF Executor!Next
<1>4. CASE EndDrain \/ OccupantWaits
  BY <1>4 DEF EndDrain, OccupantWaits, jumpVars, queueVars, requestVars
<1>5. CASE OccupantReturns \/ OccupantThrows \/ OccupantSettles
  <2>1. occupant # None
    BY <1>5, Tops DEF IInv, OccupantReturns, OccupantThrows, OccupantSettles, TopIs, AtRest
  <2>2. Executor!Finish
    BY <1>0, <1>5, <2>1
       DEF OccupantReturns, OccupantThrows, OccupantSettles, jumpVars, queueVars, requestVars, Executor!Finish
  <2>. QED  BY <2>2 DEF Executor!Next
<1>6. CASE TakeJumper
  <2>1. occupant # None /\ jumper = None
    BY <1>6, Tops DEF IInv, TakeJumper, TopIs, AtRest
  <2>2. PICK i \in DOMAIN algorithmSet :
          /\ FirstEligible(i)
          /\ jumper' = algorithmSet[i]
          /\ algorithmSet' = RemoveAt(algorithmSet, i)
    BY <1>6 DEF TakeJumper
  <2>3. /\ TargetOf[algorithmSet[i]] # None
        /\ \A k \in 1..(i - 1) : TargetOf[algorithmSet[k]] # TargetOf[algorithmSet[i]]
    BY <2>2 DEF FirstEligible, Eligible
  <2>4. occupant' = occupant
    BY <1>6 DEF TakeJumper
  <2>5. Executor!Jump(i)
    BY <2>1, <2>2, <2>3, <2>4 DEF Executor!Jump, RemoveAt, Executor!RemoveAt
  <2>. QED  BY <2>2, <2>5 DEF Executor!Next
<1>7. CASE JumperReturns \/ JumperThrows \/ JumperSettles \/ JumperRejects
  <2>1. jumper # None
    BY <1>7, Tops
       DEF IInv, JumperReturns, JumperThrows, JumperSettles, JumperRejects, TopIs, AtRest
  <2>2. Executor!EndJump
    BY <1>7, <2>1
       DEF JumperReturns, JumperThrows, JumperSettles, JumperRejects, queueVars, requestVars, Executor!EndJump
  <2>. QED  BY <2>2 DEF Executor!Next
<1>8. CASE EndJump \/ JumperWaits
  BY <1>8 DEF EndJump, JumperWaits, queueVars, requestVars, jumpVars
<1>9. ASSUME NEW w \in SUBSET Navigable, BeginJump(w) \/ ChangeWaiting(w)
      PROVE  UNCHANGED Executor!vars
  BY <1>9 DEF BeginJump, ChangeWaiting, queueVars, requestVars, jumpVars
<1>10. CASE UNCHANGED vars
  BY <1>10 DEF vars, queueVars, requestVars, jumpVars
<1>. QED  BY <1>1, <1>2, <1>3, <1>4, <1>5, <1>6, <1>7, <1>8, <1>9, <1>10
             DEF Next, Drain, EndOccupant, Jump, EndJumper

\* Every behaviour of the queue is one of a serial executor with early runs: no algorithm
\* is lost, repeated or overlapped, and those of one navigable keep their order.
THEOREM Refines == Spec => SerialWithJumps
BY InitRefines, StepRefines, Invariance, PTL DEF Spec, SerialWithJumps, Executor!SafeSpec
=============================================================================
